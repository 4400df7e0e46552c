# A TLA+ model of the DCC-EX driver

The program in `src/` is a throttle for model railways: it opens a connection to a
DCC-EX command station (TCP or serial), shows one tab per locomotive, and sends the
station speeds, directions, functions, track power and programming commands. Other
operators drive the same layout, and the program does not own it.

These modules model the part that decides what is sent and what is shown. Each
definition is a translation of the code; the comments name the lines where they matter.

## 1. The system and its parts

| Part | State it keeps | Operations | Interacts with |
|---|---|---|---|
| Controller (`throttle/controller.go`, `cabs.go`) | connection, selected tab kept twice (live fields and a map entry), pending speed, last exchanged speed, held functions, tab order | MoveSpeed, SetDirection, Stop, Emergency, Function, SetToggle, AllFunctionsOff, AddCab, FocusCab, SelectCab, RemoveCab, ReplaceCab, Tick, Receive, Attach, Detach | called by the session only; sends through the client |
| Preferences (`throttle/preferences.go`) | names, labels, modes, hidden functions per tab | restoreTabs, tabSettings, Rename..., SetFunction... | restored at start, saved by the session |
| Session (`throttle/session.go`) | queue of 128 actions, current client, newest published state | Post, Connect, Close, run, applyAction, flushPreferences, publish | owns the controller; interface and client goroutines post to it |
| Track power (`throttle/power.go`) | role and power of eight outputs, aggregates | TogglePower, receivePower, updateTrackPower | reports through Receive |
| Programming track (`controller.go`, `cv.go`) | last result, CV 29 | ReadCV, WriteCV, ReadAddress, WriteAddress, POM | reports through Receive |
| Discovery (`dccex/capabilities`) | status, attempt, deadline | Begin, Accept, Reject, Expire, Reset | reset by Detach |
| Client (`dccex/client`) | done, 64 events, once, read cause | Send, read, Close, emit | two goroutines and the session |
| Protocol (`dccex/protocol`) | the framer's partial frame | Feed, End, Parse, Encode... | client and controller |
| Transport | none | Open | operating system |
| Stations, config | files | Load, Save, Delete, Validate | interface and session |
| Telemetry | settings, pipeline, current gauge | Configure, Start, Event, Active, Current | everything |
| Interface (`ui/fyne`) | widgets, panels, presses, timers | render, press, select, close | posts actions, renders published states |
| Command, startup, release tools | none | wiring | all |

What is hard in it:

* the selected locomotive lives in two places, and every operation on another tab swaps
  the live fields out and in again (`WithCab`);
* any send can fail in the middle of such an operation and runs `Detach` inside it;
* the slider is rate limited, so an intent waits while tabs change, reports arrive, an
  emergency stop is pressed elsewhere, or the connection goes;
* reports and commands cross on the wire, and others drive the same locomotives;
* a function pressed must be released, though modes, tabs and connections change meanwhile;
* the session's queue is bounded and its closing has an order; the client ends once, for
  one of four reasons that race;
* records are saved after what they record is in force (tabs) or before (telemetry), and
  the program may be killed in between;
* the interface acts on states that are behind, and old states undo what was just done.

What makes each part correct:

* controller: no step drives, changes or closes another locomotive than the one
  addressed; nothing outlives a connection; what waits is what is shown; what is taken as
  already sent was; an intent gets out; a quiet layout is shown as it is;
* session: an accepted preference is saved, an operating command is never replayed after
  closing, the newest state reaches the interface;
* client: one shutdown, first cause wins, no goroutine waits for ever;
* power: an overload is never hidden, a toggle never energises a faulted track;
* discovery: an answer completes only the attempt it belongs to, before its deadline;
* framer: every complete frame within the limit comes out, after any garbage;
* interface: a hidden or closed tab holds no button, an edit ends once, and a view that
  has caught up shows what the controller has;
* telemetry: what is stored is what exports, nothing is exported that was not stored
  first, nothing exports after the exit.

## 2. The modules

```
Tabs  <--- implemented by ---  Controller  <--- Provenance   (history variable)
                                 ^    ^------- Layout        (station and wire)
                                 |               ^   ^
             MCController, ControllerProofs      |  MCLayout
                             ^        ^          |
            ControllerRefinement     LayoutProofs

Session  <--- SessionProofs      the goroutine that owns the controller, and the saved tabs
Client   <--- ClientProofs       one connection's goroutines
Discovery <--- Tracks            the station's features; track power, against a station
                 ^--- MCTracks, TracksProofs
View     <--- MCView, ViewProofs the throttle tabs of the interface, against the session
Telemetry <--- TelemetryProofs   settings page, manager, record and exit
Gauge                            client, session and the two gauges they keep
```

The parts meet at narrow points, and each module has the other side of them as its
environment: `Session` knows of the controller that it is attached, detaches when a send
fails, and has a layout; `View` knows of session and controller what a posted intent does
to the tabs and that states come back late; `Tracks` and `Layout` have the
station. What one assumes another checks: that a send that fails detaches
(`Controller`), that a state that is published reaches a view that takes it (`Session`),
that a channel ends with the failure that closed it (`Client`).

**Tabs.tla** is what the controller promises: one record per tab (speed, direction,
functions, intent). A step operates one tab, flushes intents, stops all, loses or makes
the connection, or rearranges tabs without touching what they show.

**Controller.tla** is the code. Correspondence of the state:

| TLA+ | Go |
|---|---|
| `connected` | `c.sender != nil`, which `c.state.Connected` follows |
| `sel` | `c.state.Cab` |
| `live` | `c.state.Speed, Direction, Functions, Toggle`, `c.pending, lastSpeed, lastDirection, lastKnown, lastSent` |
| `cabs` | `c.cabs` without `held`; the entry at `sel` is stale, as in the code |
| `held` | `c.cabs[k].held`, which is never copied to live fields |
| `order` | `c.order` |
| `sent` | what the step gave to `Sender.Send` |
| `age` in a record | time since `lastSent`, in steps of `Elapse`, up to the 80 ms |

`Stored` is the map after `storeCab`, and so also what `cabStates` shows. `Leaves` is a
`WithCab` whose operation succeeded and `Fails` one whose send failed: `Detach` has run
inside, on the tabs as the operation had left them, and `WithCab` has stored and loaded
afterwards. `Loads` is the end of `selectCab` with its query, and its failure. An action
is a whole call of the session's loop. Where a call sends several commands they concern
different locomotives or functions, so `sent` is a set. A `Tick` visits the tabs in
order and may fail at any of them; `AllFunctionsOff` may fail at any function.

Left out: names, labels, hidden functions, logs, telemetry contexts, the validation of
addresses (they are members of `Cab`), and out-of-range arguments, which change nothing.

`Embedder` says whether `SelectCab` is called. It is an exported method that the program
itself never calls. It drops the waiting speed of the tab it leaves but leaves it shown,
so that tab shows a speed its locomotive was never told; if what it shows is zero it may
then be closed, although the locomotive runs.

**Layout.tla** joins the controller to a station by two ordered channels. The station is
external: it obeys in order and reports the locomotives concerned, as the emulator
under `src/integration` and the receiving code have it. Other operators change
locomotives at any time. When the connection ends, reports in flight are lost and so is
any tail of the commands. `FnSet`s of one step are put on the wire in any order, which
is more than the code does.

**Provenance.tla** adds one history variable: which tabs' speeds stem from this connection.

**Client.tla** is one connection (`dccex/client/client.go`). Unlike the controller, which
one goroutine owns, it is concurrent, and a step is what happens between two operations
on shared state:

| TLA+ | Go |
|---|---|
| `done`, `once`, `cause`, `life` | `c.done`, progress of `c.once`, the joined causes, the error given to `finishConnection` |
| `events`, `ended` | the channel `c.events` and its closing |
| `reader`, `todo`, `failing`, `partial`, `readCause` | where `read` is, frames of the last `Read`, its error, the framer's unfinished frame, `c.readCause` |
| `pc`, `cmd`, `lock`, `result` | callers of `SendContext` and `Close`, `c.writeMu`, what they returned |
| `writers`, `wire` | the goroutine of each command and what it has handed to the transport |
| `told` | whether a caller has received the terminal error |

A command is handed over in `Chunks` pieces, since `Write` may take part of it. The
timer may fire whenever a caller waits. Telemetry, contexts, the error of `conn.Close`
and the bytes of a frame are left out.

**Session.tla** is `session.go` from launch to close, and the next launch:

| TLA+ | Go |
|---|---|
| `pc`, `doing`, `draining` | where `run` is, the action in `applyAction`, whether `flushPreferences` has begun |
| `closing`, `posting` | `s.ctx` cancelled; an `enqueue` between its check and its send, so `queueMu` held |
| `mailbox` | `s.actions` |
| `accepted`, `promised`, `kept` | history: what `Post` and `postPreference` answered nil to, and what was applied |
| `layout`, `saving`, `missed`, `stored` | the controller's tabs, `s.saveTabs # nil`, whether the last save failed, the record |
| `conns`, `inbox`, `linked`, `current` | transports, what their clients would deliver next, `c.sender`, `s.current` |
| `previous`, `updates`, `shown` | the `previous` of `run`, `s.updates`, what the view rendered last |

An intent is a preference, an operation on the tabs, or the Connect button. Applying it is
one step except for Connect, which waits for the opener in between: `Close` and `Post`
happen meanwhile, and the opener may return after `Close`. `Settles` is the end of an
iteration: `s.current` is forgotten and the state published. `Relaunch` may come at any
point, so also as a crash between any two steps.

**Telemetry.tla**: `worker` is where `Configure` is, under `m.mu` from `Save` to `Retire`;
`page`, `exit` are `ui/fyne/telemetry.go` and the exit of `main.go`; `live` are the
exporters not shut down. Invalid settings never leave the page and are left out. `spoiled`
marks a launch whose own configuration failed, or whose writing back failed: then stored
and active settings differ by the code's design. One consequence is worth knowing: after a
launch that could not build the stored settings, `m.settings` is Off, so a later save that
fails too writes Off over the stored record.

**Gauge.tla** has of client and session only what the two gauges depend on: who changes the
count, and who takes a report out of the channel.

**Discovery.tla, Tracks.tla**: `modes`, `powers`, `display` are `c.trackModes`,
`c.trackPowers` and `MainPower`, `ProgPower`. A station is *managed* (it names its outputs,
and roles change) or reports by role only. Its reports are true when they are sent and
arrive in order, save that a summary of a managed station may call a role off one of whose
outputs tripped, which is the case `power.go:46` is written for. Of `Discovery` the program
itself calls only `Reset` and `Snapshot`; `Attempt` is the caller the package is
written for, which keeps its query apart from other requests (`discovery.go:28`).

**View.tla**: `ui` is the widgets (`items`, `selected`, `held` buttons, `dir` and `thumb` of
the direction switches, `dragging`, `editing`, `focus`) with the mailbox they post to;
`pending` are the states published and not rendered. Fyne runs callbacks on one goroutine,
so a gesture with all callbacks it nests is one step, written as functions on the record.
When the panels that go release several buttons at once, they do so in any order.
`refused` notes that a full mailbox has refused an intent, which a dialog tells the
operator; from then on view and controller may rightly differ.

A right click (`Flip`) changes the mode of the function, whether its button is held or not;
`Pressed` and `Released` are `Controller.Function` in either mode. `on` and `loose` are
history: the functions this program's commands left on at the station, and those of them
that no release is going to turn off, because a press latched them in toggle mode or because
`ReplaceCab`, `Attach` or `Detach` dropped the record of what was held.
The draft of an edit is valid or not (`Typed`) each time it is saved. `Finish` leaves the
editor open when it is not, and when the mailbox refuses the rename; otherwise `Closes` shuts
the editor before it gives the focus away, so that `FocusLost`, which comes back and saves,
finds nothing to save. `endings` counts the renames accepted, and the drafts dropped, since
the edit began.

**MCController.tla, MCLayout.tla, MCTracks.tla, MCView.tla** declare symmetry, the first
two also views without `sent`.

Definitions commented `Variant` are mutations of the definition that follows: plausible
slips at the same lines. Every property of a
passing run is violated under one of them.

## 3. What the runs check

| Run | Instance | Question |
|---|---|---|
| `controller_motion` | 2 locomotives, speeds 0..1, no function, fairness | type, order, nothing survives a disconnect, intent = shown, discarded = exchanged, sent = shown, `Isolation`: Controller implements Tabs, and `IntentReachesStation` |
| `controller_functions` | 2 locomotives, 1 function, speed 0, `SelectCab` allowed | `Isolation` with functions |
| `controller_held` | 2 locomotives, 1 function | counterexample: a tab goes away with a function held |
| `offline_speed` | 1 locomotive, speeds 0..1 | counterexample: a speed given offline is sent |
| `layout_drive` | 1 locomotive, speeds 0..1, 1 function, 2 commands and 1 report in flight | `QuietTabsTellTheTruth` for speed, direction and function |
| `layout_tabs` | 2 locomotives, directions only, 2 commands and 2 reports in flight | the same while tabs come and go |
| `client` | 2 callers, 2 commands of 2 pieces, a channel of 1, 1 frame for each read | commands reach the station whole, a failure that was told is the one reported, `Send` returns, the reader ends |
| `session` | 2 locomotives, a mailbox of 2, 3 intents and 2 connections a launch, 2 launches | stored = running, an unreadable record stays, accepted preferences are kept, nothing is replayed or leaked while closing, events are of this connection, a view that caught up is current, `Close` ends |
| `telemetry` | 2 collectors, 3 pipelines a launch, 2 launches | stored = active, only stored settings export, no exporter is left behind, none after the exit, the page comes back |
| `telemetry_gauge` | 2 connections, channels of 2 | counterexample: a current is shown that this connection never reported |
| `tracks` | 2 outputs, main (inverted) and programming, both kinds of station, 3 connections, 2 changes, 3 on the wire | a quiet layout's power is shown as it is, a told fault is shown, a toggle never energises what is on or tripped, features are this station's |
| `view` | 2 locomotives, a mailbox of 2, 5 gestures, 2 link changes, 2 states pending | a hidden tab holds nothing, a quiet view is true, no function is on with its button up but those `loose` names, an edit ends once or stays open |

The bounds. Two locomotives are the selected one and another; a third adds nothing that
a step can tell apart, since a step addresses one tab or all. Two speeds are stopped and
moving. `SendGap = 1` makes a tab either too early or due. `MaxDown = 2` lets a command
follow another before the first is obeyed, and one report in flight is the least to be
older than a command sent after it; `layout_tabs` has two, so that a report for a tab that
went away is followed by one for its successor.
Some runs use a view, `Future`, of everything but `sent`: no step reads `sent`, and no
property of those runs mentions it. The symmetry of locomotives is sound
because nothing compares addresses; it is not used with liveness. For the client two
callers suffice for one to time out and the other to be next at the mutex; a channel of
one is full as soon as an event is not received, as the code's is at 64.

For the session a mailbox of two is full with an intent behind another, three intents are
two in it and one being applied, two connections are one lost and its successor, and two
launches one that crashes or closes and one that finds what it left. For telemetry three
builds are one in force, one that fails and one that replaces. Two outputs can agree,
differ, or be one of each role; two changes are one on its way when the other happens, and
three on the wire two reports and the command they cross. In the view five gestures are
the shortest that press, leave a tab, come back and act again while a state is behind; they
also press, change the mode, let go and close. New tabs get the momentary mode there; the
other (`Latching`) is the proofs' to cover. The run has 4.4 million states.
`Symmetry` of the outputs is sound because nothing compares their names.

The fairness. `FairSpec` asks that `Tick` is taken again and again and that time passes.
The session's loop takes a case of its `select` for ever, with a 30 ms ticker among them
and Go choosing at random among those that are ready (`session.go:179-226`). Only the
connection may go: `Tick`'s fairness is met by a tick that fails, which the property
counts as its end. `IntentReachesStation` leaves out speed 0, since an emergency stop
settles it without a throttle command, and ends when the tab shows another speed: a
later slider move, a stop or a station report has replaced the intent.

`Client!FairSpec` asks only that goroutines run on, the mutex is granted and the 3 seconds
pass. Nobody need receive, and a `Read` or `Write` on an open transport may take for ever;
`Read` returns once the transport is closed, as Go's connections do, and `conn.Close` returns.

`Session!FairSpec` asks that its goroutine runs on, so that an opener returns (its context
is cancelled by `Close`, `session.go:134`), and a caller inside `enqueue` too. The view
need never take a state, and nobody need post, answer or close. `Telemetry!FairSpec` asks
only that the worker runs on: a save ends, and exporters shut down within 3 seconds.

## 4. What is proved

Eight modules hold proofs. Each theorem is about the specification the runs check and
assumes only the named `ASSUME` of its module, so it holds for every value of the
constants those allow: any locomotives, capacity, number of launches, builds or outputs.
The `ASSUME`s say no more than the code does: locomotives, functions and outputs are
finitely many (addresses, F0 to F28, the letters of `<= A MAIN>`), an output is not called
like a track or a summary, bounds and capacities are natural numbers. Each theorem has the
same shape: an inductive invariant (`IInv`; `Safe` for the controller, `LInv` with the
station, `Told` for the power), one lemma for each action that it is kept, and the theorem
drawn from it. Every invariant a passing run checks is proved, the refinement, and every
action property.

| Module | Theorem | Statement |
|---|---|---|
| `ControllerProofs` | `TypeCorrect` | `Spec => []TypeOK` |
| | `OrderCorrect` | `Spec => []OrderIsOpenTabs` |
| | `DisconnectClears` | `Spec => []NothingSurvivesDisconnect` |
| | `IntentShown` | `Spec => []IntentIsDisplayed` |
| | `SettledExchanged` | `Spec => []SettledIsExchanged` |
| | `CommandsShown` | `Spec => []SentIsDisplayed` |
| `ControllerRefinement` | `EachTabIsItsOwn` | `Spec => Isolation` |
| `LayoutProofs` | `QuietTabsAreTrue` | `~Embedder` implies `LayoutSpec => []QuietTabsTellTheTruth` |
| `SessionProofs` | `TypeCorrect` | `Spec => []TypeOK` |
| | `StoredIsWhatRuns` | `Spec => []StoredIsRunning` |
| | `DrainingIsDetached` | `Spec => []DrainsDetached` |
| | `NothingLeaks` | `Spec => []NoConnectionLeaks` |
| | `EventsAreCurrent` | `Spec => []EventsAreOfThisConnection` |
| | `UnreadableStays` | `Spec => UnreadableIsUntouched` |
| | `AcceptedIsKept` | `Spec => []AcceptedPreferencesKept` |
| | `CaughtUpIsCurrent` | `Spec => []CaughtUpViewIsCurrent` |
| `ClientProofs` | `TypeCorrect` | `Spec => []TypeOK` |
| | `Whole` | `Spec => []CommandsStayWhole` |
| | `FailureIsNotLost` | `Spec => [](once = "unused" /\ told => [](once = "over" => "read" \in life))` |
| `TracksProofs` | `DiscoveryIsSound` | `DiscoverySpec => []FeaturesAreOfThisStation` |
| | `FeaturesAreCurrent` | `Spec => []FeaturesAreOfThisStation` |
| | `FaultsAreShown` | `Spec => []FaultIsShown` |
| | `NothingIsLeft` | `Spec => []NothingOfTheStationIsLeft` |
| | `PowerIsTrue` | `Spec => []QuietPowerIsTrue` |
| | `TogglesOnlyWhatIsOff` | `Spec => NeverReenergizes` |
| `TelemetryProofs` | `StoredIsInForce` | `Spec => []StoredIsActive` |
| | `ExportsWereApproved` | `Spec => []ExportsAreApproved` |
| | `NoExporterIsLeft` | `Spec => []ExportersAreCurrent` |
| | `NothingExportsInTheEnd` | `Spec => []ClosedExportsNothing` |
| | `UnreadableStays` | `Spec => UnreadableIsUntouched` |
| `ViewProofs` | `HiddenReleases` | `Spec => []HiddenHoldsNothing` |
| | `QuietShowsTheSession` | `Spec => []QuietViewIsTrue` |
| | `NothingSticks` | `Spec => []NoStuckFunction` |
| | `EditsEnd` | `Spec => []EditsEndOnce` |

**Controller.** `Shape`, which is `TypeOK` with `OrderIsOpenTabs`, is inductive: neither
is without the other, because closing the selected tab loads `order[1]`, which is an
open tab only if the order lists the open tabs, and closing removes one place from the
order, which removes the tab only if it is listed once. `Safe` adds three parts.
`Consistent` of what every tab shows relates the waiting speed, the shown speed and the
last exchange; it speaks of `Stored`, since the stale entry of the selected tab satisfies
nothing of the kind. `IdleOffline` speaks of the live record and of every entry of the
map, the stale one included: a stale entry with a waiting speed would be harmless until
the next `loadCab`, and the invariant shows that it does not exist offline. `Matches` says
that the commands of the step agree with the tabs after it; a tick sends the *waiting*
speed, and it is `Consistent` that makes it the shown one. The lemmas go over four
families of steps (`Leaves`, `Fails`, `Loads`, and steps that rewrite every tab).

**The refinement.** Each step of the code is a step of `Tabs` or leaves what is seen
alone; an operation addresses one tab and leaves the others as they were, in `Stored`,
though it moves both copies of the selected one. `Safe` carries the rest: an intent is what
its tab shows and none is left offline, so an operation offline gathers none and `Attach`,
which clears both copies, drops none.

**The controller against a station.** Of each open tab the invariant `LInv` says that a
command on the wire concerns it, so that the station will report it; or that the last
report of it in flight is of what the locomotive does; or that none is in flight and the
tab `Agrees` with the locomotive, also in the last speed it compares a waiting one with.
The controller's steps are accounted for one by one (`Accounted`): each leaves a tab with a
command on the wire, or lets it follow from what it was (`Follows`). A tick may discard a
waiting speed without a command, and it is `Consistent` of `Safe` that makes that one the
speed last exchanged. An emergency stop changes every tab and concerns every locomotive; a
lost connection empties the claim, and `Attach` asks for every tab since the order
lists every one. `SelectCab` does neither: it forgets a waiting speed that its tab goes on
showing, so the theorem is about a program that leaves it alone, as this one does, and so
are the runs.

**Session.** `QueueOK` types the mailbox and bounds it. `LayoutOK` is `StoredIsRunning`
with what makes it inductive: while tabs may be saved at all, the record is a readable
one. `LinkOK` relates the controller's sender, the session's client and the
transports to `pc`: none while one is being opened or drained, and one that no controller
has yet only while it is being attached; so nothing leaks, whenever `Close` comes.
`Promises` counts: the preferences accepted are those applied, those waiting in the mailbox
and the one being applied, and none is lost when the rest of the mailbox is dropped, because
draining applies each preference it finds and ends with an empty mailbox after the last
`enqueue`. `Newest` says that the channel holds nothing but the last state published, and
that an empty channel means that the view has it; `Published`, that wherever the loop may
rest the last state published is the present one.

**Client.** That commands stay whole rests on the mutex and `done` together. `Awaited` is
the heart of it: of every command being written, or broken off, a caller waits that holds
the mutex, *unless* `done` is closed, and then `Enter` starts no other. So when a command
starts, all that is on the wire was written whole (`Begun`, `Ready`), and who writes
continues its own command or follows a whole one (`Continued`). `FailureIsReported` is a
liveness property; its safety is `FailureIsNotLost`: the failure is recorded before it is in
the channel (`Recorded`), and what is recorded when the shutdown joins its causes is one of
them (`Kept`). That the shutdown ends is left to TLC.

**Discovery and track power.** `FoundOK` says that a pending or answered attempt is the
last one begun and was begun in this connection, because `Reset` ends the attempt and
attempts are never numbered again. A late callback carries an older number. `FaultIsShown`
and `NothingOfTheStationIsLeft` are inductive beside it, since every report sets the
outputs and the summaries drawn from them in one step. `Told` is the invariant over the
reports in flight: unless a question is on its way, the last report that changes what is
known of an output says what the output does, or, when there is none, that is known already
(`Ends`). A report may speak for several outputs, so what it changes depends on the mode of
each, and a summary is true of the group only with `Grouped`, which says that a role's
display follows from its outputs. A toggle then sends "on" only if all of the role are off.

**Telemetry.** Which exporters live is a function of where `Configure` is: those of the
pipeline in force, the parts `Made` of the one being built, and while retiring those of the
old one (`LiveOK`). `RecordOK` and `PipesOK` relate settings, record and pipelines at each
of those places. A build that fails half-way, a swap and an exit in the middle are then
steps from one value of the function to another.

**View.** Every callback is shown to keep (`Keeps`) the invariant by itself, so that a
gesture keeps it however its callbacks nest. `Honest` relates the view to the session when
no state is on its way: view and session agree, or the view owes something, namely an
intent in the mailbox that the session will answer with a state. The last state pending is always
the present one (`PendingOK`), so taking it makes the view honest whatever it had shown.
`LetsGo` is about buttons: of each that is up, a release waits in the mailbox behind the last
press, or the function is off and no press waits (`FreedBy`); a full mailbox refuses the
release, which `refused` records. `Accounts` adds what is on at the station: all of it is
held or loose (`Justified`), and an intent that closes a tab comes behind the release of its
button (`Clean`), so that `RemoveCab` drops no record of a held function. That a release is
obeyed whatever the mode has become is what `Released` needs to keep `Justified`.
`NothingSticks` is therefore not a claim that no function is ever left on: reassigning a tab
and a connection that changes make a held function loose, and it then stays on, as section 5
says of `ReplaceCab`. `UiOK` has the hidden buttons: leaving a tab, closing it or
losing its panel lifts what was held there in the same callback. It also has the edits: a
title that is being edited has not ended its edit, every other has once.

Only model-checked: the liveness properties (`IntentReachesStation`, `FailureIsReported`,
`SendReturns`, `ShutdownEndsReader`, `CloseEnds`, `PageComesBack`), which are out of the
prover's reach, as are the fairness and the three counterexamples of section 5.

## 5. What the code does otherwise than its documents say

* **A speed given offline can be sent.** `controller_test.go:49` promises
  `TestOfflineSpeedNeverReplayed`, and the tick indeed never does. `SetDirection`
  (`controller.go:278`) sends the speed shown, whatever its origin: run `offline_speed`.
* **A held function can be orphaned.** "Unchecked functions act only while held"
  (`README.md:171`). Closing and reassigning look only at the speed (`cabs.go:111,142`).
  The interface releases a tab's buttons before it closes the tab
  (`ui/fyne/view.go:271`), not before it reassigns it (`throttle_panel.go:54`); the
  release then finds the tab gone. Run `controller_held`.
* **A refused command does not close the connection.** "Failure closes the connection"
  (`client.go:138`), but a command that is not ASCII is refused and nothing is closed
  (`client.go:158`). `Client` models the refusal. The controller detaches all the same.
* **A gauge can show a current of an earlier connection.** "Last reported current in mA
  while connected and known" (`TELEMETRY.md:56`), and `telemetry/setup_test.go:191` checks
  that a reading does not survive the disconnect. A report left in the channel of a
  client that has shut down is still taken by the session, and marks the gauge known again
  (`telemetry.go:361`) after the shutdown had cleared it. Run `telemetry_gauge`.

## 6. Not modelled, and what is left

Not modelled:

* the framer and the text of frames: they are sequential, a reference definition would be
  the code over again, and the repository fuzzes them;
* the list of saved stations: each operation on it is one database transaction of one
  caller;
* the results shown on the programming page (`ProgramResult`, CV 29) and its boxes;
* what a Connect click means that crosses a lost connection: `Session` toggles as the code
  does, and the click then reconnects, which no document forbids;
* a slider move that a report of an earlier command cancels before it is sent
  (`cabs.go:168`): the tab then shows what the locomotive does, which is checked, but the
  operator's last move is lost, which nothing checks and no document forbids;
* what the display does while it is behind the station: `QuietPowerIsTrue`,
  `QuietTabsTellTheTruth` and `NeverReenergizes` speak of what nothing is on its way for;
* in `View`, `AllFunctionsOff`, a hidden function, the station's own reports of functions
  and a send that fails there (`Controller` and `Layout` have them);
* the slider and the timing of gestures (long press, double tap); a drag that outlives its
  panel; that a stale state which flips the selection while a title is being typed ends the
  edit and may save the half of it (`loco_tabs.go:83`);
* addresses, ports, files and sockets beyond success or failure, widget layout and wording,
  spans and counters, release tools.

Left to do, in this order:

1. a proof that the preferences' promise survives the launches: what was accepted and
   saved in one launch is what the next one starts with, which `StoredIsWhatRuns` and
   `AcceptedIsKept` state for one launch each;
2. the safety of the other liveness properties, as `FailureIsNotLost` has it for the client:
   that a waiting speed is given up only for one of the causes `IntentReachesStation` lists;
3. the programming page, whose boxes and reply no property speaks of.
