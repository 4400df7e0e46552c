------------------------------ MODULE Session ------------------------------
(***************************************************************************)
(* The session of src/throttle/session.go between two launches of the      *)
(* program: a goroutine that owns the controller, a bounded mailbox of     *)
(* intents, a connection it opens and loses, a channel of one snapshot to  *)
(* the view, and the saved record of the tab layout.                       *)
(*                                                                         *)
(* A layout is the tabs that are open with one preference of each (a name, *)
(* a label, a function's mode or its visibility); their order and the tab  *)
(* on top are left out.  Three kinds of intent are posted: "flip" is a     *)
(* preference, "arrange" opens or closes a tab, "connect" is the button.   *)
(* Controller.tla models what driving does.                                *)
(***************************************************************************)
EXTENDS Integers, Sequences

CONSTANTS
  Cab,             \* locomotive addresses
  DefaultCab,      \* the one of the default layout (3)
  None,            \* nothing
  Unreadable,      \* a saved record this build cannot read
  Capacity,        \* intents the mailbox holds (128)
  MaxActions,      \* bound: intents accepted in a launch
  MaxConnections,  \* bound: connections opened in a launch
  MaxLaunches      \* bound: launches, after a close or a crash

ASSUME SessionAssumption ==
  /\ DefaultCab \in Cab /\ None \notin Cab
  /\ Capacity \in Nat \ {0}
  /\ {MaxActions, MaxConnections, MaxLaunches} \subseteq Nat
  /\ None \notin 1..MaxConnections

VARIABLES
  pc,        \* where the goroutine is in run
  doing,     \* the intent it applies
  draining,  \* has flushPreferences begun
  closing,   \* has the session's context been cancelled
  posting,   \* an intent past the check of enqueue: queueMu is held
  mailbox,   \* s.actions
  accepted,  \* intents accepted, and
  promised,  \*   preferences among them,
  kept,      \*   and preferences given to the controller
  layout,    \* the controller's tabs
  saving,    \* is s.saveTabs set
  missed,    \* did the last save fail
  stored,    \* the saved record
  launches,
  conns,     \* transports: "unused", "open" or "closed"
  inbox,     \* what the client of each has to deliver: "none", "frame", "failed"
  linked,    \* the controller's sender
  current,   \* s.current
  previous,  \* the snapshot published last
  updates,   \* s.updates
  shown      \* what the view rendered last

loopVars == <<pc, doing, draining>>
queueVars == <<closing, posting, mailbox, accepted, promised>>
layoutVars == <<layout, saving, missed, stored, launches, kept>>
connVars == <<conns, inbox, linked, current>>
viewVars == <<previous, updates, shown>>
vars == <<loopVars, queueVars, layoutVars, connVars, viewVars>>

Connections == 1..MaxConnections
Layouts == UNION {[S -> BOOLEAN] : S \in (SUBSET Cab) \ {{}}}
Default == [k \in {DefaultCab} |-> FALSE]
Preference == [op : {"flip"}, cab : Cab]
Operation == [op : {"arrange"}, cab : Cab] \cup {[op |-> "connect", cab |-> None]}
Intent == Preference \cup Operation

ASSUME MarksAreNoValues == Unreadable \notin Layouts /\ None \notin Intent

Snapshot(l, r) == [online |-> l # None, layout |-> r]

-----------------------------------------------------------------------------
(***************************************************************************)
(* NewObservedSession with the record loadTabPersistence found.  One that  *)
(* cannot be read leaves the default layout, and nothing to save with.     *)
(***************************************************************************)
Restored(record) == IF record = Unreadable THEN Default ELSE record

\* Variant: the fallback can be saved.
SavesAlways(record) == TRUE

SavesTabs(record) == record # Unreadable

Silent == [c \in Connections |-> "none"]
Unopened == [c \in Connections |-> "unused"]

Init ==
  /\ stored \in Layouts \cup {Unreadable}
  /\ layout = Restored(stored) /\ saving = SavesTabs(stored)
  /\ pc = "start" /\ doing = None /\ draining = FALSE
  /\ closing = FALSE /\ posting = None /\ mailbox = <<>>
  /\ accepted = 0 /\ promised = 0 /\ kept = 0 /\ missed = FALSE
  /\ conns = Unopened /\ inbox = Silent /\ linked = None /\ current = None
  /\ previous = Snapshot(None, layout) /\ updates = <<>> /\ shown = None
  /\ launches = 1

\* The program ended, or is killed, and starts again with the record there is.
Relaunch ==
  /\ launches < MaxLaunches
  /\ launches' = launches + 1 /\ stored' = stored
  /\ layout' = Restored(stored) /\ saving' = SavesTabs(stored)
  /\ pc' = "start" /\ doing' = None /\ draining' = FALSE
  /\ closing' = FALSE /\ posting' = None /\ mailbox' = <<>>
  /\ accepted' = 0 /\ promised' = 0 /\ kept' = 0 /\ missed' = FALSE
  /\ conns' = Unopened /\ inbox' = Silent /\ linked' = None /\ current' = None
  /\ previous' = Snapshot(None, layout') /\ updates' = <<>> /\ shown' = None

-----------------------------------------------------------------------------
(***************************************************************************)
(* enqueue and Close, under queueMu.                                       *)
(***************************************************************************)
Post(a) ==
  /\ posting = None /\ ~closing /\ accepted < MaxActions
  /\ posting' = a
  /\ UNCHANGED <<closing, mailbox, accepted, promised,
                 loopVars, layoutVars, connVars, viewVars>>

\* Variant: a full mailbox grows.
AlwaysRoom == TRUE

HasRoom == Len(mailbox) < Capacity

\* A full mailbox refuses the intent, and its caller is told.
Queue ==
  /\ posting # None
  /\ IF HasRoom
       THEN /\ mailbox' = Append(mailbox, posting)
            /\ accepted' = accepted + 1
            /\ promised' = promised + (IF posting \in Preference THEN 1 ELSE 0)
       ELSE UNCHANGED <<mailbox, accepted, promised>>
  /\ posting' = None
  /\ UNCHANGED <<closing, loopVars, layoutVars, connVars, viewVars>>

Close ==
  /\ posting = None /\ ~closing
  /\ closing' = TRUE
  /\ UNCHANGED <<posting, mailbox, accepted, promised,
                 loopVars, layoutVars, connVars, viewVars>>

-----------------------------------------------------------------------------
(***************************************************************************)
(* publish: the channel of one keeps the newest snapshot.  A view that     *)
(* takes the old one meanwhile has taken it before.                        *)
(***************************************************************************)
\* Variant: what the view has not taken yet stays.
PublishUnlessFull(s) == updates' = IF updates = <<>> THEN <<s>> ELSE updates

\* Variant: the view is waited for.
PublishWaiting(s) == updates = <<>> /\ updates' = <<s>>

Publish(s) == updates' = <<s>>

\* stateRenderer, once the interface has started.
Render ==
  /\ updates # <<>>
  /\ shown' = Head(updates) /\ updates' = <<>>
  /\ UNCHANGED <<previous, loopVars, queueVars, layoutVars, connVars>>

(***************************************************************************)
(* The end of an iteration: a connection the controller gave up is         *)
(* forgotten, a changed state is published.                                *)
(***************************************************************************)
\* Variant: a client whose connection failed in a send is kept.
SettlesKeepingClient(c) ==
  /\ current' = c
  /\ previous' = Snapshot(linked', layout')
  /\ IF previous' # previous THEN Publish(previous') ELSE UNCHANGED updates
  /\ pc' = "look" /\ doing' = None
  /\ UNCHANGED <<draining, shown>>

Settles(c) ==
  /\ current' = IF linked' = None THEN None ELSE c
  /\ previous' = Snapshot(linked', layout')
  /\ IF previous' # previous THEN Publish(previous') ELSE UNCHANGED updates
  /\ pc' = "look" /\ doing' = None
  /\ UNCHANGED <<draining, shown>>

\* Detach: the controller closes its client.
Detached == IF linked = None THEN conns ELSE [conns EXCEPT ![linked] = "closed"]

Detach == linked' = None /\ conns' = Detached

Stays == UNCHANGED <<linked, conns>>

-----------------------------------------------------------------------------
(***************************************************************************)
(* run.                                                                    *)
(***************************************************************************)
Start ==
  /\ pc = "start" /\ pc' = "look"
  /\ Publish(previous)
  /\ UNCHANGED <<doing, draining, queueVars, layoutVars, connVars, previous, shown>>

\* The check before select; a session told to close goes on to flushPreferences,
\* which takes the mutex for a moment and detaches.
Look ==
  /\ pc = "look" /\ ~closing
  /\ pc' = "select"
  /\ UNCHANGED <<doing, draining, queueVars, layoutVars, connVars, viewVars>>

Leave ==
  /\ pc \in {"look", "select"} /\ closing /\ posting = None
  /\ pc' = "drain" /\ draining' = TRUE
  /\ Detach
  /\ UNCHANGED <<doing, inbox, current, queueVars, layoutVars, viewVars>>

(***************************************************************************)
(* applyAction up to the intent itself.  After Close an operation is       *)
(* dropped; a preference is applied, the connection given up first.        *)
(***************************************************************************)
Resumes == IF draining THEN pc' = "drain" ELSE pc' = "look"

\* Variant: after Close every intent is dropped.
DropsAll(a) == closing

\* Variant: none is.
DropsNone(a) == FALSE

Drops(a) == closing /\ a \in Operation

Take ==
  /\ pc \in {"select", "drain"} /\ mailbox # <<>>
  /\ mailbox' = Tail(mailbox)
  /\ IF Drops(Head(mailbox))
       THEN Resumes /\ Stays /\ UNCHANGED doing
       ELSE /\ pc' = "acting" /\ doing' = Head(mailbox)
            /\ IF closing THEN Detach ELSE Stays
  /\ UNCHANGED <<draining, closing, posting, accepted, promised, layoutVars,
                 inbox, current, viewVars>>

(***************************************************************************)
(* A changed layout is saved, whatever else failed; a failed save is       *)
(* logged and not tried again before the next change.                      *)
(***************************************************************************)
\* Variant: an intent that failed is not saved.
SavesSuccess(next, failed) ==
  IF saving /\ ~failed /\ next # layout
    THEN \/ stored' = next /\ missed' = FALSE
         \/ missed' = TRUE /\ UNCHANGED stored
    ELSE UNCHANGED <<stored, missed>>

Saves(next, failed) ==
  IF saving /\ next # layout
    THEN \/ stored' = next /\ missed' = FALSE
         \/ missed' = TRUE /\ UNCHANGED stored
    ELSE UNCHANGED <<stored, missed>>

Applied(next, failed) ==
  /\ layout' = next
  /\ Saves(next, failed)
  /\ IF draining
       THEN /\ pc' = "drain" /\ doing' = None
            /\ UNCHANGED <<draining, current, viewVars>>
       ELSE Settles(current)
  /\ UNCHANGED <<saving, launches, inbox, queueVars>>

\* FlipFunctionToggle and its like: refused when the tab is closed.
Flip ==
  /\ pc = "acting" /\ doing \in Preference
  /\ kept' = kept + 1
  /\ Stays
  /\ IF doing.cab \in DOMAIN layout
       THEN Applied([layout EXCEPT ![doing.cab] = ~@], FALSE)
       ELSE Applied(layout, TRUE)

(***************************************************************************)
(* A tab is opened, and its locomotive asked for: a query that cannot be   *)
(* sent costs the connection, not the tab.  A tab is closed unless it is   *)
(* the last or moves.                                                      *)
(***************************************************************************)
Arrange ==
  /\ pc = "acting" /\ doing.op = "arrange"
  /\ LET k == doing.cab
         opened == [j \in DOMAIN layout \cup {k} |->
                      IF j = k THEN FALSE ELSE layout[j]]
         closed == [j \in DOMAIN layout \ {k} |-> layout[j]]
     IN \/ k \notin DOMAIN layout /\ Stays /\ Applied(opened, FALSE)
        \/ /\ k \notin DOMAIN layout /\ linked # None
           /\ Detach /\ Applied(opened, TRUE)
        \/ /\ k \in DOMAIN layout /\ DOMAIN layout # {k}
           /\ Stays /\ Applied(closed, FALSE)
        \/ k \in DOMAIN layout /\ Stays /\ Applied(layout, TRUE)
  /\ UNCHANGED kept

-----------------------------------------------------------------------------
(***************************************************************************)
(* Connect is a toggle that looks at the connection when it runs.  The     *)
(* goroutine waits for the opener; what it returns after Close is closed.  *)
(***************************************************************************)
Toggle ==
  /\ pc = "acting" /\ doing.op = "connect"
  /\ UNCHANGED <<queueVars, layoutVars>>
  /\ IF linked # None
       THEN Detach /\ Settles(None) /\ UNCHANGED inbox
       ELSE /\ pc' = "opening"
            /\ UNCHANGED <<doing, draining, connVars, viewVars>>

Unused == {c \in Connections : conns[c] = "unused"}

OpenFails ==
  /\ pc = "opening"
  /\ UNCHANGED <<inbox, queueVars, layoutVars>>
  /\ Stays /\ Settles(current)

\* Variant: a transport opened too late is left alone.
TooLateLeft(c) == conns' = [conns EXCEPT ![c] = "open"]

TooLate(c) == conns' = [conns EXCEPT ![c] = "closed"]

Opens(c) ==
  /\ pc = "opening" /\ c \in Unused
  /\ UNCHANGED <<inbox, queueVars, layoutVars>>
  /\ IF closing
       THEN TooLate(c) /\ UNCHANGED linked /\ Settles(current)
       ELSE /\ conns' = [conns EXCEPT ![c] = "open"]
            /\ pc' = "attaching" /\ current' = c
            /\ UNCHANGED <<linked, doing, draining, viewVars>>

\* Attach, which may lose the connection at any of the queries it sends.
Attach ==
  /\ pc = "attaching"
  /\ UNCHANGED <<inbox, queueVars, layoutVars>>
  /\ \/ linked' = current /\ UNCHANGED conns
     \/ linked' = None /\ conns' = [conns EXCEPT ![current] = "closed"]
  /\ Settles(current)

(***************************************************************************)
(* A tick or a poll: after Close they do nothing.                          *)
(***************************************************************************)
Beat ==
  /\ pc = "select"
  /\ UNCHANGED <<inbox, queueVars, layoutVars>>
  /\ \/ Stays
     \/ ~closing /\ linked # None /\ Detach
  /\ Settles(current)

\* An event of s.current: a frame, whether or not it parses, or the end.
Hear ==
  /\ pc = "select" /\ current # None /\ inbox[current] # "none"
  /\ UNCHANGED <<queueVars, layoutVars>>
  /\ inbox' = [inbox EXCEPT ![current] = "none"]
  /\ IF inbox[current] = "failed"
       THEN Detach /\ Settles(None)
       ELSE Stays /\ Settles(current)

\* The client's reader has something to deliver, which a close does not take back.
Arrives(c) ==
  /\ conns[c] = "open" /\ inbox[c] = "none"
  /\ inbox' = [inbox EXCEPT ![c] = "frame"] \/ inbox' = [inbox EXCEPT ![c] = "failed"]
  /\ UNCHANGED <<conns, linked, current, loopVars, queueVars, layoutVars, viewVars>>

\* The mailbox is empty: the last state is published and the goroutine ends.
Finish ==
  /\ pc = "drain" /\ mailbox = <<>>
  /\ pc' = "stopped"
  /\ previous' = Snapshot(linked, layout) /\ Publish(previous')
  /\ UNCHANGED <<doing, draining, shown, queueVars, layoutVars, connVars>>

Run ==
  \/ Start \/ Look \/ Leave \/ Take \/ Flip \/ Arrange \/ Toggle
  \/ OpenFails \/ Attach \/ Beat \/ Hear \/ Finish
  \/ \E c \in Connections : Opens(c)

Next ==
  \/ Run \/ Queue \/ Close \/ Render \/ Relaunch
  \/ \E a \in Intent : Post(a)
  \/ \E c \in Connections : Arrives(c)

Spec == Init /\ [][Next]_vars

(***************************************************************************)
(* The goroutine and a caller inside enqueue are scheduled, and an opener  *)
(* returns: its context is cancelled by Close.  Nothing makes the view     *)
(* render, nor anybody post, close or answer.                              *)
(***************************************************************************)
FairSpec == Spec /\ WF_vars(Run) /\ WF_vars(Queue)

-----------------------------------------------------------------------------
TypeOK ==
  /\ pc \in {"start", "look", "select", "acting", "opening", "attaching", "drain", "stopped"}
  /\ doing \in Intent \cup {None} /\ posting \in Intent \cup {None}
  /\ {draining, closing, saving, missed} \subseteq BOOLEAN
  /\ mailbox \in Seq(Intent) /\ Len(mailbox) <= Capacity
  /\ {accepted, promised, kept, launches} \subseteq Nat
  /\ layout \in Layouts /\ stored \in Layouts \cup {Unreadable}
  /\ conns \in [Connections -> {"unused", "open", "closed"}]
  /\ inbox \in [Connections -> {"none", "frame", "failed"}]
  /\ {linked, current} \subseteq Connections \cup {None}
  /\ Len(updates) <= 1

(***************************************************************************)
(* What runs is what is stored, if the record can be written at all and    *)
(* the last write did not fail: also when the intent that changed the tabs *)
(* failed, when it was applied while the session closed, and when the      *)
(* program is killed and comes back ("A failed station query after a valid *)
(* layout change must not prevent persistence", session.go:262).           *)
(***************************************************************************)
StoredIsRunning == saving /\ ~missed => stored = layout

(***************************************************************************)
(* A record that could not be read is never overwritten, whatever the      *)
(* operator does with the default tabs ("that record is left untouched for *)
(* the session", README.md:158), and in every launch that finds it again.  *)
(***************************************************************************)
UnreadableIsUntouched == [][stored = Unreadable => stored' = Unreadable]_vars

(***************************************************************************)
(* A preference that was accepted has been given to the controller by the  *)
(* time the session is done, whatever Close raced with ("Done closes after *)
(* accepted local preferences are saved", session.go:81).                  *)
(***************************************************************************)
AcceptedPreferencesKept == pc = "stopped" => kept = promised

(***************************************************************************)
(* Operations that were waiting when the session closed are not carried    *)
(* out: draining the mailbox neither opens a connection nor finds one      *)
(* ("queued operating commands are never replayed", session.go:82).        *)
(***************************************************************************)
DrainsDetached == draining => linked = None /\ pc \notin {"opening", "attaching"}

(***************************************************************************)
(* Every transport that was opened is the controller's, or being attached, *)
(* or closed: toggles, failed sends, openers that return after Close.      *)
(***************************************************************************)
NoConnectionLeaks ==
  \A c \in Connections :
    conns[c] = "open" => c = linked \/ (pc = "attaching" /\ c = current)

(***************************************************************************)
(* Events are taken only from the client the controller sends with: what a *)
(* lost connection still had to deliver is never received under the next.  *)
(***************************************************************************)
EventsAreOfThisConnection == pc \in {"look", "select"} => current = linked

(***************************************************************************)
(* A view that has caught up shows what runs, however many states it was   *)
(* too slow for, and so after the last one.                                *)
(***************************************************************************)
CaughtUpViewIsCurrent ==
  pc \in {"look", "select", "stopped"} /\ updates = <<>> =>
    shown = Snapshot(linked, layout)

(***************************************************************************)
(* A session told to close ends, though the view may never take another    *)
(* state, the station may be silent and the mailbox is full.               *)
(***************************************************************************)
CloseEnds == closing ~> (pc = "stopped" \/ ~closing)
=============================================================================
