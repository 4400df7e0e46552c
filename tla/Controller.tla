----------------------------- MODULE Controller -----------------------------
(***************************************************************************)
(* The throttle controller (src/throttle/controller.go, cabs.go): one tab  *)
(* per open locomotive, one station connection.                            *)
(*                                                                         *)
(* The code keeps the selected locomotive twice: the live fields of the    *)
(* Controller (c.state.Speed, c.pending, c.lastSpeed ...) and an entry of  *)
(* the map c.cabs that goes stale until storeCab writes the live fields    *)
(* back.  Every intent of the user interface runs under WithCab, which     *)
(* stores, loads the addressed tab, runs the operation, and stores and     *)
(* loads back.  Both copies are kept here, stale entry included.           *)
(*                                                                         *)
(* A step is one call from the session's event loop, which owns the        *)
(* Controller; a send inside it may fail, and then Detach has run.  The    *)
(* set "sent" holds the commands the step handed to the connection: those  *)
(* of one step go to different locomotives or functions, and commute.      *)
(***************************************************************************)
EXTENDS Naturals, Sequences, FiniteSets, SequencesExt

CONSTANTS
  Cab,            \* locomotive addresses
  Fn,             \* function numbers (0..28 in the code)
  MaxSpeed,       \* highest speed step (126 in the code)
  SendGap,        \* 80 ms between two slider commands, in units of Elapse
  DefaultToggle,  \* functions that latch in a tab opened with New's defaults
  None,           \* no pending speed (a nil *int)
  Embedder        \* is SelectCab called (the application itself never does)

ASSUME ControllerAssumption ==
  /\ IsFiniteSet(Cab)
  /\ Fn \subseteq Nat
  /\ MaxSpeed \in Nat
  /\ SendGap \in Nat \ {0}
  /\ DefaultToggle \subseteq Fn
  /\ None \notin Nat
  /\ Embedder \in BOOLEAN

VARIABLES
  connected,  \* c.sender # nil, and c.state.Connected with it
  sel,        \* c.state.Cab
  live,       \* the selected locomotive's fields of c.state and c
  cabs,       \* c.cabs, [open addresses -> Runtime]; stale at sel
  held,       \* c.cabs[k].held: momentary functions pressed, not released
  order,      \* c.order, the tabs from left to right
  sent        \* commands this step handed to the connection

vars == <<connected, sel, live, cabs, held, order, sent>>

Speed == 0..MaxSpeed
Dir == {0, 1}

Runtime ==
  [speed : Speed, dir : Dir, fns : SUBSET Fn, toggle : SUBSET Fn,
   pending : Speed \cup {None},
   lastSpeed : Speed, lastDir : Dir, lastKnown : BOOLEAN,
   age : 0..SendGap]    \* since lastSent; SendGap stands for "long ago, or never"

Throttle(k, s, d) == [op |-> "throttle", cab |-> k, speed |-> s, dir |-> d]
FnSet(k, f, on)   == [op |-> "function", cab |-> k, fn |-> f, on |-> on]
Query(k)          == [op |-> "query", cab |-> k]
EStop             == [op |-> "estop"]
Other             == [op |-> "other"]  \* status, tracks, current, power, CV, raw

Commands ==
  {Throttle(k, s, d) : k \in Cab, s \in Speed, d \in Dir}
    \cup {FnSet(k, f, on) : k \in Cab, f \in Fn, on \in BOOLEAN}
    \cup {Query(k) : k \in Cab} \cup {EStop, Other}

Open == DOMAIN cabs

\* A locomotive whose tab has just been opened, with these latching functions.
Fresh(toggle) ==
  [speed |-> 0, dir |-> 1, fns |-> {}, toggle |-> toggle, pending |-> None,
   lastSpeed |-> 0, lastDir |-> 0, lastKnown |-> FALSE, age |-> SendGap]

\* c.cabs after storeCab: what the operator sees in each tab.
Stored == [cabs EXCEPT ![sel] = live]

\* Variant: Detach clears the live fields and forgets the map.
NoneDropped(m) == m

\* What Detach does to a locomotive, and to all of them.
Dropped(r) == [r EXCEPT !.pending = None, !.lastKnown = FALSE]
DroppedAll(m) == [k \in DOMAIN m |-> Dropped(m[k])]
NothingHeld(K) == [k \in K |-> {}]

\* transmit's bookkeeping once the command is out.
Transmitted(r, s, d) ==
  [r EXCEPT !.lastSpeed = s, !.lastDir = d, !.lastKnown = TRUE, !.age = 0]

With(m, k, v) == [j \in DOMAIN m \cup {k} |-> IF j = k THEN v ELSE m[j]]
Without(m, k) == [j \in DOMAIN m \ {k} |-> m[j]]

(***************************************************************************)
(* New and restoreTabs: the saved layout, at least one tab, its selected   *)
(* tab loaded, nothing of the locomotives' state.                          *)
(***************************************************************************)
Layouts ==
  {o \in UNION {[1..n -> Cab] : n \in 1..Cardinality(Cab)} :
     \A i, j \in DOMAIN o : o[i] = o[j] => i = j}

Init ==
  /\ connected = FALSE
  /\ order \in Layouts
  /\ cabs \in [ToSet(order) -> {Fresh(t) : t \in SUBSET Fn}]
  /\ sel \in DOMAIN cabs
  /\ live = cabs[sel]
  /\ held = NothingHeld(DOMAIN cabs)
  /\ sent = {}

-----------------------------------------------------------------------------
(***************************************************************************)
(* WithCab(k, fn), when fn leaves locomotive k as r and has sent "out".    *)
(***************************************************************************)
Leaves(k, r, out) ==
  /\ cabs' = [Stored EXCEPT ![k] = r]
  /\ live' = cabs'[sel]
  /\ sent' = out
  /\ UNCHANGED <<connected, sel, order>>

(***************************************************************************)
(* WithCab(k, fn), when a send of fn fails after "out" went through: send  *)
(* has called Detach, m being the tabs at that point.                      *)
(***************************************************************************)
Fails(m, out) ==
  /\ connected
  /\ connected' = FALSE
  /\ cabs' = DroppedAll(m)
  /\ live' = cabs'[sel]
  /\ held' = NothingHeld(Open)
  /\ sent' = out
  /\ UNCHANGED <<sel, order>>

MoveSpeed(k, s) ==
  /\ Leaves(k, [Stored[k] EXCEPT !.speed = s,
                                 !.pending = IF connected THEN s ELSE None], {})
  /\ UNCHANGED held

SetDirection(k, d) ==
  LET r == Stored[k]
      differs == d # r.dir
  IN \/ /\ connected /\ differs
        /\ Leaves(k, [Transmitted(r, r.speed, d) EXCEPT !.dir = d],
                  {Throttle(k, r.speed, d)})
        /\ UNCHANGED held
     \/ differs /\ Fails(Stored, {})
     \/ ~(connected /\ differs) /\ Leaves(k, r, {}) /\ UNCHANGED held

Stop(k) ==
  LET r == [Stored[k] EXCEPT !.pending = None]
  IN \/ /\ connected
        /\ Leaves(k, [Transmitted(r, 0, r.dir) EXCEPT !.speed = 0],
                  {Throttle(k, 0, r.dir)})
        /\ UNCHANGED held
     \/ Fails(Stored, {})
     \/ ~connected /\ Leaves(k, r, {}) /\ UNCHANGED held

\* Variant: a speed waiting in another tab is not cancelled.
HaltedWaiting(r) == [r EXCEPT !.speed = 0, !.lastSpeed = 0]

\* Variant: the last speed sent is not zeroed.
HaltedUnsettled(r) == [r EXCEPT !.speed = 0, !.pending = None]

(***************************************************************************)
(* The tab the stop was pressed in is taken to be known stopped; the others*)
(* only have their last speed zeroed.                                      *)
(***************************************************************************)
Halted(r) == [r EXCEPT !.speed = 0, !.pending = None, !.lastSpeed = 0]

Emergency(k) ==
  \/ /\ connected
     /\ cabs' = [j \in Open |->
                   IF j = k THEN [Halted(Stored[k]) EXCEPT !.lastDir = Stored[k].dir,
                                                           !.lastKnown = TRUE]
                            ELSE Halted(Stored[j])]
     /\ live' = cabs'[sel]
     /\ sent' = {EStop}
     /\ UNCHANGED <<connected, sel, order, held>>
  \/ Fails(Stored, {})
  \/ /\ ~connected
     /\ cabs' = [j \in Open |-> [Stored[j] EXCEPT !.pending = None]]
     /\ live' = cabs'[sel]
     /\ sent' = {}
     /\ UNCHANGED <<connected, sel, order, held>>

-----------------------------------------------------------------------------
SetToggle(k, f, on) ==
  /\ Leaves(k, [Stored[k] EXCEPT !.toggle = IF on THEN @ \cup {f} ELSE @ \ {f}], {})
  /\ UNCHANGED held

(***************************************************************************)
(* A latching function acts on the press; the release of a press that was  *)
(* momentary is momentary too, whatever the mode has become since.         *)
(***************************************************************************)
Latches(k, f, pressed) == f \in Stored[k].toggle /\ (pressed \/ f \notin held[k])

Function(k, f, pressed) ==
  LET r == Stored[k]
      latch == Latches(k, f, pressed)
      ignored == latch /\ ~pressed
      on == IF latch THEN f \notin r.fns ELSE pressed
      flipped == IF on THEN r.fns \cup {f} ELSE r.fns \ {f}
  IN \/ /\ connected /\ ~ignored
        /\ Leaves(k, IF latch THEN [r EXCEPT !.fns = flipped] ELSE r,
                  {FnSet(k, f, on)})
        /\ held' = [held EXCEPT ![k] = IF pressed /\ ~latch THEN @ \cup {f}
                                                            ELSE @ \ {f}]
     \/ ~ignored /\ Fails(Stored, {})
     \/ (~connected \/ ignored) /\ Leaves(k, r, {}) /\ UNCHANGED held

(***************************************************************************)
(* One command per function that is on, in ascending order; a failure at f *)
(* leaves f and the later ones shown on.                                   *)
(***************************************************************************)
AllFunctionsOff(k) ==
  LET r == Stored[k]
      off(F) == {FnSet(k, f, FALSE) : f \in F}
  IN \/ /\ connected
        /\ Leaves(k, [r EXCEPT !.fns = {}], off(r.fns))
        /\ UNCHANGED held
     \/ \E f \in r.fns :
          Fails([Stored EXCEPT ![k].fns = {g \in r.fns : g >= f}],
                off({g \in r.fns : g < f}))
     \/ ~connected /\ Leaves(k, r, {}) /\ UNCHANGED held

-----------------------------------------------------------------------------
(***************************************************************************)
(* A tick goes through the tabs in order.  A pending speed equal to what   *)
(* the station last had is discarded; another waits out the 80 ms and is   *)
(* then sent with the direction shown.                                     *)
(***************************************************************************)
Obsolete(r) == r.lastKnown /\ r.pending = r.lastSpeed /\ r.dir = r.lastDir

Due(r) == r.pending # None /\ ~Obsolete(r) /\ r.age = SendGap

\* Variant: the pending speed is taken before the rate limit has let it pass.
TickedEarly(r) ==
  IF Due(r) THEN [Transmitted(r, r.pending, r.dir) EXCEPT !.pending = None]
            ELSE [r EXCEPT !.pending = None]

Ticked(r) ==
  CASE Due(r) -> [Transmitted(r, r.pending, r.dir) EXCEPT !.pending = None]
    [] r.pending # None /\ Obsolete(r) -> [r EXCEPT !.pending = None]
    [] OTHER -> r

\* Variant: a slider command repeats the direction last sent.
DueBackwards(K) ==
  {Throttle(k, Stored[k].pending, Stored[k].lastDir) : k \in {j \in K : Due(Stored[j])}}

DueThrottles(K) ==
  {Throttle(k, Stored[k].pending, Stored[k].dir) : k \in {j \in K : Due(Stored[j])}}

TickedIn(K) == [k \in Open |-> IF k \in K THEN Ticked(Stored[k]) ELSE Stored[k]]

Tick ==
  \/ /\ cabs' = IF connected THEN TickedIn(ToSet(order)) ELSE Stored
     /\ live' = cabs'[sel]
     /\ sent' = IF connected THEN DueThrottles(ToSet(order)) ELSE {}
     /\ UNCHANGED <<connected, sel, held, order>>
  \/ \E i \in DOMAIN order :
       LET passed == {order[j] : j \in 1..(i - 1)}
       IN /\ Due(Stored[order[i]])
          /\ Fails(TickedIn(passed), DueThrottles(passed))

\* Time passes for every lastSent.
Older(r) == [r EXCEPT !.age = IF @ < SendGap THEN @ + 1 ELSE @]

Elapse ==
  /\ live' = Older(live)
  /\ cabs' = [k \in Open |-> Older(cabs[k])]
  /\ sent' = {}
  /\ UNCHANGED <<connected, sel, held, order>>

-----------------------------------------------------------------------------
(***************************************************************************)
(* A station report of locomotive k: written to the live fields when k is  *)
(* selected, through WithCab when it has another tab, dropped otherwise.   *)
(***************************************************************************)
Reported(r, s, d, F) ==
  [r EXCEPT !.speed = s, !.dir = d, !.fns = F, !.pending = None,
            !.lastSpeed = s, !.lastDir = d, !.lastKnown = TRUE]

\* Variant: reports of the tabs in the background are dropped.
ReceiveInFront(k, s, d, F) ==
  /\ connected /\ k \in Open
  /\ live' = IF k = sel THEN Reported(live, s, d, F) ELSE live
  /\ sent' = {}
  /\ UNCHANGED <<connected, sel, cabs, held, order>>

Receive(k, s, d, F) ==
  /\ connected /\ k \in Open
  /\ IF k = sel
       THEN /\ live' = Reported(live, s, d, F)
            /\ sent' = {}
            /\ UNCHANGED <<connected, sel, cabs, order>>
       ELSE Leaves(k, Reported(Stored[k], s, d, F), {})
  /\ UNCHANGED held

(***************************************************************************)
(* Detach: the operator disconnects, the connection closes, the session    *)
(* ends, or a send outside WithCab fails.                                  *)
(***************************************************************************)
Detach ==
  /\ connected
  /\ connected' = FALSE
  /\ live' = Dropped(live)
  /\ cabs' = DroppedAll(cabs)
  /\ held' = NothingHeld(Open)
  /\ sent' = {}
  /\ UNCHANGED <<sel, order>>

\* Variant: Attach does not ask for the locomotives.
Unqueried(n) == {}

(***************************************************************************)
(* Attach asks for the tracks, the status and every open locomotive, from  *)
(* left to right; the first query that fails ends the new connection.      *)
(***************************************************************************)
Queried(n) == {Query(order[i]) : i \in 1..n}

Attach ==
  /\ ~connected
  /\ \/ connected' = TRUE /\ sent' = {Other} \cup Queried(Len(order))
     \/ connected' = FALSE /\ sent' = {}
     \/ connected' = FALSE
        /\ \E n \in 0..(Len(order) - 1) : sent' = {Other} \cup Queried(n)
  /\ live' = Dropped(live)
  /\ cabs' = DroppedAll(cabs)
  /\ held' = NothingHeld(Open)
  /\ UNCHANGED <<sel, order>>

\* Poll, track power, programming, raw text: sent outside any tab.
Command ==
  /\ connected
  /\ sent' = {Other}
  /\ UNCHANGED <<connected, sel, live, cabs, held, order>>

-----------------------------------------------------------------------------
(***************************************************************************)
(* selectCab's tail: load tab k of m, and query it; a failed query has     *)
(* detached.                                                               *)
(***************************************************************************)
Loads(m, h, k) ==
  /\ sel' = k
  /\ \/ /\ cabs' = m
        /\ live' = m[k]
        /\ held' = h
        /\ sent' = IF connected THEN {Query(k)} ELSE {}
        /\ UNCHANGED connected
     \/ /\ connected
        /\ connected' = FALSE
        /\ cabs' = DroppedAll(m)
        /\ live' = Dropped(m[k])
        /\ held' = NothingHeld(DOMAIN m)
        /\ sent' = {}

\* Variant: a new tab is not entered in the order.
OpensUnlisted(m, k) ==
  /\ Loads(With(m, k, Fresh(DefaultToggle)), With(held, k, {}), k)
  /\ UNCHANGED order

OpensIn(m, k) ==
  /\ Loads(With(m, k, Fresh(DefaultToggle)), With(held, k, {}), k)
  /\ order' = Append(order, k)

AddCab(k) == k \notin Open /\ OpensIn(Stored, k)

\* Variant: the tab left behind is not stored.
FocusUnstored(k) ==
  /\ k \in Open /\ k # sel
  /\ Loads(cabs, held, k)
  /\ UNCHANGED order

FocusCab(k) ==
  /\ k \in Open /\ k # sel
  /\ Loads(Stored, held, k)
  /\ UNCHANGED order

(***************************************************************************)
(* Picking another locomotive, not another tab: the pending speed is       *)
(* dropped, though the tab goes on showing it.                             *)
(***************************************************************************)
SelectCab(k) ==
  LET m == [Stored EXCEPT ![sel].pending = None]
  IN /\ Embedder
     /\ \/ k \in Open /\ k # sel /\ Loads(m, held, k) /\ UNCHANGED order
        \/ k \notin Open /\ OpensIn(m, k)

\* Closing and reassigning look at the speed and the pending speed.
Parked(r) == r.speed = 0 /\ r.pending = None

\* storeCab, and then the call is refused.
Refused ==
  /\ cabs' = Stored
  /\ sent' = {}
  /\ UNCHANGED <<connected, sel, live, held, order>>

\* Variant: closing the selected tab leaves it selected.
RemoveSelected(k) ==
  /\ k \in Open /\ Open # {k} /\ Parked(Stored[k])
  /\ cabs' = Without(Stored, k) /\ held' = Without(held, k)
  /\ order' = Remove(order, k)
  /\ sent' = {}
  /\ UNCHANGED <<connected, sel, live>>

RemoveCab(k) ==
  \/ /\ k \in Open /\ Open # {k} /\ Parked(Stored[k])
     /\ cabs' = Without(Stored, k)
     /\ held' = Without(held, k)
     /\ \E i \in DOMAIN order : order[i] = k /\ order' = RemoveAt(order, i)
     /\ sel' = IF sel = k THEN order'[1] ELSE sel
     /\ live' = cabs'[sel']
     /\ sent' = {}
     /\ UNCHANGED connected
  \/ ~(k \in Open /\ Open # {k} /\ Parked(Stored[k])) /\ Refused

(***************************************************************************)
(* The new locomotive takes over the tab's place and its function modes.   *)
(***************************************************************************)
ReplaceCab(old, next) ==
  /\ old # next /\ next \notin Open
  /\ \/ /\ old \in Open /\ Parked(Stored[old])
        /\ Loads(Without(With(Stored, next, Fresh(Stored[old].toggle)), old),
                 Without(With(held, next, {}), old), next)
        /\ order' = [i \in DOMAIN order |-> IF order[i] = old THEN next ELSE order[i]]
     \/ ~(old \in Open /\ Parked(Stored[old])) /\ Refused

-----------------------------------------------------------------------------
Operate(k) ==
  \/ \E d \in Dir : SetDirection(k, d)
  \/ Stop(k) \/ Emergency(k) \/ AllFunctionsOff(k)
  \/ \E f \in Fn, on \in BOOLEAN : SetToggle(k, f, on)
  \/ \E f \in Fn, pressed \in BOOLEAN : Function(k, f, pressed)

Arrange ==
  \E k \in Cab :
    \/ AddCab(k) \/ FocusCab(k) \/ SelectCab(k) \/ RemoveCab(k)
    \/ \E n \in Cab : ReplaceCab(k, n)

\* The operator's slider and the station's reports: where speeds come from.
Slide == \E k \in Open, s \in Speed : MoveSpeed(k, s)

Report ==
  \E k \in Open, s \in Speed, d \in Dir, F \in SUBSET Fn : Receive(k, s, d, F)

Rest ==
  \/ \E k \in Open : Operate(k)
  \/ Arrange
  \/ Attach \/ Detach \/ Command
  \/ Tick \/ Elapse

Next == Slide \/ Report \/ Rest

Spec == Init /\ [][Next]_vars

(***************************************************************************)
(* The session's 30 ms ticker always comes round again, and time passes.   *)
(***************************************************************************)
FairSpec == Spec /\ WF_vars(Tick) /\ WF_vars(Elapse)

-----------------------------------------------------------------------------
\* The state is well formed; the selected tab is an open one.
TypeOK ==
  /\ connected \in BOOLEAN
  /\ Open \subseteq Cab
  /\ sel \in Open
  /\ live \in Runtime
  /\ cabs \in [Open -> Runtime]
  /\ held \in [Open -> SUBSET Fn]
  /\ order \in Seq(Cab)
  /\ sent \subseteq Commands

(***************************************************************************)
(* The tab order lists every open locomotive exactly once: Attach and Tick *)
(* walk c.order, so a tab missing there would neither be queried nor have  *)
(* its slider sent (order and cabs are edited apart, cabs.go:84,115,149).  *)
(***************************************************************************)
OrderIsOpenTabs ==
  /\ ToSet(order) = Open
  /\ \A i, j \in DOMAIN order : order[i] = order[j] => i = j

(***************************************************************************)
(* Nothing of a connection outlives it, in neither copy of any locomotive: *)
(* no speed waits to be sent, nothing is taken as known by the station and *)
(* no button is held (controller.go:114, "pending survived reconnect").    *)
(***************************************************************************)
NothingSurvivesDisconnect ==
  ~connected =>
    /\ \A r \in {live} \cup {cabs[k] : k \in Open} : r.pending = None /\ ~r.lastKnown
    /\ \A k \in Open : held[k] = {}

(***************************************************************************)
(* A speed waiting to be sent is the one its tab shows: a stop, a station  *)
(* report or an emergency stop pressed in another tab that changes what is *)
(* shown has also cancelled what was waiting.                              *)
(***************************************************************************)
IntentIsDisplayed ==
  \A k \in Open : Stored[k].pending \in {None, Stored[k].speed}

(***************************************************************************)
(* A tick may discard a pending speed because the station has it already   *)
(* (controller.go:250).  That is sound because what the controller takes   *)
(* the station to have is what the tab shows, save for a waiting speed.    *)
(* SelectCab breaks this, and the application does without it.             *)
(***************************************************************************)
SettledIsExchanged ==
  ~Embedder => \A k \in Open :
    LET r == Stored[k]
    IN r.lastKnown => /\ r.lastDir = r.dir
                      /\ r.pending = None => r.lastSpeed = r.speed

(***************************************************************************)
(* A throttle command that goes out is what the tab of that locomotive     *)
(* then shows, whichever tab is selected.                                  *)
(***************************************************************************)
SentIsDisplayed ==
  \A m \in sent :
    m.op = "throttle" =>
      /\ m.cab \in Open
      /\ m.speed = Stored[m.cab].speed
      /\ m.dir = Stored[m.cab].dir

(***************************************************************************)
(* The two copies of the selected locomotive keep the promise of Tabs.tla: *)
(* each tab is operated, sent and closed by what it shows itself.          *)
(***************************************************************************)
Promise == INSTANCE Tabs WITH
  online <- connected,
  selected <- sel,
  tabs <- [k \in Open |-> [speed |-> Stored[k].speed, dir |-> Stored[k].dir,
                           fns |-> Stored[k].fns, intent |-> Stored[k].pending]]

Isolation == Promise!Spec

(***************************************************************************)
(* A speed asked for, while its tab goes on showing it, is in the end what *)
(* the station was last told: the rate limit, tab switches and the other   *)
(* commands may delay it but neither hold it up for ever nor lose it       *)
(* (controller.go:245).  Zero is left out: an emergency stop settles it.   *)
(***************************************************************************)
IntentReachesStation ==
  \A k \in Cab : \A s \in Speed \ {0} :
    (k \in Open /\ Stored[k].pending = s) ~>
      (\/ ~connected
       \/ k \notin Open
       \/ Stored[k].speed # s
       \/ Stored[k].lastKnown /\ Stored[k].lastSpeed = s)

(***************************************************************************)
(* A tab does not go away under a held momentary function (README.md:171,  *)
(* "unchecked functions act only while held").                             *)
(***************************************************************************)
ClosedTabHoldsNothing ==
  [][\A k \in Open \ Open' : held[k] = {}]_vars
=============================================================================
