-------------------------- MODULE ControllerProofs --------------------------
(***************************************************************************)
(* Proofs about Controller.tla, for every set of locomotives and           *)
(* functions, every speed range and rate limit.  First the shape of the    *)
(* state (Shape), then what makes it safe (Safe).                          *)
(***************************************************************************)
EXTENDS Controller, FiniteSetTheorems, SequenceTheorems, TLAPS

-----------------------------------------------------------------------------
(***************************************************************************)
(* Locomotive records: what the operations make of one is one again.       *)
(***************************************************************************)
LEMMA Constants ==
  /\ 0 \in Speed /\ None \notin Speed
  /\ 0 \in Dir /\ 1 \in Dir
  /\ SendGap \in Nat /\ 0 \in 0..SendGap /\ SendGap \in 0..SendGap
  /\ DefaultToggle \in SUBSET Fn
BY ControllerAssumption DEF ControllerAssumption, Speed, Dir

LEMMA FreshType ==
  ASSUME NEW t \in SUBSET Fn
  PROVE  Fresh(t) \in Runtime
BY Constants DEF Fresh, Runtime

LEMMA DroppedType ==
  ASSUME NEW r \in Runtime
  PROVE  Dropped(r) \in Runtime
BY DEF Dropped, Runtime

LEMMA TransmittedType ==
  ASSUME NEW r \in Runtime, NEW s \in Speed, NEW d \in Dir
  PROVE  Transmitted(r, s, d) \in Runtime
BY Constants DEF Transmitted, Runtime

LEMMA WithSpeedType ==
  ASSUME NEW r \in Runtime, NEW s \in Speed
  PROVE  [r EXCEPT !.speed = s] \in Runtime
BY DEF Runtime

LEMMA WithLastDirType ==
  ASSUME NEW r \in Runtime, NEW d \in Dir
  PROVE  [r EXCEPT !.lastDir = d, !.lastKnown = TRUE] \in Runtime
BY DEF Runtime

LEMMA TickedType ==
  ASSUME NEW r \in Runtime
  PROVE  Ticked(r) \in Runtime
<1>1. CASE Due(r)
  <2>1. r.pending \in Speed /\ r.dir \in Dir
    BY <1>1 DEF Due, Obsolete, Runtime
  <2>2. Ticked(r) = [Transmitted(r, r.pending, r.dir) EXCEPT !.pending = None]
    BY <1>1 DEF Ticked, Due
  <2>3. QED
    BY <2>1, <2>2, TransmittedType DEF Runtime
<1>2. CASE ~Due(r) /\ r.pending # None /\ Obsolete(r)
  BY <1>2 DEF Ticked, Runtime, Due
<1>3. CASE ~Due(r) /\ ~(r.pending # None /\ Obsolete(r))
  BY <1>3 DEF Ticked, Due
<1>4. QED
  BY <1>1, <1>2, <1>3

LEMMA OlderType ==
  ASSUME NEW r \in Runtime
  PROVE  Older(r) \in Runtime
BY Constants DEF Older, Runtime

LEMMA ReportedType ==
  ASSUME NEW r \in Runtime, NEW s \in Speed, NEW d \in Dir, NEW F \in SUBSET Fn
  PROVE  Reported(r, s, d, F) \in Runtime
BY DEF Reported, Runtime

LEMMA HaltedType ==
  ASSUME NEW r \in Runtime
  PROVE  Halted(r) \in Runtime
BY Constants DEF Halted, Runtime

LEMMA StoredType ==
  ASSUME TypeOK
  PROVE  /\ Stored \in [Open -> Runtime]
         /\ Stored[sel] = live
         /\ \A k \in Open : k # sel => Stored[k] = cabs[k]
BY DEF TypeOK, Stored, Open

LEMMA TickedInType ==
  ASSUME TypeOK, NEW K
  PROVE  TickedIn(K) \in [Open -> Runtime]
BY StoredType, TickedType DEF TickedIn

LEMMA DueThrottlesType ==
  ASSUME TypeOK, NEW K \in SUBSET Open
  PROVE  DueThrottles(K) \in SUBSET Commands
<1>1. SUFFICES ASSUME NEW k \in K, Due(Stored[k])
               PROVE  Throttle(k, Stored[k].pending, Stored[k].dir) \in Commands
  BY DEF DueThrottles
<1>2. Stored[k] \in Runtime /\ k \in Cab
  BY StoredType DEF TypeOK
<1>3. Stored[k].pending \in Speed /\ Stored[k].dir \in Dir
  BY <1>1, <1>2 DEF Due, Obsolete, Runtime
<1>4. QED
  BY <1>2, <1>3 DEF Commands

LEMMA CommandTypes ==
  ASSUME NEW k \in Cab
  PROVE  /\ \A s \in Speed, d \in Dir : {Throttle(k, s, d)} \in SUBSET Commands
         /\ \A f \in Fn, on \in BOOLEAN : {FnSet(k, f, on)} \in SUBSET Commands
         /\ {Query(k)} \in SUBSET Commands
         /\ {EStop} \in SUBSET Commands /\ {Other} \in SUBSET Commands
BY DEF Commands

-----------------------------------------------------------------------------
(***************************************************************************)
(* The shape of the state: well typed, and the order lists the open tabs.  *)
(* Neither is inductive alone, for RemoveCab selects what is first in the  *)
(* order and must land on an open tab.                                     *)
(***************************************************************************)
Shape == TypeOK /\ OrderIsOpenTabs

\* A step that opens and closes nothing need only type what it writes.
LEMMA KeepsShape ==
  ASSUME Shape,
         connected' \in BOOLEAN, sel' = sel, order' = order,
         cabs' \in [Open -> Runtime], live' \in Runtime,
         held' \in [Open -> SUBSET Fn], sent' \in SUBSET Commands
  PROVE  Shape'
BY DEF Shape, TypeOK, OrderIsOpenTabs, Open

LEMMA LeavesKeepsShape ==
  ASSUME Shape, NEW k \in Open, NEW r \in Runtime, NEW out \in SUBSET Commands,
         Leaves(k, r, out), held' \in [Open -> SUBSET Fn]
  PROVE  Shape'
<1>1. cabs' \in [Open -> Runtime]
  BY StoredType DEF Leaves, Shape
<1>2. live' \in Runtime
  BY <1>1 DEF Leaves, Shape, TypeOK
<1>3. QED
  BY <1>1, <1>2, KeepsShape DEF Leaves, Shape, TypeOK

LEMMA DroppedAllType ==
  ASSUME NEW K, NEW m \in [K -> Runtime]
  PROVE  DroppedAll(m) \in [K -> Runtime]
BY DroppedType DEF DroppedAll

LEMMA FailsKeepsShape ==
  ASSUME Shape, NEW m \in [Open -> Runtime], NEW out \in SUBSET Commands,
         Fails(m, out)
  PROVE  Shape'
<1>1. cabs' \in [Open -> Runtime]
  BY DroppedAllType DEF Fails
<1>2. live' \in Runtime
  BY <1>1 DEF Fails, Shape, TypeOK
<1>3. held' \in [Open -> SUBSET Fn]
  BY DEF Fails, NothingHeld
<1>4. QED
  BY <1>1, <1>2, <1>3, KeepsShape DEF Fails, Shape, TypeOK

(***************************************************************************)
(* Operations on one tab.                                                  *)
(***************************************************************************)
LEMMA SlideShape ==
  ASSUME Shape, Slide
  PROVE  Shape'
<1>1. PICK k \in Open, s \in Speed : MoveSpeed(k, s)
  BY DEF Slide
<1>2. [Stored[k] EXCEPT !.speed = s, !.pending = IF connected THEN s ELSE None]
        \in Runtime
  BY StoredType DEF Shape, Runtime
<1>3. QED
  BY <1>1, <1>2, LeavesKeepsShape DEF MoveSpeed, Shape, TypeOK

LEMMA SetDirectionShape ==
  ASSUME Shape, NEW k \in Open, NEW d \in Dir, SetDirection(k, d)
  PROVE  Shape'
<1> DEFINE r == Stored[k]
<1>1. r \in Runtime /\ r.speed \in Speed /\ k \in Cab
  BY StoredType DEF Shape, TypeOK, Runtime
<1>2. CASE Fails(Stored, {})
  BY <1>2, StoredType, FailsKeepsShape DEF Shape
<1>3. CASE Leaves(k, r, {}) /\ UNCHANGED held
  BY <1>1, <1>3, LeavesKeepsShape DEF Shape, TypeOK
<1>4. CASE /\ Leaves(k, [Transmitted(r, r.speed, d) EXCEPT !.dir = d],
                     {Throttle(k, r.speed, d)})
           /\ UNCHANGED held
  <2>1. [Transmitted(r, r.speed, d) EXCEPT !.dir = d] \in Runtime
    BY <1>1, TransmittedType DEF Runtime
  <2>2. {Throttle(k, r.speed, d)} \in SUBSET Commands
    BY <1>1, CommandTypes
  <2>3. QED
    BY <1>4, <2>1, <2>2, LeavesKeepsShape DEF Shape, TypeOK
<1>5. QED
  BY <1>2, <1>3, <1>4 DEF SetDirection

LEMMA StopShape ==
  ASSUME Shape, NEW k \in Open, Stop(k)
  PROVE  Shape'
<1> DEFINE r == [Stored[k] EXCEPT !.pending = None]
           stopped == [Transmitted(r, 0, r.dir) EXCEPT !.speed = 0]
<1>1. r \in Runtime /\ r.dir \in Dir /\ k \in Cab
  BY StoredType DEF Shape, TypeOK, Runtime
<1>2. CASE Fails(Stored, {})
  BY <1>2, StoredType, FailsKeepsShape DEF Shape
<1>3. CASE Leaves(k, r, {}) /\ UNCHANGED held
  BY <1>1, <1>3, LeavesKeepsShape DEF Shape, TypeOK
<1>4. CASE Leaves(k, stopped, {Throttle(k, 0, r.dir)}) /\ UNCHANGED held
  <2>1. stopped \in Runtime
    <3>1. 0 \in Speed
      BY Constants
    <3>2. Transmitted(r, 0, r.dir) \in Runtime
      BY <1>1, <3>1, TransmittedType
    <3>3. QED
      BY <3>1, <3>2, WithSpeedType
  <2>2. {Throttle(k, 0, r.dir)} \in SUBSET Commands
    BY <1>1, Constants, CommandTypes
  <2>3. QED
    BY <1>4, <2>1, <2>2, LeavesKeepsShape DEF Shape, TypeOK
<1>5. QED
  BY <1>2, <1>3, <1>4 DEF Stop

LEMMA EmergencyShape ==
  ASSUME Shape, NEW k \in Open, Emergency(k)
  PROVE  Shape'
<1> USE DEF Shape
<1>1. \A j \in Open : Stored[j] \in Runtime
  BY StoredType
<1>2. CASE Fails(Stored, {})
  BY <1>2, StoredType, FailsKeepsShape
<1>3. CASE /\ cabs' = [j \in Open |->
                IF j = k THEN [Halted(Stored[k]) EXCEPT !.lastDir = Stored[k].dir,
                                                        !.lastKnown = TRUE]
                         ELSE Halted(Stored[j])]
           /\ live' = cabs'[sel] /\ sent' = {EStop}
           /\ UNCHANGED <<connected, sel, order, held>>
  <2>1. \A j \in Open : Halted(Stored[j]) \in Runtime
    BY <1>1, HaltedType
  <2>2. [Halted(Stored[k]) EXCEPT !.lastDir = Stored[k].dir, !.lastKnown = TRUE]
          \in Runtime
    <3>1. Stored[k].dir \in Dir
      BY <1>1 DEF Runtime
    <3>2. QED
      BY <2>1, <3>1, WithLastDirType
  <2>3. cabs' \in [Open -> Runtime]
    BY <1>3, <2>1, <2>2
  <2>4. live' \in Runtime
    BY <1>3, <2>3 DEF TypeOK
  <2>5. sent' \in SUBSET Commands
    BY <1>3 DEF Commands
  <2>6. QED
    BY <1>3, <2>3, <2>4, <2>5, KeepsShape DEF TypeOK
<1>4. CASE /\ cabs' = [j \in Open |-> [Stored[j] EXCEPT !.pending = None]]
           /\ live' = cabs'[sel] /\ sent' = {}
           /\ UNCHANGED <<connected, sel, order, held>>
  <2>1. \A j \in Open : [Stored[j] EXCEPT !.pending = None] \in Runtime
    BY <1>1 DEF Runtime
  <2>2. cabs' \in [Open -> Runtime]
    BY <1>4, <2>1
  <2>3. live' \in Runtime
    BY <1>4, <2>2 DEF TypeOK
  <2>4. QED
    BY <1>4, <2>2, <2>3, KeepsShape DEF TypeOK
<1>5. QED
  BY <1>2, <1>3, <1>4 DEF Emergency

LEMMA SetToggleShape ==
  ASSUME Shape, NEW k \in Open, NEW f \in Fn, NEW on \in BOOLEAN,
         SetToggle(k, f, on)
  PROVE  Shape'
<1>1. [Stored[k] EXCEPT !.toggle = IF on THEN @ \cup {f} ELSE @ \ {f}] \in Runtime
  BY StoredType DEF Shape, Runtime
<1>2. QED
  BY <1>1, LeavesKeepsShape DEF SetToggle, Shape, TypeOK

LEMMA FunctionShape ==
  ASSUME Shape, NEW k \in Open, NEW f \in Fn, NEW pressed \in BOOLEAN,
         Function(k, f, pressed)
  PROVE  Shape'
<1> DEFINE r == Stored[k]
           latch == Latches(k, f, pressed)
           on == IF latch THEN f \notin r.fns ELSE pressed
           flipped == IF on THEN r.fns \cup {f} ELSE r.fns \ {f}
<1>1. r \in Runtime /\ k \in Cab
  BY StoredType DEF Shape, TypeOK
<1>2. CASE Fails(Stored, {})
  BY <1>2, StoredType, FailsKeepsShape DEF Shape
<1>3. CASE Leaves(k, r, {}) /\ UNCHANGED held
  BY <1>1, <1>3, LeavesKeepsShape DEF Shape, TypeOK
<1>4. CASE /\ Leaves(k, IF latch THEN [r EXCEPT !.fns = flipped] ELSE r,
                     {FnSet(k, f, on)})
           /\ held' = [held EXCEPT ![k] = IF pressed /\ ~latch THEN @ \cup {f}
                                                               ELSE @ \ {f}]
  <2>1. flipped \in SUBSET Fn
    BY <1>1 DEF Runtime
  <2>2. (IF latch THEN [r EXCEPT !.fns = flipped] ELSE r) \in Runtime
    <3> HIDE DEF flipped
    <3> QED BY <1>1, <2>1 DEF Runtime
  <2>3. on \in BOOLEAN
    OBVIOUS
  <2>4. {FnSet(k, f, on)} \in SUBSET Commands
    <3> HIDE DEF on
    <3> QED BY <1>1, <2>3, CommandTypes
  <2>5. held' \in [Open -> SUBSET Fn]
    BY <1>4 DEF Shape, TypeOK
  <2>6. Leaves(k, IF latch THEN [r EXCEPT !.fns = flipped] ELSE r, {FnSet(k, f, on)})
    BY <1>4
  <2>7. QED
    <3> HIDE DEF on, flipped, latch, r
    <3> QED BY <2>2, <2>4, <2>5, <2>6, LeavesKeepsShape
<1>5. QED
  BY <1>2, <1>3, <1>4 DEF Function

LEMMA AllFunctionsOffShape ==
  ASSUME Shape, NEW k \in Open, AllFunctionsOff(k)
  PROVE  Shape'
<1> DEFINE r == Stored[k]
           off(F) == {FnSet(k, f, FALSE) : f \in F}
<1>1. r \in Runtime /\ k \in Cab /\ r.fns \in SUBSET Fn
  BY StoredType DEF Shape, TypeOK, Runtime
<1>2. ASSUME NEW F \in SUBSET Fn
      PROVE  off(F) \in SUBSET Commands
  <2>1. \A f \in F : FnSet(k, f, FALSE) \in Commands
    BY <1>1, CommandTypes
  <2>2. QED
    BY <2>1
<1>3. CASE Leaves(k, [r EXCEPT !.fns = {}], off(r.fns)) /\ UNCHANGED held
  <2>1. [r EXCEPT !.fns = {}] \in Runtime
    BY <1>1 DEF Runtime
  <2>2. off(r.fns) \in SUBSET Commands
    BY <1>1, <1>2
  <2>3. QED
    BY <1>3, <2>1, <2>2, LeavesKeepsShape DEF Shape, TypeOK
<1>4. ASSUME NEW f \in r.fns,
             Fails([Stored EXCEPT ![k].fns = {g \in r.fns : g >= f}],
                   off({g \in r.fns : g < f}))
      PROVE  Shape'
  <2>1. [r EXCEPT !.fns = {g \in r.fns : g >= f}] \in Runtime
    BY <1>1 DEF Runtime
  <2>2. [Stored EXCEPT ![k].fns = {g \in r.fns : g >= f}] \in [Open -> Runtime]
    BY <2>1, StoredType DEF Shape
  <2>3. {g \in r.fns : g < f} \in SUBSET Fn
    BY <1>1
  <2>4. off({g \in r.fns : g < f}) \in SUBSET Commands
    BY <1>2, <2>3
  <2>5. QED
    BY <1>4, <2>2, <2>4, FailsKeepsShape
<1>5. CASE Leaves(k, r, {}) /\ UNCHANGED held
  BY <1>1, <1>5, LeavesKeepsShape DEF Shape, TypeOK
<1>6. QED
  BY <1>3, <1>4, <1>5 DEF AllFunctionsOff

LEMMA OperateShape ==
  ASSUME Shape, NEW k \in Open, Operate(k)
  PROVE  Shape'
BY SetDirectionShape, StopShape, EmergencyShape, AllFunctionsOffShape,
   SetToggleShape, FunctionShape DEF Operate

-----------------------------------------------------------------------------
(***************************************************************************)
(* Steps of the session and the station.                                   *)
(***************************************************************************)
LEMMA TickShape ==
  ASSUME Shape, Tick
  PROVE  Shape'
<1>1. ToSet(order) = Open
  BY DEF Shape, OrderIsOpenTabs
<1>2. CASE /\ cabs' = IF connected THEN TickedIn(ToSet(order)) ELSE Stored
           /\ live' = cabs'[sel]
           /\ sent' = IF connected THEN DueThrottles(ToSet(order)) ELSE {}
           /\ UNCHANGED <<connected, sel, held, order>>
  <2>1. cabs' \in [Open -> Runtime]
    BY <1>2, StoredType, TickedInType DEF Shape
  <2>2. live' \in Runtime
    BY <1>2, <2>1 DEF Shape, TypeOK
  <2>3. sent' \in SUBSET Commands
    BY <1>1, <1>2, DueThrottlesType DEF Shape
  <2>4. QED
    BY <1>2, <2>1, <2>2, <2>3, KeepsShape DEF Shape, TypeOK
<1>3. ASSUME NEW i \in DOMAIN order,
             Fails(TickedIn({order[j] : j \in 1..(i - 1)}),
                   DueThrottles({order[j] : j \in 1..(i - 1)}))
      PROVE  Shape'
  <2> DEFINE passed == {order[j] : j \in 1..(i - 1)}
  <2>1. 1..(i - 1) \subseteq DOMAIN order
    BY DEF Shape, TypeOK
  <2>2. passed \in SUBSET Open
    BY <1>1, <2>1 DEF ToSet
  <2>3. TickedIn(passed) \in [Open -> Runtime]
    BY TickedInType DEF Shape
  <2>4. DueThrottles(passed) \in SUBSET Commands
    BY <2>2, DueThrottlesType DEF Shape
  <2>5. QED
    BY <1>3, <2>3, <2>4, FailsKeepsShape
<1>4. QED
  BY <1>2, <1>3 DEF Tick

LEMMA ElapseShape ==
  ASSUME Shape, Elapse
  PROVE  Shape'
<1>1. cabs' \in [Open -> Runtime] /\ live' \in Runtime
  BY OlderType DEF Elapse, Shape, TypeOK
<1>2. QED
  BY <1>1, KeepsShape DEF Elapse, Shape, TypeOK

LEMMA ReportShape ==
  ASSUME Shape, Report
  PROVE  Shape'
<1>1. PICK k \in Open, s \in Speed, d \in Dir, F \in SUBSET Fn : Receive(k, s, d, F)
  BY DEF Report
<1>2. CASE k = sel
  <2>1. live' \in Runtime
    BY <1>1, <1>2, ReportedType DEF Receive, Shape, TypeOK
  <2>2. QED
    BY <1>1, <1>2, <2>1, KeepsShape DEF Receive, Shape, TypeOK
<1>3. CASE k # sel
  <2>1. Reported(Stored[k], s, d, F) \in Runtime
    BY StoredType, ReportedType DEF Shape
  <2>2. QED
    BY <1>1, <1>3, <2>1, LeavesKeepsShape DEF Receive, Shape, TypeOK
<1>4. QED
  BY <1>2, <1>3

LEMMA DetachShape ==
  ASSUME Shape, Detach
  PROVE  Shape'
<1>1. cabs' \in [Open -> Runtime] /\ live' \in Runtime
  BY DroppedType, DroppedAllType DEF Detach, Shape, TypeOK
<1>2. held' \in [Open -> SUBSET Fn]
  BY DEF Detach, NothingHeld
<1>3. QED
  BY <1>1, <1>2, KeepsShape DEF Detach

LEMMA AttachShape ==
  ASSUME Shape, Attach
  PROVE  Shape'
<1>1. cabs' \in [Open -> Runtime] /\ live' \in Runtime
  BY DroppedType, DroppedAllType DEF Attach, Shape, TypeOK
<1>2. held' \in [Open -> SUBSET Fn]
  BY DEF Attach, NothingHeld
<1>3. \A n \in 0..Len(order) : {Other} \cup Queried(n) \in SUBSET Commands
  <2>1. \A i \in 1..Len(order) : order[i] \in Cab
    BY DEF Shape, TypeOK
  <2>2. QED
    BY <2>1 DEF Queried, Commands
<1>4. sent' \in SUBSET Commands
  <2>1. Len(order) \in Nat
    BY DEF Shape, TypeOK
  <2>2. QED
    BY <1>3, <2>1 DEF Attach
<1>5. QED
  BY <1>1, <1>2, <1>4, KeepsShape DEF Attach

LEMMA CommandShape ==
  ASSUME Shape, Command
  PROVE  Shape'
BY KeepsShape DEF Command, Commands, Shape, TypeOK

-----------------------------------------------------------------------------
(***************************************************************************)
(* Steps that open, close or select tabs.                                  *)
(***************************************************************************)
\* Loading tab k of m, when the new order lists the tabs of m.
LEMMA LoadsShape ==
  ASSUME Shape, NEW K \in SUBSET Cab, NEW k \in K,
         NEW m \in [K -> Runtime], NEW h \in [K -> SUBSET Fn],
         Loads(m, h, k),
         order' \in Seq(Cab), ToSet(order') = K,
         \A i, j \in DOMAIN order' : order'[i] = order'[j] => i = j
  PROVE  Shape'
<1>1. cabs' \in [K -> Runtime]
  BY DroppedAllType DEF Loads
<1>2. live' \in Runtime
  BY DroppedType DEF Loads
<1>3. held' \in [K -> SUBSET Fn]
  BY DEF Loads, NothingHeld
<1>4. sent' \in SUBSET Commands
  BY DEF Loads, Commands
<1>5. connected' \in BOOLEAN /\ sel' = k
  BY DEF Loads, Shape, TypeOK
<1>6. Open' = K
  BY <1>1 DEF Open
<1>7. TypeOK'
  BY <1>1, <1>2, <1>3, <1>4, <1>5, <1>6 DEF TypeOK
<1>8. OrderIsOpenTabs'
  BY <1>6 DEF OrderIsOpenTabs, ToSet
<1>9. QED
  BY <1>7, <1>8 DEF Shape

LEMMA OpensInShape ==
  ASSUME Shape, NEW k \in Cab \ Open, NEW m \in [Open -> Runtime], OpensIn(m, k)
  PROVE  Shape'
<1> DEFINE K == Open \cup {k}
           n == With(m, k, Fresh(DefaultToggle))
           h == With(held, k, {})
<1>1. K \in SUBSET Cab /\ k \in K
  BY DEF Shape, TypeOK
<1>2. n \in [K -> Runtime]
  BY Constants, FreshType DEF With
<1>3. h \in [K -> SUBSET Fn]
  BY DEF With, Shape, TypeOK
<1>4. order' = Append(order, k) /\ order \in Seq(Cab)
  BY DEF OpensIn, Shape, TypeOK
<1>5. /\ order' \in Seq(Cab) /\ DOMAIN order' = 1..(Len(order) + 1)
      /\ \A i \in DOMAIN order : order'[i] = order[i]
      /\ order'[Len(order) + 1] = k /\ DOMAIN order = 1..Len(order)
      /\ Len(order) \in Nat
  BY <1>4
<1>6. \A i \in DOMAIN order : order[i] \in Open
  BY DEF Shape, OrderIsOpenTabs, ToSet
<1>7. ToSet(order') = K
  BY <1>5, <1>6 DEF Shape, OrderIsOpenTabs, ToSet
<1>8. \A i, j \in DOMAIN order' : order'[i] = order'[j] => i = j
  BY <1>5, <1>6 DEF Shape, OrderIsOpenTabs
<1>9. QED
  BY <1>1, <1>2, <1>3, <1>5, <1>7, <1>8, LoadsShape DEF OpensIn

LEMMA FocusCabShape ==
  ASSUME Shape, NEW k \in Cab, FocusCab(k)
  PROVE  Shape'
<1>1. k \in Open /\ Loads(Stored, held, k) /\ order' = order
  BY DEF FocusCab
<1>2. order' \in Seq(Cab) /\ ToSet(order') = Open
  BY <1>1 DEF Shape, TypeOK, OrderIsOpenTabs, ToSet
<1>3. \A i, j \in DOMAIN order' : order'[i] = order'[j] => i = j
  BY <1>1 DEF Shape, OrderIsOpenTabs
<1>4. /\ Stored \in [Open -> Runtime]
      /\ held \in [Open -> SUBSET Fn] /\ Open \in SUBSET Cab
  BY StoredType DEF Shape, TypeOK
<1>5. QED
  BY <1>1, <1>2, <1>3, <1>4, LoadsShape

LEMMA SelectCabShape ==
  ASSUME Shape, NEW k \in Cab, SelectCab(k)
  PROVE  Shape'
<1> DEFINE m == [Stored EXCEPT ![sel].pending = None]
<1>1. m \in [Open -> Runtime]
  BY StoredType DEF Shape, Runtime
<1>2. CASE k \notin Open /\ OpensIn(m, k)
  BY <1>1, <1>2, OpensInShape
<1>3. CASE k \in Open /\ Loads(m, held, k) /\ UNCHANGED order
  <2>1. order' \in Seq(Cab) /\ ToSet(order') = Open
    BY <1>3 DEF Shape, TypeOK, OrderIsOpenTabs, ToSet
  <2>2. \A i, j \in DOMAIN order' : order'[i] = order'[j] => i = j
    BY <1>3 DEF Shape, OrderIsOpenTabs
  <2>3. held \in [Open -> SUBSET Fn] /\ Open \in SUBSET Cab
    BY DEF Shape, TypeOK
  <2>4. QED
    BY <1>1, <1>3, <2>1, <2>2, <2>3, LoadsShape
<1>4. QED
  BY <1>2, <1>3 DEF SelectCab

LEMMA RefusedShape ==
  ASSUME Shape, Refused
  PROVE  Shape'
BY StoredType, KeepsShape DEF Refused, Shape, TypeOK

\* What is left of a list without repetitions when one place is taken out.
LEMMA RemovedOrder ==
  ASSUME NEW S, NEW o \in Seq(S), NEW p \in DOMAIN o,
         \A i, j \in DOMAIN o : o[i] = o[j] => i = j
  PROVE  LET q == RemoveAt(o, p)
         IN /\ q \in Seq(S)
            /\ ToSet(q) = ToSet(o) \ {o[p]}
            /\ \A i, j \in DOMAIN q : q[i] = q[j] => i = j
<1> DEFINE q == RemoveAt(o, p)
           at(i) == IF i < p THEN i ELSE i + 1
<1>1. Len(o) \in Nat /\ p \in 1..Len(o) /\ DOMAIN o = 1..Len(o)
  OBVIOUS
<1>2. /\ SubSeq(o, 1, p - 1) \in Seq(S) /\ Len(SubSeq(o, 1, p - 1)) = p - 1
      /\ \A i \in 1..(p - 1) : SubSeq(o, 1, p - 1)[i] = o[i]
  BY <1>1
<1>3. /\ SubSeq(o, p + 1, Len(o)) \in Seq(S)
      /\ Len(SubSeq(o, p + 1, Len(o))) = Len(o) - p
      /\ \A i \in 1..(Len(o) - p) : SubSeq(o, p + 1, Len(o))[i] = o[p + i]
  <2>1. /\ p + 1 \in Int /\ Len(o) \in Int
        /\ \A i \in (p + 1)..Len(o) : o[i] \in S
    BY <1>1
  <2>2. /\ SubSeq(o, p + 1, Len(o)) \in Seq(S)
        /\ Len(SubSeq(o, p + 1, Len(o)))
             = IF p + 1 <= Len(o) THEN Len(o) - (p + 1) + 1 ELSE 0
        /\ \A i \in 1..(Len(o) - (p + 1) + 1) :
             SubSeq(o, p + 1, Len(o))[i] = o[p + 1 + i - 1]
    BY <2>1, SubSeqProperties
  <2>3. QED
    BY <1>1, <2>2
<1>4. /\ q \in Seq(S) /\ DOMAIN q = 1..(Len(o) - 1)
      /\ \A i \in 1..(Len(o) - 1) : q[i] = o[at(i)]
  <2> DEFINE l == SubSeq(o, 1, p - 1)
             r == SubSeq(o, p + 1, Len(o))
  <2>1. /\ l \o r \in Seq(S) /\ Len(l \o r) = Len(l) + Len(r)
        /\ \A i \in 1..(Len(l) + Len(r)) :
             (l \o r)[i] = IF i <= Len(l) THEN l[i] ELSE r[i - Len(l)]
    <3>1. l \in Seq(S) /\ r \in Seq(S)
      BY <1>2, <1>3
    <3> HIDE DEF l, r
    <3> QED BY <3>1, ConcatProperties
  <2>2. q = l \o r
    BY DEF RemoveAt
  <2>3. Len(l) = p - 1 /\ Len(r) = Len(o) - p
    BY <1>2, <1>3
  <2>4. q \in Seq(S) /\ Len(q) = Len(o) - 1
    <3> HIDE DEF q, l, r
    <3>1. q \in Seq(S) /\ Len(q) = Len(l) + Len(r)
      BY <2>1, <2>2
    <3>2. Len(l) + Len(r) = Len(o) - 1
      BY <1>1, <2>3
    <3> QED BY <3>1, <3>2
  <2>5. ASSUME NEW i \in 1..(Len(o) - 1)
        PROVE  q[i] = o[at(i)]
    <3>1. CASE i < p
      <4>1. q[i] = l[i] /\ l[i] = o[i] /\ at(i) = i
        <5>1. i \in 1..(Len(l) + Len(r)) /\ i <= Len(l) /\ i \in 1..(p - 1)
          <6> HIDE DEF l, r
          <6> QED BY <1>1, <2>3, <3>1
        <5>2. q[i] = l[i]
          <6> HIDE DEF l, r, q
          <6> QED BY <2>1, <2>2, <5>1
        <5>3. QED
          BY <1>2, <3>1, <5>1, <5>2
      <4>2. QED
        BY <4>1
    <3>2. CASE ~(i < p)
      <4>1. /\ i \in 1..(Len(l) + Len(r)) /\ ~(i <= Len(l))
            /\ i - Len(l) = i - p + 1 /\ i - p + 1 \in 1..(Len(o) - p)
            /\ p + (i - p + 1) = i + 1
        <5> HIDE DEF l, r
        <5> QED BY <1>1, <2>3, <3>2
      <4>2. q[i] = r[i - p + 1]
        <5> HIDE DEF l, r, q
        <5> QED BY <2>1, <2>2, <4>1
      <4>3. r[i - p + 1] = o[i + 1]
        BY <1>3, <4>1
      <4>4. QED
        BY <3>2, <4>2, <4>3
    <3>3. QED
      BY <3>1, <3>2
  <2>6. QED
    <3> HIDE DEF q, at
    <3> QED BY <2>4, <2>5
<1>5. \A i \in 1..(Len(o) - 1) : at(i) \in DOMAIN o \ {p}
  BY <1>1
<1>6. \A i \in DOMAIN o \ {p} : \E j \in 1..(Len(o) - 1) : at(j) = i
  <2> TAKE i \in DOMAIN o \ {p}
  <2>1. CASE i < p
    <3>1. i \in 1..(Len(o) - 1) /\ at(i) = i
      BY <1>1, <2>1
    <3>2. QED
      BY <3>1
  <2>2. CASE i > p
    <3>1. i - 1 \in 1..(Len(o) - 1) /\ at(i - 1) = i
      BY <1>1, <2>2
    <3>2. QED
      BY <3>1
  <2>3. QED
    BY <1>1, <2>1, <2>2
<1>7. ToSet(q) = ToSet(o) \ {o[p]}
  <2> HIDE DEF q, at
  <2>1. \A x \in ToSet(q) : x \in ToSet(o) \ {o[p]}
    BY <1>1, <1>4, <1>5 DEF ToSet
  <2>2. \A x \in ToSet(o) \ {o[p]} : x \in ToSet(q)
    BY <1>1, <1>4, <1>6 DEF ToSet
  <2>3. QED
    BY <2>1, <2>2
<1>8. \A i, j \in DOMAIN q : q[i] = q[j] => i = j
  <2>1. SUFFICES ASSUME NEW i \in DOMAIN q, NEW j \in DOMAIN q, q[i] = q[j]
                 PROVE  i = j
    OBVIOUS
  <2>2. at(i) = at(j)
    <3> HIDE DEF q, at
    <3> QED BY <1>4, <1>5, <2>1
  <2>3. i \in Int /\ j \in Int
    BY <1>1, <1>4
  <2>4. QED
    BY <1>1, <2>2, <2>3
<1>9. QED
  BY <1>4, <1>7, <1>8

LEMMA RemoveCabShape ==
  ASSUME Shape, NEW k \in Cab, RemoveCab(k)
  PROVE  Shape'
<1>1. CASE Refused
  BY <1>1, RefusedShape
<1>2. CASE /\ k \in Open /\ Open # {k}
           /\ cabs' = Without(Stored, k)
           /\ held' = Without(held, k)
           /\ \E i \in DOMAIN order : order[i] = k /\ order' = RemoveAt(order, i)
           /\ sel' = IF sel = k THEN order'[1] ELSE sel
           /\ live' = cabs'[sel']
           /\ sent' = {}
           /\ UNCHANGED connected
  <2>1. /\ cabs' \in [Open \ {k} -> Runtime]
        /\ held' \in [Open \ {k} -> SUBSET Fn]
    BY <1>2, StoredType DEF Without, Shape, TypeOK
  <2>2. Open' = Open \ {k}
    BY <2>1 DEF Open
  <2>3. /\ order' \in Seq(Cab)
        /\ ToSet(order') = Open \ {k}
        /\ \A i, j \in DOMAIN order' : order'[i] = order'[j] => i = j
    BY <1>2, RemovedOrder DEF Shape, TypeOK, OrderIsOpenTabs
  <2>4. order'[1] \in Open \ {k}
    <3>1. PICK x : x \in Open \ {k}
      BY <1>2
    <3>2. 1 \in DOMAIN order'
      BY <2>3, <3>1 DEF ToSet
    <3>3. QED
      BY <2>3, <3>2 DEF ToSet
  <2>5. sel' \in Open'
    BY <1>2, <2>2, <2>4 DEF Shape, TypeOK
  <2>6. TypeOK'
    BY <1>2, <2>1, <2>2, <2>3, <2>5 DEF Shape, TypeOK
  <2>7. OrderIsOpenTabs'
    BY <2>2, <2>3 DEF OrderIsOpenTabs, ToSet
  <2>8. QED
    BY <2>6, <2>7 DEF Shape
<1>3. QED
  BY <1>1, <1>2 DEF RemoveCab

LEMMA ReplaceCabShape ==
  ASSUME Shape, NEW old \in Cab, NEW next \in Cab, ReplaceCab(old, next)
  PROVE  Shape'
<1>1. CASE Refused
  BY <1>1, RefusedShape
<1>2. CASE /\ old \in Open
           /\ Loads(Without(With(Stored, next, Fresh(Stored[old].toggle)), old),
                    Without(With(held, next, {}), old), next)
           /\ order' = [i \in DOMAIN order |->
                          IF order[i] = old THEN next ELSE order[i]]
  <2> DEFINE K == (Open \cup {next}) \ {old}
             m == Without(With(Stored, next, Fresh(Stored[old].toggle)), old)
             h == Without(With(held, next, {}), old)
  <2>1. next \notin Open
    BY DEF ReplaceCab
  <2>2. K \in SUBSET Cab /\ next \in K
    BY <1>2, <2>1 DEF Shape, TypeOK
  <2>3. Fresh(Stored[old].toggle) \in Runtime
    BY <1>2, StoredType, FreshType DEF Shape, Runtime
  <2>4. m \in [K -> Runtime]
    BY <2>3, StoredType DEF Without, With, Shape
  <2>5. h \in [K -> SUBSET Fn]
    BY DEF Without, With, Shape, TypeOK
  <2>6. order \in Seq(Cab) /\ DOMAIN order = 1..Len(order) /\ Len(order) \in Nat
    BY DEF Shape, TypeOK
  <2>7. order' \in Seq(Cab) /\ DOMAIN order' = DOMAIN order
    BY <1>2, <2>6
  <2>8. \A i \in DOMAIN order : order[i] \in Open
    BY DEF Shape, OrderIsOpenTabs, ToSet
  <2>9. ToSet(order') = K
    BY <1>2, <2>1, <2>7, <2>8 DEF Shape, OrderIsOpenTabs, ToSet
  <2>10. \A i, j \in DOMAIN order' : order'[i] = order'[j] => i = j
    BY <1>2, <2>1, <2>7, <2>8 DEF Shape, OrderIsOpenTabs
  <2>11. Loads(m, h, next)
    BY <1>2
  <2>12. QED
    <3> HIDE DEF K, m, h
    <3> QED BY <2>2, <2>4, <2>5, <2>7, <2>9, <2>10, <2>11, LoadsShape
<1>3. QED
  BY <1>1, <1>2 DEF ReplaceCab

LEMMA ArrangeShape ==
  ASSUME Shape, Arrange
  PROVE  Shape'
<1>1. \A k \in Cab : AddCab(k) => Shape'
  BY StoredType, OpensInShape DEF AddCab, Shape
<1>2. QED
  BY <1>1, FocusCabShape, SelectCabShape, RemoveCabShape, ReplaceCabShape DEF Arrange

-----------------------------------------------------------------------------
(***************************************************************************)
(* Whatever the operator, the station and the connection do, the state     *)
(* stays well typed with an open tab selected.                             *)
(***************************************************************************)
LEMMA InitShape == Init => Shape
<1> SUFFICES ASSUME Init PROVE Shape
  OBVIOUS
<1>1. PICK n \in 1..Cardinality(Cab) : order \in [1..n -> Cab]
  BY DEF Init, Layouts
<1>2. n \in Nat /\ n >= 1
  BY ControllerAssumption, FS_CardinalityType DEF ControllerAssumption
<1>3. order \in Seq(Cab)
  BY <1>1, <1>2
<1>4. ToSet(order) \subseteq Cab
  BY <1>1 DEF ToSet
<1>5. Open = ToSet(order) /\ cabs \in [Open -> Runtime]
  BY FreshType DEF Init, Open
<1>6. TypeOK
  BY <1>3, <1>4, <1>5 DEF Init, TypeOK, NothingHeld, Open
<1>7. OrderIsOpenTabs
  BY <1>5 DEF Init, Layouts, OrderIsOpenTabs
<1>8. QED
  BY <1>6, <1>7 DEF Shape

LEMMA NextShape == Shape /\ [Next]_vars => Shape'
<1> SUFFICES ASSUME Shape, [Next]_vars PROVE Shape'
  OBVIOUS
<1>1. CASE Slide
  BY <1>1, SlideShape
<1>2. CASE Report
  BY <1>2, ReportShape
<1>3. CASE Rest
  BY <1>3, OperateShape, ArrangeShape, AttachShape, DetachShape, CommandShape,
     TickShape, ElapseShape DEF Rest
<1>4. CASE UNCHANGED vars
  BY <1>4 DEF vars, Shape, TypeOK, OrderIsOpenTabs, Open, ToSet
<1>5. QED
  BY <1>1, <1>2, <1>3, <1>4 DEF Next

(***************************************************************************)
(* Every state is well typed, the selected tab among the open ones (the    *)
(* fields and c.cabs of controller.go:42), for any number of locomotives.  *)
(***************************************************************************)
THEOREM TypeCorrect == Spec => []TypeOK
<1>1. Shape => TypeOK
  BY DEF Shape
<1>2. QED
  BY <1>1, InitShape, NextShape, PTL DEF Spec

(***************************************************************************)
(* c.order lists each open locomotive exactly once, however tabs are       *)
(* opened, closed and reassigned (cabs.go:84, 115, 149).                   *)
(***************************************************************************)
THEOREM OrderCorrect == Spec => []OrderIsOpenTabs
<1>1. Shape => OrderIsOpenTabs
  BY DEF Shape
<1>2. QED
  BY <1>1, InitShape, NextShape, PTL DEF Spec

-----------------------------------------------------------------------------
(***************************************************************************)
(* The safety invariants are inductive together with the shape of the      *)
(* state, once stated of both copies of the selected locomotive: while the *)
(* connection is down the live record and every entry of cabs are idle,    *)
(* the stale one too, and what each tab shows (Stored) is consistent in    *)
(* itself.                                                                 *)
(***************************************************************************)
\* Nothing of a connection is left in r.
Idle(r) == r.pending = None /\ ~r.lastKnown

\* What r shows, what it wants to send and what it last exchanged agree.
Consistent(r) ==
  /\ r.pending \in {None, r.speed}
  /\ ~Embedder /\ r.lastKnown =>
       /\ r.lastDir = r.dir
       /\ r.pending = None => r.lastSpeed = r.speed

\* The throttle commands of "out" are what the tabs t show.
Matches(out, t) ==
  \A m \in out :
    m.op = "throttle" =>
      m.cab \in DOMAIN t /\ m.speed = t[m.cab].speed /\ m.dir = t[m.cab].dir

IdleOffline ==
  ~connected => /\ Idle(live)
                /\ \A k \in Open : Idle(cabs[k]) /\ held[k] = {}

Safe ==
  /\ Shape
  /\ IdleOffline
  /\ \A k \in Open : Consistent(Stored[k])
  /\ Matches(sent, Stored)

-----------------------------------------------------------------------------
(***************************************************************************)
(* Records.                                                                *)
(***************************************************************************)
LEMMA FreshSafe ==
  ASSUME NEW t
  PROVE  Idle(Fresh(t)) /\ Consistent(Fresh(t))
BY DEF Fresh, Idle, Consistent

LEMMA DroppedSafe ==
  ASSUME NEW r \in Runtime
  PROVE  /\ Idle(Dropped(r)) /\ Consistent(Dropped(r))
         /\ Dropped(r).speed = r.speed /\ Dropped(r).dir = r.dir
BY DEF Dropped, Idle, Consistent, Runtime

LEMMA TickedSafe ==
  ASSUME NEW r \in Runtime, Consistent(r)
  PROVE  /\ Consistent(Ticked(r))
         /\ Ticked(r).speed = r.speed /\ Ticked(r).dir = r.dir
         /\ Due(r) => r.pending = r.speed
<1>1. CASE Due(r)
  <2>1. Ticked(r) = [Transmitted(r, r.pending, r.dir) EXCEPT !.pending = None]
    BY <1>1 DEF Ticked, Due
  <2>2. r.pending = r.speed
    BY <1>1 DEF Due, Obsolete, Consistent
  <2>3. QED
    BY <2>1, <2>2 DEF Transmitted, Runtime, Consistent
<1>2. CASE ~Due(r) /\ r.pending # None /\ Obsolete(r)
  BY <1>2 DEF Ticked, Due, Obsolete, Runtime, Consistent
<1>3. CASE ~Due(r) /\ ~(r.pending # None /\ Obsolete(r))
  BY <1>3 DEF Ticked, Due
<1>4. QED
  BY <1>1, <1>2, <1>3

LEMMA HaltedSafe ==
  ASSUME NEW r \in Runtime, Consistent(r)
  PROVE  Consistent(Halted(r))
BY DEF Halted, Runtime, Consistent

LEMMA HaltedHereSafe ==
  ASSUME NEW r \in Runtime, Consistent(r)
  PROVE  Consistent([Halted(r) EXCEPT !.lastDir = r.dir, !.lastKnown = TRUE])
BY DEF Halted, Runtime, Consistent

-----------------------------------------------------------------------------
(***************************************************************************)
(* Families of steps.                                                      *)
(***************************************************************************)
\* A step that reloads the live record from the map leaves no stale entry.
LEMMA Reloaded ==
  ASSUME Shape', live' = cabs'[sel']
  PROVE  Stored' = cabs'
BY DEF Stored, Shape, TypeOK, Open

LEMMA StoredIdle ==
  ASSUME Safe, ~connected
  PROVE  \A k \in Open : Idle(Stored[k])
BY StoredType DEF Safe, Shape, IdleOffline

LEMMA LeavesSafe ==
  ASSUME Safe, Shape', NEW k \in Open, NEW r, NEW out, Leaves(k, r, out),
         Consistent(r), Matches(out, [j \in {k} |-> r]),
         ~connected => Idle(r) /\ \A j \in Open : held'[j] = {}
  PROVE  Safe'
<1>1. /\ cabs' = [Stored EXCEPT ![k] = r] /\ live' = cabs'[sel']
      /\ connected' = connected /\ sel' = sel /\ sent' = out
  BY DEF Leaves
<1>2. Stored' = cabs' /\ Open' = Open
  <2>1. DOMAIN cabs' = Open
    BY <1>1, StoredType DEF Safe, Shape
  <2>2. QED
    BY <1>1, <2>1, Reloaded DEF Open
<1>3. \A j \in Open : Stored'[j] = IF j = k THEN r ELSE Stored[j]
  BY <1>1, <1>2, StoredType DEF Safe, Shape
<1>4. IdleOffline'
  <2>1. SUFFICES ASSUME ~connected
                 PROVE  /\ Idle(live)'
                        /\ \A j \in Open : Idle(cabs'[j]) /\ held'[j] = {}
    BY <1>1, <1>2 DEF IdleOffline
  <2>2. \A j \in Open : Idle(cabs'[j])
    BY <1>2, <1>3, <2>1, StoredIdle
  <2>3. sel \in Open
    BY DEF Safe, Shape, TypeOK
  <2>4. Idle(live')
    BY <1>1, <2>2, <2>3
  <2>5. QED
    BY <2>1, <2>2, <2>4 DEF Idle
<1>5. (\A j \in Open : Consistent(Stored[j]))'
  BY <1>2, <1>3 DEF Safe, Consistent
<1>6. Matches(sent, Stored)'
  BY <1>1, <1>2, <1>3 DEF Matches, Open
<1>7. QED
  BY <1>4, <1>5, <1>6 DEF Safe

LEMMA DroppedAllSafe ==
  ASSUME NEW K, NEW m \in [K -> Runtime]
  PROVE  /\ DroppedAll(m) \in [K -> Runtime]
         /\ \A j \in K : /\ Idle(DroppedAll(m)[j]) /\ Consistent(DroppedAll(m)[j])
                         /\ DroppedAll(m)[j].speed = m[j].speed
                         /\ DroppedAll(m)[j].dir = m[j].dir
BY DroppedAllType, DroppedSafe DEF DroppedAll

LEMMA FailsSafe ==
  ASSUME Safe, Shape', NEW m \in [Open -> Runtime], NEW out, Fails(m, out),
         Matches(out, m)
  PROVE  Safe'
<1>1. /\ cabs' = DroppedAll(m) /\ live' = cabs'[sel'] /\ sel' = sel
      /\ held' = NothingHeld(Open) /\ sent' = out
  BY DEF Fails
<1>2. Stored' = cabs' /\ Open' = Open
  <2>1. DOMAIN cabs' = Open
    BY <1>1, DroppedAllSafe
  <2>2. QED
    BY <1>1, <2>1, Reloaded DEF Open
<1>3. sel \in Open
  BY DEF Safe, Shape, TypeOK
<1>4. IdleOffline'
  BY <1>1, <1>2, <1>3, DroppedAllSafe DEF IdleOffline, NothingHeld, Idle
<1>5. (\A j \in Open : Consistent(Stored[j]))'
  BY <1>1, <1>2, DroppedAllSafe DEF Consistent
<1>6. Matches(sent, Stored)'
  BY <1>1, <1>2, DroppedAllSafe DEF Matches, Open
<1>7. QED
  BY <1>4, <1>5, <1>6 DEF Safe

LEMMA LoadsSafe ==
  ASSUME Safe, Shape', NEW K, NEW k \in K, NEW m \in [K -> Runtime], NEW h,
         Loads(m, h, k),
         \A j \in K : /\ Consistent(m[j])
                      /\ ~connected => Idle(m[j]) /\ h[j] = {}
  PROVE  Safe'
<1>1. /\ sel' = k
      /\ \A x \in sent' : x.op # "throttle"
  BY DEF Loads, Query
<1>2. CASE /\ cabs' = m /\ live' = m[k] /\ held' = h
           /\ UNCHANGED connected
  <2>1. Stored' = cabs' /\ Open' = K
    BY <1>1, <1>2, Reloaded DEF Open
  <2>2. IdleOffline'
    BY <1>2, <2>1 DEF IdleOffline, Idle
  <2>3. (\A j \in Open : Consistent(Stored[j]))'
    BY <1>2, <2>1 DEF Consistent
  <2>4. Matches(sent, Stored)'
    BY <1>1 DEF Matches
  <2>5. QED
    BY <2>2, <2>3, <2>4 DEF Safe
<1>3. CASE /\ connected' = FALSE
           /\ cabs' = DroppedAll(m) /\ live' = Dropped(m[k])
           /\ held' = NothingHeld(DOMAIN m)
  <2>1. live' = cabs'[k]
    BY <1>3 DEF DroppedAll
  <2>2. Stored' = cabs' /\ Open' = K
    BY <1>1, <1>3, <2>1, DroppedAllSafe, Reloaded DEF Open
  <2>3. IdleOffline'
    BY <1>3, <2>1, <2>2, DroppedAllSafe DEF IdleOffline, NothingHeld, Idle
  <2>4. (\A j \in Open : Consistent(Stored[j]))'
    BY <1>3, <2>2, DroppedAllSafe DEF Consistent
  <2>5. Matches(sent, Stored)'
    BY <1>1 DEF Matches
  <2>6. QED
    BY <2>3, <2>4, <2>5 DEF Safe
<1>4. QED
  BY <1>2, <1>3 DEF Loads

-----------------------------------------------------------------------------
(***************************************************************************)
(* Operations on one tab.                                                  *)
(***************************************************************************)
\* What an operation starts from.
LEMMA Start ==
  ASSUME Safe, NEW k \in Open
  PROVE  /\ Stored \in [Open -> Runtime]
         /\ Stored[k] \in Runtime /\ Consistent(Stored[k])
         /\ ~connected => Idle(Stored[k])
         /\ ~connected => \A j \in Open : held[j] = {}
         /\ TypeOK
BY StoredType, StoredIdle DEF Safe, Shape, IdleOffline

LEMMA NoThrottle ==
  ASSUME NEW t, NEW out, \A m \in out : m.op # "throttle"
  PROVE  Matches(out, t)
BY DEF Matches

LEMMA SlideSafe ==
  ASSUME Safe, Slide
  PROVE  Safe'
<1>1. PICK k \in Open, s \in Speed : MoveSpeed(k, s)
  BY DEF Slide
<1> DEFINE r == [Stored[k] EXCEPT !.speed = s,
                                  !.pending = IF connected THEN s ELSE None]
<1>2. Consistent(r) /\ (~connected => Idle(r))
  BY Start, Constants DEF Runtime, Consistent, Idle
<1>3. Shape'
  BY SlideShape DEF Safe
<1>4. Matches({}, [j \in {k} |-> r])
  BY NoThrottle
<1>5. Leaves(k, r, {}) /\ held' = held
  BY <1>1 DEF MoveSpeed
<1>6. QED
  BY <1>2, <1>3, <1>4, <1>5, Start, LeavesSafe

LEMMA SetDirectionSafe ==
  ASSUME Safe, NEW k \in Open, NEW d \in Dir, SetDirection(k, d)
  PROVE  Safe'
<1> DEFINE r == Stored[k]
           t == [Transmitted(r, r.speed, d) EXCEPT !.dir = d]
<1>1. Shape'
  BY SetDirectionShape DEF Safe
<1>2. CASE Fails(Stored, {})
  BY <1>1, <1>2, Start, NoThrottle, FailsSafe
<1>3. CASE Leaves(k, r, {}) /\ UNCHANGED held
  <2>1. Matches({}, [j \in {k} |-> r])
    BY NoThrottle
  <2>2. QED
    BY <1>1, <1>3, <2>1, Start, LeavesSafe
<1>4. CASE connected /\ Leaves(k, t, {Throttle(k, r.speed, d)}) /\ UNCHANGED held
  <2>1. Consistent(t)
    BY Start DEF Transmitted, Runtime, Consistent
  <2>2. t.speed = r.speed /\ t.dir = d
    BY Start DEF Transmitted, Runtime
  <2>3. Matches({Throttle(k, r.speed, d)}, [j \in {k} |-> t])
    BY <2>2 DEF Matches, Throttle
  <2>4. QED
    BY <1>1, <1>4, <2>1, <2>3, LeavesSafe
<1>5. QED
  BY <1>2, <1>3, <1>4 DEF SetDirection

LEMMA StopSafe ==
  ASSUME Safe, NEW k \in Open, Stop(k)
  PROVE  Safe'
<1> DEFINE r == [Stored[k] EXCEPT !.pending = None]
           t == [Transmitted(r, 0, r.dir) EXCEPT !.speed = 0]
<1>1. Shape'
  BY StopShape DEF Safe
<1>2. CASE Fails(Stored, {})
  BY <1>1, <1>2, Start, NoThrottle, FailsSafe
<1>3. CASE ~connected /\ Leaves(k, r, {}) /\ UNCHANGED held
  <2>1. Matches({}, [j \in {k} |-> r])
    BY NoThrottle
  <2>2. Consistent(r) /\ Idle(r)
    BY <1>3, Start DEF Runtime, Consistent, Idle
  <2>3. QED
    BY <1>1, <1>3, <2>1, <2>2, Start, LeavesSafe
<1>4. CASE connected /\ Leaves(k, t, {Throttle(k, 0, r.dir)}) /\ UNCHANGED held
  <2>1. Consistent(t)
    BY Start DEF Transmitted, Runtime, Consistent
  <2>2. t.speed = 0 /\ t.dir = r.dir
    BY Start DEF Transmitted, Runtime
  <2>3. Matches({Throttle(k, 0, r.dir)}, [j \in {k} |-> t])
    BY <2>2 DEF Matches, Throttle
  <2>4. QED
    BY <1>1, <1>4, <2>1, <2>3, LeavesSafe
<1>5. QED
  BY <1>2, <1>3, <1>4 DEF Stop

\* A step that rewrites every tab and reloads the live record.
LEMMA RewritesSafe ==
  ASSUME Safe, Shape', NEW m \in [Open -> Runtime], cabs' = m,
         live' = cabs'[sel], sel' = sel, Matches(sent', m),
         \A j \in Open : Consistent(m[j]),
         ~connected' => \A j \in Open : Idle(m[j]) /\ held'[j] = {}
  PROVE  Safe'
<1>1. Stored' = m /\ Open' = Open
  BY Reloaded DEF Open
<1>2. sel \in Open
  BY DEF Safe, Shape, TypeOK
<1>3. IdleOffline'
  BY <1>1, <1>2 DEF IdleOffline, Idle
<1>4. (\A j \in Open : Consistent(Stored[j]))'
  BY <1>1 DEF Consistent
<1>5. Matches(sent, Stored)'
  BY <1>1 DEF Matches
<1>6. QED
  BY <1>3, <1>4, <1>5 DEF Safe

LEMMA EmergencySafe ==
  ASSUME Safe, NEW k \in Open, Emergency(k)
  PROVE  Safe'
<1> DEFINE pressedIn == [Halted(Stored[k]) EXCEPT !.lastDir = Stored[k].dir,
                                                  !.lastKnown = TRUE]
           halt == [j \in Open |-> IF j = k THEN pressedIn ELSE Halted(Stored[j])]
           drop == [j \in Open |-> [Stored[j] EXCEPT !.pending = None]]
<1>1. Shape'
  BY EmergencyShape DEF Safe
<1>2. \A j \in Open : Stored[j] \in Runtime /\ Consistent(Stored[j])
  BY Start
<1>3. CASE Fails(Stored, {})
  BY <1>1, <1>3, Start, NoThrottle, FailsSafe
<1>4. CASE /\ connected /\ cabs' = halt /\ live' = cabs'[sel]
           /\ sent' = {EStop} /\ UNCHANGED <<connected, sel, order, held>>
  <2>1. pressedIn \in Runtime /\ Consistent(pressedIn)
    <3>1. Halted(Stored[k]) \in Runtime /\ Stored[k].dir \in Dir
      BY <1>2, HaltedType DEF Runtime
    <3>2. pressedIn \in Runtime
      BY <3>1, WithLastDirType
    <3>3. QED
      BY <1>2, <3>1, <3>2, HaltedHereSafe
  <2>2. \A j \in Open : halt[j] \in Runtime /\ Consistent(halt[j])
    BY <1>2, <2>1, HaltedType, HaltedSafe
  <2>3. Matches(sent', halt)
    BY <1>4 DEF Matches, EStop
  <2> HIDE DEF halt
  <2>4. halt \in [Open -> Runtime]
    BY <2>2 DEF halt
  <2>5. QED
    BY <1>1, <1>4, <2>2, <2>3, <2>4, RewritesSafe
<1>5. CASE /\ ~connected /\ cabs' = drop /\ live' = cabs'[sel]
           /\ sent' = {} /\ UNCHANGED <<connected, sel, order, held>>
  <2>1. \A j \in Open : /\ drop[j] \in Runtime /\ Consistent(drop[j])
                        /\ Idle(drop[j]) /\ held'[j] = {}
    BY <1>2, <1>5, Start DEF Runtime, Consistent, Idle
  <2>2. Matches(sent', drop)
    BY <1>5, NoThrottle
  <2> HIDE DEF drop
  <2>3. drop \in [Open -> Runtime]
    BY <2>1 DEF drop
  <2>4. QED
    BY <1>1, <1>5, <2>1, <2>2, <2>3, RewritesSafe
<1>6. QED
  BY <1>3, <1>4, <1>5 DEF Emergency

LEMMA SetToggleSafe ==
  ASSUME Safe, NEW k \in Open, NEW f \in Fn, NEW on \in BOOLEAN,
         SetToggle(k, f, on)
  PROVE  Safe'
<1> DEFINE r == [Stored[k] EXCEPT !.toggle = IF on THEN @ \cup {f} ELSE @ \ {f}]
<1>1. Shape'
  BY SetToggleShape DEF Safe
<1>2. Consistent(r) /\ (~connected => Idle(r))
  BY Start DEF Runtime, Consistent, Idle
<1>3. Leaves(k, r, {}) /\ held' = held
  BY DEF SetToggle
<1>4. Matches({}, [j \in {k} |-> r])
  BY NoThrottle
<1>5. QED
  BY <1>1, <1>2, <1>3, <1>4, Start, LeavesSafe

\* Lights and sounds do not enter into it.
LEMMA FunctionsApart ==
  ASSUME NEW r \in Runtime, Consistent(r), NEW F
  PROVE  Consistent([r EXCEPT !.fns = F])
BY DEF Runtime, Consistent

LEMMA FunctionSafe ==
  ASSUME Safe, NEW k \in Open, NEW f \in Fn, NEW pressed \in BOOLEAN,
         Function(k, f, pressed)
  PROVE  Safe'
<1> DEFINE r == Stored[k]
           latch == Latches(k, f, pressed)
           on == IF latch THEN f \notin r.fns ELSE pressed
           flipped == IF on THEN r.fns \cup {f} ELSE r.fns \ {f}
           t == IF latch THEN [r EXCEPT !.fns = flipped] ELSE r
<1>1. Shape'
  BY FunctionShape DEF Safe
<1>2. CASE Fails(Stored, {})
  BY <1>1, <1>2, Start, NoThrottle, FailsSafe
<1>3. CASE Leaves(k, r, {}) /\ UNCHANGED held
  <2>1. Matches({}, [j \in {k} |-> r])
    BY NoThrottle
  <2>2. QED
    BY <1>1, <1>3, <2>1, Start, LeavesSafe
<1>4. CASE connected /\ Leaves(k, t, {FnSet(k, f, on)})
  <2>1. Consistent(t)
    BY Start, FunctionsApart
  <2>2. Matches({FnSet(k, f, on)}, [j \in {k} |-> t])
    BY DEF Matches, FnSet
  <2> HIDE DEF t, on
  <2>3. QED
    BY <1>1, <1>4, <2>1, <2>2, LeavesSafe
<1>5. QED
  BY <1>2, <1>3, <1>4 DEF Function

LEMMA AllFunctionsOffSafe ==
  ASSUME Safe, NEW k \in Open, AllFunctionsOff(k)
  PROVE  Safe'
<1> DEFINE r == Stored[k]
           t == [r EXCEPT !.fns = {}]
           off(F) == {FnSet(k, f, FALSE) : f \in F}
<1>1. Shape'
  BY AllFunctionsOffShape DEF Safe
<1>2. \A F, m : Matches(off(F), m)
  BY DEF Matches, FnSet
<1>3. CASE \E f \in r.fns :
             Fails([Stored EXCEPT ![k].fns = {g \in r.fns : g >= f}],
                   off({g \in r.fns : g < f}))
  <2>1. PICK f \in r.fns :
          Fails([Stored EXCEPT ![k].fns = {g \in r.fns : g >= f}],
                off({g \in r.fns : g < f}))
    BY <1>3
  <2> DEFINE m == [Stored EXCEPT ![k].fns = {g \in r.fns : g >= f}]
             out == off({g \in r.fns : g < f})
  <2>2. m \in [Open -> Runtime]
    BY Start DEF Runtime
  <2>3. Matches(out, m) /\ Fails(m, out)
    BY <1>2, <2>1
  <2> HIDE DEF m, out
  <2>4. QED
    BY <1>1, <2>2, <2>3, FailsSafe
<1>4. CASE Leaves(k, r, {}) /\ UNCHANGED held
  <2>1. Matches({}, [j \in {k} |-> r])
    BY NoThrottle
  <2>2. QED
    BY <1>1, <1>4, <2>1, Start, LeavesSafe
<1>5. CASE connected /\ Leaves(k, t, off(r.fns))
  <2>1. Consistent(t)
    BY Start, FunctionsApart
  <2>2. Matches(off(r.fns), [j \in {k} |-> t])
    BY <1>2
  <2> HIDE DEF t, off
  <2>3. QED
    BY <1>1, <1>5, <2>1, <2>2, LeavesSafe
<1>6. QED
  BY <1>3, <1>4, <1>5 DEF AllFunctionsOff

LEMMA OperateSafe ==
  ASSUME Safe, NEW k \in Open, Operate(k)
  PROVE  Safe'
BY SetDirectionSafe, StopSafe, EmergencySafe, AllFunctionsOffSafe,
   SetToggleSafe, FunctionSafe DEF Operate

-----------------------------------------------------------------------------
(***************************************************************************)
(* The clock, the station and the connection.                              *)
(***************************************************************************)
\* What a tick sends from a set of tabs is what they show, and go on showing.
LEMMA DueIsShown ==
  ASSUME Safe, NEW K \in SUBSET Open
  PROVE  /\ TickedIn(K) \in [Open -> Runtime]
         /\ \A j \in Open : Consistent(TickedIn(K)[j])
         /\ Matches(DueThrottles(K), TickedIn(K))
<1>1. \A j \in Open : Stored[j] \in Runtime /\ Consistent(Stored[j])
  BY Start
<1>2. TickedIn(K) \in [Open -> Runtime]
  BY TickedInType DEF Safe, Shape
<1>3. \A j \in Open : /\ Consistent(TickedIn(K)[j])
                      /\ TickedIn(K)[j].speed = Stored[j].speed
                      /\ TickedIn(K)[j].dir = Stored[j].dir
  BY <1>1, TickedSafe DEF TickedIn
<1>4. ASSUME NEW x \in DueThrottles(K)
      PROVE  /\ x.cab \in Open
             /\ x.speed = Stored[x.cab].speed /\ x.dir = Stored[x.cab].dir
  <2>1. PICK j \in K : Due(Stored[j])
                       /\ x = Throttle(j, Stored[j].pending, Stored[j].dir)
    BY DEF DueThrottles
  <2>2. x.cab = j /\ x.speed = Stored[j].pending /\ x.dir = Stored[j].dir
    BY <2>1 DEF Throttle
  <2>3. Stored[j].pending = Stored[j].speed
    BY <1>1, <2>1, TickedSafe
  <2>4. QED
    BY <2>2, <2>3
<1>5. DOMAIN TickedIn(K) = Open
  BY DEF TickedIn
<1>6. Matches(DueThrottles(K), TickedIn(K))
  BY <1>3, <1>4, <1>5 DEF Matches
<1>7. QED
  BY <1>2, <1>3, <1>6

LEMMA TickSafe ==
  ASSUME Safe, Tick
  PROVE  Safe'
<1>1. Shape'
  BY TickShape DEF Safe
<1>2. ToSet(order) = Open
  BY DEF Safe, Shape, OrderIsOpenTabs
<1>3. CASE \E i \in DOMAIN order :
             LET passed == {order[j] : j \in 1..(i - 1)}
             IN /\ Due(Stored[order[i]])
                /\ Fails(TickedIn(passed), DueThrottles(passed))
  <2>1. PICK i \in DOMAIN order :
          LET passed == {order[j] : j \in 1..(i - 1)}
          IN Fails(TickedIn(passed), DueThrottles(passed))
    BY <1>3
  <2> DEFINE passed == {order[j] : j \in 1..(i - 1)}
  <2>2. i \in 1..Len(order) /\ Len(order) \in Nat
    BY DEF Safe, Shape, TypeOK
  <2>3. \A j \in 1..(i - 1) : j \in DOMAIN order
    BY <2>2 DEF Safe, Shape, TypeOK
  <2>4. passed \in SUBSET Open
    BY <1>2, <2>3 DEF ToSet
  <2> HIDE DEF passed
  <2>5. QED
    BY <1>1, <2>1, <2>4, DueIsShown, FailsSafe DEF passed
<1>4. CASE /\ cabs' = IF connected THEN TickedIn(ToSet(order)) ELSE Stored
           /\ live' = cabs'[sel]
           /\ sent' = IF connected THEN DueThrottles(ToSet(order)) ELSE {}
           /\ UNCHANGED <<connected, sel, held, order>>
  <2>1. CASE connected
    <3>1. cabs' = TickedIn(Open) /\ sent' = DueThrottles(Open)
      BY <1>2, <1>4, <2>1
    <3>2. QED
      BY <1>1, <1>4, <2>1, <3>1, DueIsShown, RewritesSafe
  <2>2. CASE ~connected
    <3>1. cabs' = Stored /\ sent' = {}
      BY <1>4, <2>2
    <3>2. \A j \in Open : Consistent(Stored[j]) /\ Idle(Stored[j]) /\ held'[j] = {}
      BY <1>4, <2>2, Start
    <3>3. Matches(sent', Stored)
      BY <3>1, NoThrottle
    <3>4. Stored \in [Open -> Runtime]
      BY StoredType DEF Safe, Shape
    <3>5. QED
      BY <1>1, <1>4, <3>1, <3>2, <3>3, <3>4, RewritesSafe
  <2>3. QED
    BY <2>1, <2>2
<1>5. QED
  BY <1>3, <1>4 DEF Tick

LEMMA OlderSafe ==
  ASSUME NEW r \in Runtime
  PROVE  /\ Consistent(r) => Consistent(Older(r))
         /\ Idle(r) => Idle(Older(r))
BY DEF Older, Runtime, Consistent, Idle

\* Stored of the aged copies is the aged Stored.
LEMMA ElapseSafe ==
  ASSUME Safe, Elapse
  PROVE  Safe'
<1>1. Shape'
  BY ElapseShape DEF Safe
<1>2. /\ live \in Runtime /\ cabs \in [Open -> Runtime] /\ sel \in Open
      /\ Stored \in [Open -> Runtime]
  BY StoredType DEF Safe, Shape, TypeOK
<1>3. Open' = Open
  BY DEF Elapse, Open
<1>4. \A j \in Open : Stored'[j] = Older(Stored[j])
  BY <1>2, <1>3 DEF Elapse, Stored, Open
<1>5. IdleOffline'
  BY <1>2, <1>3, OlderSafe DEF Elapse, Safe, IdleOffline
<1>6. (\A j \in Open : Consistent(Stored[j]))'
  <2>1. \A j \in Open : Consistent(Older(Stored[j]))
    BY <1>2, OlderSafe DEF Safe
  <2>2. QED
    BY <1>3, <1>4, <2>1 DEF Consistent
<1>7. Matches(sent, Stored)'
  BY DEF Elapse, Matches
<1>8. QED
  BY <1>1, <1>5, <1>6, <1>7 DEF Safe

LEMMA ReportedSafe ==
  ASSUME NEW r \in Runtime, NEW s \in Speed, NEW d \in Dir, NEW F \in SUBSET Fn
  PROVE  Consistent(Reported(r, s, d, F))
BY DEF Reported, Runtime, Consistent

LEMMA ReportSafe ==
  ASSUME Safe, Report
  PROVE  Safe'
<1>1. Shape'
  BY ReportShape DEF Safe
<1>2. PICK k \in Open, s \in Speed, d \in Dir, F \in SUBSET Fn : Receive(k, s, d, F)
  BY DEF Report
<1>3. CASE k = sel
  <2>1. /\ live' = Reported(live, s, d, F) /\ sent' = {} /\ connected /\ connected'
        /\ sel' = sel /\ cabs' = cabs /\ sel \in Open /\ live \in Runtime
    BY <1>2, <1>3 DEF Receive, Safe, Shape, TypeOK
  <2>2. Consistent(live')
    BY <2>1, ReportedSafe
  <2>3. (\A j \in Open : Consistent(Stored[j]))'
    <3>1. \A j \in Open : Stored'[j] = IF j = sel THEN live' ELSE Stored[j]
      BY <2>1 DEF Stored, Safe, Shape, TypeOK, Open
    <3>2. Open' = Open
      BY <2>1 DEF Open
    <3>3. QED
      BY <2>2, <3>1, <3>2 DEF Safe, Consistent
  <2>4. IdleOffline' /\ Matches(sent, Stored)'
    BY <2>1 DEF IdleOffline, Matches
  <2>5. QED
    BY <1>1, <2>3, <2>4 DEF Safe
<1>4. CASE k # sel
  <2> DEFINE r == Reported(Stored[k], s, d, F)
  <2>1. connected /\ Leaves(k, r, {})
    BY <1>2, <1>4 DEF Receive
  <2>2. Consistent(r)
    BY Start, ReportedSafe
  <2>3. Matches({}, [j \in {k} |-> r])
    BY NoThrottle
  <2> HIDE DEF r
  <2>4. QED
    BY <1>1, <2>1, <2>2, <2>3, LeavesSafe
<1>5. QED
  BY <1>3, <1>4

\* A step that drops everything known of the connection, in both copies.
LEMMA DropsSafe ==
  ASSUME Safe, Shape', live' = Dropped(live), cabs' = DroppedAll(cabs),
         held' = NothingHeld(Open), sel' = sel,
         \A x \in sent' : x.op # "throttle"
  PROVE  Safe'
<1>1. live \in Runtime /\ cabs \in [Open -> Runtime] /\ sel \in Open
  BY DEF Safe, Shape, TypeOK
<1>2. Open' = Open
  BY <1>1, DroppedAllSafe DEF Open
<1>3. IdleOffline'
  BY <1>1, <1>2, DroppedSafe, DroppedAllSafe DEF IdleOffline, NothingHeld, Idle
<1>4. \A j \in Open : Stored'[j] = IF j = sel THEN Dropped(live) ELSE cabs'[j]
  BY <1>1, <1>2 DEF Stored, Open
<1>5. \A j \in Open : Consistent(IF j = sel THEN Dropped(live) ELSE cabs'[j])
  BY <1>1, DroppedSafe, DroppedAllSafe
<1>6. (\A j \in Open : Consistent(Stored[j]))'
  BY <1>2, <1>4, <1>5 DEF Consistent
<1>7. Matches(sent, Stored)'
  BY DEF Matches
<1>8. QED
  BY <1>3, <1>6, <1>7 DEF Safe

LEMMA DetachSafe ==
  ASSUME Safe, Detach
  PROVE  Safe'
BY DetachShape, DropsSafe DEF Detach, Safe

LEMMA AttachSafe ==
  ASSUME Safe, Attach
  PROVE  Safe'
<1>1. \A x \in sent' : x.op # "throttle"
  BY DEF Attach, Queried, Query, Other
<1>2. QED
  BY <1>1, AttachShape, DropsSafe DEF Attach, Safe

LEMMA CommandSafe ==
  ASSUME Safe, Command
  PROVE  Safe'
<1>1. Shape'
  BY CommandShape DEF Safe
<1>2. Stored' = Stored /\ Open' = Open /\ IdleOffline'
  BY DEF Command, Stored, Open, Safe, IdleOffline, Idle
<1>3. Matches(sent, Stored)'
  BY DEF Command, Matches, Other
<1>4. QED
  BY <1>1, <1>2, <1>3 DEF Safe, Consistent

-----------------------------------------------------------------------------
(***************************************************************************)
(* Opening, selecting, closing and reassigning tabs.                       *)
(***************************************************************************)
LEMMA OpensInSafe ==
  ASSUME Safe, Shape', NEW k \in Cab \ Open, NEW m \in [Open -> Runtime], OpensIn(m, k),
         \A j \in Open : Consistent(m[j]) /\ (~connected => Idle(m[j]))
  PROVE  Safe'
<1> DEFINE K == Open \cup {k}
           n == With(m, k, Fresh(DefaultToggle))
           h == With(held, k, {})
<1>1. n \in [K -> Runtime]
  BY Constants, FreshType DEF With
<1>2. \A j \in K : Consistent(n[j]) /\ (~connected => Idle(n[j]) /\ h[j] = {})
  BY FreshSafe DEF With, Safe, Shape, TypeOK, IdleOffline
<1>3. Loads(n, h, k) /\ k \in K
  BY DEF OpensIn
<1> HIDE DEF K, n, h
<1>4. QED
  BY <1>1, <1>2, <1>3, LoadsSafe

LEMMA AddCabSafe ==
  ASSUME Safe, NEW k \in Cab, AddCab(k)
  PROVE  Safe'
<1>1. k \in Cab \ Open /\ OpensIn(Stored, k)
  BY DEF AddCab
<1>2. Stored \in [Open -> Runtime]
  BY StoredType DEF Safe, Shape
<1>3. Shape'
  BY <1>1, <1>2, OpensInShape DEF Safe
<1>4. QED
  BY <1>1, <1>2, <1>3, Start, OpensInSafe

LEMMA FocusCabSafe ==
  ASSUME Safe, NEW k \in Cab, FocusCab(k)
  PROVE  Safe'
<1>1. k \in Open /\ Loads(Stored, held, k)
  BY DEF FocusCab
<1>2. Shape'
  BY FocusCabShape DEF Safe
<1>3. QED
  BY <1>1, <1>2, Start, LoadsSafe

\* What SelectCab leaves unsent is why SettledIsExchanged is claimed without it.
LEMMA SelectCabSafe ==
  ASSUME Safe, NEW k \in Cab, SelectCab(k)
  PROVE  Safe'
<1> DEFINE m == [Stored EXCEPT ![sel].pending = None]
<1>1. Shape'
  BY SelectCabShape DEF Safe
<1>2. sel \in Open /\ Embedder
  BY DEF Safe, Shape, TypeOK, SelectCab
<1>3. Stored[sel] \in Runtime /\ Consistent([Stored[sel] EXCEPT !.pending = None])
      /\ (~connected => Idle([Stored[sel] EXCEPT !.pending = None]))
  BY <1>2, Start DEF Consistent, Idle, Runtime
<1>4. m \in [Open -> Runtime]
  BY <1>2, Start DEF Runtime
<1>5. \A j \in Open : m[j] = IF j = sel THEN [Stored[sel] EXCEPT !.pending = None]
                                        ELSE Stored[j]
  BY Start
<1>6. \A j \in Open : Consistent(m[j]) /\ (~connected => Idle(m[j]) /\ held[j] = {})
  BY <1>3, <1>5, Start
<1>7. \/ k \in Open /\ Loads(m, held, k)
      \/ k \in Cab \ Open /\ OpensIn(m, k)
  BY DEF SelectCab
<1> HIDE DEF m
<1>8. QED
  BY <1>1, <1>4, <1>6, <1>7, LoadsSafe, OpensInSafe

LEMMA RefusedSafe ==
  ASSUME Safe, Refused
  PROVE  Safe'
<1>1. Shape'
  BY RefusedShape DEF Safe
<1>2. /\ cabs' = Stored /\ live' = cabs'[sel] /\ sent' = {}
      /\ connected' = connected /\ sel' = sel /\ held' = held
  BY StoredType DEF Refused, Safe, Shape
<1>3. Matches(sent', Stored)
  BY <1>2, NoThrottle
<1>4. /\ \A j \in Open : Consistent(Stored[j])
      /\ ~connected' => \A j \in Open : Idle(Stored[j]) /\ held'[j] = {}
  BY <1>2, Start
<1>5. Stored \in [Open -> Runtime]
  BY StoredType DEF Safe, Shape
<1>6. QED
  BY <1>1, <1>2, <1>3, <1>4, <1>5, RewritesSafe

LEMMA RemoveCabSafe ==
  ASSUME Safe, NEW k \in Cab, RemoveCab(k)
  PROVE  Safe'
<1>1. Shape'
  BY RemoveCabShape DEF Safe
<1>2. CASE /\ cabs' = Without(Stored, k) /\ held' = Without(held, k)
           /\ live' = cabs'[sel'] /\ sent' = {} /\ UNCHANGED connected
  <2>1. Stored \in [Open -> Runtime] /\ held \in [Open -> SUBSET Fn]
    BY StoredType DEF Safe, Shape, TypeOK
  <2>2. Stored' = cabs' /\ Open' = Open \ {k}
    BY <1>1, <1>2, <2>1, Reloaded DEF Open, Without
  <2>3. \A j \in Open' : j \in Open /\ cabs'[j] = Stored[j] /\ held'[j] = held[j]
    BY <1>2, <2>1, <2>2 DEF Without
  <2>4. sel' \in Open'
    BY <1>1 DEF Shape, TypeOK
  <2>5. IdleOffline'
    BY <1>2, <2>3, <2>4, Start DEF IdleOffline, Idle
  <2>6. (\A j \in Open : Consistent(Stored[j]))'
    BY <2>2, <2>3 DEF Safe, Consistent
  <2>7. Matches(sent, Stored)'
    BY <1>2 DEF Matches
  <2>8. QED
    BY <1>1, <2>5, <2>6, <2>7 DEF Safe
<1>3. QED
  BY <1>2, RefusedSafe DEF RemoveCab

LEMMA ReplaceCabSafe ==
  ASSUME Safe, NEW old \in Cab, NEW next \in Cab, ReplaceCab(old, next)
  PROVE  Safe'
<1>1. Shape'
  BY ReplaceCabShape DEF Safe
<1>2. CASE /\ old \in Open /\ next \notin Open
           /\ Loads(Without(With(Stored, next, Fresh(Stored[old].toggle)), old),
                    Without(With(held, next, {}), old), next)
  <2> DEFINE K == (Open \cup {next}) \ {old}
             m == Without(With(Stored, next, Fresh(Stored[old].toggle)), old)
             h == Without(With(held, next, {}), old)
  <2>1. next \in K
    BY <1>2
  <2>2. Stored \in [Open -> Runtime] /\ held \in [Open -> SUBSET Fn]
        /\ Fresh(Stored[old].toggle) \in Runtime
    BY <1>2, StoredType, FreshType DEF Safe, Shape, TypeOK, Runtime
  <2>3. m \in [K -> Runtime]
    BY <2>2 DEF Without, With
  <2>4. \A j \in K :
          /\ m[j] = IF j = next THEN Fresh(Stored[old].toggle) ELSE Stored[j]
          /\ h[j] = IF j = next THEN {} ELSE held[j]
          /\ j # next => j \in Open
    BY <2>2 DEF Without, With
  <2>5. \A j \in K : Consistent(m[j]) /\ (~connected => Idle(m[j]) /\ h[j] = {})
    <3> HIDE DEF m, h
    <3> QED BY <2>4, FreshSafe, Start
  <2>6. Loads(m, h, next)
    BY <1>2
  <2> HIDE DEF K, m, h
  <2>7. QED
    BY <1>1, <2>1, <2>3, <2>5, <2>6, LoadsSafe
<1>3. QED
  BY <1>2, RefusedSafe DEF ReplaceCab

LEMMA ArrangeSafe ==
  ASSUME Safe, Arrange
  PROVE  Safe'
BY AddCabSafe, FocusCabSafe, SelectCabSafe, RemoveCabSafe, ReplaceCabSafe DEF Arrange

-----------------------------------------------------------------------------
(***************************************************************************)
(* The invariant.                                                          *)
(***************************************************************************)
LEMMA InitSafe == Init => Safe
<1> SUFFICES ASSUME Init PROVE Safe
  OBVIOUS
<1>1. Shape
  BY InitShape
<1>2. \A k \in Open : Idle(cabs[k]) /\ Consistent(cabs[k]) /\ held[k] = {}
  BY FreshSafe DEF Init, Open, NothingHeld
<1>3. Stored = cabs /\ sel \in Open
  BY <1>1 DEF Init, Stored, Shape, TypeOK, Open
<1>4. IdleOffline
  BY <1>2, <1>3 DEF IdleOffline, Init
<1>5. Matches(sent, Stored)
  BY DEF Matches, Init
<1>6. QED
  BY <1>1, <1>2, <1>3, <1>4, <1>5 DEF Safe

LEMMA NextSafe == Safe /\ [Next]_vars => Safe'
<1> SUFFICES ASSUME Safe, [Next]_vars PROVE Safe'
  OBVIOUS
<1>1. CASE Rest
  BY <1>1, OperateSafe, ArrangeSafe, AttachSafe, DetachSafe, CommandSafe,
     TickSafe, ElapseSafe DEF Rest
<1>2. CASE UNCHANGED vars
  <2>1. Shape'
    BY NextShape DEF Safe
  <2>2. Stored' = Stored /\ Open' = Open /\ IdleOffline' /\ sent' = sent
    BY <1>2 DEF vars, Stored, Open, Safe, IdleOffline, Idle
  <2>3. QED
    BY <2>1, <2>2 DEF Safe, Matches, Consistent
<1>3. QED
  BY <1>1, <1>2, SlideSafe, ReportSafe DEF Next

-----------------------------------------------------------------------------
(***************************************************************************)
(* Whatever ends a connection, and in whichever tab, nothing of it is left *)
(* in either copy of any locomotive: controller.go:114-140 and cabs.go.    *)
(***************************************************************************)
THEOREM DisconnectClears == Spec => []NothingSurvivesDisconnect
<1>1. Safe => NothingSurvivesDisconnect
  BY DEF Safe, IdleOffline, NothingSurvivesDisconnect, Idle
<1>2. QED
  BY <1>1, InitSafe, NextSafe, PTL DEF Spec

(***************************************************************************)
(* A speed that waits to be sent is always the speed its tab shows, over   *)
(* every path that sets, cancels, reloads or reports it.                   *)
(***************************************************************************)
THEOREM IntentShown == Spec => []IntentIsDisplayed
<1>1. Safe => IntentIsDisplayed
  BY DEF Safe, Consistent, IntentIsDisplayed
<1>2. QED
  BY <1>1, InitSafe, NextSafe, PTL DEF Spec

(***************************************************************************)
(* What the controller takes the station to have, and so does not send     *)
(* again (controller.go:250), is what the tab shows.                       *)
(***************************************************************************)
THEOREM SettledExchanged == Spec => []SettledIsExchanged
<1>1. Safe => SettledIsExchanged
  BY DEF Safe, Consistent, SettledIsExchanged
<1>2. QED
  BY <1>1, InitSafe, NextSafe, PTL DEF Spec

(***************************************************************************)
(* No command drives a locomotive otherwise than its own tab shows,        *)
(* whichever tab is selected (cabs.go:61, WithCab).                        *)
(***************************************************************************)
THEOREM CommandsShown == Spec => []SentIsDisplayed
<1>1. Safe => SentIsDisplayed
  BY StoredType DEF Safe, Shape, Matches, SentIsDisplayed
<1>2. QED
  BY <1>1, InitSafe, NextSafe, PTL DEF Spec

=============================================================================
