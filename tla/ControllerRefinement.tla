------------------------ MODULE ControllerRefinement ------------------------
(***************************************************************************)
(* The controller, with its two copies of the selected locomotive, keeps   *)
(* the promise of Tabs.tla, for every set of locomotives and functions.    *)
(* The refinement mapping is Controller's "Promise": what an operator sees *)
(* of a locomotive is its speed, direction, functions and waiting speed,   *)
(* taken from the live record for the selected tab.                        *)
(*                                                                         *)
(* The invariant Safe of ControllerProofs carries it: an intent is what    *)
(* the tab shows and none is left offline, so an operation offline can     *)
(* gather none, and Attach drops none.                                     *)
(***************************************************************************)
EXTENDS ControllerProofs

\* What the operator sees of a locomotive, and of all of them.
Tab(r) == [speed |-> r.speed, dir |-> r.dir, fns |-> r.fns, intent |-> r.pending]
Seen == [k \in Open |-> Tab(Stored[k])]

-----------------------------------------------------------------------------
(***************************************************************************)
(* The steps of the promise, in terms of what is seen.                     *)
(***************************************************************************)
LEMMA AsOperate ==
  ASSUME NEW k \in Open, Open' = Open, connected' = connected, sel' = sel,
         \A j \in Open \ {k} : Seen'[j] = Seen[j],
         \/ Seen'[k].intent = None
         \/ connected /\ Seen'[k].intent = Seen'[k].speed
  PROVE  Promise!Operate(k)
BY DEF Promise!Operate, Promise!SameBut, Seen, Tab

LEMMA AsFlush ==
  ASSUME Open' = Open, connected' = connected, sel' = sel,
         \A k \in Open : Seen'[k] \in {Seen[k], Promise!Forget(Seen[k])}
  PROVE  Promise!Flush
BY DEF Promise!Flush, Seen, Tab, Promise!Forget

LEMMA AsStopAll ==
  ASSUME connected, Open' = Open, connected' = connected, sel' = sel,
         \A k \in Open : Seen'[k] = Promise!Forget([Seen[k] EXCEPT !.speed = 0])
  PROVE  Promise!StopAll
BY DEF Promise!StopAll, Seen, Tab, Promise!Forget

LEMMA AsLose ==
  ASSUME connected' = FALSE, Open' = Open, sel' = sel,
         NEW k \in Open, NEW F \in SUBSET Seen[k].fns,
         \A j \in Open :
           Seen'[j] = Promise!Forget(IF j = k THEN [Seen[k] EXCEPT !.fns = F]
                                              ELSE Seen[j])
  PROVE  Promise!Lose
<1> DEFINE lost == [j \in Open |->
                      Promise!Forget(IF j = k THEN [Seen[k] EXCEPT !.fns = F]
                                              ELSE Seen[j])]
<1>1. Seen' = lost
  <2>1. Seen' = [j \in Open |-> Seen'[j]]
    BY DEF Seen
  <2>2. QED
    BY <2>1
<1>2. \E i \in DOMAIN Seen : \E G \in SUBSET Seen[i].fns :
        Seen' = [j \in DOMAIN Seen |->
                   Promise!Forget(IF j = i THEN [Seen[i] EXCEPT !.fns = G]
                                           ELSE Seen[j])]
  <2>1. DOMAIN Seen = Open
    BY DEF Seen
  <2>2. QED
    BY <1>1, <2>1
<1>3. QED
  BY <1>2 DEF Promise!Lose, Seen, Tab

LEMMA AsStutter ==
  ASSUME Open' = Open, connected' = connected, sel' = sel,
         \A k \in Open : Seen'[k] = Seen[k]
  PROVE  UNCHANGED Promise!vars
BY DEF Promise!vars, Seen, Tab

LEMMA AsConnect ==
  ASSUME ~connected, connected' = TRUE, Open' = Open, sel' = sel,
         \A k \in Open : Seen'[k] = Seen[k]
  PROVE  Promise!Connect
BY DEF Promise!Connect, Seen, Tab

\* Promise!Rearranged, spelt with Seen.
Rearranges(m) ==
  \/ Seen' = m /\ connected' = connected
  \/ /\ Seen' = [k \in DOMAIN m |-> Promise!Forget(m[k])]
     /\ connected' = FALSE

LEMMA AsShow ==
  ASSUME NEW k \in Cab, sel' = k, NEW n, NEW m,
         n \in {Seen, [Seen EXCEPT ![sel] = Promise!Forget(@)]},
         m = IF k \in Open THEN n ELSE Promise!Opened(n, k),
         Rearranges(m)
  PROVE  Promise!Show(k)
<1>1. DOMAIN Seen = Open
  BY DEF Seen
<1>2. n \in {Seen, [Seen EXCEPT ![sel] = Promise!Forget(Seen[sel])]}
  OBVIOUS
<1>3. /\ m = IF k \in DOMAIN Seen THEN n ELSE Promise!Opened(n, k)
      /\ Promise!Rearranged(m)
  BY <1>1 DEF Promise!Rearranged, Rearranges, Seen, Tab
<1>4. \E w \in {Seen, [Seen EXCEPT ![sel] = Promise!Forget(Seen[sel])]} :
        Promise!Rearranged(IF k \in DOMAIN Seen THEN w ELSE Promise!Opened(w, k))
  BY <1>2, <1>3 DEF Promise!Rearranged
<1>5. QED
  BY <1>4 DEF Promise!Show, Promise!Rearranged, Seen, Tab

LEMMA AsClose ==
  ASSUME NEW k \in Open, Promise!Parked(Seen[k]), Open # {k},
         Seen' = Promise!Without(Seen, k), connected' = connected,
         sel' \in IF sel = k THEN Open' ELSE {sel}
  PROVE  Promise!Close(k)
BY DEF Promise!Close, Promise!Parked, Promise!Without, Seen, Tab

LEMMA AsReassign ==
  ASSUME NEW k \in Open, NEW n \in Cab, n \notin Open, Promise!Parked(Seen[k]),
         sel' = n, Rearranges(Promise!Opened(Promise!Without(Seen, k), n))
  PROVE  Promise!Reassign(k, n)
BY DEF Promise!Reassign, Promise!Parked, Promise!Rearranged, Rearranges, Seen, Tab

-----------------------------------------------------------------------------
(***************************************************************************)
(* What a step leaves to be seen.                                          *)
(***************************************************************************)
LEMMA Sight ==
  ASSUME Safe
  PROVE  /\ sel \in Open /\ Open \subseteq Cab
         /\ Stored \in [Open -> Runtime]
         /\ \A k \in Open : Seen[k] = Tab(Stored[k])
BY StoredType DEF Safe, Shape, TypeOK, Seen

\* After any step, an intent is what its tab shows and belongs to a connection.
LEMMA IntentAfter ==
  ASSUME Safe'
  PROVE  \A k \in Open' :
           \/ Stored'[k].pending = None
           \/ connected' /\ Stored'[k].pending = Stored'[k].speed
<1>1. \A k \in Open' : Stored'[k].pending \in {None, Stored'[k].speed}
  BY DEF Safe, Consistent
<1>2. ASSUME ~connected', NEW k \in Open'
      PROVE  Stored'[k].pending = None
  <2>1. live'.pending = None /\ cabs'[k].pending = None
    BY <1>2 DEF Safe, IdleOffline, Idle
  <2>2. Stored'[k] \in {live', cabs'[k]}
    BY <1>2 DEF Stored, Open
  <2>3. QED
    BY <2>1, <2>2
<1>3. QED
  BY <1>1, <1>2

LEMMA OneTab ==
  ASSUME Safe, Safe', NEW k \in Open, Open' = Open, connected' = connected,
         sel' = sel, \A j \in Open \ {k} : Stored'[j] = Stored[j]
  PROVE  Promise!Operate(k)
<1>1. \A j \in Open : Seen'[j] = Tab(Stored'[j]) /\ Seen[j] = Tab(Stored[j])
  BY DEF Seen, Tab
<1>2. \/ Seen'[k].intent = None
      \/ connected /\ Seen'[k].intent = Seen'[k].speed
  <2>1. /\ Seen'[k].intent = Stored'[k].pending
        /\ Seen'[k].speed = Stored'[k].speed
    BY DEF Seen, Tab
  <2>2. \/ Stored'[k].pending = None
        \/ connected /\ Stored'[k].pending = Stored'[k].speed
    BY IntentAfter
  <2>3. QED
    BY <2>1, <2>2
<1>3. \A j \in Open \ {k} : Seen'[j] = Seen[j]
  BY <1>1
<1>4. QED
  BY <1>2, <1>3, AsOperate

LEMMA LeavesOperates ==
  ASSUME Safe, Safe', NEW k \in Open, NEW r, NEW out, Leaves(k, r, out)
  PROVE  Promise!Operate(k)
<1>1. cabs' = [Stored EXCEPT ![k] = r] /\ live' = cabs'[sel']
      /\ connected' = connected /\ sel' = sel
  BY DEF Leaves
<1>2. Stored' = cabs'
  BY <1>1, Reloaded DEF Safe
<1>3. Open' = Open
  BY <1>1, Sight DEF Open
<1>4. \A j \in Open \ {k} : Stored'[j] = Stored[j]
  BY <1>1, <1>2, Sight
<1>5. QED
  BY <1>1, <1>3, <1>4, OneTab

LEMMA FailsLoses ==
  ASSUME Safe, Safe', NEW m \in [Open -> Runtime], NEW out, Fails(m, out),
         NEW k \in Open, NEW F \in SUBSET Stored[k].fns,
         \A j \in Open : /\ m[j].speed = Stored[j].speed
                         /\ m[j].dir = Stored[j].dir
                         /\ m[j].fns = IF j = k THEN F ELSE Stored[j].fns
  PROVE  Promise!Lose
<1>1. cabs' = DroppedAll(m) /\ live' = cabs'[sel'] /\ sel' = sel
      /\ connected' = FALSE
  BY DEF Fails
<1>2. Stored' = cabs'
  BY <1>1, Reloaded DEF Safe
<1>3. Open' = Open
  BY <1>1 DEF Open, DroppedAll
<1>4. \A j \in Open : Seen'[j] = Tab(Dropped(m[j])) /\ Seen[j] = Tab(Stored[j])
  BY <1>1, <1>2, <1>3 DEF Seen, DroppedAll, Tab
<1>5. \A j \in Open :
        Tab(Dropped(m[j])) =
          Promise!Forget(IF j = k THEN [Tab(Stored[k]) EXCEPT !.fns = F]
                                  ELSE Tab(Stored[j]))
  <2>1. SUFFICES ASSUME NEW j \in Open
                 PROVE  Tab(Dropped(m[j])) =
                          Promise!Forget(IF j = k THEN [Tab(Stored[k]) EXCEPT !.fns = F]
                                                  ELSE Tab(Stored[j]))
    OBVIOUS
  <2>2. /\ Dropped(m[j]).speed = Stored[j].speed /\ Dropped(m[j]).dir = Stored[j].dir
        /\ Dropped(m[j]).fns = (IF j = k THEN F ELSE Stored[j].fns)
        /\ Dropped(m[j]).pending = None
    BY DEF Dropped, Runtime
  <2>3. QED
    BY <2>2 DEF Tab, Promise!Forget
<1>6. F \in SUBSET Seen[k].fns
  BY DEF Seen, Tab
<1>7. \A j \in Open :
        Seen'[j] = Promise!Forget(IF j = k THEN [Seen[k] EXCEPT !.fns = F]
                                           ELSE Seen[j])
  BY <1>4, <1>5
<1>8. QED
  BY <1>1, <1>3, <1>6, <1>7, AsLose

LEMMA FailsAsShown ==
  ASSUME Safe, Safe', NEW out, Fails(Stored, out)
  PROVE  Promise!Lose
<1>1. sel \in Open /\ Stored \in [Open -> Runtime]
  BY Sight
<1>2. \A j \in Open : Stored[j].fns = IF j = sel THEN Stored[sel].fns ELSE Stored[j].fns
  OBVIOUS
<1>3. QED
  BY <1>1, <1>2, FailsLoses

LEMMA LoadsRearranges ==
  ASSUME Safe, Safe', NEW K, NEW k \in K, NEW m \in [K -> Runtime], NEW h,
         Loads(m, h, k)
  PROVE  Rearranges([j \in K |-> Tab(m[j])])
<1>1. sel' = k
  BY DEF Loads
<1>2. CASE /\ cabs' = m /\ live' = m[k] /\ UNCHANGED connected
  <2>1. Stored' = m /\ Open' = K
    BY <1>1, <1>2, Reloaded DEF Open, Safe
  <2>2. Seen' = [j \in K |-> Tab(m[j])]
    BY <2>1 DEF Seen
  <2>3. QED
    BY <1>2, <2>2 DEF Rearranges
<1>3. CASE /\ connected' = FALSE /\ cabs' = DroppedAll(m) /\ live' = Dropped(m[k])
  <2>1. live' = cabs'[sel'] /\ Open' = K
    BY <1>1, <1>3 DEF DroppedAll, Open
  <2>2. Stored' = DroppedAll(m)
    BY <1>3, <2>1, Reloaded DEF Safe
  <2>3. Seen' = [j \in K |-> Tab(Dropped(m[j]))]
    BY <2>1, <2>2 DEF Seen, DroppedAll
  <2>4. \A j \in K : Tab(Dropped(m[j])) = Promise!Forget(Tab(m[j]))
    BY DEF Tab, Dropped, Promise!Forget, Runtime
  <2>5. QED
    BY <1>3, <2>3, <2>4 DEF Rearranges
<1>4. QED
  BY <1>2, <1>3 DEF Loads

\* Nothing else than the tabs shown has changed.
LEMMA SameSight ==
  ASSUME Safe, Safe', connected' = connected, sel' = sel, Open' = Open,
         \A k \in Open : /\ Stored'[k].speed = Stored[k].speed
                         /\ Stored'[k].dir = Stored[k].dir
                         /\ Stored'[k].fns = Stored[k].fns
                         /\ Stored'[k].pending = Stored[k].pending
  PROVE  UNCHANGED Promise!vars
<1>1. \A k \in Open : Seen'[k] = Seen[k]
  BY DEF Seen, Tab
<1>2. QED
  BY <1>1, AsStutter

-----------------------------------------------------------------------------
(***************************************************************************)
(* Operations on one tab.                                                  *)
(***************************************************************************)
Mapped == Promise!Next \/ UNCHANGED Promise!vars

LEMMA AnOperate ==
  ASSUME NEW k \in Open, Promise!Operate(k)
  PROVE  Mapped
<1>1. DOMAIN Seen = Open
  BY DEF Seen
<1>2. \E j \in DOMAIN Seen : Promise!Operate(j)
  BY <1>1
<1>3. QED
  BY <1>2 DEF Mapped, Promise!Next, Seen, Tab

LEMMA AnEnd ==
  ASSUME Promise!Lose \/ Promise!StopAll \/ Promise!Flush \/ Promise!Connect
  PROVE  Mapped
BY DEF Mapped, Promise!Next

LEMMA SlideMapped ==
  ASSUME Safe, Safe', Slide
  PROVE  Mapped
BY LeavesOperates, AnOperate DEF Slide, MoveSpeed

LEMMA SetDirectionMapped ==
  ASSUME Safe, Safe', NEW k \in Open, NEW d, SetDirection(k, d)
  PROVE  Mapped
BY LeavesOperates, FailsAsShown, AnOperate, AnEnd DEF SetDirection

LEMMA StopMapped ==
  ASSUME Safe, Safe', NEW k \in Open, Stop(k)
  PROVE  Mapped
BY LeavesOperates, FailsAsShown, AnOperate, AnEnd DEF Stop

LEMMA SetToggleMapped ==
  ASSUME Safe, Safe', NEW k \in Open, NEW f, NEW on, SetToggle(k, f, on)
  PROVE  Mapped
BY LeavesOperates, AnOperate DEF SetToggle

LEMMA FunctionMapped ==
  ASSUME Safe, Safe', NEW k \in Open, NEW f, NEW pressed, Function(k, f, pressed)
  PROVE  Mapped
BY LeavesOperates, FailsAsShown, AnOperate, AnEnd DEF Function

LEMMA AllFunctionsOffMapped ==
  ASSUME Safe, Safe', NEW k \in Open, AllFunctionsOff(k)
  PROVE  Mapped
<1>1. CASE \E r, out : Leaves(k, r, out)
  BY <1>1, LeavesOperates, AnOperate
<1>2. ASSUME NEW f \in Stored[k].fns, NEW out,
             Fails([Stored EXCEPT ![k].fns = {g \in Stored[k].fns : g >= f}], out)
      PROVE  Mapped
  <2> DEFINE F == {g \in Stored[k].fns : g >= f}
             m == [Stored EXCEPT ![k].fns = F]
  <2>1. Stored \in [Open -> Runtime] /\ Stored[k] \in Runtime
    BY Sight
  <2>2. F \in SUBSET Stored[k].fns
    OBVIOUS
  <2> HIDE DEF F
  <2>3. m \in [Open -> Runtime]
    BY <2>1, <2>2 DEF Runtime
  <2>4. \A j \in Open : m[j] = IF j = k THEN [Stored[k] EXCEPT !.fns = F] ELSE Stored[j]
    BY <2>1
  <2>5. \A j \in Open : /\ m[j].speed = Stored[j].speed
                        /\ m[j].dir = Stored[j].dir
                        /\ m[j].fns = IF j = k THEN F ELSE Stored[j].fns
    <3> HIDE DEF m
    <3> QED BY <2>1, <2>4 DEF Runtime
  <2>6. Fails(m, out)
    BY <1>2 DEF F
  <2> HIDE DEF m
  <2>7. Promise!Lose
    BY <2>2, <2>3, <2>5, <2>6, FailsLoses
  <2>8. QED
    BY <2>7, AnEnd
<1>3. QED
  BY <1>1, <1>2 DEF AllFunctionsOff

LEMMA StoppedSight ==
  ASSUME NEW r, NEW q, q.speed = 0, q.dir = r.dir, q.fns = r.fns, q.pending = None
  PROVE  Tab(q) = Promise!Forget([Tab(r) EXCEPT !.speed = 0])
<1> DEFINE t == [Tab(r) EXCEPT !.speed = 0]
           stopped == [speed |-> 0, dir |-> r.dir, fns |-> r.fns, intent |-> r.pending]
<1>1. t = stopped
  BY DEF Tab
<1>2. Promise!Forget(stopped) =
        [speed |-> 0, dir |-> r.dir, fns |-> r.fns, intent |-> None]
  BY DEF Promise!Forget
<1>3. Tab(q) = [speed |-> 0, dir |-> r.dir, fns |-> r.fns, intent |-> None]
  BY DEF Tab
<1>4. QED
  BY <1>1, <1>2, <1>3

LEMMA EmergencyMapped ==
  ASSUME Safe, Safe', NEW k \in Open, Emergency(k)
  PROVE  Mapped
<1> DEFINE pressedIn == [Halted(Stored[k]) EXCEPT !.lastDir = Stored[k].dir,
                                                  !.lastKnown = TRUE]
           halt == [j \in Open |-> IF j = k THEN pressedIn ELSE Halted(Stored[j])]
           drop == [j \in Open |-> [Stored[j] EXCEPT !.pending = None]]
<1>1. Stored \in [Open -> Runtime]
  BY Sight
<1>2. CASE Fails(Stored, {})
  BY <1>2, FailsAsShown, AnEnd
<1>3. CASE /\ connected /\ cabs' = halt /\ live' = cabs'[sel]
           /\ UNCHANGED <<connected, sel>>
  <2>1. Stored' = halt /\ Open' = Open
    BY <1>3, Reloaded DEF Safe, Open
  <2>2. \A j \in Open : /\ halt[j].speed = 0 /\ halt[j].dir = Stored[j].dir
                        /\ halt[j].fns = Stored[j].fns /\ halt[j].pending = None
    BY <1>1 DEF Halted, Runtime
  <2> HIDE DEF halt
  <2>3. \A j \in Open : Seen'[j] = Tab(halt[j]) /\ Seen[j] = Tab(Stored[j])
    BY <2>1 DEF Seen
  <2>4. \A j \in Open :
          Tab(halt[j]) = Promise!Forget([Tab(Stored[j]) EXCEPT !.speed = 0])
    BY <2>2, StoppedSight
  <2>5. \A j \in Open : Seen'[j] = Promise!Forget([Seen[j] EXCEPT !.speed = 0])
    BY <2>3, <2>4
  <2>6. Promise!StopAll
    BY <1>3, <2>1, <2>5, AsStopAll
  <2>7. QED
    BY <2>6, AnEnd
<1>4. CASE /\ ~connected /\ cabs' = drop /\ live' = cabs'[sel]
           /\ UNCHANGED <<connected, sel>>
  <2>1. Stored' = drop /\ Open' = Open
    BY <1>4, Reloaded DEF Safe, Open
  <2>2. \A j \in Open : Stored[j].pending = None
    BY <1>4, StoredIdle DEF Idle
  <2>3. \A j \in Open : /\ drop[j].speed = Stored[j].speed
                        /\ drop[j].dir = Stored[j].dir
                        /\ drop[j].fns = Stored[j].fns
                        /\ drop[j].pending = Stored[j].pending
    BY <1>1, <2>2 DEF Runtime
  <2> HIDE DEF drop
  <2>4. QED
    BY <1>4, <2>1, <2>3, SameSight DEF Mapped
<1>5. QED
  BY <1>2, <1>3, <1>4 DEF Emergency

LEMMA OperateMapped ==
  ASSUME Safe, Safe', NEW k \in Open, Operate(k)
  PROVE  Mapped
BY SetDirectionMapped, StopMapped, EmergencyMapped, AllFunctionsOffMapped,
   SetToggleMapped, FunctionMapped DEF Operate

-----------------------------------------------------------------------------
(***************************************************************************)
(* The clock, the station and the connection.                              *)
(***************************************************************************)
LEMMA TickedSight ==
  ASSUME NEW r \in Runtime
  PROVE  /\ Ticked(r).speed = r.speed /\ Ticked(r).dir = r.dir
         /\ Ticked(r).fns = r.fns /\ Ticked(r).pending \in {r.pending, None}
         /\ Tab(Ticked(r)) \in {Tab(r), Promise!Forget(Tab(r))}
<1>1. /\ Ticked(r).speed = r.speed /\ Ticked(r).dir = r.dir
      /\ Ticked(r).fns = r.fns /\ Ticked(r).pending \in {r.pending, None}
  <2>1. CASE Due(r)
    <3>1. Ticked(r) = [Transmitted(r, r.pending, r.dir) EXCEPT !.pending = None]
      BY <2>1 DEF Ticked, Due
    <3>2. QED
      BY <3>1 DEF Transmitted, Runtime
  <2>2. CASE ~Due(r) /\ r.pending # None /\ Obsolete(r)
    BY <2>2 DEF Ticked, Due, Runtime
  <2>3. CASE ~Due(r) /\ ~(r.pending # None /\ Obsolete(r))
    BY <2>3 DEF Ticked, Due
  <2>4. QED
    BY <2>1, <2>2, <2>3
<1> DEFINE q == Ticked(r)
<1> HIDE DEF q
<1>2. /\ q.speed = r.speed /\ q.dir = r.dir /\ q.fns = r.fns
      /\ q.pending = r.pending \/ q.pending = None
  BY <1>1 DEF q
<1>3. Tab(q) = Tab(r) \/ Tab(q) = Promise!Forget(Tab(r))
  BY <1>2 DEF Tab, Promise!Forget
<1>4. QED
  BY <1>1, <1>3 DEF q

LEMMA TickMapped ==
  ASSUME Safe, Safe', Tick
  PROVE  Mapped
<1>1. Stored \in [Open -> Runtime] /\ sel \in Open
  BY Sight
<1>2. ASSUME NEW K, NEW out, Fails(TickedIn(K), out)
      PROVE  Mapped
  <2>1. TickedIn(K) \in [Open -> Runtime]
    BY TickedInType DEF Safe, Shape
  <2>2. \A j \in Open :
          /\ TickedIn(K)[j].speed = Stored[j].speed
          /\ TickedIn(K)[j].dir = Stored[j].dir
          /\ TickedIn(K)[j].fns = IF j = sel THEN Stored[sel].fns ELSE Stored[j].fns
    BY <1>1, TickedSight DEF TickedIn
  <2>3. QED
    BY <1>1, <1>2, <2>1, <2>2, FailsLoses, AnEnd
<1>3. CASE /\ cabs' = IF connected THEN TickedIn(ToSet(order)) ELSE Stored
           /\ live' = cabs'[sel] /\ UNCHANGED <<connected, sel>>
  <2>1. CASE connected
    <3>1. cabs' = TickedIn(ToSet(order)) /\ Stored' = cabs' /\ Open' = Open
      BY <1>3, <2>1, Reloaded DEF Safe, TickedIn, Open
    <3>2. \A k \in Open : \/ Stored'[k] = Stored[k]
                          \/ Stored'[k] = Ticked(Stored[k])
      BY <3>1 DEF TickedIn
    <3>3. \A k \in Open :
            Tab(Stored'[k]) \in {Tab(Stored[k]), Promise!Forget(Tab(Stored[k]))}
      BY <1>1, <3>2, TickedSight
    <3>4. \A k \in Open : Seen'[k] = Tab(Stored'[k]) /\ Seen[k] = Tab(Stored[k])
      BY <3>1 DEF Seen, Tab
    <3>5. Promise!Flush
      BY <1>3, <3>1, <3>3, <3>4, AsFlush
    <3>6. QED
      BY <3>5, AnEnd
  <2>2. CASE ~connected
    <3>1. Stored' = Stored /\ Open' = Open
      BY <1>1, <1>3, <2>2, Reloaded DEF Safe, Open
    <3>2. QED
      BY <1>3, <3>1, SameSight DEF Mapped
  <2>3. QED
    BY <2>1, <2>2
<1>4. QED
  BY <1>2, <1>3 DEF Tick

LEMMA ElapseMapped ==
  ASSUME Safe, Safe', Elapse
  PROVE  Mapped
<1>1. Open' = Open /\ connected' = connected /\ sel' = sel
  BY DEF Elapse, Open
<1>2. \A j \in Open : Stored'[j] = Older(Stored[j])
  BY <1>1 DEF Elapse, Stored, Open
<1>3. \A j \in Open : Stored[j] \in Runtime
  BY Sight
<1>4. \A r \in Runtime : /\ Older(r).speed = r.speed /\ Older(r).dir = r.dir
                         /\ Older(r).fns = r.fns /\ Older(r).pending = r.pending
  BY DEF Older, Runtime
<1>5. QED
  BY <1>1, <1>2, <1>3, <1>4, SameSight DEF Mapped

LEMMA ReportMapped ==
  ASSUME Safe, Safe', Report
  PROVE  Mapped
<1>1. PICK k \in Open, s \in Speed, d \in Dir, F \in SUBSET Fn : Receive(k, s, d, F)
  BY DEF Report
<1>2. CASE k = sel
  <2>1. cabs' = cabs /\ sel' = sel /\ connected' = connected
    BY <1>1, <1>2 DEF Receive
  <2>2. Open' = Open
    BY <2>1 DEF Open
  <2>3. \A j \in Open \ {k} : Stored'[j] = Stored[j]
    BY <1>2, <2>1 DEF Stored, Open
  <2>4. QED
    BY <2>1, <2>2, <2>3, OneTab, AnOperate
<1>3. CASE k # sel
  BY <1>1, <1>3, LeavesOperates, AnOperate DEF Receive
<1>4. QED
  BY <1>2, <1>3

\* Dropping both copies of the selected tab is dropping what is stored.
LEMMA BothDropped ==
  ASSUME Safe, live' = Dropped(live), cabs' = DroppedAll(cabs), sel' = sel
  PROVE  /\ Open' = Open
         /\ \A j \in Open : Stored'[j] = Dropped(Stored[j])
<1>1. Open' = Open
  BY DEF Open, DroppedAll
<1>2. \A j \in Open : Stored'[j] = Dropped(Stored[j])
  BY <1>1 DEF Stored, DroppedAll, Open
<1>3. QED
  BY <1>1, <1>2

LEMMA DetachMapped ==
  ASSUME Safe, Detach
  PROVE  Mapped
<1>1. connected' = FALSE /\ sel' = sel /\ Open' = Open
      /\ \A j \in Open : Stored'[j] = Dropped(Stored[j])
  BY BothDropped DEF Detach
<1>2. \A j \in Open : Seen'[j] = Tab(Dropped(Stored[j])) /\ Seen[j] = Tab(Stored[j])
  BY <1>1 DEF Seen
<1>3. \A r \in Runtime : /\ Tab(Dropped(r)) = Promise!Forget(Tab(r))
                         /\ [Tab(r) EXCEPT !.fns = r.fns] = Tab(r)
  BY DEF Tab, Dropped, Promise!Forget, Runtime
<1>4. sel \in Open /\ Seen[sel].fns = Stored[sel].fns
  BY Sight DEF Seen, Tab
<1>5. \A j \in Open :
        Seen'[j] =
          Promise!Forget(IF j = sel THEN [Seen[sel] EXCEPT !.fns = Stored[sel].fns]
                                    ELSE Seen[j])
  BY <1>2, <1>3, <1>4, Sight
<1>6. Promise!Lose
  BY <1>1, <1>4, <1>5, AsLose
<1>7. QED
  BY <1>6, AnEnd

\* Offline there is nothing left to drop.
LEMMA AttachMapped ==
  ASSUME Safe, Safe', Attach
  PROVE  Mapped
<1>1. ~connected /\ sel' = sel /\ Open' = Open
      /\ \A j \in Open : Stored'[j] = Dropped(Stored[j])
  BY BothDropped DEF Attach
<1>2. \A j \in Open : /\ Stored'[j].speed = Stored[j].speed
                      /\ Stored'[j].dir = Stored[j].dir
                      /\ Stored'[j].fns = Stored[j].fns
                      /\ Stored'[j].pending = Stored[j].pending
  <2>1. \A r \in Runtime : /\ Dropped(r).speed = r.speed /\ Dropped(r).dir = r.dir
                           /\ Dropped(r).fns = r.fns /\ Dropped(r).pending = None
    BY DEF Dropped, Runtime
  <2>2. \A j \in Open : Stored[j] \in Runtime /\ Stored[j].pending = None
    BY <1>1, StoredIdle, Sight DEF Idle
  <2>3. QED
    BY <1>1, <2>1, <2>2
<1>3. CASE connected' = FALSE
  <2>1. connected' = connected
    BY <1>1, <1>3 DEF Safe, Shape, TypeOK
  <2>2. QED
    BY <1>1, <1>2, <2>1, SameSight DEF Mapped
<1>4. CASE connected' = TRUE
  <2>1. \A k \in Open : Seen'[k] = Seen[k]
    BY <1>1, <1>2 DEF Seen, Tab
  <2>2. Promise!Connect
    BY <1>1, <1>4, <2>1, AsConnect
  <2>3. QED
    BY <2>2, AnEnd
<1>5. QED
  BY <1>3, <1>4 DEF Attach

LEMMA CommandMapped ==
  ASSUME Safe, Safe', Command
  PROVE  Mapped
<1>1. Stored' = Stored /\ Open' = Open /\ connected' = connected /\ sel' = sel
  BY DEF Command, Stored, Open
<1>2. QED
  BY <1>1, SameSight DEF Mapped

-----------------------------------------------------------------------------
(***************************************************************************)
(* Opening, selecting, closing and reassigning tabs.                       *)
(***************************************************************************)
LEMMA AShow ==
  ASSUME NEW k \in Cab, Promise!Show(k)
  PROVE  Mapped
BY DEF Mapped, Promise!Next

\* Opening a tab adds a stopped locomotive to what is seen.
LEMMA OpensInShows ==
  ASSUME Safe, Safe', NEW k \in Cab \ Open, NEW m \in [Open -> Runtime],
         OpensIn(m, k), NEW n, n = [j \in Open |-> Tab(m[j])],
         n \in {Seen, [Seen EXCEPT ![sel] = Promise!Forget(@)]}
  PROVE  Mapped
<1> DEFINE K == Open \cup {k}
           w == With(m, k, Fresh(DefaultToggle))
           h == With(held, k, {})
<1>1. w \in [K -> Runtime] /\ k \in K
  BY Constants, FreshType DEF With
<1>2. Loads(w, h, k) /\ sel' = k
  BY DEF OpensIn, Loads
<1>3. [j \in K |-> Tab(w[j])] = Promise!Opened(n, k)
  <2>1. Tab(Fresh(DefaultToggle)) = Promise!Blank
    BY DEF Tab, Fresh, Promise!Blank
  <2>2. \A j \in K : w[j] = IF j = k THEN Fresh(DefaultToggle) ELSE m[j]
    BY DEF With
  <2>3. Promise!Opened(n, k) = [j \in K |-> IF j = k THEN Promise!Blank ELSE n[j]]
    BY DEF Promise!Opened
  <2>4. \A j \in K : Tab(w[j]) = IF j = k THEN Promise!Blank ELSE n[j]
    BY <2>1, <2>2
  <2>5. QED
    BY <2>3, <2>4
<1> HIDE DEF K, w, h
<1>4. Rearranges([j \in K |-> Tab(w[j])])
  BY <1>1, <1>2, LoadsRearranges
<1>5. Rearranges(Promise!Opened(n, k))
  BY <1>3, <1>4 DEF Rearranges
<1>6. Promise!Show(k)
  BY <1>2, <1>5, AsShow
<1>7. QED
  BY <1>6, AShow

LEMMA LoadsShows ==
  ASSUME Safe, Safe', NEW k \in Open, NEW m \in [Open -> Runtime], NEW h,
         Loads(m, h, k), NEW n, n = [j \in Open |-> Tab(m[j])],
         n \in {Seen, [Seen EXCEPT ![sel] = Promise!Forget(@)]}
  PROVE  Mapped
<1>1. k \in Cab /\ sel' = k
  BY Sight DEF Loads
<1>2. Rearranges(n)
  BY LoadsRearranges
<1>3. Promise!Show(k)
  BY <1>1, <1>2, AsShow
<1>4. QED
  BY <1>1, <1>3, AShow

LEMMA AddCabMapped ==
  ASSUME Safe, Safe', NEW k \in Cab, AddCab(k)
  PROVE  Mapped
<1>1. k \in Cab \ Open /\ OpensIn(Stored, k)
  BY DEF AddCab
<1>2. Seen = [j \in Open |-> Tab(Stored[j])]
  BY DEF Seen
<1>3. QED
  BY <1>1, <1>2, Sight, OpensInShows

LEMMA FocusCabMapped ==
  ASSUME Safe, Safe', NEW k \in Cab, FocusCab(k)
  PROVE  Mapped
<1>1. Seen = [j \in Open |-> Tab(Stored[j])]
  BY DEF Seen
<1>2. QED
  BY <1>1, Sight, LoadsShows DEF FocusCab

LEMMA SelectCabMapped ==
  ASSUME Safe, Safe', NEW k \in Cab, SelectCab(k)
  PROVE  Mapped
<1> DEFINE m == [Stored EXCEPT ![sel].pending = None]
           n == [j \in Open |-> Tab(m[j])]
<1>1. sel \in Open /\ Stored \in [Open -> Runtime] /\ Stored[sel] \in Runtime
  BY Sight
<1>2. [Stored[sel] EXCEPT !.pending = None] \in Runtime
  BY <1>1 DEF Runtime
<1>3. /\ m \in [Open -> Runtime]
      /\ \A j \in Open : m[j] = IF j = sel THEN [Stored[sel] EXCEPT !.pending = None]
                                          ELSE Stored[j]
  BY <1>1, <1>2
<1>4. \/ k \in Open /\ Loads(m, held, k)
      \/ k \in Cab \ Open /\ OpensIn(m, k)
  BY DEF SelectCab
<1> HIDE DEF m
<1>5. n = [Seen EXCEPT ![sel] = Promise!Forget(Seen[sel])]
  <2>1. Tab([Stored[sel] EXCEPT !.pending = None]) = Promise!Forget(Tab(Stored[sel]))
    BY <1>1 DEF Tab, Promise!Forget, Runtime
  <2>2. Seen = [j \in Open |-> Tab(Stored[j])]
    BY DEF Seen
  <2>3. \A j \in Open : Tab(m[j]) = IF j = sel THEN Promise!Forget(Tab(Stored[sel]))
                                              ELSE Tab(Stored[j])
    BY <1>3, <2>1
  <2>4. QED
    BY <1>1, <2>2, <2>3
<1>6. PICK x : x = n
  OBVIOUS
<1>7. x \in {Seen, [Seen EXCEPT ![sel] = Promise!Forget(@)]}
      /\ x = [j \in Open |-> Tab(m[j])]
  BY <1>5, <1>6
<1>8. QED
  BY <1>3, <1>4, <1>7, LoadsShows, OpensInShows

LEMMA RefusedMapped ==
  ASSUME Safe, Safe', Refused
  PROVE  Mapped
<1>1. connected' = connected /\ sel' = sel /\ Open' = Open
      /\ cabs' = Stored /\ live' = live
  BY Sight DEF Refused, Open
<1>2. Stored' = Stored
  BY <1>1, Sight, StoredType DEF Stored, Open, Safe, Shape
<1>3. QED
  BY <1>1, <1>2, SameSight DEF Mapped

LEMMA ParkedSight ==
  ASSUME NEW k \in Open, Parked(Stored[k])
  PROVE  Promise!Parked(Seen[k])
BY DEF Parked, Promise!Parked, Seen, Tab

LEMMA RemoveCabMapped ==
  ASSUME Safe, Safe', NEW k \in Cab, RemoveCab(k)
  PROVE  Mapped
<1>1. CASE /\ k \in Open /\ Open # {k} /\ Parked(Stored[k])
           /\ cabs' = Without(Stored, k) /\ live' = cabs'[sel']
           /\ sel' = IF sel = k THEN order'[1] ELSE sel
           /\ UNCHANGED connected
  <2>1. Stored' = Without(Stored, k) /\ Open' = Open \ {k} /\ DOMAIN Stored = Open
    BY <1>1, Sight, Reloaded DEF Open, Without, Safe
  <2>2. Seen' = [j \in Open \ {k} |-> Tab(Stored[j])]
    BY <2>1 DEF Seen, Without
  <2>3. Promise!Without(Seen, k) = [j \in Open \ {k} |-> Tab(Stored[j])]
    BY DEF Promise!Without, Seen
  <2>4. sel' \in IF sel = k THEN Open' ELSE {sel}
    BY <1>1 DEF Safe, Shape, TypeOK
  <2>5. Promise!Close(k)
    BY <1>1, <2>2, <2>3, <2>4, ParkedSight, AsClose
  <2>6. \E j \in DOMAIN Seen : Promise!Close(j)
    BY <1>1, <2>5 DEF Seen
  <2>7. QED
    BY <2>6 DEF Mapped, Promise!Next, Seen, Tab
<1>2. QED
  BY <1>1, RefusedMapped DEF RemoveCab

LEMMA ReplaceCabMapped ==
  ASSUME Safe, Safe', NEW old \in Cab, NEW next \in Cab, ReplaceCab(old, next)
  PROVE  Mapped
<1>1. CASE /\ old \in Open /\ next \notin Open /\ Parked(Stored[old])
           /\ Loads(Without(With(Stored, next, Fresh(Stored[old].toggle)), old),
                    Without(With(held, next, {}), old), next)
  <2> DEFINE K == (Open \cup {next}) \ {old}
             new == Fresh(Stored[old].toggle)
             m == Without(With(Stored, next, new), old)
             h == Without(With(held, next, {}), old)
  <2>1. next \in K
    BY <1>1
  <2>2. Stored \in [Open -> Runtime] /\ new \in Runtime /\ Tab(new) = Promise!Blank
    BY <1>1, Sight, FreshType DEF Runtime, Tab, Fresh, Promise!Blank
  <2>3. m \in [K -> Runtime]
    BY <2>2 DEF Without, With
  <2>4. \A j \in K : m[j] = IF j = next THEN new ELSE Stored[j]
    BY <2>2 DEF Without, With
  <2>5. Loads(m, h, next) /\ sel' = next
    BY <1>1 DEF Loads
  <2> HIDE DEF m, h, new
  <2>6. [j \in K |-> Tab(m[j])] = Promise!Opened(Promise!Without(Seen, old), next)
    <3>1. Promise!Without(Seen, old) = [j \in Open \ {old} |-> Tab(Stored[j])]
      BY DEF Promise!Without, Seen
    <3>2. (Open \ {old}) \cup {next} = K
      BY <1>1
    <3>3. Promise!Opened(Promise!Without(Seen, old), next)
            = [j \in K |-> IF j = next THEN Promise!Blank ELSE Tab(Stored[j])]
      BY <3>1, <3>2 DEF Promise!Opened
    <3>4. \A j \in K : Tab(m[j]) = IF j = next THEN Promise!Blank ELSE Tab(Stored[j])
      BY <2>2, <2>4
    <3>5. QED
      BY <3>3, <3>4
  <2> HIDE DEF K
  <2>7. Rearranges([j \in K |-> Tab(m[j])])
    BY <2>1, <2>3, <2>5, LoadsRearranges
  <2>8. Rearranges(Promise!Opened(Promise!Without(Seen, old), next))
    BY <2>6, <2>7 DEF Rearranges
  <2>9. Promise!Reassign(old, next)
    BY <1>1, <2>5, <2>8, ParkedSight, AsReassign
  <2>10. \E j \in DOMAIN Seen, i \in Cab : Promise!Reassign(j, i)
    BY <1>1, <2>9 DEF Seen
  <2>11. QED
    BY <2>10 DEF Mapped, Promise!Next, Seen, Tab
<1>2. QED
  BY <1>1, RefusedMapped DEF ReplaceCab

LEMMA ArrangeMapped ==
  ASSUME Safe, Safe', Arrange
  PROVE  Mapped
BY AddCabMapped, FocusCabMapped, SelectCabMapped, RemoveCabMapped, ReplaceCabMapped
   DEF Arrange

-----------------------------------------------------------------------------
(***************************************************************************)
(* The refinement.                                                         *)
(***************************************************************************)
LEMMA InitMapped ==
  ASSUME Init
  PROVE  Promise!Init
<1>1. Safe
  BY InitSafe
<1>2. Stored = cabs /\ connected = FALSE
  BY <1>1, Sight DEF Init, Stored, Open
<1>3. Seen = [k \in Open |-> Promise!Blank]
  <2>1. \A k \in Open : \E t : cabs[k] = Fresh(t)
    BY DEF Init, Open
  <2>2. \A t : Tab(Fresh(t)) = Promise!Blank
    BY DEF Tab, Fresh, Promise!Blank
  <2>3. \A k \in Open : Tab(Stored[k]) = Promise!Blank
    BY <1>2, <2>1, <2>2
  <2>4. QED
    BY <2>3 DEF Seen
<1>4. Open \in SUBSET Cab /\ sel \in Open
  BY <1>1, Sight
<1>5. \E open \in SUBSET Cab : Seen = [k \in open |-> Promise!Blank]
  BY <1>3, <1>4
<1>6. QED
  BY <1>2, <1>4, <1>5 DEF Promise!Init, Seen, Tab

LEMMA NextMapped == Safe /\ Safe' /\ [Next]_vars => Mapped
<1> SUFFICES ASSUME Safe, Safe', [Next]_vars PROVE Mapped
  OBVIOUS
<1>1. CASE Rest
  BY <1>1, OperateMapped, ArrangeMapped, AttachMapped, DetachMapped, CommandMapped,
     TickMapped, ElapseMapped DEF Rest
<1>2. CASE UNCHANGED vars
  <2>1. Stored' = Stored /\ Open' = Open /\ connected' = connected /\ sel' = sel
    BY <1>2 DEF vars, Stored, Open
  <2>2. QED
    BY <2>1, SameSight DEF Mapped
<1>3. QED
  BY <1>1, <1>2, SlideMapped, ReportMapped DEF Next

(***************************************************************************)
(* The controller implements Tabs.tla: however the two copies of the       *)
(* selected locomotive are stored, loaded and reported to (cabs.go:61,     *)
(* controller.go:114-140), each tab is a locomotive of its own.  A step    *)
(* operates one tab, or reaches all of them as a tick, an emergency stop   *)
(* or a lost connection does, or rearranges tabs and leaves what they show.*)
(***************************************************************************)
THEOREM EachTabIsItsOwn == Spec => Isolation
<1>1. Init => Promise!Init
  BY InitMapped
<1>2. Safe /\ Safe' /\ [Next]_vars => [Promise!Next]_Promise!vars
  BY NextMapped DEF Mapped
<1>3. QED
  BY <1>1, <1>2, InitSafe, NextSafe, PTL DEF Spec, Isolation, Promise!Spec

=============================================================================
