---------------------------- MODULE LayoutProofs ----------------------------
(***************************************************************************)
(* The theorem about Layout.tla: once the wire is quiet every tab tells    *)
(* the truth, for every set of locomotives and functions and every number  *)
(* of commands and reports in flight.                                      *)
(*                                                                         *)
(* Of each open locomotive a command is in flight, which the station will  *)
(* answer with a report; or the last report in flight is of what the       *)
(* locomotive does; or none is in flight and the tab agrees with it.  What *)
(* the controller does to a tab without a command must then leave it in    *)
(* agreement, which rests on the invariant Safe of ControllerProofs.       *)
(***************************************************************************)
EXTENDS Layout, ControllerProofs

\* Commands that concern locomotive k are in "out", or on their way.
Tells(out, k) == \E m \in out \ {Other} : k \in Concerned(m)

(***************************************************************************)
(* A tab agrees with a locomotive: in what it shows, unless a speed waits, *)
(* and in what a waiting speed will be compared with.                      *)
(***************************************************************************)
Agrees(r, l) ==
  /\ r.dir = l.dir /\ r.fns = l.fns
  /\ r.pending = None => r.speed = l.speed
  /\ r.lastKnown => r.lastSpeed = l.speed /\ r.lastDir = l.dir

\* What becomes of a tab without a command.
Follows(r, t) ==
  /\ t.dir = r.dir /\ t.fns = r.fns
  /\ t.lastKnown => r.lastKnown /\ t.lastSpeed = r.lastSpeed /\ t.lastDir = r.lastDir
  /\ t.pending = None => \/ r.pending = None /\ t.speed = r.speed
                         \/ r.lastKnown /\ t.speed = r.lastSpeed

\* A step of the controller that stays connected tells or follows.
Accounted ==
  connected' => \A k \in Open' :
    \/ Tells(sent', k)
    \/ connected /\ k \in Open /\ Follows(Stored[k], Stored'[k])

LEMMA FollowsAgrees ==
  ASSUME NEW r, NEW t, NEW l, Agrees(r, l), Follows(r, t) PROVE Agrees(t, l)
BY DEF Agrees, Follows

-----------------------------------------------------------------------------
(***************************************************************************)
(* Families of steps of the controller.                                    *)
(***************************************************************************)
LEMMA TellsIs ==
  ASSUME NEW k \in Cab, NEW out
  PROVE  /\ \A s, d : Throttle(k, s, d) \in out => Tells(out, k)
         /\ \A f, on : FnSet(k, f, on) \in out => Tells(out, k)
         /\ Query(k) \in out => Tells(out, k)
         /\ EStop \in out => Tells(out, k)
<1>1. ASSUME NEW s, NEW d, Throttle(k, s, d) \in out PROVE Tells(out, k)
  <2> DEFINE m == Throttle(k, s, d)
  <2>1. m.op = "throttle" /\ m.cab = k
    BY DEF Throttle
  <2>2. m # Other /\ k \in Concerned(m)
    BY <2>1 DEF Other, Concerned
  <2> QED BY <1>1, <2>2 DEF Tells
<1>2. ASSUME NEW f, NEW on, FnSet(k, f, on) \in out PROVE Tells(out, k)
  <2> DEFINE m == FnSet(k, f, on)
  <2>1. m.op = "function" /\ m.cab = k
    BY DEF FnSet
  <2>2. m # Other /\ k \in Concerned(m)
    BY <2>1 DEF Other, Concerned
  <2> QED BY <1>2, <2>2 DEF Tells
<1>3. ASSUME Query(k) \in out PROVE Tells(out, k)
  <2> DEFINE m == Query(k)
  <2>1. m.op = "query" /\ m.cab = k
    BY DEF Query
  <2>2. m # Other /\ k \in Concerned(m)
    BY <2>1 DEF Other, Concerned
  <2> QED BY <1>3, <2>2 DEF Tells
<1>4. ASSUME EStop \in out PROVE Tells(out, k)
  <2>1. EStop # Other /\ k \in Concerned(EStop)
    BY DEF EStop, Other, Concerned
  <2> QED BY <1>4, <2>1 DEF Tells
<1> QED BY <1>1, <1>2, <1>3, <1>4

LEMMA FollowsItself == \A r : Follows(r, r)
BY DEF Follows

LEMMA Held ==
  ASSUME Safe
  PROVE  /\ sel \in Open /\ Open \subseteq Cab /\ connected \in BOOLEAN
         /\ Stored \in [Open -> Runtime]
         /\ \A k \in Open : Stored[k] \in Runtime /\ Consistent(Stored[k])
BY StoredType DEF Safe, Shape, TypeOK

LEMMA LeavesAccounted ==
  ASSUME Safe, Safe', NEW k \in Open, NEW r, NEW out, Leaves(k, r, out),
         connected => Tells(out, k) \/ Follows(Stored[k], r)
  PROVE  Accounted
<1>1. cabs' = [Stored EXCEPT ![k] = r] /\ live' = cabs'[sel']
      /\ connected' = connected /\ sel' = sel /\ sent' = out
  BY DEF Leaves
<1>2. Stored' = cabs'
  BY <1>1, Reloaded DEF Safe
<1>3. Open' = Open
  BY <1>1, Held DEF Open
<1>4. \A j \in Open : Stored'[j] = IF j = k THEN r ELSE Stored[j]
  BY <1>1, <1>2, Held
<1> QED BY <1>1, <1>3, <1>4, FollowsItself DEF Accounted

LEMMA FailsAccounted ==
  ASSUME NEW m, NEW out, Fails(m, out) PROVE Accounted
BY DEF Fails, Accounted

LEMMA LoadsAccounted ==
  ASSUME Safe, Safe', NEW K, NEW k \in K, k \in Cab, NEW m \in [K -> Runtime], NEW h,
         Loads(m, h, k), \A j \in K \ {k} : j \in Open /\ Follows(Stored[j], m[j])
  PROVE  Accounted
<1>1. CASE ~connected'
  BY <1>1 DEF Accounted
<1>2. CASE connected'
  <2>1. /\ sel' = k /\ cabs' = m /\ live' = m[k] /\ connected
        /\ sent' = {Query(k)}
    BY <1>2 DEF Loads
  <2>2. Stored' = m /\ Open' = K
    BY <2>1, Reloaded DEF Safe, Open
  <2>3. Tells(sent', k)
    BY <2>1, TellsIs
  <2> QED BY <2>1, <2>2, <2>3 DEF Accounted
<1> QED BY <1>1, <1>2

\* What is stored stays, whichever copy it is in.
LEMMA StaysAccounted ==
  ASSUME Open' = Open, connected' = connected,
         \A j \in Open : Follows(Stored[j], Stored'[j])
  PROVE  Accounted
BY DEF Accounted

-----------------------------------------------------------------------------
(***************************************************************************)
(* Operations on a tab.                                                    *)
(***************************************************************************)
LEMMA SlideAccounted ==
  ASSUME Safe, Safe', Slide PROVE Accounted
<1>1. PICK k \in Open, s \in Speed : MoveSpeed(k, s)
  BY DEF Slide
<1> DEFINE r == [Stored[k] EXCEPT !.speed = s,
                                  !.pending = IF connected THEN s ELSE None]
<1>2. connected => Follows(Stored[k], r)
  BY Held, Constants DEF Follows, Runtime
<1>3. Leaves(k, r, {})
  BY <1>1 DEF MoveSpeed
<1> HIDE DEF r
<1> QED BY <1>2, <1>3, LeavesAccounted

LEMMA SetDirectionAccounted ==
  ASSUME Safe, Safe', NEW k \in Open, NEW d \in Dir, SetDirection(k, d) PROVE Accounted
<1> DEFINE r == Stored[k]
           t == [Transmitted(r, r.speed, d) EXCEPT !.dir = d]
           out == {Throttle(k, r.speed, d)}
<1>1. Tells(out, k)
  BY Held, TellsIs
<1>2. Leaves(k, t, out) \/ Fails(Stored, {}) \/ Leaves(k, r, {})
  BY DEF SetDirection
<1> HIDE DEF t, out
<1> QED BY <1>1, <1>2, LeavesAccounted, FailsAccounted, FollowsItself

LEMMA StopAccounted ==
  ASSUME Safe, Safe', NEW k \in Open, Stop(k) PROVE Accounted
<1> DEFINE r == [Stored[k] EXCEPT !.pending = None]
           t == [Transmitted(r, 0, r.dir) EXCEPT !.speed = 0]
           out == {Throttle(k, 0, r.dir)}
<1>1. Tells(out, k)
  BY Held, TellsIs
<1>2. CASE Fails(Stored, {})
  BY <1>2, FailsAccounted
<1>3. CASE ~connected /\ Leaves(k, r, {})
  <2> HIDE DEF r
  <2> QED BY <1>3, LeavesAccounted
<1>4. CASE Leaves(k, t, {Throttle(k, 0, r.dir)})
  <2> HIDE DEF t, out
  <2> QED BY <1>1, <1>4, LeavesAccounted DEF out
<1> QED BY <1>2, <1>3, <1>4 DEF Stop

LEMMA EmergencyAccounted ==
  ASSUME Safe, Safe', NEW k \in Open, Emergency(k) PROVE Accounted
<1>1. CASE ~connected'
  BY <1>1 DEF Accounted
<1>2. CASE connected' /\ connected /\ sent' = {EStop} /\ DOMAIN cabs' = Open
  <2>1. \A j \in Open : Tells(sent', j)
    BY <1>2, Held, TellsIs
  <2> QED BY <1>2, <2>1 DEF Accounted, Open
<1> QED BY <1>1, <1>2 DEF Emergency, Fails

LEMMA SetToggleAccounted ==
  ASSUME Safe, Safe', NEW k \in Open, NEW f \in Fn, NEW on \in BOOLEAN, SetToggle(k, f, on)
  PROVE  Accounted
<1> DEFINE T == IF on THEN Stored[k].toggle \cup {f} ELSE Stored[k].toggle \ {f}
           r == [Stored[k] EXCEPT !.toggle = T]
<1>1. Leaves(k, r, {})
  BY DEF SetToggle
<1> HIDE DEF T
<1>2. Follows(Stored[k], r)
  BY Held DEF Follows, Runtime
<1> HIDE DEF r
<1> QED BY <1>1, <1>2, LeavesAccounted

LEMMA FunctionAccounted ==
  ASSUME Safe, Safe', NEW k \in Open, NEW f \in Fn, NEW pressed \in BOOLEAN,
         Function(k, f, pressed)
  PROVE  Accounted
<1>1. ASSUME NEW r, NEW on, Leaves(k, r, {FnSet(k, f, on)}) PROVE Accounted
  <2>1. Tells({FnSet(k, f, on)}, k)
    BY Held, TellsIs
  <2> QED BY <1>1, <2>1, LeavesAccounted
<1>2. CASE Leaves(k, Stored[k], {})
  BY <1>2, LeavesAccounted, FollowsItself
<1>3. CASE Fails(Stored, {})
  BY <1>3, FailsAccounted
<1> QED BY <1>1, <1>2, <1>3 DEF Function

LEMMA AllFunctionsOffAccounted ==
  ASSUME Safe, Safe', NEW k \in Open, AllFunctionsOff(k) PROVE Accounted
<1> DEFINE r == Stored[k]
           t == [r EXCEPT !.fns = {}]
           out == {FnSet(k, f, FALSE) : f \in r.fns}
<1>1. CASE Leaves(k, t, out)
  <2>1. CASE r.fns = {}
    <3>1. Follows(r, t)
      BY <2>1, Held DEF Follows, Runtime
    <3> HIDE DEF t, out
    <3> QED BY <1>1, <3>1, LeavesAccounted
  <2>2. CASE r.fns # {}
    <3>1. PICK f \in r.fns : TRUE
      BY <2>2
    <3>2. FnSet(k, f, FALSE) \in out
      OBVIOUS
    <3>3. Tells(out, k)
      BY <3>2, Held, TellsIs
    <3> HIDE DEF t, out
    <3> QED BY <1>1, <3>3, LeavesAccounted
  <2> QED BY <2>1, <2>2
<1>2. CASE \E m, o : Fails(m, o)
  BY <1>2, FailsAccounted
<1>3. CASE Leaves(k, r, {})
  BY <1>3, LeavesAccounted, FollowsItself
<1> QED BY <1>1, <1>2, <1>3 DEF AllFunctionsOff

LEMMA OperateAccounted ==
  ASSUME Safe, Safe', NEW k \in Open, Operate(k) PROVE Accounted
BY SetDirectionAccounted, StopAccounted, EmergencyAccounted, AllFunctionsOffAccounted,
   SetToggleAccounted, FunctionAccounted DEF Operate

-----------------------------------------------------------------------------
(***************************************************************************)
(* The clock, the connection and the tabs.                                 *)
(***************************************************************************)
\* A speed that a tick discards is the one that was exchanged last.
LEMMA TickedFollows ==
  ASSUME NEW r \in Runtime, ~Due(r), Consistent(r) PROVE Follows(r, Ticked(r))
<1>1. CASE r.pending # None /\ Obsolete(r)
  <2>1. r.lastKnown /\ r.speed = r.lastSpeed
    BY <1>1 DEF Obsolete, Consistent
  <2>2. Ticked(r) = [r EXCEPT !.pending = None]
    BY <1>1 DEF Ticked
  <2> QED BY <2>1, <2>2 DEF Follows, Runtime
<1>2. CASE ~(r.pending # None /\ Obsolete(r))
  <2>1. Ticked(r) = r
    BY <1>2 DEF Ticked
  <2> QED BY <2>1, FollowsItself
<1> QED BY <1>1, <1>2

LEMMA TickAccounted ==
  ASSUME ~Embedder, Safe, Safe', Tick PROVE Accounted
<1>1. CASE ~connected'
  BY <1>1 DEF Accounted
<1>2. CASE connected'
  <2>1. /\ connected /\ cabs' = TickedIn(ToSet(order)) /\ live' = cabs'[sel'] /\ sel' = sel
        /\ sent' = DueThrottles(ToSet(order)) /\ ToSet(order) = Open
    BY <1>2 DEF Tick, Fails, Safe, Shape, OrderIsOpenTabs
  <2>2. Stored' = cabs' /\ Open' = Open
    BY <2>1, Reloaded DEF Safe, TickedIn, Open
  <2>3. \A j \in Open : Stored'[j] = Ticked(Stored[j])
    BY <2>1, <2>2 DEF TickedIn
  <2>4. ASSUME NEW j \in Open, Due(Stored[j]) PROVE Tells(sent', j)
    <3>1. Throttle(j, Stored[j].pending, Stored[j].dir) \in sent'
      BY <2>1, <2>4 DEF DueThrottles
    <3> QED BY <3>1, Held, TellsIs
  <2>5. \A j \in Open : ~Due(Stored[j]) => Follows(Stored[j], Stored'[j])
    <3> SUFFICES ASSUME NEW j \in Open, ~Due(Stored[j])
                 PROVE  Follows(Stored[j], Ticked(Stored[j]))
      BY <2>3
    <3> QED BY Held, TickedFollows
  <2> QED BY <2>1, <2>2, <2>4, <2>5 DEF Accounted
<1> QED BY <1>1, <1>2

LEMMA ElapseAccounted ==
  ASSUME Safe, Safe', Elapse PROVE Accounted
<1>1. Open' = Open /\ connected' = connected /\ sel' = sel
  BY DEF Elapse, Open
<1>2. \A j \in Open : Stored'[j] = Older(Stored[j])
  BY <1>1 DEF Elapse, Stored, Open
<1>3. \A r \in Runtime : Follows(r, Older(r))
  BY DEF Older, Runtime, Follows
<1>4. \A j \in Open : Follows(Stored[j], Stored'[j])
  <2> SUFFICES ASSUME NEW j \in Open PROVE Follows(Stored[j], Older(Stored[j]))
    BY <1>2
  <2> QED BY <1>3, Held
<1> QED BY <1>1, <1>4, StaysAccounted

\* Attach asks for every tab there is, because the order lists them all.
LEMMA AttachAccounted ==
  ASSUME Safe, Attach PROVE Accounted
<1>1. CASE ~connected'
  BY <1>1 DEF Accounted
<1>2. CASE connected'
  <2>1. sent' = {Other} \cup Queried(Len(order)) /\ Open' = Open
    BY <1>2 DEF Attach, DroppedAll, Open
  <2>2. ASSUME NEW k \in Open PROVE Tells(sent', k)
    <3>1. PICK i \in DOMAIN order : order[i] = k
      BY DEF Safe, Shape, OrderIsOpenTabs, ToSet
    <3>2. DOMAIN order = 1..Len(order)
      BY DEF Safe, Shape, TypeOK
    <3>3. Query(k) \in sent'
      BY <2>1, <3>1, <3>2 DEF Queried
    <3> QED BY <3>3, Held, TellsIs
  <2> QED BY <2>1, <2>2 DEF Accounted
<1> QED BY <1>1, <1>2

LEMMA DetachAccounted == ASSUME Detach PROVE Accounted
BY DEF Detach, Accounted

LEMMA CommandAccounted ==
  ASSUME Command PROVE Accounted
<1>1. Stored' = Stored /\ Open' = Open /\ connected' = connected
  BY DEF Command, Stored, Open
<1> QED BY <1>1, FollowsItself, StaysAccounted

LEMMA RefusedAccounted ==
  ASSUME Safe, Refused PROVE Accounted
<1>1. cabs' = Stored /\ live' = live /\ sel' = sel /\ connected' = connected
  BY DEF Refused
<1>2. DOMAIN Stored = Open /\ Stored[sel] = live /\ sel \in Open
  BY StoredType, Held DEF Safe, Shape
<1>3. Open' = Open /\ Stored' = Stored
  BY <1>1, <1>2 DEF Stored, Open
<1> QED BY <1>1, <1>3, FollowsItself, StaysAccounted

LEMMA AddCabAccounted ==
  ASSUME Safe, Safe', NEW k \in Cab, AddCab(k) PROVE Accounted
<1> DEFINE K == Open \cup {k}
           m == With(Stored, k, Fresh(DefaultToggle))
           h == With(held, k, {})
<1>1. m \in [K -> Runtime] /\ k \in K
  BY Held, Constants, FreshType DEF With
<1>2. \A j \in K \ {k} : j \in Open /\ m[j] = Stored[j]
  BY Held DEF With
<1>3. Loads(m, h, k)
  BY DEF AddCab, OpensIn
<1> HIDE DEF K, m, h
<1> QED BY <1>1, <1>2, <1>3, FollowsItself, LoadsAccounted

LEMMA FocusCabAccounted ==
  ASSUME Safe, Safe', NEW k \in Cab, FocusCab(k) PROVE Accounted
<1>1. k \in Open /\ Loads(Stored, held, k)
  BY DEF FocusCab
<1> QED BY <1>1, Held, FollowsItself, LoadsAccounted

LEMMA RemoveCabAccounted ==
  ASSUME Safe, Safe', NEW k \in Cab, RemoveCab(k) PROVE Accounted
<1>1. CASE /\ cabs' = Without(Stored, k) /\ live' = cabs'[sel'] /\ UNCHANGED connected
  <2>1. Stored' = cabs' /\ Open' = Open \ {k}
    BY <1>1, Held, Reloaded DEF Safe, Open, Without
  <2>2. \A j \in Open' : j \in Open /\ Stored'[j] = Stored[j]
    BY <1>1, <2>1, Held DEF Without
  <2> QED BY <1>1, <2>2, FollowsItself DEF Accounted
<1> QED BY <1>1, RefusedAccounted DEF RemoveCab

LEMMA ReplaceCabAccounted ==
  ASSUME Safe, Safe', NEW old \in Cab, NEW next \in Cab, ReplaceCab(old, next)
  PROVE  Accounted
<1>1. CASE /\ old \in Open /\ next \notin Open
           /\ Loads(Without(With(Stored, next, Fresh(Stored[old].toggle)), old),
                    Without(With(held, next, {}), old), next)
  <2> DEFINE K == (Open \cup {next}) \ {old}
             m == Without(With(Stored, next, Fresh(Stored[old].toggle)), old)
             h == Without(With(held, next, {}), old)
  <2>1. Fresh(Stored[old].toggle) \in Runtime
    BY <1>1, Held, FreshType DEF Runtime
  <2>2. m \in [K -> Runtime] /\ next \in K
    BY <1>1, <2>1, Held DEF Without, With
  <2>3. \A j \in K \ {next} : j \in Open /\ m[j] = Stored[j]
    BY Held DEF Without, With
  <2>4. Loads(m, h, next)
    BY <1>1
  <2> HIDE DEF K, m, h
  <2> QED BY <2>2, <2>3, <2>4, FollowsItself, LoadsAccounted
<1> QED BY <1>1, RefusedAccounted DEF ReplaceCab

\* SelectCab alone forgets a waiting speed that its tab goes on showing.
LEMMA ArrangeAccounted ==
  ASSUME ~Embedder, Safe, Safe', Arrange PROVE Accounted
BY AddCabAccounted, FocusCabAccounted, RemoveCabAccounted, ReplaceCabAccounted
   DEF Arrange, SelectCab

LEMMA AccountedFor ==
  ASSUME ~Embedder, Safe, Safe', Slide \/ Rest PROVE Accounted
BY SlideAccounted, OperateAccounted, ArrangeAccounted, AttachAccounted, DetachAccounted,
   CommandAccounted, TickAccounted, ElapseAccounted DEF Rest

-----------------------------------------------------------------------------
(***************************************************************************)
(* What is in flight.  The reports of locomotive k among those in q end    *)
(* with l, if there are any.                                               *)
(***************************************************************************)
Ends(q, k, l) ==
  \A i \in DOMAIN q :
    q[i].cab = k /\ (\A j \in DOMAIN q : j > i => q[j].cab # k) => q[i].loco = l

Unheard(q, k) == \A i \in DOMAIN q : q[i].cab # k

LEMMA EndsTail ==
  ASSUME NEW R, NEW q \in Seq(R), q # <<>>, NEW k, NEW l, Ends(q, k, l)
  PROVE  /\ Ends(Tail(q), k, l)
         /\ Unheard(Tail(q), k) =>
              IF Head(q).cab = k THEN Head(q).loco = l ELSE Unheard(q, k)
<1> DEFINE t == Tail(q)
           h == Head(q)
<1>1. /\ Len(q) \in Nat \ {0} /\ DOMAIN q = 1..Len(q) /\ h = q[1]
      /\ DOMAIN t = 1..(Len(q) - 1)
      /\ \A i \in 1..(Len(q) - 1) : t[i] = q[i + 1]
  OBVIOUS
<1> HIDE DEF t, h
<1>2. ASSUME NEW i \in DOMAIN t, t[i].cab = k,
             \A j \in DOMAIN t : j > i => t[j].cab # k
      PROVE  t[i].loco = l
  <2>1. i + 1 \in DOMAIN q /\ q[i + 1] = t[i]
    BY <1>1
  <2>2. ASSUME NEW j \in DOMAIN q, j > i + 1 PROVE q[j].cab # k
    <3>1. j - 1 \in DOMAIN t /\ j - 1 > i /\ t[j - 1] = q[j]
      BY <1>1, <2>2
    <3> QED BY <1>2, <3>1
  <2> QED BY <1>2, <2>1, <2>2 DEF Ends
<1>3. ASSUME Unheard(t, k), q[1].cab = k PROVE q[1].loco = l
  <2>1. ASSUME NEW j \in DOMAIN q, j > 1 PROVE q[j].cab # k
    <3>1. j - 1 \in DOMAIN t /\ t[j - 1] = q[j]
      BY <1>1, <2>1
    <3> QED BY <1>3, <3>1 DEF Unheard
  <2> QED BY <1>1, <1>3, <2>1 DEF Ends
<1>4. ASSUME Unheard(t, k), q[1].cab # k PROVE Unheard(q, k)
  <2>1. SUFFICES ASSUME NEW j \in DOMAIN q, j # 1 PROVE q[j].cab # k
    BY <1>4 DEF Unheard
  <2>2. j - 1 \in DOMAIN t /\ t[j - 1] = q[j]
    BY <1>1, <2>1
  <2> QED BY <1>4, <2>2 DEF Unheard
<1>5. Ends(t, k, l)
  BY <1>2 DEF Ends
<1>6. Unheard(t, k) => IF h.cab = k THEN h.loco = l ELSE Unheard(q, k)
  BY <1>1, <1>3, <1>4
<1> QED BY <1>5, <1>6 DEF t, h

LEMMA EndsSaid ==
  ASSUME NEW R, NEW q \in Seq(R), NEW s \in Seq(R), NEW k, NEW l,
         \A i \in DOMAIN s : s[i].cab = k => s[i].loco = l,
         Ends(q, k, l) \/ ~Unheard(s, k)
  PROVE  /\ Ends(q \o s, k, l)
         /\ Unheard(q \o s, k) => Unheard(q, k) /\ Unheard(s, k)
<1> DEFINE t == q \o s
<1>1. Len(q) \in Nat /\ Len(s) \in Nat /\ DOMAIN q = 1..Len(q) /\ DOMAIN s = 1..Len(s)
  OBVIOUS
<1>2. /\ DOMAIN t = 1..(Len(q) + Len(s))
      /\ \A i \in DOMAIN q : t[i] = q[i]
      /\ \A i \in DOMAIN s : t[Len(q) + i] = s[i]
  OBVIOUS
<1> HIDE DEF t
<1>3. \A i \in DOMAIN q : i \in DOMAIN t
  BY <1>1, <1>2
<1>4. \A i \in DOMAIN s : Len(q) + i \in DOMAIN t
  BY <1>1, <1>2
<1>5. ASSUME NEW i \in DOMAIN t, t[i].cab = k,
             \A j \in DOMAIN t : j > i => t[j].cab # k
      PROVE  t[i].loco = l
  <2>1. CASE i \in DOMAIN q
    <3>1. ASSUME NEW j \in DOMAIN s PROVE s[j].cab # k
      <4>1. Len(q) + j > i
        BY <1>1, <2>1
      <4> QED BY <1>2, <1>4, <1>5, <4>1
    <3>2. Ends(q, k, l)
      BY <3>1 DEF Unheard
    <3> QED BY <1>2, <1>3, <1>5, <2>1, <3>2 DEF Ends
  <2>2. CASE i \notin DOMAIN q
    <3>1. i - Len(q) \in DOMAIN s /\ Len(q) + (i - Len(q)) = i
      BY <1>1, <1>2, <2>2
    <3>2. t[i] = s[i - Len(q)]
      BY <1>2, <3>1
    <3> QED BY <1>5, <3>1, <3>2
  <2> QED BY <2>1, <2>2
<1>6. Unheard(t, k) => Unheard(q, k) /\ Unheard(s, k)
  BY <1>2, <1>3, <1>4 DEF Unheard
<1> QED BY <1>5, <1>6 DEF Ends, t

\* A set sent in some order arrives once each.
LEMMA InOrder ==
  ASSUME NEW S, IsFiniteSet(S), NEW q \in SetToSeqs(S)
  PROVE  q \in Seq(S) /\ ToSet(q) = S
<1> DEFINE n == Cardinality(S)
<1>1. n \in Nat
  BY FS_CardinalityType
<1>2. q \in [1..n -> S] /\ \A i, j \in 1..n : i # j => q[i] # q[j]
  BY DEF SetToSeqs
<1>3. q \in Injection(1..n, S)
  BY <1>2 DEF Injection, IsInjective
<1>4. Cardinality(1..n) = n /\ IsFiniteSet(1..n)
  BY <1>1, FS_Interval
<1>5. q \in Surjection(1..n, S)
  BY <1>3, <1>4, FS_Injection
<1>6. \A m \in S : \E i \in 1..n : q[i] = m
  BY <1>5 DEF Surjection
<1> QED BY <1>1, <1>2, <1>6 DEF ToSet

LEMMA FiniteImage ==
  ASSUME NEW K, IsFiniteSet(K), NEW T, NEW f \in [K -> T]
  PROVE  IsFiniteSet({f[x] : x \in K})
<1>1. f \in Surjection(K, {f[x] : x \in K})
  BY DEF Surjection
<1> QED BY <1>1, FS_Surjection

LEMMA CommandsFinite == IsFiniteSet(Commands)
<1>1. IsFiniteSet(Cab) /\ IsFiniteSet(Fn) /\ IsFiniteSet(Speed) /\ IsFiniteSet(Dir)
      /\ IsFiniteSet(BOOLEAN)
  <2>1. IsFiniteSet(Speed)
    <3>1. 0 \in Int /\ MaxSpeed \in Int
      BY ControllerAssumption DEF ControllerAssumption
    <3> QED BY <3>1, FS_Interval DEF Speed
  <2>2. IsFiniteSet({}) /\ IsFiniteSet({0}) /\ IsFiniteSet({0} \cup {1})
    BY FS_EmptySet, FS_Singleton, FS_AddElement
  <2>3. IsFiniteSet({TRUE}) /\ IsFiniteSet({TRUE} \cup {FALSE})
    BY FS_Singleton, FS_AddElement
  <2>4. Dir = {0} \cup {1} /\ BOOLEAN = {TRUE} \cup {FALSE}
    BY DEF Dir
  <2> QED BY <2>1, <2>2, <2>3, <2>4, ControllerAssumption, LayoutAssumption
      DEF ControllerAssumption, LayoutAssumption
<1> DEFINE A == {Throttle(k, s, d) : k \in Cab, s \in Speed, d \in Dir}
           B == {FnSet(k, f, on) : k \in Cab, f \in Fn, on \in BOOLEAN}
           C == {Query(k) : k \in Cab}
<1>2. IsFiniteSet(A)
  <2> DEFINE P == (Cab \X Speed) \X Dir
             g == [p \in P |-> Throttle(p[1][1], p[1][2], p[2])]
  <2>1. IsFiniteSet(P)
    BY <1>1, FS_Product
  <2>2. g \in Surjection(P, A)
    <3>1. \A p \in P : g[p] \in A
      OBVIOUS
    <3>2. ASSUME NEW k \in Cab, NEW s \in Speed, NEW d \in Dir
          PROVE  \E p \in P : g[p] = Throttle(k, s, d)
      <4> DEFINE p == <<<<k, s>>, d>>
      <4>1. p \in P /\ g[p] = Throttle(k, s, d)
        OBVIOUS
      <4> HIDE DEF p, P, g
      <4> QED BY <4>1
    <3>3. ASSUME NEW m \in A PROVE \E p \in P : g[p] = m
      <4>1. PICK k \in Cab, s \in Speed, d \in Dir : m = Throttle(k, s, d)
        OBVIOUS
      <4> HIDE DEF P, g
      <4> QED BY <3>2, <4>1
    <3> QED BY <3>1, <3>3 DEF Surjection
  <2> QED BY <2>1, <2>2, FS_Surjection
<1>3. IsFiniteSet(B)
  <2> DEFINE P == (Cab \X Fn) \X BOOLEAN
             g == [p \in P |-> FnSet(p[1][1], p[1][2], p[2])]
  <2>1. IsFiniteSet(P)
    BY <1>1, FS_Product
  <2>2. g \in Surjection(P, B)
    <3>1. \A p \in P : g[p] \in B
      OBVIOUS
    <3>2. ASSUME NEW k \in Cab, NEW f \in Fn, NEW on \in BOOLEAN
          PROVE  \E p \in P : g[p] = FnSet(k, f, on)
      <4> DEFINE p == <<<<k, f>>, on>>
      <4>1. p \in P /\ g[p] = FnSet(k, f, on)
        OBVIOUS
      <4> HIDE DEF p, P, g
      <4> QED BY <4>1
    <3>3. ASSUME NEW m \in B PROVE \E p \in P : g[p] = m
      <4>1. PICK k \in Cab, f \in Fn, on \in BOOLEAN : m = FnSet(k, f, on)
        OBVIOUS
      <4> HIDE DEF P, g
      <4> QED BY <3>2, <4>1
    <3> QED BY <3>1, <3>3 DEF Surjection
  <2> QED BY <2>1, <2>2, FS_Surjection
<1>4. IsFiniteSet(C)
  <2> DEFINE g == [k \in Cab |-> Query(k)]
  <2>1. g \in Surjection(Cab, C)
    BY DEF Surjection
  <2> QED BY <1>1, <2>1, FS_Surjection
<1>5. IsFiniteSet({EStop, Other})
  <2>1. IsFiniteSet({EStop} \cup {Other}) /\ {EStop, Other} = {EStop} \cup {Other}
    BY FS_Singleton, FS_AddElement
  <2> QED BY <2>1
<1>6. IsFiniteSet(A \cup B) /\ IsFiniteSet(A \cup B \cup C)
      /\ IsFiniteSet(A \cup B \cup C \cup {EStop, Other})
  <2> HIDE DEF A, B, C
  <2> QED BY <1>2, <1>3, <1>4, <1>5, FS_Union
<1> QED BY <1>6 DEF Commands

-----------------------------------------------------------------------------
(***************************************************************************)
(* The inductive invariant.                                                *)
(***************************************************************************)
Order == Commands \ {Other}
Message == {Reporting(k, l) : k \in Cab, l \in Loco}

\* What is in flight will end with the truth about locomotive k.
Told(k) ==
  \/ Tells(ToSet(down), k)
  \/ /\ Ends(up, k, station[k])
     /\ Unheard(up, k) => Agrees(Stored[k], station[k])

Wired ==
  /\ station \in [Cab -> Loco]
  /\ down \in Seq(Order)
  /\ up \in Seq(Message)

LInv == Safe /\ Wired /\ (connected => \A k \in Open : Told(k))

LEMMA SentFinite ==
  ASSUME Safe'
  PROVE  IsFiniteSet(sent' \ {Other}) /\ sent' \ {Other} \subseteq Order
<1>1. sent' \subseteq Commands
  BY DEF Safe, Shape, TypeOK
<1> QED BY <1>1, CommandsFinite, FS_Subset DEF Order

LEMMA ToldLater ==
  ASSUME NEW p \in Seq(Order), NEW q \in Seq(Order), NEW k,
         Tells(ToSet(p), k) \/ Tells(ToSet(q), k)
  PROVE  Tells(ToSet(p \o q), k)
<1>1. \A i \in DOMAIN p : i \in DOMAIN (p \o q) /\ (p \o q)[i] = p[i]
  OBVIOUS
<1>2. \A i \in DOMAIN q : Len(p) + i \in DOMAIN (p \o q) /\ (p \o q)[Len(p) + i] = q[i]
  OBVIOUS
<1>3. ToSet(p) \cup ToSet(q) \subseteq ToSet(p \o q)
  BY <1>1, <1>2 DEF ToSet
<1> QED BY <1>3 DEF Tells

LEMMA OperatorTold ==
  ASSUME ~Embedder, LInv, Operator PROVE LInv'
<1>1. Safe'
  BY NextSafe DEF LInv, Operator, Next
<1>2. Accounted
  BY <1>1, AccountedFor DEF LInv, Operator
<1>3. PICK q \in SetToSeqs(sent' \ {Other}) :
        IF connected /\ ~connected'
          THEN \E n \in 0..Len(down \o q) : down' = SubSeq(down \o q, 1, n)
          ELSE down' = down \o q
  BY DEF Operator, Dispatch
<1>4. q \in Seq(Order) /\ ToSet(q) = sent' \ {Other}
  <2>1. q \in Seq(sent' \ {Other}) /\ ToSet(q) = sent' \ {Other}
    BY <1>1, <1>3, SentFinite, InOrder
  <2> QED BY <1>1, <2>1, SentFinite
<1>5. /\ station' = station /\ station \in [Cab -> Loco]
      /\ down \in Seq(Order) /\ up \in Seq(Message)
      /\ up' = IF connected' THEN up ELSE <<>>
  BY DEF Operator, Dispatch, LInv, Wired
<1>6. down' \in Seq(Order)
  <2> DEFINE t == down \o q
  <2>1. t \in Seq(Order) /\ Len(t) \in Nat
    BY <1>4, <1>5
  <2>2. CASE down' = t
    BY <2>1, <2>2
  <2>3. CASE \E n \in 0..Len(t) : down' = SubSeq(t, 1, n)
    <3> HIDE DEF t
    <3> QED BY <2>1, <2>3
  <2> QED BY <1>3, <2>2, <2>3
<1>7. up' \in Seq(Message)
  <2>1. <<>> \in Seq(Message)
    OBVIOUS
  <2> QED BY <1>5, <2>1
<1>8. ASSUME connected', NEW k \in Open' PROVE Told(k)'
  <2>1. down' = down \o q /\ up' = up
    BY <1>3, <1>5, <1>8
  <2>2. CASE Tells(sent', k) \/ Tells(ToSet(down), k)
    <3>1. Tells(ToSet(q), k) \/ Tells(ToSet(down), k)
      BY <1>4, <2>2 DEF Tells
    <3>2. Tells(ToSet(down'), k)
      BY <1>4, <1>5, <2>1, <3>1, ToldLater
    <3> QED BY <3>2 DEF Told, Tells, Concerned
  <2>3. CASE ~Tells(sent', k) /\ ~Tells(ToSet(down), k)
    <3>1. connected /\ k \in Open /\ Follows(Stored[k], Stored'[k])
      BY <1>2, <1>8, <2>3 DEF Accounted
    <3>2. Ends(up, k, station[k]) /\ (Unheard(up, k) => Agrees(Stored[k], station[k]))
      BY <2>3, <3>1 DEF LInv, Told
    <3>3. Ends(up', k, station'[k]) /\ (Unheard(up', k) => Agrees(Stored'[k], station'[k]))
      BY <1>5, <2>1, <3>1, <3>2, FollowsAgrees
    <3> QED BY <3>3 DEF Told, Ends, Unheard, Agrees
  <2> QED BY <2>2, <2>3
<1> QED BY <1>1, <1>5, <1>6, <1>7, <1>8 DEF LInv, Wired

\* The controller is not concerned.
LEMMA QuietSafe ==
  ASSUME Safe, sent' = {}, UNCHANGED <<connected, sel, live, cabs, held, order>>
  PROVE  Safe' /\ Stored' = Stored /\ Open' = Open
<1>1. Stored' = Stored /\ Open' = Open
  BY DEF Stored, Open
<1>2. Shape'
  BY <1>1 DEF Safe, Shape, TypeOK, OrderIsOpenTabs
<1>3. IdleOffline' /\ Matches(sent', Stored')
  BY <1>1 DEF Safe, IdleOffline, Idle, Matches
<1> QED BY <1>1, <1>2, <1>3 DEF Safe, Consistent, Matches

LEMMA ReceiveStored ==
  ASSUME Safe, Safe', NEW k \in Open, NEW s, NEW d, NEW F, Receive(k, s, d, F)
  PROVE  /\ connected /\ connected' /\ Open' = Open
         /\ \A j \in Open : Stored'[j] = IF j = k THEN Reported(Stored[k], s, d, F)
                                                  ELSE Stored[j]
<1>1. CASE k = sel
  <2>1. /\ live' = Reported(live, s, d, F) /\ sel' = sel /\ cabs' = cabs
        /\ connected /\ connected'
    BY <1>1 DEF Receive
  <2> QED BY <1>1, <2>1, Held DEF Stored, Open
<1>2. CASE k # sel
  <2> DEFINE r == Reported(Stored[k], s, d, F)
  <2>1. Leaves(k, r, {}) /\ connected
    BY <1>2 DEF Receive
  <2> HIDE DEF r
  <2>2. /\ cabs' = [Stored EXCEPT ![k] = r] /\ live' = cabs'[sel']
        /\ connected' = connected
    BY <2>1 DEF Leaves
  <2>3. Stored' = cabs' /\ Open' = Open
    BY <2>2, Held, Reloaded DEF Safe, Open
  <2> QED BY <2>1, <2>2, <2>3, Held DEF r
<1> QED BY <1>1, <1>2

LEMMA ReportedAgrees ==
  ASSUME NEW r \in Runtime, NEW l
  PROVE  Agrees(Reported(r, l.speed, l.dir, l.fns), l)
BY DEF Agrees, Reported, Runtime

LEMMA HearTold ==
  ASSUME LInv, Hear PROVE LInv'
<1> DEFINE m == Head(up)
<1>1. /\ connected /\ up # <<>> /\ up' = Tail(up) /\ station' = station /\ down' = down
      /\ station \in [Cab -> Loco] /\ down \in Seq(Order) /\ up \in Seq(Message)
  BY DEF Hear, LInv, Wired
<1>2. m \in Message /\ up' \in Seq(Message)
  BY <1>1
<1>3. m.cab \in Cab /\ m.loco \in Loco
  <2> HIDE DEF m
  <2>1. PICK k \in Cab, l \in Loco : m = Reporting(k, l)
    BY <1>2 DEF Message
  <2> QED BY <2>1 DEF Reporting
<1> HIDE DEF m
<1>4. /\ Safe' /\ Open' = Open /\ connected'
      /\ \A k \in Open : IF k = m.cab THEN Agrees(Stored'[k], m.loco)
                                      ELSE Stored'[k] = Stored[k]
  <2>1. CASE m.cab \in Open
    <3>1. Receive(m.cab, m.loco.speed, m.loco.dir, m.loco.fns)
      BY <2>1 DEF Hear, m
    <3>2. m.loco.speed \in Speed /\ m.loco.dir \in Dir /\ m.loco.fns \in SUBSET Fn
      BY <1>3 DEF Loco
    <3>3. Safe'
      BY <2>1, <3>1, <3>2, ReportSafe DEF Report, LInv
    <3>4. Agrees(Reported(Stored[m.cab], m.loco.speed, m.loco.dir, m.loco.fns), m.loco)
      BY <2>1, Held, ReportedAgrees DEF LInv
    <3> QED BY <2>1, <3>1, <3>3, <3>4, ReceiveStored DEF LInv
  <2>2. CASE m.cab \notin Open
    <3>1. sent' = {} /\ UNCHANGED <<connected, sel, live, cabs, held, order>>
      BY <2>2 DEF Hear, m
    <3> QED BY <1>1, <2>2, <3>1, QuietSafe DEF LInv
  <2> QED BY <2>1, <2>2
<1>5. ASSUME NEW k \in Open PROVE Told(k)'
  <2>1. CASE Tells(ToSet(down), k)
    BY <1>1, <2>1 DEF Told, Tells, Concerned
  <2>2. CASE ~Tells(ToSet(down), k)
    <3>1. Ends(up, k, station[k]) /\ (Unheard(up, k) => Agrees(Stored[k], station[k]))
      BY <1>1, <2>2 DEF LInv, Told
    <3>2. /\ Ends(Tail(up), k, station[k])
          /\ Unheard(Tail(up), k) =>
               IF m.cab = k THEN m.loco = station[k] ELSE Unheard(up, k)
      BY <1>1, <3>1, EndsTail DEF m
    <3>3. /\ Ends(up', k, station'[k])
          /\ Unheard(up', k) => Agrees(Stored'[k], station'[k])
      BY <1>1, <1>4, <3>1, <3>2
    <3> QED BY <3>3 DEF Told, Ends, Unheard, Agrees
  <2> QED BY <2>1, <2>2
<1> QED BY <1>1, <1>2, <1>4, <1>5 DEF LInv, Wired

-----------------------------------------------------------------------------
(***************************************************************************)
(* The station changes the locomotives in K, at most, and reports them.    *)
(***************************************************************************)
LEMMA BroadcastTold ==
  ASSUME LInv, NEW K \in SUBSET Cab, Broadcast(K),
         station' \in [Cab -> Loco], down' \in Seq(Order),
         \A k \in Cab \ K : station'[k] = station[k],
         \A k \in Cab \ K : Tells(ToSet(down), k) => Tells(ToSet(down'), k)
  PROVE  LInv'
<1> DEFINE f == [k \in K |-> Reporting(k, station'[k])]
           S == {f[k] : k \in K}
<1>1. /\ sent' = {} /\ UNCHANGED <<connected, sel, live, cabs, held, order>>
      /\ up \in Seq(Message) /\ down \in Seq(Order)
  BY DEF Broadcast, LInv, Wired
<1>2. Safe' /\ Stored' = Stored /\ Open' = Open /\ Open \subseteq Cab
  BY <1>1, QuietSafe, Held DEF LInv
<1>3. f \in [K -> Message]
  BY DEF Message
<1>4. IsFiniteSet(K) /\ IsFiniteSet(S)
  <2>1. IsFiniteSet(K)
    BY ControllerAssumption, FS_Subset DEF ControllerAssumption
  <2> HIDE DEF f
  <2> QED BY <1>3, <2>1, FiniteImage
<1>5. S = {Reporting(k, station'[k]) : k \in K}
  OBVIOUS
<1>6. PICK q \in SetToSeqs(S) : up' = IF connected THEN up \o q ELSE <<>>
  BY <1>5 DEF Broadcast
<1>7. q \in Seq(S) /\ ToSet(q) = S
  BY <1>4, <1>6, InOrder
<1>8. q \in Seq(Message)
  <2>1. S \subseteq Message
    BY <1>3
  <2> HIDE DEF S
  <2> QED BY <1>7, <2>1
<1>9. \A m \in S : m.cab \in K /\ m.loco = station'[m.cab]
  BY DEF Reporting
<1>10. \A k \in K : \E m \in S : m.cab = k
  <2> SUFFICES ASSUME NEW k \in K PROVE \E m \in S : m.cab = k
    OBVIOUS
  <2>1. f[k] \in S /\ f[k].cab = k
    BY DEF Reporting
  <2> QED BY <2>1
<1> HIDE DEF f, S
<1>11. up' \in Seq(Message)
  <2>1. <<>> \in Seq(Message)
    OBVIOUS
  <2> QED BY <1>1, <1>6, <1>8, <2>1
<1>12. ASSUME connected, NEW k \in Open PROVE Told(k)'
  <2>1. up' = up \o q
    BY <1>6, <1>12
  <2>2. \A i \in DOMAIN q : q[i].cab = k => q[i].loco = station'[k]
    BY <1>7, <1>9 DEF ToSet
  <2>3. k \in K => ~Unheard(q, k)
    <3> SUFFICES ASSUME k \in K PROVE \E i \in DOMAIN q : q[i].cab = k
      BY DEF Unheard
    <3>1. PICK m \in S : m.cab = k
      BY <1>10
    <3>2. PICK i \in DOMAIN q : q[i] = m
      BY <1>7, <3>1 DEF ToSet
    <3> QED BY <3>1, <3>2
  <2>4. CASE Tells(ToSet(down'), k)
    BY <2>4 DEF Told, Tells, Concerned
  <2>5. CASE ~Tells(ToSet(down'), k)
    <3>1. k \in K \/ /\ station'[k] = station[k] /\ Ends(up, k, station[k])
                     /\ Unheard(up, k) => Agrees(Stored[k], station[k])
      BY <1>2, <1>12, <2>5 DEF LInv, Told
    <3>2. Ends(up, k, station'[k]) \/ ~Unheard(q, k)
      BY <2>3, <3>1
    <3>3. /\ Ends(up \o q, k, station'[k])
          /\ Unheard(up \o q, k) => Unheard(up, k) /\ Unheard(q, k)
      BY <1>1, <1>8, <2>2, <3>2, EndsSaid
    <3>4. /\ Ends(up', k, station'[k])
          /\ Unheard(up', k) => Agrees(Stored'[k], station'[k])
      BY <1>2, <2>1, <2>3, <3>1, <3>3
    <3> QED BY <3>4 DEF Told, Ends, Unheard, Agrees
  <2> QED BY <2>4, <2>5
<1> QED BY <1>1, <1>2, <1>11, <1>12 DEF LInv, Wired

LEMMA ObeyedType ==
  ASSUME Wired, NEW m \in Order
  PROVE  /\ Obeyed(m) \in [Cab -> Loco]
         /\ Concerned(m) \in SUBSET Cab
         /\ \A k \in Cab \ Concerned(m) : Obeyed(m)[k] = station[k]
<1>1. CASE m = EStop
  <2>1. m.op = "estop"
    BY <1>1 DEF EStop
  <2>2. \A k \in Cab : [station[k] EXCEPT !.speed = 0] \in Loco
    BY Constants DEF Wired, Loco
  <2> QED BY <2>1, <2>2 DEF Obeyed, Concerned
<1>2. ASSUME m.cab \in Cab, m.op # "estop",
             NEW l \in Loco, Obeyed(m) = [j \in Cab |-> IF m.cab = j THEN l ELSE station[j]]
      PROVE  /\ Obeyed(m) \in [Cab -> Loco]
             /\ Concerned(m) \in SUBSET Cab
             /\ \A k \in Cab \ Concerned(m) : Obeyed(m)[k] = station[k]
  <2>1. Concerned(m) = {m.cab}
    BY <1>2 DEF Concerned
  <2> QED BY <1>2, <2>1 DEF Wired
<1>3. ASSUME NEW k \in Cab, NEW s \in Speed, NEW d \in Dir, m = Throttle(k, s, d)
      PROVE  /\ m.cab \in Cab /\ m.op # "estop"
             /\ \E l \in Loco : Obeyed(m) = [j \in Cab |-> IF m.cab = j THEN l ELSE station[j]]
  <2> DEFINE l == [station[k] EXCEPT !.speed = s, !.dir = d]
  <2>1. m.op = "throttle" /\ m.cab = k /\ m.speed = s /\ m.dir = d
    BY <1>3 DEF Throttle
  <2>2. l \in Loco
    BY DEF Wired, Loco
  <2>3. Obeyed(m) = [j \in Cab |-> IF m.cab = j THEN l ELSE station[j]]
    BY <2>1 DEF Obeyed
  <2> HIDE DEF l
  <2> QED BY <2>1, <2>2, <2>3
<1>4. ASSUME NEW k \in Cab, NEW f \in Fn, NEW on \in BOOLEAN, m = FnSet(k, f, on)
      PROVE  /\ m.cab \in Cab /\ m.op # "estop"
             /\ \E l \in Loco : Obeyed(m) = [j \in Cab |-> IF m.cab = j THEN l ELSE station[j]]
  <2> DEFINE F == IF on THEN station[k].fns \cup {f} ELSE station[k].fns \ {f}
             l == [station[k] EXCEPT !.fns = F]
  <2>1. m.op = "function" /\ m.cab = k /\ m.fn = f /\ m.on = on
    BY <1>4 DEF FnSet
  <2>2. l \in Loco
    <3>1. station[k].fns \in SUBSET Fn /\ station[k] \in Loco
      BY DEF Wired, Loco
    <3>2. F \in SUBSET Fn
      BY <3>1
    <3> HIDE DEF F
    <3> QED BY <3>1, <3>2 DEF Loco
  <2>3. Obeyed(m) = [j \in Cab |-> IF m.cab = j THEN l ELSE station[j]]
    BY <2>1 DEF Obeyed
  <2> HIDE DEF l
  <2> QED BY <2>1, <2>2, <2>3
<1>5. ASSUME NEW k \in Cab, m = Query(k)
      PROVE  /\ m.cab \in Cab /\ m.op # "estop"
             /\ \E l \in Loco : Obeyed(m) = [j \in Cab |-> IF m.cab = j THEN l ELSE station[j]]
  <2>1. m.op = "query" /\ m.cab = k
    BY <1>5 DEF Query
  <2>2. station[k] \in Loco
    BY DEF Wired
  <2>3. Obeyed(m) = [j \in Cab |-> IF m.cab = j THEN station[k] ELSE station[j]]
    BY <2>1 DEF Obeyed
  <2> QED BY <2>1, <2>2, <2>3
<1> QED BY <1>1, <1>2, <1>3, <1>4, <1>5 DEF Order, Commands

\* The command obeyed was the only one that goes.
LEMMA ObeyTold ==
  ASSUME LInv, Obey PROVE LInv'
<1> DEFINE m == Head(down)
<1>1. /\ down # <<>> /\ station' = Obeyed(m) /\ Broadcast(Concerned(m))
      /\ down' = Tail(down) /\ down \in Seq(Order) /\ Wired
  BY DEF Obey, LInv, Wired
<1>2. m \in Order /\ down' \in Seq(Order)
  BY <1>1
<1>3. ToSet(down) \subseteq ToSet(down') \cup {m}
  <2>1. /\ Len(down) \in Nat \ {0} /\ DOMAIN down = 1..Len(down) /\ m = down[1]
        /\ DOMAIN down' = 1..(Len(down) - 1)
        /\ \A i \in 1..(Len(down) - 1) : down'[i] = down[i + 1]
    BY <1>1
  <2>2. ASSUME NEW i \in DOMAIN down, i # 1
        PROVE  i - 1 \in DOMAIN down' /\ down'[i - 1] = down[i]
    BY <2>1, <2>2
  <2> HIDE DEF m
  <2> QED BY <2>1, <2>2 DEF ToSet
<1> HIDE DEF m
<1>4. \A k \in Cab \ Concerned(m) : Tells(ToSet(down), k) => Tells(ToSet(down'), k)
  BY <1>3 DEF Tells
<1> QED BY <1>1, <1>2, <1>4, ObeyedType, BroadcastTold

LEMMA OtherOperatorTold ==
  ASSUME LInv, OtherOperator PROVE LInv'
<1>1. PICK k \in Cab, l \in Loco :
        /\ station' = [station EXCEPT ![k] = l] /\ Broadcast({k}) /\ UNCHANGED down
  BY DEF OtherOperator
<1>2. station' \in [Cab -> Loco] /\ down' \in Seq(Order)
      /\ \A j \in Cab \ {k} : station'[j] = station[j]
  BY <1>1 DEF LInv, Wired
<1> QED BY <1>1, <1>2, BroadcastTold

LEMMA LayoutInitTold == LayoutInit => LInv
<1> SUFFICES ASSUME LayoutInit PROVE LInv
  OBVIOUS
<1>1. <<>> \in Seq(Order) /\ <<>> \in Seq(Message)
  OBVIOUS
<1> QED BY <1>1, InitSafe DEF LayoutInit, LInv, Wired, Init

LEMMA LayoutNextTold ==
  ASSUME ~Embedder, LInv, [LayoutNext]_layoutVars PROVE LInv'
<1>1. CASE UNCHANGED layoutVars
  <2>1. Safe'
    BY <1>1, NextSafe DEF LInv, layoutVars
  <2>2. Stored' = Stored /\ Open' = Open /\ connected' = connected
        /\ station' = station /\ down' = down /\ up' = up
    BY <1>1 DEF layoutVars, vars, Stored, Open
  <2>3. \A k \in Open : Told(k) => Told(k)'
    BY <2>2 DEF Told, Tells, Concerned, Ends, Unheard, Agrees
  <2> QED BY <2>1, <2>2, <2>3 DEF LInv, Wired
<1> QED BY <1>1, OperatorTold, HearTold, ObeyTold, OtherOperatorTold DEF LayoutNext

-----------------------------------------------------------------------------
(***************************************************************************)
(* In an application that leaves SelectCab alone, every tab of a quiet     *)
(* connection shows what its locomotive does: whatever crossed on the wire *)
(* and was pressed meanwhile, in whichever tab (controller.go, cabs.go).   *)
(***************************************************************************)
THEOREM QuietTabsAreTrue ==
  ASSUME ~Embedder
  PROVE  LayoutSpec => []QuietTabsTellTheTruth
<1>1. LInv => QuietTabsTellTheTruth
  <2> SUFFICES ASSUME LInv, connected, down = <<>>, up = <<>>, NEW k \in Open,
                      Stored[k].pending = None
               PROVE  [speed |-> Stored[k].speed, dir |-> Stored[k].dir,
                       fns |-> Stored[k].fns] = station[k]
    BY DEF QuietTabsTellTheTruth
  <2>1. DOMAIN down = {} /\ DOMAIN up = {}
    OBVIOUS
  <2>2. ~Tells(ToSet(down), k) /\ Unheard(up, k)
    BY <2>1 DEF Tells, ToSet, Unheard
  <2>3. Agrees(Stored[k], station[k]) /\ station[k] \in Loco
    BY <2>2, Held DEF LInv, Told, Wired
  <2>4. Stored[k].speed = station[k].speed /\ Stored[k].dir = station[k].dir
        /\ Stored[k].fns = station[k].fns
    BY <2>3 DEF Agrees
  <2> QED BY <2>3, <2>4 DEF Loco
<1> QED BY <1>1, LayoutInitTold, LayoutNextTold, PTL DEF LayoutSpec
=============================================================================
