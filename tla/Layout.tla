------------------------------- MODULE Layout -------------------------------
(***************************************************************************)
(* The controller of Controller.tla talking to a DCC-EX station over one   *)
(* ordered, reliable connection at a time.  The station is external: what  *)
(* it answers is taken from the emulator and the firmware tests under      *)
(* src/integration and from how Controller.Receive reads its reports.      *)
(*                                                                         *)
(* Commands and reports cross on the wire, so a report the controller      *)
(* hears may be older than the command it has just sent.  Other operators  *)
(* drive the same locomotives.                                             *)
(***************************************************************************)
EXTENDS Controller

CONSTANTS
  MaxDown,  \* bound: commands in flight
  MaxUp     \* bound: reports in flight

ASSUME LayoutAssumption ==
  /\ {MaxDown, MaxUp} \subseteq Nat \ {0}
  /\ IsFiniteSet(Fn)

VARIABLES
  station,  \* what each locomotive is really doing
  down,     \* commands on their way to the station
  up        \* reports on their way to the controller

layoutVars == <<vars, station, down, up>>

Loco == [speed : Speed, dir : Dir, fns : SUBSET Fn]
Reporting(k, l) == [cab |-> k, loco |-> l]

LayoutInit ==
  /\ Init
  /\ station \in [Cab -> Loco]
  /\ down = <<>>
  /\ up = <<>>

-----------------------------------------------------------------------------
(***************************************************************************)
(* The commands of a step enter the wire.  When the connection ends, the   *)
(* reports in flight are lost, and so is some tail of the commands: the    *)
(* station may still obey those that had left.  Commands that name no      *)
(* locomotive are left out; raw text that drives one is OtherOperator.     *)
(***************************************************************************)
Dispatch ==
  /\ \E q \in SetToSeqs(sent' \ {Other}) :
       IF connected /\ ~connected'
         THEN \E n \in 0..Len(down \o q) : down' = SubSeq(down \o q, 1, n)
         ELSE down' = down \o q
  /\ Len(down') <= MaxDown
  /\ up' = IF connected' THEN up ELSE <<>>
  /\ UNCHANGED station

Operator == (Slide \/ Rest) /\ Dispatch

(***************************************************************************)
(* The session hands the next report to Receive.                           *)
(***************************************************************************)
Hear ==
  /\ connected /\ up # <<>>
  /\ LET m == Head(up)
     IN IF m.cab \in Open
          THEN Receive(m.cab, m.loco.speed, m.loco.dir, m.loco.fns)
          ELSE sent' = {} /\ UNCHANGED <<connected, sel, live, cabs, held, order>>
  /\ up' = Tail(up)
  /\ UNCHANGED <<station, down>>

(***************************************************************************)
(* The station obeys a command and reports the locomotives concerned: the  *)
(* one named, or after an emergency stop every one.                        *)
(***************************************************************************)
Obeyed(m) ==
  [k \in Cab |->
     IF m.op = "estop" THEN [station[k] EXCEPT !.speed = 0]
     ELSE IF m.cab # k THEN station[k]
     ELSE CASE m.op = "throttle" -> [station[k] EXCEPT !.speed = m.speed, !.dir = m.dir]
            [] m.op = "function" -> [station[k] EXCEPT !.fns =
                                       IF m.on THEN @ \cup {m.fn} ELSE @ \ {m.fn}]
            [] m.op = "query"    -> station[k]]

Concerned(m) == IF m.op = "estop" THEN Cab ELSE {m.cab}

Broadcast(K) ==
  /\ \E q \in SetToSeqs({Reporting(k, station'[k]) : k \in K}) :
       up' = IF connected THEN up \o q ELSE <<>>
  /\ Len(up') <= MaxUp
  /\ sent' = {}
  /\ UNCHANGED <<connected, sel, live, cabs, held, order>>

Obey ==
  /\ down # <<>>
  /\ station' = Obeyed(Head(down))
  /\ Broadcast(Concerned(Head(down)))
  /\ down' = Tail(down)

\* Somebody else's throttle.
OtherOperator ==
  \E k \in Cab : \E l \in Loco \ {station[k]} :
    /\ station' = [station EXCEPT ![k] = l]
    /\ Broadcast({k})
    /\ UNCHANGED down

LayoutNext == Operator \/ Hear \/ Obey \/ OtherOperator

LayoutSpec == LayoutInit /\ [][LayoutNext]_layoutVars

-----------------------------------------------------------------------------
(***************************************************************************)
(* Once nothing is in flight and no speed waits, every tab shows what its  *)
(* locomotive does, whatever crossed on the wire before: optimistic        *)
(* updates, stale reports, other operators, emergency stops, lost          *)
(* connections and tabs opened, closed or reassigned meanwhile.            *)
(***************************************************************************)
QuietTabsTellTheTruth ==
  connected /\ down = <<>> /\ up = <<>> =>
    \A k \in Open :
      LET r == Stored[k]
      IN r.pending = None =>
           [speed |-> r.speed, dir |-> r.dir, fns |-> r.fns] = station[k]
=============================================================================
