----------------------------- MODULE Provenance -----------------------------
(***************************************************************************)
(* Controller.tla with one history variable: the tabs whose speed was set  *)
(* by the operator, or reported by the station, during this connection.    *)
(* The other tabs show a speed of an earlier connection or of the slider   *)
(* moved offline.                                                          *)
(***************************************************************************)
EXTENDS Controller

VARIABLE current  \* tabs whose speed stems from this connection

provenanceVars == <<vars, current>>

ProvenanceInit == Init /\ current = {}

\* k's speed has just been set: it belongs to the connection there is.
SetNow(k) == current' = IF connected THEN current \cup {k} ELSE {}

ProvenanceNext ==
  \/ \E k \in Open, s \in Speed : MoveSpeed(k, s) /\ SetNow(k)
  \/ \E k \in Open, s \in Speed, d \in Dir, F \in SUBSET Fn :
       Receive(k, s, d, F) /\ SetNow(k)
  \/ Rest /\ current' = IF connected' THEN current \cap Open' ELSE {}

ProvenanceSpec == ProvenanceInit /\ [][ProvenanceNext]_provenanceVars

-----------------------------------------------------------------------------
(***************************************************************************)
(* "offline speed replayed" (controller_test.go:56, in                     *)
(* TestOfflineSpeedNeverReplayed): no locomotive is set moving at a speed  *)
(* that neither the operator nor the station has named since the           *)
(* connection was made.  SetDirection sends the speed shown, whatever its  *)
(* origin (controller.go:278).                                             *)
(***************************************************************************)
OfflineSpeedNeverReplayed ==
  \A m \in sent : m.op = "throttle" /\ m.speed # 0 => m.cab \in current
=============================================================================
