----------------------------- MODULE Discovery -----------------------------
(***************************************************************************)
(* Discovery of a station's optional features,                             *)
(* src/dccex/capabilities/discovery.go: attempts that are numbered across  *)
(* connections, each with a deadline, and callbacks that carry the number  *)
(* of the attempt they answer.  In this version of the program only Reset  *)
(* and Snapshot are called; who sends the query and calls back is external *)
(* and may be late, repeat itself, or answer for a connection that is gone.*)
(***************************************************************************)
EXTENDS Integers, Sequences

CONSTANTS
  MaxAttempts,  \* bound: attempts
  Timeout       \* ticks an attempt may take

ASSUME DiscoveryAssumption == MaxAttempts \in Nat /\ Timeout \in Nat \ {0}

VARIABLES
  status,   \* snapshot.Status
  catalog,  \* snapshot.Catalog: the attempt whose answer it is, 0 for none
  attempt,
  left,     \* what is left until the deadline
  epoch,    \* connections there have been,
  begun     \*   and in which of them each attempt began

found == <<status, catalog, attempt, left, epoch, begun>>

Settled == {"Available", "Unsupported", "InvalidResponse"}
Status == {"NotRequested", "Pending", "Inconclusive"} \cup Settled

DiscoveryInit ==
  status = "NotRequested" /\ catalog = 0 /\ attempt = 0 /\ left = 0
  /\ epoch = 0 /\ begun = <<>>

\* Begin; it refuses a second attempt while one is pending, overdue or not.
Begin ==
  /\ status # "Pending" /\ attempt < MaxAttempts
  /\ status' = "Pending" /\ catalog' = 0
  /\ attempt' = attempt + 1 /\ left' = Timeout
  /\ begun' = Append(begun, epoch)
  /\ UNCHANGED epoch

Elapse ==
  /\ status = "Pending" /\ left > 0
  /\ left' = left - 1
  /\ UNCHANGED <<status, catalog, attempt, epoch, begun>>

\* Expire, and the first thing pending does: at the deadline it is too late.
Expired == left = 0

Concludes(result, c) ==
  /\ status' = result /\ catalog' = c
  /\ UNCHANGED <<attempt, left, epoch, begun>>

Expire == status = "Pending" /\ Expired /\ Concludes("Inconclusive", 0)

IsPending(a) == status = "Pending" /\ a = attempt

\* Accept and Reject, for the attempt a.
Answered(a) ==
  /\ IsPending(a)
  /\ IF Expired
       THEN Concludes("Inconclusive", 0)
       ELSE \/ Concludes("Available", a)
            \/ Concludes("InvalidResponse", 0)
            \/ Concludes("Unsupported", 0)

\* Variant: the numbering starts again.
ResetNumbering ==
  /\ status' = "NotRequested" /\ catalog' = 0 /\ left' = 0
  /\ attempt' = 0 /\ epoch' = epoch + 1
  /\ UNCHANGED begun

\* Reset, by the controller's Detach.
Reset ==
  /\ status' = "NotRequested" /\ catalog' = 0 /\ left' = 0
  /\ epoch' = epoch + 1
  /\ UNCHANGED <<attempt, begun>>

Pursue == Elapse \/ Expire \/ \E a \in 1..Len(begun) : Answered(a)

DiscoverySpec == DiscoveryInit /\ [][Begin \/ Pursue \/ Reset]_found

-----------------------------------------------------------------------------
DiscoveryTypeOK ==
  /\ status \in Status /\ attempt \in Nat /\ catalog \in 0..attempt
  /\ left \in 0..Timeout /\ epoch \in Nat /\ begun \in Seq(0..epoch)

(***************************************************************************)
(* What a station is taken to support is what this station said, in answer *)
(* to the last query and before its deadline: no callback of an earlier    *)
(* connection or attempt, and none at the deadline, is believed ("a late   *)
(* callback from a disconnected station cannot complete the next query",   *)
(* discovery.go:87).                                                       *)
(***************************************************************************)
FeaturesAreOfThisStation ==
  /\ status = "Available" => catalog = Len(begun) /\ begun[catalog] = epoch
  /\ status \in Settled => left > 0
=============================================================================
