---------------------------- MODULE MCController ----------------------------
(***************************************************************************)
(* Controller.tla on small instances.                                      *)
(***************************************************************************)
EXTENDS Controller

\* Locomotives are interchangeable: nothing orders addresses.
Interchangeable == Permutations(Cab)

\* What the next steps depend on: not the commands of the last one.
Future == <<connected, sel, live, cabs, held, order>>
=============================================================================
