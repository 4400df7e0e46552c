------------------------------- MODULE MCView -------------------------------
(***************************************************************************)
(* View.tla on a small instance.                                           *)
(***************************************************************************)
EXTENDS View

\* Locomotives are interchangeable: nothing orders addresses.
Interchangeable == Permutations(Cab)
=============================================================================
