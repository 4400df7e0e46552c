----------------------------- MODULE MCTracks ------------------------------
(***************************************************************************)
(* Tracks for TLC.  Nothing distinguishes the outputs of a station; all    *)
(* the properties checked are of states and of steps.                      *)
(***************************************************************************)
EXTENDS Tracks

Symmetry == Permutations(Output)
=============================================================================
