------------------------------ MODULE MCLayout ------------------------------
(***************************************************************************)
(* Layout.tla on small instances.                                          *)
(***************************************************************************)
EXTENDS Layout

\* Locomotives are interchangeable, on the wire as in the tabs.
Interchangeable == Permutations(Cab)

\* Everything but the commands of the last step, which are on the wire by now.
Future == <<connected, sel, live, cabs, held, order, station, down, up>>
=============================================================================
