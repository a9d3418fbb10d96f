--------------------------- MODULE MCUserTraffic ---------------------------
(***************************************************************************)
(* Instances of UserTraffic for TLC.                                       *)
(***************************************************************************)
EXTENDS UserTraffic, TLC

Symmetry == Permutations(Adder) \cup Permutations(Resetter)

=============================================================================
