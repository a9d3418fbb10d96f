---------------------------- MODULE MCMemoryAuth ----------------------------
(***************************************************************************)
(* Instances of MemoryAuth for TLC.                                        *)
(***************************************************************************)
EXTENDS MemoryAuth, TLC

Symmetry == Permutations(Obj) \cup Permutations(Operator)

=============================================================================
