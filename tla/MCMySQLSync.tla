----------------------------- MODULE MCMySQLSync -----------------------------
(***************************************************************************)
(* Instances of MySQLSync for TLC.                                         *)
(***************************************************************************)
EXTENDS MySQLSync, TLC

Symmetry == Permutations(Hash)

\* An unlimited user and one with a quota.
UnlimitedOrTwo == {-1, 2}

=============================================================================
