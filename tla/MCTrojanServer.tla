--------------------------- MODULE MCTrojanServer ---------------------------
(***************************************************************************)
(* Instances of TrojanServer for TLC.                                      *)
(***************************************************************************)
EXTENDS TrojanServer, TLC

Symmetry == Permutations(Conn) \cup Permutations(IP) \cup Permutations(UserObj)

=============================================================================
