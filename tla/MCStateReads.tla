--------------------------- MODULE MCStateReads -----------------------------
(* StateReads for TLC: two accounts. *)
EXTENDS StateReads, TLC

CONSTANTS p, q

Positions == {p, q}
Swap == Permutations(Positions)
=============================================================================
