---------------------------- MODULE MCHotIngest -----------------------------
(* HotIngest with two fork hashes, a two-block undo ring and one-slot rings. *)
EXTENDS HotIngest, TLC

CONSTANTS g, a, b

HashSet == {g, a, b}
Forks == Permutations({a, b})
=============================================================================
