---------------------------- MODULE MCStateStore ----------------------------
(* A small store: one user in each of two markets, a ring of two blocks.    *)
EXTENDS StateStore
=============================================================================
