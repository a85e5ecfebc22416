----------------------------- MODULE DirtySets -----------------------------
(***************************************************************************)
(* What an adapter's apply_log reports it changed (liq-protocol dirty.rs): *)
(* positions, market rows whose index or risk parameters moved, or         *)
(* everything.  The engine looks again at exactly what is reported.        *)
(***************************************************************************)
EXTENDS Naturals

Report(rank, ids) == [rank |-> rank, ids |-> ids]
Nothing == Report(0, {})
Positions(ids) == Report(1, ids)
MarketAccrual(rows) == Report(IF rows = {} THEN 0 ELSE 2, rows)
MarketReprice(rows) == Report(IF rows = {} THEN 0 ELSE 3, rows)
ProtocolWide == Report(4, {})

\* Whether a position with these slots set is looked at again: a row counts
\* for the positions that hold it once the block is folded.
Covers(dirty, pos, slots) ==
    \/ dirty.rank = 4
    \/ dirty.rank = 1 /\ pos \in dirty.ids
    \/ dirty.rank \in {2, 3} /\ slots \cap dirty.ids # {}
====
