----------------------------- MODULE LiquityV2 -----------------------------
(***************************************************************************)
(* The Liquity V2 adapter's copy of the troves (apply.rs of                *)
(* crates/liq-adapters/liquity-v2).  A trove accrues on its own debt, or,  *)
(* while it is in a batch, on its share of the batch's; the adapter copies *)
(* the batch's figures into every member and has to tell, from logs that   *)
(* name no batch, when a trove left one.  A branch is one collateral's     *)
(* trove manager, stability pool, borrower operations and price feed;      *)
(* they are external, their logs in the order the adapter's comments give. *)
(***************************************************************************)
EXTENDS LendingMath, DirtySets, Sequences, FiniteSets

CONSTANTS
    Trove,            \* NFT ids, from 1
    Home,             \* each trove's branch
    TAIL,             \* ids with the same remainder have the same low 160 bits
    MIN_DEBT, MaxDebt,
    MaxTime, MaxOps

VARIABLES
    inst,      \* "backfill" up to pinned_through, "live" after it
    pool,      \* the troves, the batches of the one manager, the branches, the time
    store, logs, dirty, drifted, failed, ops

vars == <<inst, pool, store, logs, dirty, drifted, failed, ops>>

Branch == {Home[t] : t \in Trove}
NoTrove == [id |-> 0, status |-> "nonexistent", debt |-> 0, coll |-> 0, stake |-> 0, rate |-> 0,
            last |-> 0, snap |-> 0, batched |-> FALSE, shares |-> 0, rec |-> 0, total |-> 0,
            fee |-> 0]
NewBranch == [l |-> 0, sp |-> 0, shutdown |-> 0]

(***************************************************************************)
(* The protocol.  What an operation makes of a debt is any small number.   *)
(***************************************************************************)
NoBatch == [debt |-> 0, total |-> 0, rate |-> 1, fee |-> 1, last |-> 0]
Emit(p, ls) ==
    /\ ops < MaxOps /\ logs = <<>> /\ ~failed
    /\ pool' = p /\ logs' = ls /\ ops' = ops + 1
    /\ UNCHANGED <<inst, store, dirty, drifted, failed>>

Open(t) == pool.trove[t].status \in {"active", "zombie"}
BatchOf(p, t) == p.batch[Home[t]]
Status(debt) == IF debt < MIN_DEBT THEN "zombie" ELSE "active"

TroveUpdated(p, t) ==
    LET x == p.trove[t]
    IN [ev |-> "TroveUpdated", t |-> t, b |-> Home[t], debt |-> x.debt, coll |-> x.coll,
        stake |-> x.stake, rate |-> IF x.batched THEN BatchOf(p, t).rate ELSE x.rate,
        snap |-> x.snap, ts |-> p.now]
BatchedTroveUpdated(p, t) ==
    [ev |-> "BatchedTroveUpdated", t |-> t, b |-> Home[t], coll |-> p.trove[t].coll,
     stake |-> p.trove[t].stake, snap |-> p.trove[t].snap, shares |-> p.trove[t].shares,
     ts |-> p.now]
TroveOperation(p, t, op) ==
    [ev |-> "TroveOperation", t |-> t, b |-> Home[t], op |-> op, ts |-> p.now,
     rate |-> IF p.trove[t].batched THEN BatchOf(p, t).rate ELSE p.trove[t].rate]
BatchUpdated(p, b) == [ev |-> "BatchUpdated", b |-> b, x |-> p.batch[b], ts |-> p.now]

\* The trove's record with this debt and collateral, settled now.
Settled(x, debt, coll, p, t) ==
    [x EXCEPT !.debt = debt, !.coll = coll, !.stake = coll, !.last = p.now,
              !.snap = p.branch[Home[t]].l]
\* The batch with this much more debt and this many more shares, settled now.
Batched(p, b, debt, shares) ==
    [p EXCEPT !.batch[b] = [@ EXCEPT !.debt = Most(@ + debt, 0), !.total = @ + shares,
                                     !.last = p.now]]

openTrove(t, debt, coll) ==
    LET p == [pool EXCEPT !.trove[t] = Settled([@ EXCEPT !.status = "active", !.rate = 1],
                                               debt, coll, pool, t)]
    IN /\ pool.trove[t].status = "nonexistent" /\ debt >= MIN_DEBT
       /\ Emit(p, <<TroveUpdated(p, t), TroveOperation(p, t, "open")>>)
\* With one unit of debt a share: the shares a batch mints are its own affair.
join(p, t, debt, coll, op) ==
    LET q == Batched([p EXCEPT !.trove[t] = [Settled(@, 0, coll, p, t) EXCEPT
                                                 !.status = "active", !.batched = TRUE,
                                                 !.shares = debt, !.rate = 0]],
                     Home[t], debt, debt)
    IN Emit(q, <<BatchedTroveUpdated(q, t), TroveOperation(q, t, op), BatchUpdated(q, Home[t])>>)
openTroveAndJoinInterestBatchManager(t, debt, coll) ==
    /\ pool.trove[t].status = "nonexistent" /\ debt >= MIN_DEBT
    /\ join(pool, t, debt, coll, "openAndJoin")
setInterestBatchManager(t) ==
    /\ pool.trove[t].status = "active" /\ ~pool.trove[t].batched
    /\ join(pool, t, pool.trove[t].debt, pool.trove[t].coll, "setBatchManager")
\* Adjustments, rate changes and redemptions.
adjust(t, debt, coll, rate, op) ==
    LET x == pool.trove[t]
        alone == [pool EXCEPT !.trove[t] = [Settled(@, debt, coll, pool, t) EXCEPT
                                                !.rate = rate, !.status = Status(debt)]]
        within == Batched([pool EXCEPT !.trove[t] = [Settled(@, 0, coll, pool, t) EXCEPT
                                                         !.shares = debt, !.status = Status(debt)]],
                          Home[t], debt - x.shares, debt - x.shares)
    IN /\ Open(t)
       /\ IF x.batched
          THEN Emit(within, <<BatchedTroveUpdated(within, t), TroveOperation(within, t, op),
                              BatchUpdated(within, Home[t])>>)
          ELSE Emit(alone, <<TroveUpdated(alone, t), TroveOperation(alone, t, op)>>)
\* Of a trove in a batch: the batch settles first, and a TroveUpdated follows.
applyPendingDebt(t) ==
    LET x == pool.trove[t]
        p == IF x.batched
             THEN Batched([pool EXCEPT !.trove[t] = Settled(@, 0, x.coll, pool, t)],
                          Home[t], 1, 0)
             ELSE [pool EXCEPT !.trove[t] = Settled(@, x.debt + 1, x.coll, pool, t)]
        owed == [p EXCEPT !.trove[t].debt = IF x.batched THEN x.shares ELSE @]
    IN /\ Open(t)
       /\ Emit(p, (IF x.batched THEN <<BatchUpdated(p, Home[t])>> ELSE <<>>)
                  \o <<TroveUpdated(owed, t), TroveOperation(p, t, "applyPendingDebt")>>)
Left(t, debt, coll, status) ==
    LET x == pool.trove[t]
        p == IF x.batched THEN Batched(pool, Home[t], 0 - x.shares, 0 - x.shares) ELSE pool
    IN [p EXCEPT !.trove[t] = [Settled(@, debt, coll, pool, t) EXCEPT
                                   !.batched = FALSE, !.shares = 0, !.status = status, !.rate = 1]]
Rest(p, t) == IF pool.trove[t].batched THEN <<BatchUpdated(p, Home[t])>> ELSE <<>>
removeFromBatch(t) ==
    LET p == Left(t, pool.trove[t].shares, pool.trove[t].coll, pool.trove[t].status)
    IN /\ Open(t) /\ pool.trove[t].batched
       /\ Emit(p, <<TroveUpdated(p, t), TroveOperation(p, t, "removeFromBatch")>> \o Rest(p, t))
closeTrove(t) ==
    LET p == Left(t, 0, 0, "closedByOwner")
    IN /\ Open(t)
       /\ Emit(p, <<TroveUpdated(p, t), TroveOperation(p, t, "close")>> \o Rest(p, t))
\* Offset against the stability pool, redistributed when that is empty.
batchLiquidateTroves(t) ==
    LET b == Home[t]
        owed == IF pool.trove[t].batched THEN pool.trove[t].shares ELSE pool.trove[t].debt
        sp == pool.branch[b].sp
        p == [Left(t, 0, 0, "closedByLiquidation") EXCEPT
                  !.branch[b].sp = Monus(sp, owed),
                  !.branch[b].l = IF sp < owed THEN @ + 1 ELSE @]
    IN /\ Open(t)
       /\ Emit(p, <<TroveUpdated(p, t), TroveOperation(p, t, "liquidate")>> \o Rest(p, t)
                  \o (IF sp = 0 THEN <<>>
                      ELSE <<[ev |-> "SpBalance", b |-> b, n |-> p.branch[b].sp, ts |-> p.now]>>)
                  \o <<[ev |-> "Liquidation", b |-> b, n |-> p.branch[b].l, ts |-> p.now]>>)
setBatchManagerAnnualInterestRate(b, rate) ==
    LET p == [Batched(pool, b, IF pool.batch[b].total = 0 THEN 0 ELSE 1, 0)
              EXCEPT !.batch[b].rate = rate]
    IN /\ rate # pool.batch[b].rate
       /\ Emit(p, <<BatchUpdated(p, b)>>)
provideToSP(b, n) ==
    LET p == [pool EXCEPT !.branch[b].sp = @ + n]
    IN Emit(p, <<[ev |-> "SpBalance", b |-> b, n |-> p.branch[b].sp, ts |-> p.now]>>)
shutdown(b) ==
    LET q == [pool EXCEPT !.branch[b].shutdown = pool.now]
    IN /\ pool.branch[b].shutdown = 0
       /\ Emit(q, <<[ev |-> "ShutDown", b |-> b, ts |-> pool.now]>>)
Notice(b) == Emit(pool, <<[ev |-> "Upgraded", b |-> b, ts |-> pool.now]>>)
Tick ==
    /\ pool.now < MaxTime /\ logs = <<>>
    /\ pool' = [pool EXCEPT !.now = @ + 1]
    /\ UNCHANGED <<inst, store, logs, dirty, drifted, failed, ops>>

(***************************************************************************)
(* apply.rs                                                                *)
(***************************************************************************)
Error == [error |-> TRUE]
trove_user(t) == t % TAIL
Key == {<<Home[t], trove_user(t)>> : t \in Trove}

ensure_branch(st, b) == [st EXCEPT !.seeded = @ \cup {b}]
\* A key's first id stays: another with the same low bits is an error.
intern_trove(st, l) ==
    LET k == <<l.b, trove_user(l.t)>>
    IN IF st.pos[k].id \notin {0, l.t} THEN Error
       ELSE [st EXCEPT !.pos[k].id = l.t, !.live = @ \cup {k}]
clear_batch_denorm(x) ==
    [x EXCEPT !.shares = 0, !.rec = 0, !.total = 0, !.batched = FALSE, !.fee = 0]
write_trove(x, l) ==
    [x EXCEPT !.debt = l.debt, !.coll = l.coll, !.stake = l.stake, !.rate = l.rate, !.last = l.ts,
              !.snap = l.snap,
              !.status = IF @ \in {"closedByOwner", "closedByLiquidation"} THEN @
                         ELSE IF l.debt # 0 /\ l.debt < MIN_DEBT THEN "zombie"
                         ELSE IF @ = "nonexistent" /\ l.debt # 0 THEN "active" ELSE @]
\* A trove still in its batch had its batch updated at this very instant.
trove_updated(x, l) ==
    IF x.batched /\ x.last # l.ts THEN clear_batch_denorm(write_trove(x, l)) ELSE write_trove(x, l)
batched_trove_updated(x, l) ==
    [x EXCEPT !.coll = l.coll, !.stake = l.stake, !.last = l.ts, !.snap = l.snap,
              !.shares = l.shares, !.batched = TRUE,
              !.status = IF @ = "nonexistent" THEN "active" ELSE @]
trove_operation(x, l) ==
    LET s == CASE l.op \in {"open", "openAndJoin"} -> "active"
               [] l.op = "close" -> "closedByOwner"
               [] l.op = "liquidate" -> "closedByLiquidation"
               [] OTHER -> IF x.status = "nonexistent" THEN "active" ELSE x.status
        y == [x EXCEPT !.status = s, !.rate = l.rate]
    IN IF l.op \in {"removeFromBatch", "close", "liquidate"} THEN clear_batch_denorm(y) ELSE y
members(st, b) == {k \in st.live : k[1] = b /\ st.pos[k].batched}
batch_updated(st, l) ==
    [st EXCEPT !.pos = [k \in Key |->
        IF k \notin members(st, l.b) THEN st.pos[k]
        ELSE [st.pos[k] EXCEPT !.rate = l.x.rate, !.last = l.ts, !.rec = l.x.debt,
                               !.total = l.x.total, !.fee = l.x.fee]]]

fold(st0, l) ==
    LET st == ensure_branch(st0, l.b)
        k == <<l.b, trove_user(l.t)>>
        s == intern_trove(st, l)
    IN CASE l.ev = "Upgraded" -> IF inst = "live" THEN Error ELSE st
         [] l.ev = "BatchUpdated" -> batch_updated(st, l)
         [] l.ev = "Liquidation" -> [st EXCEPT !.row[l.b].l = l.n]
         [] l.ev = "SpBalance" -> [st EXCEPT !.row[l.b].sp = l.n]
         [] l.ev = "ShutDown" -> [st EXCEPT !.row[l.b].shutdown = l.ts]
         [] OTHER -> IF s = Error THEN Error ELSE
            [s EXCEPT !.pos[k] = CASE l.ev = "TroveUpdated" -> trove_updated(@, l)
                                   [] l.ev = "BatchedTroveUpdated" -> batched_trove_updated(@, l)
                                   [] l.ev = "TroveOperation" -> trove_operation(@, l)]
rows_of(b) == {<<b, "bold">>, <<b, "coll">>}
reported(st, l) ==
    CASE l.ev = "Upgraded" -> Nothing
      [] l.ev = "BatchUpdated" -> IF members(st, l.b) = {} THEN Nothing
                                  ELSE Positions(members(st, l.b))
      [] l.ev \in {"Liquidation", "SpBalance", "ShutDown"} -> MarketAccrual(rows_of(l.b))
      [] OTHER -> Positions({<<l.b, trove_user(l.t)>>})

apply_log ==
    /\ logs # <<>>
    /\ \E nx \in {fold(store, Head(logs))} :
         IF nx = Error THEN /\ failed' = TRUE /\ logs' = <<>>
                            /\ UNCHANGED <<store, dirty>>
         ELSE /\ store' = nx /\ dirty' = reported(store, Head(logs)) /\ logs' = Tail(logs)
              /\ UNCHANGED failed
    /\ UNCHANGED <<inst, pool, drifted, ops>>

Init ==
    /\ inst \in {"backfill", "live"}
    /\ pool = [trove |-> [t \in Trove |-> NoTrove], batch |-> [b \in Branch |-> NoBatch],
               branch |-> [b \in Branch |-> NewBranch], now |-> 1]
    /\ store = [seeded |-> {}, row |-> [b \in Branch |-> NewBranch], live |-> {},
                pos |-> [k \in Key |-> NoTrove]]
    /\ logs = <<>> /\ dirty = Nothing /\ drifted = {} /\ failed = FALSE /\ ops = 0

Next ==
    \/ apply_log \/ Tick
    \/ \E t \in Trove, d \in 1..MaxDebt :
          \/ openTrove(t, d, 1) \/ openTroveAndJoinInterestBatchManager(t, d, 1)
          \/ \E c, r \in 1..2, op \in {"adjust", "redeem"} : adjust(t, d, c, r, op)
    \/ \E t \in Trove : \/ setInterestBatchManager(t) \/ applyPendingDebt(t) \/ removeFromBatch(t)
                        \/ closeTrove(t) \/ batchLiquidateTroves(t)
    \/ \E b \in Branch : \/ \E r \in 1..2 : setBatchManagerAnnualInterestRate(b, r)
                         \/ provideToSP(b, 1) \/ shutdown(b) \/ Notice(b)

Spec == Init /\ [][Next]_vars

-----------------------------------------------------------------------------
\* What a trove's health is computed from, by the protocol and by the copy.
Accrual(x, batch) ==
    [coll |-> x.coll, stake |-> x.stake, snap |-> x.snap,
     owed |-> IF x.batched THEN <<x.shares, batch.debt, batch.total, batch.rate, batch.fee,
                                  batch.last>>
              ELSE <<x.debt, x.rate, x.last>>]
Copied(x) == [debt |-> x.rec, total |-> x.total, rate |-> x.rate, fee |-> x.fee, last |-> x.last]
\* Between operations every open trove's copy accrues exactly as the trove
\* does: alone from its own debt since its own settlement, in a batch from its
\* shares of the batch's debt since the batch's, whoever settled it, with the
\* redistributions it has yet to take; no other trove counts as open, and the
\* branches' accumulators, deposits and shutdown times are theirs.
FoldExact ==
    logs = <<>> /\ ~failed =>
        /\ \A t \in Trove : \E x \in {store.pos[<<Home[t], trove_user(t)>>]} :
             /\ (x.status \in {"active", "zombie"}) <=> Open(t)
             /\ Open(t) => /\ x.id = t
                           /\ Accrual(x, Copied(x)) = Accrual(pool.trove[t], BatchOf(pool, t))
        /\ \A b \in Branch : store.row[b] = pool.branch[b]

\* Each log reports every trove whose accrual it changed: a batch's log all of
\* its members, a branch's log the rows all of its troves hold.
DirtyCovers ==
    logs # <<>> => \A k \in Key :
        \/ store'.pos[k] = store.pos[k] /\ store'.row[k[1]] = store.row[k[1]]
        \/ k \notin store'.live
        \/ Covers(dirty', k, rows_of(k[1]))
====
