----------------------------- MODULE MorphoBlue -----------------------------
(***************************************************************************)
(* The Morpho Blue adapter's copy of the singleton                         *)
(* (crates/liq-adapters/morpho-blue, apply.rs).  Anyone creates markets;   *)
(* the adapter admits those on tokens it knows, in the order their logs    *)
(* come, and finds a market by walking the rows it admitted.  Positions    *)
(* hold supply shares, debt shares and collateral; a market holds totals,  *)
(* so what a share is worth moves with every operation of anyone.  The     *)
(* singleton is external.                                                  *)
(***************************************************************************)
EXTENDS LendingMath, DirtySets, Sequences, FiniteSets

CONSTANTS
    User,
    FeeTo,        \* the fee recipient, one of the users
    Market,       \* the singleton's market ids
    Tracked,      \* markets whose two tokens the config names
    Pinned,       \* markets whose oracle is pinned for their pair
    LAST_MARKET,  \* how many market ids the adapter may assign
    Virtual,      \* VIRTUAL_SHARES
    MaxAmount, MaxOps

VARIABLES
    inst,      \* "backfill" up to pinned_through, "live" after it
    pool, store, logs, dirty, drifted, failed, ops

vars == <<inst, pool, store, logs, dirty, drifted, failed, ops>>

NoPosition == [s |-> 0, d |-> 0, c |-> 0]
NewLoan == [sa |-> 0, ss |-> 0, ba |-> 0, bs |-> 0, rate |-> 0, fee |-> 0, last |-> 0]

(***************************************************************************)
(* The singleton: SharesMathLib and the operations of Morpho.              *)
(***************************************************************************)
to_assets_up(shares, ta, tb) == Up(shares, ta + 1, tb + Virtual)
to_assets_down(shares, ta, tb) == Down(shares, ta + 1, tb + Virtual)
to_shares_up(assets, ta, tb) == Up(assets, tb + Virtual, ta + 1)
to_shares_down(assets, ta, tb) == Down(assets, tb + Virtual, ta + 1)

Log(ev, m, u, x) == [ev |-> ev, m |-> m, u |-> u, x |-> x]

\* A market mid-life that the store has exactly, or a singleton with none.
Lived(m, held, debt) ==
    [live |-> {m},
     mk |-> [n \in Market |-> IF n = m THEN [NewLoan EXCEPT !.sa = 4, !.ss = 4 * Virtual,
                                                !.ba = debt, !.bs = debt * Virtual, !.rate = 1]
                              ELSE NewLoan],
     pos |-> [n \in Market |-> [u \in User |-> IF n # m THEN NoPosition
                  ELSE IF u = FeeTo THEN [NoPosition EXCEPT !.s = 4 * Virtual]
                  ELSE [NoPosition EXCEPT !.c = held, !.d = debt * Virtual]]],
     now |-> 0]
Row(m, loan) == [id |-> m, priced |-> m \in Pinned, loan |-> loan]

Emit(p, ls) ==
    /\ ops < MaxOps /\ logs = <<>> /\ ~failed
    /\ pool' = p /\ logs' = ls /\ ops' = ops + 1
    /\ UNCHANGED <<inst, store, dirty, failed>>

\* _accrueInterest, run first by every operation that moves loan assets: a log
\* only when time passed and interest is charged.
Accrued(p, m, dt) ==
    LET k == p.mk[m]
        interest == k.ba * k.rate * dt
        feeAssets == (interest * k.fee) \div 2
        feeShares == to_shares_down(feeAssets, k.sa + interest - feeAssets, k.ss)
    IN IF dt = 0 THEN [p |-> p, ls |-> <<>>]
       ELSE [p |-> [p EXCEPT !.now = @ + dt, !.pos[m][FeeTo].s = @ + feeShares,
                             !.mk[m] = [k EXCEPT !.ba = @ + interest, !.sa = @ + interest,
                                                 !.ss = @ + feeShares, !.last = p.now + dt]],
             ls |-> <<Log("AccrueInterest", m, FeeTo,
                          [rate |-> k.rate, interest |-> interest, feeShares |-> feeShares])>>]
\* The fee shares go to an account the log does not name.
FeePaid(m, a) == IF a.p.pos[m][FeeTo].s = pool.pos[m][FeeTo].s THEN drifted
                 ELSE drifted \cup {<<m, FeeTo>>}
Touch(p, m) == [p EXCEPT !.mk[m].last = p.now]

CreateMarket(m) ==
    /\ m \notin pool.live
    /\ Emit([pool EXCEPT !.live = @ \cup {m}, !.mk[m].last = pool.now],
            <<Log("CreateMarket", m, FeeTo, 0)>>)
    /\ UNCHANGED drifted

SetFee(m, dt) ==
    LET a == Accrued(pool, m, dt)
        f == 1 - pool.mk[m].fee
    IN /\ m \in pool.live
       /\ Emit([Touch(a.p, m) EXCEPT !.mk[m].fee = f], a.ls \o <<Log("SetFee", m, FeeTo, f)>>)
       /\ drifted' = FeePaid(m, a)

Supply(m, u, dt, assets) ==
    LET a == Accrued(pool, m, dt)
        k == a.p.mk[m]
        shares == to_shares_down(assets, k.sa, k.ss)
    IN /\ m \in pool.live
       /\ Emit([Touch(a.p, m) EXCEPT !.pos[m][u].s = @ + shares,
                                     !.mk[m].sa = @ + assets, !.mk[m].ss = @ + shares],
               a.ls \o <<Log("Supply", m, u, [assets |-> assets, shares |-> shares])>>)
       /\ drifted' = FeePaid(m, a)

Withdraw(m, u, dt, shares) ==
    LET a == Accrued(pool, m, dt)
        k == a.p.mk[m]
        assets == to_assets_down(shares, k.sa, k.ss)
    IN /\ m \in pool.live /\ shares \in 1..a.p.pos[m][u].s /\ k.sa - assets >= k.ba
       /\ Emit([Touch(a.p, m) EXCEPT !.pos[m][u].s = @ - shares,
                                     !.mk[m].sa = @ - assets, !.mk[m].ss = @ - shares],
               a.ls \o <<Log("Withdraw", m, u, [assets |-> assets, shares |-> shares])>>)
       /\ drifted' = FeePaid(m, a)

Borrow(m, u, dt, assets) ==
    LET a == Accrued(pool, m, dt)
        k == a.p.mk[m]
        shares == to_shares_up(assets, k.ba, k.bs)
    IN /\ m \in pool.live /\ a.p.pos[m][u].c > 0 /\ k.ba + assets <= k.sa
       /\ Emit([Touch(a.p, m) EXCEPT !.pos[m][u].d = @ + shares,
                                     !.mk[m].ba = @ + assets, !.mk[m].bs = @ + shares],
               a.ls \o <<Log("Borrow", m, u, [assets |-> assets, shares |-> shares])>>)
       /\ drifted' = FeePaid(m, a)

\* By shares: the assets round up, and may exceed the total by a unit.
Repay(m, u, dt, shares) ==
    LET a == Accrued(pool, m, dt)
        k == a.p.mk[m]
        assets == to_assets_up(shares, k.ba, k.bs)
    IN /\ m \in pool.live /\ shares \in 1..a.p.pos[m][u].d
       /\ Emit([Touch(a.p, m) EXCEPT !.pos[m][u].d = @ - shares,
                                     !.mk[m].ba = Monus(@, assets), !.mk[m].bs = @ - shares],
               a.ls \o <<Log("Repay", m, u, [assets |-> assets, shares |-> shares])>>)
       /\ drifted' = FeePaid(m, a)

SupplyCollateral(m, u, assets) ==
    /\ m \in pool.live
    /\ Emit([pool EXCEPT !.pos[m][u].c = @ + assets], <<Log("SupplyCollateral", m, u, assets)>>)
    /\ UNCHANGED drifted

WithdrawCollateral(m, u, dt, assets) ==
    LET a == Accrued(pool, m, dt)
    IN /\ m \in pool.live /\ assets <= a.p.pos[m][u].c
       /\ Emit([Touch(a.p, m) EXCEPT !.pos[m][u].c = @ - assets],
               a.ls \o <<Log("WithdrawCollateral", m, u, assets)>>)
       /\ drifted' = FeePaid(m, a)

\* The last of the collateral taken: the debt left is written off.
Liquidate(m, u, dt, seized, shares) ==
    LET a == Accrued(pool, m, dt)
        k == a.p.mk[m]
        repaid == to_assets_up(shares, k.ba, k.bs)
        left == [ba |-> Monus(k.ba, repaid), bs |-> k.bs - shares]
        bad == seized = a.p.pos[m][u].c
        badShares == IF bad THEN a.p.pos[m][u].d - shares ELSE 0
        badAssets == IF bad THEN Least(left.ba, to_assets_up(badShares, left.ba, left.bs)) ELSE 0
    IN /\ m \in pool.live /\ seized \in 1..a.p.pos[m][u].c /\ shares \in 1..a.p.pos[m][u].d
       /\ Emit([Touch(a.p, m) EXCEPT
                   !.pos[m][u].d = @ - shares - badShares, !.pos[m][u].c = @ - seized,
                   !.mk[m].ba = left.ba - badAssets, !.mk[m].bs = left.bs - badShares,
                   !.mk[m].sa = @ - badAssets],
               a.ls \o <<Log("Liquidate", m, u,
                             [seized |-> seized, repaid |-> repaid, shares |-> shares,
                              badAssets |-> badAssets, badShares |-> badShares])>>)
       /\ drifted' = FeePaid(m, a)

\* SetOwner, SetFeeRecipient, FlashLoan and the like; an upgrade of the
\* singleton is a halt-class log.
Notice(ev, m) ==
    /\ Emit(pool, <<Log(ev, m, FeeTo, 0)>>)
    /\ UNCHANGED drifted

(***************************************************************************)
(* apply.rs                                                                *)
(***************************************************************************)
Init ==
    /\ inst \in {"backfill", "live"}
    /\ \E m \in Market, debt \in 1..MaxAmount :
           /\ pool = Lived(m, MaxAmount, debt)
           /\ store = [rows |-> IF m \in Tracked THEN <<Row(m, pool.mk[m])>> ELSE <<>>,
                       pos |-> [n \in 1..LAST_MARKET |->
                                   IF n = 1 /\ m \in Tracked THEN pool.pos[m]
                                   ELSE [u \in User |-> NoPosition]]]
    /\ logs = <<>> /\ dirty = Nothing /\ drifted = {} /\ failed = FALSE /\ ops = 0

Error == [err |-> TRUE]
\* walk stops at the row with the id; lookup finds none when it was skipped.
lookup(st, m) == {n \in DOMAIN st.rows : st.rows[n].id = m}
rows_of(n) == {<<n, "loan">>, <<n, "coll">>}

\* add_u128: a checked subtraction; the log is refused when one underflows.
Fits(st) == /\ \A n \in DOMAIN st.rows : \A f \in {"sa", "ss", "ba", "bs"} : st.rows[n].loan[f] >= 0
            /\ \A n \in DOMAIN st.pos, u \in User : \A f \in {"s", "d", "c"} : st.pos[n][u][f] >= 0
Checked(st) == IF Fits(st) THEN st ELSE Error

create_market(st, l) ==
    IF l.m \notin Tracked \/ Len(st.rows) >= LAST_MARKET THEN st
    ELSE [st EXCEPT !.rows = Append(@, Row(l.m, [NewLoan EXCEPT !.last = pool.now]))]

accrue(st, n, l) ==
    [st EXCEPT !.rows[n].loan.rate = l.x.rate, !.rows[n].loan.ba = @ + l.x.interest,
               !.rows[n].loan.sa = @ + l.x.interest, !.rows[n].loan.ss = @ + l.x.feeShares,
               !.rows[n].loan.last = pool.now]
set_fee(st, n, l) == [st EXCEPT !.rows[n].loan.fee = l.x]

supply(st, n, l, sign) ==
    Checked([st EXCEPT !.pos[n][l.u].s = @ + sign * l.x.shares,
                       !.rows[n].loan.sa = @ + sign * l.x.assets,
                       !.rows[n].loan.ss = @ + sign * l.x.shares, !.rows[n].loan.last = pool.now])

borrow(st, n, l, add) ==
    IF add
    THEN [st EXCEPT !.pos[n][l.u].d = @ + l.x.shares, !.rows[n].loan.ba = @ + l.x.assets,
                    !.rows[n].loan.bs = @ + l.x.shares, !.rows[n].loan.last = pool.now]
    ELSE Checked([st EXCEPT !.pos[n][l.u].d = @ - l.x.shares, !.rows[n].loan.last = pool.now,
                    !.rows[n].loan.ba = Monus(@, l.x.assets), !.rows[n].loan.bs = @ - l.x.shares])

coll(st, n, l, sign) == Checked([st EXCEPT !.pos[n][l.u].c = @ + sign * l.x])

liquidate(st, n, l) ==
    Checked([st EXCEPT !.pos[n][l.u].d = @ - l.x.shares - l.x.badShares,
                       !.pos[n][l.u].c = @ - l.x.seized, !.rows[n].loan.last = pool.now,
                       !.rows[n].loan.ba = Monus(@, l.x.repaid) - l.x.badAssets,
                       !.rows[n].loan.bs = @ - l.x.shares - l.x.badShares,
                       !.rows[n].loan.sa = @ - l.x.badAssets])

fold(st, l) ==
    CASE l.ev = "Upgraded" -> IF inst = "backfill" THEN st ELSE Error
      [] l.ev = "CreateMarket" -> create_market(st, l)
      [] l.ev = "Other" \/ lookup(st, l.m) = {} -> st
      [] OTHER ->
         LET n == CHOOSE k \in lookup(st, l.m) : TRUE
         IN CASE l.ev = "AccrueInterest" -> accrue(st, n, l)
              [] l.ev = "SetFee" -> set_fee(st, n, l)
              [] l.ev = "Supply" -> supply(st, n, l, 1)
              [] l.ev = "Withdraw" -> supply(st, n, l, -1)
              [] l.ev = "Borrow" -> borrow(st, n, l, TRUE)
              [] l.ev = "Repay" -> borrow(st, n, l, FALSE)
              [] l.ev = "SupplyCollateral" -> coll(st, n, l, 1)
              [] l.ev = "WithdrawCollateral" -> coll(st, n, l, -1)
              [] l.ev = "Liquidate" -> liquidate(st, n, l)

reported(st, l) ==
    LET at == lookup(st, l.m) IN
    CASE l.ev \in {"Upgraded", "Other"} \/ at = {} -> Nothing
      [] l.ev = "AccrueInterest" -> MarketAccrual(UNION {rows_of(n) : n \in at})
      [] l.ev \in {"CreateMarket", "SetFee"} -> MarketReprice(UNION {rows_of(n) : n \in at})
      [] OTHER -> Positions({<<n, l.u>> : n \in at})

apply_log ==
    /\ logs # <<>> /\ ~failed
    /\ \E st \in {fold(store, Head(logs))} :
           IF "err" \in DOMAIN st THEN failed' = TRUE /\ UNCHANGED <<store, dirty>>
           ELSE store' = st /\ dirty' = reported(st, Head(logs)) /\ UNCHANGED failed
    /\ logs' = Tail(logs)
    /\ UNCHANGED <<inst, pool, drifted, ops>>

Amount == 1..MaxAmount
Next ==
    \/ apply_log
    \/ \E m \in Market : CreateMarket(m)
    \/ \E m \in Market, dt \in 0..1 : SetFee(m, dt)
    \/ \E m \in Market, ev \in {"Other", "Upgraded"} : Notice(ev, m)
    \/ \E m \in Market, u \in User, dt \in 0..1, n \in Amount :
           \/ Supply(m, u, dt, n)
           \/ Borrow(m, u, dt, n)
           \/ WithdrawCollateral(m, u, dt, n)
    \/ \E m \in Market, u \in User, dt \in 0..1, n \in {1, Virtual, 2 * Virtual} :
           Withdraw(m, u, dt, n) \/ Repay(m, u, dt, n)
    \/ \E m \in Market, u \in User, n \in Amount : SupplyCollateral(m, u, n)
    \/ \E m \in Market, u \in User, dt \in 0..1, n \in Amount, s \in {1, Virtual} :
           Liquidate(m, u, dt, n, s)

Spec == Init /\ [][Next]_vars

-----------------------------------------------------------------------------
\* Once a transaction's logs are folded, every admitted market has the
\* singleton's totals, rate and fee, and every position in it the singleton's
\* collateral, debt shares and, but for the fee recipient's, supply shares; a
\* market's rows are priced exactly when its oracle is pinned; every market on
\* known tokens created while there was room is admitted, once.
FoldExact ==
    logs = <<>> /\ ~failed =>
        /\ \A n \in DOMAIN store.rows :
             LET m == store.rows[n].id IN
             /\ store.rows[n] = Row(m, pool.mk[m])
             /\ \A u \in User : <<m, u>> \notin drifted => store.pos[n][u] = pool.pos[m][u]
             /\ \A u \in User : store.pos[n][u].d = pool.pos[m][u].d
                                /\ store.pos[n][u].c = pool.pos[m][u].c
             /\ m \in pool.live \cap Tracked
             /\ \A k \in DOMAIN store.rows : store.rows[k].id = m => k = n
        /\ Len(store.rows) < LAST_MARKET => {store.rows[n].id : n \in DOMAIN store.rows}
                                              = pool.live \cap Tracked

Slots(st, n, u) ==
    {<<n, s>> : s \in {x \in {"loan", "coll"} :
        IF x = "coll" THEN st.pos[n][u].c > 0 ELSE st.pos[n][u].d > 0 \/ st.pos[n][u].s > 0}}
Owed(st, n, u) == to_assets_up(st.pos[n][u].d, st.rows[n].loan.ba, st.rows[n].loan.bs)
\* A fold reports every position whose collateral, debt shares or rate it
\* changed.  Others' operations also move what a share is worth: an unreported
\* position never owes more after a fold than before it.
DirtyCovers ==
    logs # <<>> => \A n \in DOMAIN store.rows, u \in User :
        \/ Covers(dirty', <<n, u>>, Slots(store', n, u))
        \/ /\ store'.pos[n][u].c = store.pos[n][u].c /\ store'.pos[n][u].d = store.pos[n][u].d
           /\ store'.rows[n].loan.rate = store.rows[n].loan.rate
           /\ Owed(store', n, u) <= Owed(store, n, u)
====
