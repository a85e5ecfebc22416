------------------------------- MODULE AaveV3 -------------------------------
(***************************************************************************)
(* The Aave adapter's copy of a pool (crates/liq-adapters/aave-v3): every  *)
(* transaction of the pool emits logs, apply_log folds them one by one     *)
(* into the store, and a resync replaces one account by what the pool's    *)
(* views answer.  The pool itself is external: it is modelled by the       *)
(* balances the adapter's events and views speak of.  An instance is Aave  *)
(* V3.5 (TokenMath roundings), a V3 fork with half-up roundings (Spark) or *)
(* Aave V2 (events of the tokens, stable debt, no e-mode).                 *)
(*                                                                         *)
(* Balances are scaled by an index over Ray.  A reserve's risk parameters  *)
(* are facts, one per configurator event, each 0 or 1.                     *)
(***************************************************************************)
EXTENDS LendingMath, DirtySets, Sequences, FiniteSets

CONSTANTS
    Account,      \* users of the pool
    Treasury,     \* the account the pool mints its reserve factor to
    Reserve,      \* slots of the market
    Listed,       \* the reserves the config names (asset_by_underlying)
    Instances,    \* the deployments folded: subset of {"v35", "spark", "v2"}
    Ray,          \* the unit of an index
    MaxIndex, MaxAmount, MaxBalance,
    MaxOps        \* transactions of one behaviour

VARIABLES
    inst,      \* cfg.liquidation of this pool
    pool,      \* what the chain holds
    store,     \* what the adapter folded
    logs,      \* logs of the last transaction not yet folded
    dirty,     \* what the last fold reported
    drifted,   \* accounts whose chain state moved without a folded log
    failed,    \* apply_log returned an error: the fold stops
    ops

vars == <<inst, pool, store, logs, dirty, drifted, failed, ops>>

\* The pool's id of a reserve is not its slot.
Id == [r \in Reserve |-> Cardinality(Reserve) + 1 - r]
V2 == inst = "v2"
HasStable == inst # "v35"
Fact == IF V2 THEN {"threshold", "frozen", "grace"}
              ELSE {"threshold", "paused", "grace", "protocolFee", "emodeColl", "source"}
\* Facts of the whole pool: V2's pause, a halt-class log (an upgrade, a moved
\* address), the L2 sequencer's answer, the parameters of the e-mode category.
Meta == IF V2 THEN {"pool_paused", "halted"} ELSE {"halted", "sequencer", "category"}

(***************************************************************************)
(* math.rs                                                                 *)
(***************************************************************************)
supply_mint_scaled(m, amount, index) ==
    IF m = "v35" THEN Down(amount, Ray, index) ELSE HalfUp(amount, Ray, index)
supply_burn_scaled(m, amount, index) ==
    IF m = "v35" THEN Up(amount, Ray, index) ELSE HalfUp(amount, Ray, index)
debt_mint_scaled(m, amount, index) ==
    IF m = "v35" THEN Up(amount, Ray, index) ELSE HalfUp(amount, Ray, index)
debt_burn_scaled(m, amount, index) ==
    IF m = "v35" THEN Down(amount, Ray, index) ELSE HalfUp(amount, Ray, index)

(***************************************************************************)
(* The pool: what its tokens store for an amount at an index.  V3.5 favours*)
(* the pool, the others round to the nearest.                              *)
(***************************************************************************)
Floor(amount, index) == CHOOSE n \in 0..(amount * Ray) :
    n * index <= amount * Ray /\ (n + 1) * index > amount * Ray
Nearest(amount, index) == CHOOSE n \in 0..(amount * Ray + 1) :
    LET half == amount * Ray + index \div 2 IN n * index <= half /\ (n + 1) * index > half
Scaled(amount, index, up) ==
    IF inst # "v35" THEN Nearest(amount, index)
    ELSE IF up /\ (amount * Ray) % index # 0 THEN Floor(amount, index) + 1
    ELSE Floor(amount, index)

Blank == [s |-> [r \in Reserve |-> 0], d |-> [r \in Reserve |-> 0],
          coll |-> {}, emode |-> 0, stable |-> {}]
Index == [li : Ray..MaxIndex, bi : Ray..MaxIndex]
Log(ev, u, r, x) == [ev |-> ev, u |-> u, r |-> r, x |-> x]

\* A pool mid-life whose borrower the store has exactly; the reserve ids may
\* not be read yet.
Init ==
    /\ inst \in Instances
    /\ \E borrower \in Account \ {Treasury}, c, d \in Reserve,
          s, n \in 0..MaxBalance, on \in BOOLEAN, i \in {MaxIndex - 1} :
           /\ on => s > 0
           /\ pool = [acct |-> [u \in Account |-> IF u # borrower THEN Blank
                                ELSE [Blank EXCEPT !.s[c] = s, !.d[d] = n,
                                                   !.coll = IF on THEN {c} ELSE {}]],
                      idx |-> [r \in Reserve |-> [li |-> i, bi |-> i]],
                      fact |-> [r \in Reserve |-> [f \in Fact |-> 0]],
                      meta |-> [m \in Meta |-> 0], id |-> Id]
    /\ store \in {pool, [pool EXCEPT !.id = [r \in Reserve |-> 0]]}
    /\ logs = <<>> /\ dirty = Nothing /\ drifted = {} /\ failed = FALSE /\ ops = 0

(***************************************************************************)
(* Transactions of the pool.  Emit is one of them: the pool's new state    *)
(* and, of its logs, those the adapter subscribes to.                      *)
(***************************************************************************)
subscriptions ==
    {"ReserveDataUpdated", "Enabled", "Disabled", "Config", "Meta", "BalanceTransfer", "Stable"}
    \cup IF V2 THEN {"AMint", "ABurn", "VMint", "VBurn", "Touched"}
         ELSE {"Supply", "Withdraw", "Borrow", "Repay", "RepayATokens", "LiquidationCall",
               "DeficitCreated", "MintedToTreasury", "UserEModeSet"}

Emit(p, ls) ==
    /\ ops < MaxOps /\ logs = <<>> /\ ~failed
    /\ \A u \in Account, r \in Reserve :
           p.acct[u].s[r] \in 0..MaxBalance /\ p.acct[u].d[r] \in 0..MaxBalance
    /\ pool' = p /\ ops' = ops + 1
    /\ logs' = SelectSeq(ls, LAMBDA l : l.ev \in subscriptions)
    /\ UNCHANGED <<inst, store, dirty, failed>>

\* The balance after a move, and the collateral bit the pool clears with it.
MoveSupply(p, u, r, n) ==
    LET s == p.acct[u].s[r] + n IN
    [p EXCEPT !.acct[u].s[r] = s,
              !.acct[u].coll = IF s = 0 THEN @ \ {r} ELSE @]
MoveDebt(p, u, r, n) == [p EXCEPT !.acct[u].d[r] = @ + n]
Cleared(p, q, u, r) ==
    IF r \in p.acct[u].coll /\ r \notin q.acct[u].coll
    THEN <<Log("Disabled", u, r, 0)>> ELSE <<>>

\* What the tokens and the pool emit for a balance moved by `amount`: V2's
\* token events carry the index, V3's pool events only the amount.
SupplyLogs(ev, tok, u, r, amount) ==
    IF V2 THEN <<Log(tok, u, r, <<amount, pool.idx[r].li>>), Log("Touched", u, r, 0)>>
          ELSE <<Log(ev, u, r, amount)>>
DebtLogs(ev, tok, u, r, amount) ==
    IF V2 THEN <<Log(tok, u, r, <<amount, pool.idx[r].bi>>), Log("Touched", u, r, 0)>>
          ELSE <<Log(ev, u, r, amount)>>

Accrue(r) ==
    \E i \in Index :
        /\ i.li >= pool.idx[r].li /\ i.bi >= pool.idx[r].bi /\ i # pool.idx[r]
        /\ Emit([pool EXCEPT !.idx[r] = i], <<Log("ReserveDataUpdated", Treasury, r, i)>>)
        /\ UNCHANGED drifted

Supply(u, r, amount) ==
    LET n == Scaled(amount, pool.idx[r].li, FALSE)
        q == MoveSupply(pool, u, r, n) IN
    /\ n > 0 /\ Emit(q, SupplyLogs("Supply", "AMint", u, r, amount))
    /\ UNCHANGED drifted

Withdraw(u, r, amount) ==
    LET n == Scaled(amount, pool.idx[r].li, TRUE)
        q == MoveSupply(pool, u, r, -n) IN
    /\ n > 0 /\ n <= pool.acct[u].s[r]
    /\ Emit(q, Cleared(pool, q, u, r) \o SupplyLogs("Withdraw", "ABurn", u, r, amount))
    /\ UNCHANGED drifted

Borrow(u, r, amount) ==
    LET n == Scaled(amount, pool.idx[r].bi, TRUE) IN
    /\ n > 0 /\ Emit(MoveDebt(pool, u, r, n), DebtLogs("Borrow", "VMint", u, r, amount))
    /\ UNCHANGED drifted

\* useATokens burns the payer's aTokens for the same amount (V3).
Repay(u, r, amount, useATokens) ==
    LET n == Scaled(amount, pool.idx[r].bi, FALSE)
        b == IF useATokens THEN Scaled(amount, pool.idx[r].li, TRUE) ELSE 0
        q == MoveSupply(MoveDebt(pool, u, r, -n), u, r, -b) IN
    /\ n > 0 /\ n <= pool.acct[u].d[r] /\ b <= pool.acct[u].s[r] /\ ~(V2 /\ useATokens)
    /\ Emit(q, Cleared(pool, q, u, r) \o
               DebtLogs(IF useATokens THEN "RepayATokens" ELSE "Repay", "VBurn", u, r, amount))
    /\ UNCHANGED drifted

\* aToken transfer: V3 carries the scaled amount, V2 the amount and index.
Transfer(u, v, r, amount) ==
    LET n == Scaled(amount, pool.idx[r].li, TRUE)
        q == MoveSupply(MoveSupply(pool, u, r, -n), v, r, n) IN
    /\ u # v /\ n > 0 /\ n <= pool.acct[u].s[r]
    /\ Emit(q, <<Log("BalanceTransfer", u, r,
                     [to |-> v, value |-> IF V2 THEN <<amount, pool.idx[r].li>> ELSE n])>>
               \o Cleared(pool, q, u, r))
    /\ UNCHANGED drifted

\* The seized collateral is burned or moved to the liquidator, the protocol
\* fee always moves to the treasury; debt with no collateral left behind it
\* is written off (DeficitCreated).
LiquidationCall(u, v, c, d, seized, fee, cover, receiveAToken) ==
    LET ns == Scaled(seized, pool.idx[c].li, TRUE)
        nd == Scaled(cover, pool.idx[d].bi, FALSE)
        p1 == MoveSupply(MoveDebt(pool, u, d, -nd), u, c, -ns - fee)
        p2 == MoveSupply(p1, Treasury, c, fee)
        p3 == IF receiveAToken THEN MoveSupply(p2, v, c, ns) ELSE p2
        bad == inst = "v35" /\ p3.acct[u].coll = {} /\ p3.acct[u].d[d] > 0
        p4 == IF bad THEN [p3 EXCEPT !.acct[u].d[d] = 0] ELSE p3
        Moved(to, n, amount) == Log("BalanceTransfer", u, c,
            [to |-> to, value |-> IF V2 THEN <<amount, pool.idx[c].li>> ELSE n])
    IN  /\ u \notin {v, Treasury} /\ c \in pool.acct[u].coll /\ ns > 0 /\ nd > 0
        /\ ns + fee <= pool.acct[u].s[c] /\ nd <= pool.acct[u].d[d]
        /\ V2 => fee = 0
        /\ Emit(p4,
             Cleared(pool, p4, u, c)
             \o (IF receiveAToken THEN <<Moved(v, ns, seized)>>
                 ELSE IF V2 THEN <<Log("ABurn", u, c, <<seized, pool.idx[c].li>>)>> ELSE <<>>)
             \o (IF fee > 0 THEN <<Moved(Treasury, fee, 0)>> ELSE <<>>)
             \o (IF V2 THEN <<Log("VBurn", u, d, <<cover, pool.idx[d].bi>>), Log("Touched", u, c, 0)>>
                 ELSE <<Log("LiquidationCall", u, c,
                            [d |-> d, seized |-> seized, cover |-> cover,
                             receiveAToken |-> receiveAToken])>>)
             \o (IF bad THEN <<Log("DeficitCreated", u, d, 0)>> ELSE <<>>))
        /\ UNCHANGED drifted

SetCollateral(u, r) ==
    /\ pool.acct[u].s[r] > 0
    /\ LET on == r \notin pool.acct[u].coll IN
       Emit([pool EXCEPT !.acct[u].coll = IF on THEN @ \cup {r} ELSE @ \ {r}],
            <<Log(IF on THEN "Enabled" ELSE "Disabled", u, r, 0)>>)
    /\ UNCHANGED drifted

SetUserEMode(u) ==
    /\ ~V2
    /\ LET e == 1 - pool.acct[u].emode IN
       Emit([pool EXCEPT !.acct[u].emode = e], <<Log("UserEModeSet", u, 0, e)>>)
    /\ UNCHANGED drifted

\* Stable debt: a mint, or a burn that leaves none or some of it.
StableDebt(u, r, left) ==
    /\ HasStable
    /\ left => r \notin pool.acct[u].stable
    /\ ~left => r \in pool.acct[u].stable
    /\ Emit([pool EXCEPT !.acct[u].stable = IF left THEN @ \cup {r} ELSE @ \ {r}],
            <<Log("Stable", u, r, left)>>)
    /\ UNCHANGED drifted

\* A configurator, oracle or grace-sentinel event: one fact of one reserve.
Configure(r, f) ==
    /\ LET x == 1 - pool.fact[r][f] IN
       Emit([pool EXCEPT !.fact[r][f] = x], <<Log("Config", Treasury, r, [f |-> f, x |-> x])>>)
    /\ UNCHANGED drifted

Govern(m) ==
    /\ m = "halted" => pool.meta[m] = 0
    /\ LET x == 1 - pool.meta[m] IN
       Emit([pool EXCEPT !.meta[m] = x], <<Log("Meta", Treasury, 0, [m |-> m, x |-> x])>>)
    /\ UNCHANGED drifted

\* The reserve factor minted to the treasury: MintedToTreasury, and an
\* aToken Mint that only V2 folds.
MintToTreasury(r, amount) ==
    LET n == Scaled(amount, pool.idx[r].li, FALSE) IN
    /\ n > 0
    /\ Emit(MoveSupply(pool, Treasury, r, n),
            IF V2 THEN <<Log("AMint", Treasury, r, <<amount, pool.idx[r].li>>)>>
                  ELSE <<Log("MintedToTreasury", Treasury, r, amount)>>)
    /\ drifted' = IF V2 THEN drifted ELSE drifted \cup {Treasury}

(***************************************************************************)
(* apply.rs: the fold of one log into the store.  An underflow, or an      *)
(* asset the config does not name, is an error and nothing is written.     *)
(***************************************************************************)
Error == [err |-> TRUE]
add_supply(st, u, r, n, add) ==
    IF add THEN [st EXCEPT !.acct[u].s[r] = @ + n]
    ELSE IF "err" \in DOMAIN st \/ st.acct[u].s[r] < n THEN Error
    ELSE [st EXCEPT !.acct[u].s[r] = @ - n]
add_debt(st, u, r, n, add) ==
    IF add THEN [st EXCEPT !.acct[u].d[r] = @ + n]
    ELSE IF "err" \in DOMAIN st \/ st.acct[u].d[r] < n THEN Error
    ELSE [st EXCEPT !.acct[u].d[r] = @ - n]
set_user_flag(st, u, r, on) ==
    [st EXCEPT !.acct[u].coll = IF on THEN @ \cup {r} ELSE @ \ {r}]

\* Pool events (V3): amounts scaled by the index the reserve last reported.
apply_pool(st, l) ==
    LET u == l.u
        r == l.r
        li == st.idx[r].li
        bi == st.idx[r].bi
    IN CASE l.ev = "ReserveDataUpdated" -> [st EXCEPT !.idx[r] = l.x]
         [] l.ev = "Supply"   -> add_supply(st, u, r, supply_mint_scaled(inst, l.x, li), TRUE)
         [] l.ev = "Withdraw" -> add_supply(st, u, r, supply_burn_scaled(inst, l.x, li), FALSE)
         [] l.ev = "Borrow"   -> add_debt(st, u, r, debt_mint_scaled(inst, l.x, bi), TRUE)
         [] l.ev = "Repay"    -> add_debt(st, u, r, debt_burn_scaled(inst, l.x, bi), FALSE)
         [] l.ev = "RepayATokens" ->
                add_supply(add_debt(st, u, r, debt_burn_scaled(inst, l.x, bi), FALSE),
                           u, r, supply_burn_scaled(inst, l.x, li), FALSE)
         [] l.ev = "LiquidationCall" ->
                LET burnt == supply_burn_scaled(inst, l.x.seized, li)
                    after == IF l.x.receiveAToken THEN st ELSE add_supply(st, u, r, burnt, FALSE)
                IN add_debt(after, u, l.x.d,
                            debt_burn_scaled(inst, l.x.cover, st.idx[l.x.d].bi), FALSE)
         [] l.ev = "DeficitCreated" -> [st EXCEPT !.acct[u].d[r] = 0]
         [] l.ev = "Enabled"  -> set_user_flag(st, u, r, TRUE)
         [] l.ev = "Disabled" -> set_user_flag(st, u, r, FALSE)
         [] l.ev = "MintedToTreasury" -> st

\* V3's aToken: the transferred value is already scaled.
apply_atoken(st, l) ==
    add_supply(add_supply(st, l.u, l.r, l.x.value, FALSE), l.x.to, l.r, l.x.value, TRUE)

\* V2's tokens: the amount and the index the token scaled it by.
ray_div(x) == HalfUp(x[1], Ray, x[2])
apply_atoken_v2(st, l) ==
    CASE l.ev = "AMint" -> add_supply(st, l.u, l.r, ray_div(l.x), TRUE)
      [] l.ev = "ABurn" -> add_supply(st, l.u, l.r, ray_div(l.x), FALSE)
      [] l.ev = "BalanceTransfer" ->
             add_supply(add_supply(st, l.u, l.r, ray_div(l.x.value), FALSE),
                        l.x.to, l.r, ray_div(l.x.value), TRUE)
apply_vtoken_v2(st, l) == add_debt(st, l.u, l.r, ray_div(l.x), l.ev = "VMint")

apply_stoken(st, l) ==
    [st EXCEPT !.acct[l.u].stable = IF l.x THEN @ \cup {l.r} ELSE @ \ {l.r}]

\* apply_cfg, apply_cfg_v2, apply_grace_v2 and apply_oracle.
apply_cfg(st, l) == [st EXCEPT !.fact[l.r][l.x.f] = l.x.x]

fold(st, l) ==
    CASE l.ev \in {"Supply", "Withdraw", "Borrow", "Repay", "RepayATokens", "LiquidationCall",
                   "DeficitCreated", "Enabled", "Disabled", "ReserveDataUpdated", "Config"}
             /\ l.r \notin Listed -> Error
      [] l.ev = "Config" -> apply_cfg(st, l)
      [] l.ev = "Meta" -> [st EXCEPT !.meta[l.x.m] = l.x.x]
      [] l.ev = "UserEModeSet" -> [st EXCEPT !.acct[l.u].emode = l.x]
      [] l.ev = "Stable" -> apply_stoken(st, l)
      [] l.ev = "Touched" -> st
      [] l.ev \in {"AMint", "ABurn"} \/ (V2 /\ l.ev = "BalanceTransfer") -> apply_atoken_v2(st, l)
      [] l.ev \in {"VMint", "VBurn"} -> apply_vtoken_v2(st, l)
      [] ~V2 /\ l.ev = "BalanceTransfer" -> apply_atoken(st, l)
      [] OTHER -> apply_pool(st, l)

\* What the handler of each log reports.
collateral_in(st) == {r \in Reserve : st.fact[r]["emodeColl"] = 1}
ReportOneSide(st, l) ==
    IF l.ev = "BalanceTransfer" THEN Positions({l.x.to}) ELSE Positions({l.u})
reported(st, l) ==
    CASE l.ev \in {"ReserveDataUpdated", "DeficitCreated"} -> MarketAccrual({l.r})
      [] l.ev = "Config" -> MarketReprice({l.r})
      [] l.ev = "Meta" -> IF l.x.m = "category" THEN MarketReprice(collateral_in(st))
                          ELSE ProtocolWide
      [] l.ev = "BalanceTransfer" -> Positions({l.u, l.x.to})
      [] l.ev = "MintedToTreasury" -> Nothing
      [] OTHER -> Positions({l.u})

apply_log ==
    /\ logs # <<>> /\ ~failed
    /\ \E st \in {fold(store, Head(logs))} :
           IF "err" \in DOMAIN st THEN failed' = TRUE /\ UNCHANGED <<store, dirty>>
           ELSE store' = st /\ dirty' = reported(st, Head(logs)) /\ UNCHANGED failed
    /\ logs' = Tail(logs)
    /\ UNCHANGED <<inst, pool, drifted, ops>>

(***************************************************************************)
(* resync.rs: the views at the block just folded.  The configuration bitmap*)
(* is indexed by the pool's id of a reserve, read once per reserve.        *)
(***************************************************************************)
Bitmap(u) == {2 * pool.id[r] + 1 : r \in pool.acct[u].coll}

\* id_reads, follow_ups and apply_ids.
ReadIds ==
    /\ logs = <<>> /\ ~failed
    /\ store' = [store EXCEPT !.id = pool.id]
    /\ UNCHANGED <<inst, pool, logs, dirty, drifted, failed, ops>>

CollateralBitOfSlot(u, r) == pool.acct[u].s[r] # 0 /\ (2 * r + 1) \in Bitmap(u)
\* The collateral bit of a slot: none without a balance.
CollateralBit(u, r) == pool.acct[u].s[r] # 0 /\ (2 * store.id[r] + 1) \in Bitmap(u)

\* settle: every view of the account answered, and the id of every reserve
\* it supplies known; otherwise the account is read again.
settle(u, answered) ==
    /\ {"config", "balances"} \subseteq answered
    /\ V2 \/ "emode" \in answered
    /\ \A r \in Reserve : pool.acct[u].s[r] # 0 => store.id[r] # 0

\* resync_reads, apply_accounts and apply.
Resync(u, answered) ==
    /\ logs = <<>> /\ ~failed /\ settle(u, answered)
    /\ store' = [store EXCEPT !.acct[u] =
                    [s |-> pool.acct[u].s, d |-> pool.acct[u].d,
                     coll |-> {r \in Reserve : CollateralBit(u, r)},
                     emode |-> IF V2 THEN 0 ELSE pool.acct[u].emode,
                     stable |-> pool.acct[u].stable]]
    /\ drifted' = drifted \ {u} /\ dirty' = Positions({u})
    /\ UNCHANGED <<inst, pool, logs, failed, ops>>

Amount == 1..MaxAmount
Next ==
    \/ apply_log
    \/ ReadIds
    \/ \E r \in Reserve : Accrue(r)
    \/ \E r \in Reserve, f \in Fact : Configure(r, f)
    \/ \E m \in Meta : Govern(m)
    \/ \E r \in Reserve, a \in Amount : MintToTreasury(r, a)
    \/ \E u \in Account, r \in Reserve, a \in Amount :
           Supply(u, r, a) \/ Withdraw(u, r, a) \/ Borrow(u, r, a)
    \/ \E u \in Account, r \in Reserve, a \in Amount, b \in BOOLEAN : Repay(u, r, a, b)
    \/ \E u, v \in Account, r \in Reserve, a \in Amount : Transfer(u, v, r, a)
    \/ \E u, v \in Account, c, d \in Reserve, a, b \in Amount, fee \in 0..1, w \in BOOLEAN :
           LiquidationCall(u, v, c, d, a, fee, b, w)
    \/ \E u \in Account, r \in Reserve : SetCollateral(u, r)
    \/ \E u \in Account : SetUserEMode(u)
    \/ \E u \in Account, r \in Reserve, left \in BOOLEAN : StableDebt(u, r, left)
    \/ \E u \in Account, a \in SUBSET {"config", "balances", "emode"} : Resync(u, a)

Spec == Init /\ [][Next]_vars

-----------------------------------------------------------------------------
\* The copy is exact: once a transaction's logs are folded, every account the
\* logs speak of has the pool's scaled balances, collateral bits, e-mode and
\* stable-debt marks, and every reserve its indexes and risk parameters; an
\* account the pool moved without a folded log is exact again once resynced.
FoldExact ==
    logs = <<>> /\ ~failed =>
        /\ \A u \in Account \ drifted : store.acct[u] = pool.acct[u]
        /\ store.idx = pool.idx /\ store.fact = pool.fact /\ store.meta = pool.meta

\* Everything an account's health is computed from: its slots, their rows, and
\* the pool's facts that bear on them.
Held(st, u) == {r \in Reserve : st.acct[u].s[r] > 0 \/ st.acct[u].d[r] > 0}
Inputs(st, u) ==
    [of |-> [r \in Held(st, u) |->
                <<st.acct[u].s[r], st.acct[u].d[r], r \in st.acct[u].coll, st.idx[r], st.fact[r]>>],
     emode |-> st.acct[u].emode, stable |-> st.acct[u].stable,
     meta |-> [m \in {x \in Meta : x # "category" \/
                      (~V2 /\ st.acct[u].emode = 1 /\ Held(st, u) \cap collateral_in(st) # {})}
               |-> IF Held(st, u) = {} THEN 0 ELSE st.meta[m]]]
DirtyStep ==
    \A u \in Account : Inputs(store, u) # Inputs(store', u)
                        => Covers(dirty', u, Held(store', u))
\* A fold reports every account whose health it may have changed; the debt a
\* DeficitCreated writes off is apart (see EveryFoldReported).
DirtyCovers ==
    logs # <<>> /\ Head(logs).ev # "DeficitCreated" => DirtyStep

\* apply.rs of DeficitCreated: "MarketAccrual re-projects every position
\* holding this slot, which includes id and so picks up the zeroed debt".
EveryFoldReported == [][DirtyStep]_vars

\* docs/coverage/aave-v3.md lists MintedToTreasury among the logs that move
\* state (MarketAccrual, "treasury mint"): no log a pool emits makes the fold
\* fail.
FoldsEveryLog == ~failed
====
