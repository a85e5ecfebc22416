---------------------------- MODULE LiquityHealth ---------------------------
(***************************************************************************)
(* What the Liquity V2 adapter computes from its copy of a trove: its      *)
(* debt and collateral with redistributions and interest, alone or as a    *)
(* share of a batch, and its collateral ratio (health.rs, math.rs); the    *)
(* last healthy price and the crossing time (solve.rs); and the gas        *)
(* compensation it quotes (quote.rs).  The trove is fixed in a behaviour;  *)
(* the prices of the collateral and of WETH move and time passes.          *)
(***************************************************************************)
EXTENDS LendingMath, Sequences

CONSTANTS
    Debts, Colls, Rates, Batches, Shutdowns, Pools, Gains,
    MCR, Wad, Year, Ray,       \* MCR in units of Wad
    ETH_GAS, GAS_DIVISOR, GAS_CAP, MIN_IN_SP,
    MaxPrice, MaxTime, Horizon

VARIABLES
    acct,      \* the trove, its branch's deposits and shutdown, its batch or none
    px,        \* prices of the collateral and of WETH
    ts,        \* seconds since the trove, or its batch, was settled at 1
    gate       \* "open" or "closed"

vars == <<acct, px, ts, gate>>

(***************************************************************************)
(* math.rs                                                                 *)
(***************************************************************************)
calc_interest(weighted, period) == Down(Down(weighted, period, Year), 1, Wad)
interest_period(now) ==
    IF acct.shutdown = 0 THEN now - 1
    ELSE IF 1 < acct.shutdown THEN acct.shutdown - 1 ELSE 0
redist_gain(stake, delta) == Down(stake, delta, Wad)
\* Interest and fee accrue on the batch, and the trove has its share of each.
batch_trove_debt(b, period) ==
    IF b.total = 0 THEN 0
    ELSE LET part(n) == Down(n, b.shares, b.total)
         IN part(b.debt) + part(calc_interest(b.debt * acct.rate, period))
            + part(calc_interest(b.debt * b.fee, period))
compute_cr(coll, debt, price) == IF debt = 0 THEN MAX ELSE Down(coll, price, debt)
hf_from_icr(icr) == IF icr = MAX THEN MAX ELSE Down(icr, Ray, MCR)
bold_in_sp_for_offsets == Monus(acct.sp, MIN_IN_SP)
coll_gas_compensation(portion) == Least(portion \div GAS_DIVISOR, GAS_CAP)

(***************************************************************************)
(* health.rs                                                               *)
(***************************************************************************)
entire_coll == acct.coll + redist_gain(acct.coll, acct.gain)
accrued(t) ==
    IF acct.batch = <<>>
    THEN acct.debt + calc_interest(acct.debt * acct.rate, interest_period(t))
    ELSE batch_trove_debt(acct.batch[1], interest_period(t))
entire_debt(t) == accrued(t) + redist_gain(acct.coll, acct.gain)
icr(t, p) == compute_cr(entire_coll, entire_debt(t), p)
hf(t, p) == hf_from_icr(icr(t, p))
Healthy(t, p) == hf(t, p) >= Ray
state(t, p) ==
    IF gate = "closed" \/ entire_debt(t) = 0 \/ ~(icr(t, p) < MCR) THEN "Healthy"
    ELSE "Liquidatable"

(***************************************************************************)
(* solve.rs                                                                *)
(***************************************************************************)
time_to_cross ==
    IF hf(ts, px.coll) = MAX THEN None
    ELSE IF ~Healthy(ts, px.coll) THEN ts
    ELSE IF Healthy(ts + Horizon, px.coll) THEN None
    ELSE Bisect(ts, ts + Horizon, LAMBDA m : Healthy(m, px.coll))[2]
\* A ratio over the collateral alone: in closed form.
liquidation_price ==
    IF entire_debt(ts) = 0 \/ entire_coll = 0 THEN None
    ELSE Up(MCR, entire_debt(ts), entire_coll)

(***************************************************************************)
(* quote.rs                                                                *)
(***************************************************************************)
coll_gas_from_offset ==
    LET offset == Least(entire_debt(ts), bold_in_sp_for_offsets)
    IN IF offset = 0 THEN 0 ELSE coll_gas_compensation(Down(entire_coll, offset, entire_debt(ts)))
NoQuote == <<>>
Option(asset, amount) == [asset |-> asset, amount |-> amount]
quote ==
    LET gas == coll_gas_from_offset
        weth == Option("weth", ETH_GAS)
        coll == Option("coll", gas)
        worth(o) == o.amount * (IF o.asset = "weth" THEN px.weth ELSE px.coll)
    IN IF state(ts, px.coll) # "Liquidatable" \/ worth(weth) + worth(coll) = 0 THEN NoQuote
       ELSE IF acct.isWeth THEN <<Option("weth", ETH_GAS + gas)>>
       ELSE IF gas = 0 THEN <<weth>>
       ELSE IF worth(weth) >= worth(coll) THEN <<weth, coll>> ELSE <<coll, weth>>

Init ==
    /\ acct \in [debt : Debts, coll : Colls, rate : Rates,
                 batch : {<<>>} \cup {<<b>> : b \in Batches}, shutdown : Shutdowns, sp : Pools, gain : Gains, isWeth : BOOLEAN]
    /\ acct.batch # <<>> => acct.debt = 0
    /\ px = [coll |-> MaxPrice, weth |-> MaxPrice]
    /\ ts = 1
    /\ gate \in {"open", "closed"}
Reprice ==
    /\ \E c, w \in 1..MaxPrice : px' = [coll |-> c, weth |-> w]
    /\ px' # px
    /\ acct.isWeth => px'.coll = px'.weth
    /\ UNCHANGED <<acct, ts, gate>>
Elapse ==
    /\ ts < MaxTime
    /\ ts' = ts + 1
    /\ UNCHANGED <<acct, px, gate>>

Next == Reprice \/ Elapse
Spec == Init /\ [][Next]_vars

-----------------------------------------------------------------------------
\* The closed form is the last price at which the collateral ratio reaches the
\* minimum, debt, redistributions and both kinds of interest included: healthy
\* at it, not one unit below.
LastHealthyPrice ==
    \E p \in {liquidation_price} :
        IF p # None THEN Healthy(ts, p) /\ (p > 0 => ~Healthy(ts, p - 1))
        ELSE \A n \in 1..MaxPrice : Healthy(ts, n) = Healthy(ts, 1)

\* time_to_cross is the first instant at which interest and management fee,
\* which stop at a shutdown, take the ratio below the minimum; without one the
\* trove stays above it for the whole horizon.
CrossTime ==
    \E t \in {time_to_cross} :
        IF t = None THEN Healthy(ts + Horizon, px.coll)
        ELSE ~Healthy(t, px.coll) /\ (t > ts => Healthy(t - 1, px.coll))

\* Only an open trove below the minimum is quoted, and the quote is the trove
\* manager's gas compensation and nothing more: the fixed WETH, and of the
\* collateral at most a 1/GAS_DIVISOR share of what the stability pool can
\* offset above the deposits it keeps, capped, the dearer asset first.
QuoteWithinRule ==
    \E q \in {quote} : q # NoQuote =>
        /\ gate = "open" /\ ~Healthy(ts, px.coll)
        /\ \A i \in DOMAIN q :
             LET coll == q[i].amount - (IF q[i].asset = "weth" THEN ETH_GAS ELSE 0)
             IN /\ q[i].asset = "weth" => q[i].amount >= ETH_GAS
                /\ coll <= GAS_CAP /\ coll * GAS_DIVISOR <= entire_coll
                /\ coll * GAS_DIVISOR * entire_debt(ts)
                     <= entire_coll * Monus(acct.sp, Least(acct.sp, MIN_IN_SP))
                /\ acct.isWeth => q[i].asset = "weth" /\ Len(q) = 1
        /\ Len(q) = 2 => px[q[1].asset] * q[1].amount >= px[q[2].asset] * q[2].amount
====
