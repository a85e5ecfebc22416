---------------------------- MODULE SiloHealth ----------------------------
(***************************************************************************)
(* What the Silo V2 adapter computes from its copy of a position in a pair *)
(* of silos: solvency (health.rs), the last healthy price of either token  *)
(* by bisection (solve.rs) and the quote, capped by what the collateral    *)
(* silo can pay out (quote.rs), against the hook that liquidates.  The     *)
(* position is fixed in a behaviour; prices move and time passes.          *)
(***************************************************************************)
EXTENDS LendingMath

CONSTANTS
    DebtShares, CollShares, ProtShares,  \* what the account may hold
    DebtTotals, CollTotals, Lent,        \* asset totals, and what the collateral silo has lent
    Lts, Targets, Rates,
    Fee, InterestFee, Shares,            \* liquidation fee, interest fee, total shares of a silo
    MaxPrice, MaxTime, Wad, Ray, Unit, Offset, Full, Haircut

VARIABLES
    acct,      \* the position and the rows of its pair
    px,        \* prices of the debt and of the collateral silo's token
    ts,
    gate       \* "open", "paused" (halted), "unpriced", or "both" for debt in both silos

vars == <<acct, px, ts, gate>>

UNDERESTIMATION == 2

(***************************************************************************)
(* math.rs                                                                 *)
(***************************************************************************)
\* The totals were last written at time 0; a rate of 0 is a growth not known.
grown(total, t) == total + Down(total, acct.rate * t, Ray)
\* accrue: the debt by the interest, the collateral by it less the fees.
with_interest(coll, debt, t) ==
    LET interest == grown(debt, t) - debt
    IN coll + interest - Down(interest, InterestFee, Wad)

debt_to_assets(shares, assets) == Up(shares, assets, Shares)
shares_to_assets(shares, assets) == Down(shares, assets + 1, Shares + Offset)
value_from_price(amount, price) == Down(amount, price, Unit)

ltv_math(debt, coll) == IF coll = 0 THEN IF debt = 0 THEN 0 ELSE MAX ELSE Up(debt, Wad, coll)
is_solvent(debt, coll) == debt = 0 \/ ltv_math(debt, coll) <= acct.lt
hf_ray(debt, coll) ==
    IF debt = 0 THEN MAX ELSE IF coll = 0 THEN 0 ELSE Down(acct.lt, coll * Ray, debt * Wad)

estimate_max_repay_value(debt, coll) ==
    LET after == acct.target
        divider == after + Down(after, Fee, Wad)
        repay == (debt * Wad - after * coll) \div (Wad - divider)
    IN IF debt = 0 \/ Fee >= Wad THEN 0
       ELSE IF debt >= coll \/ after = 0 THEN debt
       ELSE IF after * coll >= debt * Wad THEN 0
       ELSE IF divider >= Wad \/ repay > debt \/ Down(repay, Wad, debt) > Full THEN debt
       ELSE repay

calculate_collateral_to_liquidate(cover, coll) == Least(coll, cover + Down(cover, Fee, Wad))

(***************************************************************************)
(* health.rs                                                               *)
(***************************************************************************)
\* terms: an unset collateral slot is the other silo's.
Same == acct.slot = "same"
Mine == IF Same THEN acct.da ELSE acct.lent           \* debt of the collateral silo
debt_assets(t) == debt_to_assets(acct.d, grown(acct.da, t))
prot_assets == shares_to_assets(acct.p, Shares)
sum_coll_assets(t) ==
    prot_assets + shares_to_assets(acct.c, with_interest(acct.ca, Mine, t))
debt_value(t, p) == value_from_price(debt_assets(t), p.debt)
coll_value(t, p) == value_from_price(sum_coll_assets(t), IF Same THEN p.debt ELSE p.coll)
hf(t, p) == hf_ray(debt_value(t, p), coll_value(t, p))
Healthy(t, p) == hf(t, p) >= Ray

state ==
    IF gate = "unpriced" THEN "OracleSourceMismatch"
    ELSE IF gate = "both" THEN "Internal"
    ELSE IF acct.d = 0 \/ is_solvent(debt_value(ts, px), coll_value(ts, px)) THEN "Healthy"
    ELSE IF sum_coll_assets(ts) = 0 THEN "BadDebt"
    ELSE IF gate = "paused" THEN "Blocked" ELSE "Liquidatable"
Readable == gate \in {"open", "paused"}

(***************************************************************************)
(* solve.rs                                                                *)
(***************************************************************************)
\* No rate model is in the events: now, or not foreseen.
time_to_cross == IF Readable /\ acct.d > 0 /\ ~Healthy(ts, px) THEN ts ELSE None

max_price == 8 * MaxPrice
At(side, n) == [px EXCEPT ![side] = n]
smallest_healthy(Ok(_), lo, hi) == IF ~Ok(hi) THEN None ELSE Bisect(lo, hi, LAMBDA m : ~Ok(m))[2]
largest_healthy(Ok(_), lo, hi) == IF ~Ok(lo) THEN None ELSE Bisect(lo, hi, Ok)[1]
liquidation_price(side) ==
    LET Ok(n) == Healthy(ts, At(side, n))
        raw == IF side = "coll" THEN smallest_healthy(Ok, 0, max_price)
               ELSE largest_healthy(Ok, 1, max_price)
        danger == IF side = "coll" THEN raw - 1 ELSE raw + 1
    IN IF Same \/ ~Readable \/ debt_assets(ts) = 0 \/ sum_coll_assets(ts) = 0 \/ acct.lt = 0
          \/ raw \in {None, 0} THEN None
       ELSE IF ~Ok(raw) \/ (danger <= max_price /\ Ok(danger)) THEN None ELSE raw

(***************************************************************************)
(* quote.rs                                                                *)
(***************************************************************************)
NoQuote == [repay |-> 0, seize |-> 0]

max_liquidation ==
    LET dv == debt_value(ts, px)
        cv == coll_value(ts, px)
        cover == estimate_max_repay_value(dv, cv)
        taken == Down(calculate_collateral_to_liquidate(cover, cv), sum_coll_assets(ts), cv)
    IN IF cv = 0 THEN [repay |-> debt_assets(ts), seize |-> sum_coll_assets(ts)]
       ELSE [repay |-> Down(cover, debt_assets(ts), dv), seize |-> Monus(taken, UNDERESTIMATION)]

\* The collateral silo's totals as last written, not grown.
liquidity == Monus(acct.ca, Mine)
within_liquidity(q) ==
    LET payable == prot_assets + Down(liquidity, Haircut - 1, Haircut)
        repay == Down(q.repay, Monus(payable, UNDERESTIMATION), q.seize)
    IN IF q.seize + UNDERESTIMATION <= payable THEN q
       ELSE IF q.repay >= debt_assets(ts) /\ debt_value(ts, px) < coll_value(ts, px) THEN NoQuote
       ELSE [repay |-> repay, seize |-> Down(q.seize, repay, q.repay)]

quote ==
    LET q == max_liquidation
        w == within_liquidity(q)
    IN IF state # "Liquidatable" \/ acct.lt = 0 \/ q.repay = 0 \/ q.seize = 0 THEN NoQuote
       ELSE IF w.repay = 0 \/ w.seize = 0 THEN NoQuote ELSE w

(***************************************************************************)
(* The hook: liquidationCall with a cover, receiveSToken false.            *)
(***************************************************************************)
HookValue(cover) ==
    LET dv == debt_value(ts, px)
        cv == coll_value(ts, px)
        offered == Down(cover, dv, debt_assets(ts))
        most == estimate_max_repay_value(dv, cv)
    IN IF dv >= cv THEN Least(offered, dv) ELSE IF most = dv THEN dv ELSE Least(offered, most)
HookRepays(cover) == IF HookValue(cover) = debt_value(ts, px) THEN debt_assets(ts)
                     ELSE Least(cover, debt_assets(ts))
HookTakes(cover) ==
    LET cv == coll_value(ts, px)
    IN IF cv = 0 THEN sum_coll_assets(ts)
       ELSE Down(calculate_collateral_to_liquidate(HookValue(cover), cv), sum_coll_assets(ts), cv)

(***************************************************************************)
(* Prices and time                                                         *)
(***************************************************************************)
Init ==
    /\ acct \in [d : DebtShares, c : CollShares, p : ProtShares, da : DebtTotals, ca : CollTotals,
                 lent : Lent, lt : Lts, target : Targets, rate : Rates,
                 slot : {"unset", "other", "same"}]
    /\ acct.target <= acct.lt
    /\ px = [debt |-> 1, coll |-> MaxPrice]
    /\ ts = 0
    /\ gate \in {"open", "paused", "unpriced", "both"}

Reprice ==
    /\ \E d, c \in 1..MaxPrice : px' = [debt |-> d, coll |-> c]
    /\ px' # px
    /\ UNCHANGED <<acct, ts, gate>>
Elapse ==
    /\ ts < MaxTime
    /\ ts' = ts + 1
    /\ UNCHANGED <<acct, px, gate>>

Next == Reprice \/ Elapse
Spec == Init /\ [][Next]_vars

-----------------------------------------------------------------------------
\* The bisected price is the last healthy one: healthy there, unhealthy one
\* unit down for the collateral and one up for the debt; with none, for a loan
\* across the pair that has collateral no price of that token turns its health.
LastHealthyPrice ==
    Readable /\ ~Same => \A side \in {"debt", "coll"} : \E p \in {liquidation_price(side)} :
        IF p # None
        THEN /\ Healthy(ts, At(side, p))
             /\ ~Healthy(ts, At(side, IF side = "coll" THEN p - 1 ELSE p + 1))
        ELSE sum_coll_assets(ts) > 0 =>
                 \A n \in 1..2 * MaxPrice : Healthy(ts, At(side, n)) = Healthy(ts, At(side, 1))

\* time_to_cross is now exactly for the positions the hook may liquidate now:
\* its health factor and isSolvent, rounded in opposite directions, agree.
CrossTime ==
    Readable =>
        time_to_cross = IF acct.d > 0 /\ ~is_solvent(debt_value(ts, px), coll_value(ts, px))
                        THEN ts ELSE None

\* A quote is one the hook carries out: it repays no more than the cover
\* offered (FullLiquidationRequired otherwise), takes at least what is quoted
\* but for a unit of debt's worth, and redeems from the collateral silo, after
\* the protected shares, no more than its liquidity.
QuoteWithinRule ==
    \E q \in {quote} : q # NoQuote =>
        /\ gate = "open" /\ ~Healthy(ts, px)
        /\ HookRepays(q.repay) <= q.repay
        /\ HookTakes(q.repay + 1) >= q.seize
        /\ Monus(HookTakes(q.repay), prot_assets) <= liquidity
====
