---------------------------- MODULE MorphoHealth ----------------------------
(***************************************************************************)
(* What the Morpho Blue adapter computes from its copy of a position:      *)
(* health (health.rs), the last healthy price of either token and the      *)
(* instant accrual crosses (solve.rs), and the quote (quote.rs), with what *)
(* the executor's module and Morpho make of it (LiquidationModule.sol).    *)
(* The position and its market's totals are fixed in a behaviour; prices   *)
(* move and time passes.  Scales are small numbers.                        *)
(***************************************************************************)
EXTENDS LendingMath

CONSTANTS
    Lift,         \* 10^|loan_decimals - coll_decimals|
    Lltvs, Rates, MaxShares, Collaterals, BorrowAssets, BorrowShares,
    MaxPrice, MaxTime, Wad, Scale, Virtual, Cursor, MaxLif, Horizon

VARIABLES
    acct,      \* the position, its market's totals and its loan row
    px,        \* prices of the loan token and of the collateral token
    ts,
    gate       \* "priced", or "unpriced" for a market whose oracle is not pinned

vars == <<acct, px, ts, gate>>

(***************************************************************************)
(* math.rs                                                                 *)
(***************************************************************************)
to_assets_up(shares, ta, tb) == Up(shares, ta + 1, tb + Virtual)
to_assets_down(shares, ta, tb) == Down(shares, ta + 1, tb + Virtual)
to_shares_up(assets, ta, tb) == Up(assets, tb + Virtual, ta + 1)
to_shares_down(assets, ta, tb) == Down(assets, tb + Virtual, ta + 1)

w_taylor_compounded(rate, elapsed) ==
    LET first == rate * elapsed
        second == Down(first, first, 2 * Wad)
        third == Down(second, first, 3 * Wad)
    IN first + second + third
\* Totals were last updated at time 0; borrow shares do not accrue.
accrued(t) == acct.ba + Down(acct.ba, w_taylor_compounded(acct.rate, t), Wad)

liquidation_incentive_factor ==
    Least(MaxLif, Down(Wad, Wad, Wad - Down(Cursor, Wad - acct.lltv, Wad)))

(***************************************************************************)
(* health.rs                                                               *)
(***************************************************************************)
\* The oracle's price from two token prices: `lift` tells whether the loan or
\* the collateral has more decimals.
oracle_price(p) ==
    CASE acct.lift = 0 -> Down(p.coll, Scale, p.loan)
      [] acct.lift = 1 -> Down(p.coll, Scale * Lift, p.loan)
      [] acct.lift = -1 -> Down(p.coll, Scale, p.loan * Lift)

\* The prices the reader publishes for the oracle's own answer (decode_prices).
prices_matching_oracle(price) ==
    CASE acct.lift = 0 -> [loan |-> Scale, coll |-> price]
      [] acct.lift = 1 -> [loan |-> Scale * Lift, coll |-> price]
      [] acct.lift = -1 -> [loan |-> Scale, coll |-> price * Lift]

borrowed(t) == IF acct.shares = 0 THEN 0 ELSE to_assets_up(acct.shares, accrued(t), acct.bs)
quoted(p) == Down(acct.coll, oracle_price(p), Scale)
max_borrow(p) == Down(quoted(p), acct.lltv, Wad)
hf_wad(t, p) == IF borrowed(t) = 0 THEN MAX ELSE Down(max_borrow(p), Wad, borrowed(t))
Healthy(t, p) == hf_wad(t, p) >= Wad

\* terms and finish; the adapter never sets PAUSED.
state ==
    IF gate = "unpriced" THEN "OracleSourceMismatch"
    ELSE IF Healthy(ts, px) THEN "Healthy"
    ELSE IF acct.coll = 0 THEN "BadDebt" ELSE "Liquidatable"

(***************************************************************************)
(* solve.rs                                                                *)
(***************************************************************************)
time_to_cross ==
    IF gate = "unpriced" \/ hf_wad(ts, px) = MAX THEN None
    ELSE IF ~Healthy(ts, px) THEN ts
    ELSE IF Healthy(ts + Horizon, px) THEN None
    ELSE Bisect(ts, ts + Horizon, LAMBDA m : Healthy(m, px))[2]

oracle_star == Up(Up(borrowed(ts), Wad, acct.lltv), Scale, acct.coll)
liquidation_price(side) ==
    LET raw == CASE acct.lift = 0 /\ side = "coll" -> Up(oracle_star, px.loan, Scale)
                 [] acct.lift = 0 /\ side = "loan" -> Down(px.coll, Scale, oracle_star)
                 [] acct.lift = 1 /\ side = "coll" -> Up(oracle_star, px.loan, Scale * Lift)
                 [] acct.lift = 1 /\ side = "loan" -> Down(px.coll, Scale * Lift, oracle_star)
                 [] acct.lift = -1 /\ side = "coll" -> Up(oracle_star, px.loan * Lift, Scale)
                 [] acct.lift = -1 /\ side = "loan" -> Down(px.coll, Scale, oracle_star * Lift)
    IN IF gate = "unpriced" \/ borrowed(ts) = 0 \/ acct.coll = 0 \/ oracle_star = 0 THEN None
       ELSE IF raw < (IF side = "coll" THEN 2 ELSE 1) THEN None ELSE raw

(***************************************************************************)
(* quote.rs                                                                *)
(***************************************************************************)
\* What Morpho seizes for these shares at its own totals.
Seized(shares) ==
    Down(Down(to_assets_down(shares, accrued(ts), acct.bs), liquidation_incentive_factor, Wad),
         Scale, oracle_price(px))
Owed == to_assets_up(acct.shares, accrued(ts), acct.bs)
NoQuote == [repay |-> 0, seize |-> 0]
quote ==
    LET whole == Up(acct.coll, oracle_price(px), Scale)
        shares == to_shares_up(Up(whole, Wad, liquidation_incentive_factor),
                               accrued(ts), acct.bs)
        q == IF Seized(acct.shares) > acct.coll
             THEN [repay |-> to_assets_up(Least(shares, acct.shares), accrued(ts), acct.bs),
                   seize |-> acct.coll]
             ELSE [repay |-> Owed, seize |-> Seized(acct.shares)]
    IN IF state # "Liquidatable" \/ oracle_price(px) = 0 \/ q.repay = 0 \/ q.seize = 0
       THEN NoQuote ELSE q

\* LiquidationModule._liquidateMorpho: the shares bought with the repayment.
LiquidateMorpho(repay) == Least(to_shares_down(repay, accrued(ts), acct.bs), acct.shares)

(***************************************************************************)
(* Prices and time                                                         *)
(***************************************************************************)
Init ==
    /\ acct \in [coll : Collaterals, shares : 0..MaxShares, ba : BorrowAssets, bs : BorrowShares,
                 lltv : Lltvs, rate : Rates, lift : {-1, 0, 1}]
    /\ acct.shares <= acct.bs
    /\ px = [loan |-> 1, coll |-> MaxPrice]
    /\ ts = 0
    /\ gate \in {"priced", "unpriced"}

Reprice ==
    /\ \/ \E l, c \in 1..MaxPrice : px' = [loan |-> l, coll |-> c]
       \/ \E answer \in 1..MaxPrice : px' = prices_matching_oracle(answer)
    /\ px' # px
    /\ UNCHANGED <<acct, ts, gate>>
Elapse ==
    /\ ts < MaxTime
    /\ ts' = ts + 1
    /\ UNCHANGED <<acct, px, gate>>

Next == Reprice \/ Elapse
Spec == Init /\ [][Next]_vars

-----------------------------------------------------------------------------
At(side, n) == [px EXCEPT ![side] = n]
\* The price solve.rs returns in closed form is the last healthy one: healthy
\* there, unhealthy one unit down for the collateral and one up for the loan;
\* with none, no price of that token turns the position's health; and prices
\* made from the oracle's answer give that answer back to the unit.
LastHealthyPrice ==
    /\ gate = "priced" => \A side \in {"loan", "coll"} : \E p \in {liquidation_price(side)} :
         IF p # None
         THEN /\ Healthy(ts, At(side, p))
              /\ ~Healthy(ts, At(side, IF side = "coll" THEN p - 1 ELSE p + 1))
         ELSE \A n \in 1..2 * MaxPrice : Healthy(ts, At(side, n)) = Healthy(ts, At(side, 1))
    /\ \A answer \in 1..MaxPrice : oracle_price(prices_matching_oracle(answer)) = answer

\* time_to_cross is the first instant at which interest alone makes the
\* position unhealthy, and there is none within the horizon without it.
CrossTime ==
    gate = "priced" => \E t \in {time_to_cross} :
        IF t = None THEN Healthy(ts + Horizon, px)
        ELSE ~Healthy(t, px) /\ (t > ts => Healthy(t - 1, px))

\* A quote never promises more than its repayment buys: the shares the
\* executor turns the repayment into seize at least what is quoted, all of the
\* debt when the collateral covers it with its bonus, and never more than is
\* owed; then Morpho accepts the call.
QuoteWithinRule ==
    \E q \in {quote} : q # NoQuote =>
        /\ ~Healthy(ts, px) /\ gate = "priced"
        /\ q.seize <= acct.coll /\ q.repay <= Owed
        /\ Seized(LiquidateMorpho(q.repay)) >= q.seize
        /\ Seized(acct.shares) <= acct.coll
              => LiquidateMorpho(q.repay) = acct.shares
====
