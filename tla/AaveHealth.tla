----------------------------- MODULE AaveHealth -----------------------------
(***************************************************************************)
(* What the Aave adapter computes from its copy of an account: the health  *)
(* factor and its state (health.rs), the last healthy price and the instant*)
(* accrual crosses (solve.rs), and the legs of a quote (quote.rs).  The    *)
(* account and its reserves are fixed in a behaviour; prices move, time    *)
(* passes, and the configurator pauses a reserve or opens a grace window.  *)
(* Scales (Ray, Wad, Bps, a token's unit) are small numbers.               *)
(***************************************************************************)
EXTENDS LendingMath, FiniteSetsExt

CONSTANTS
    Reserve,                 \* slots of the market
    Versions,                \* subset of {"v3", "spark", "v2"}
    Unit,                    \* 10^decimals, the same for every reserve
    Risk,                    \* [Reserve -> [lt, bonus, fee, rate]]
    Balances, MaxPrice, MaxTime,
    Ray, Wad, Bps, Year,
    Horizon,                 \* how far time_to_cross looks
    Window,                  \* ACCRUAL_WINDOW_SECS
    MinBase,                 \* min_base_max_close of the v3 instance
    CloseFactor, CloseHf

VARIABLES acct, px, ts, gate

vars == <<acct, px, ts, gate>>
(***************************************************************************)
(* math.rs: indexes at a timestamp, balances from scaled balances.  Every  *)
(* reserve was last updated at time 0 with the index Ray.                  *)
(***************************************************************************)
v2 == acct.version = "v2"
linear_interest(rate, dt) == Ray + Down(rate, dt, Year)
compounded_interest(rate, dt) ==
    LET x == Down(rate, dt, Year)
    IN IF dt = 0 THEN Ray ELSE Ray + x + HalfUp(x, x \div 2 + HalfUp(x, x \div 6, Ray), Ray)
compounded_interest_v2(rate, dt) ==
    LET x == rate \div Year
        p2 == HalfUp(x, x, Ray)
        p3 == HalfUp(p2, x, Ray)
    IN IF dt = 0 THEN Ray
       ELSE Ray + x * dt + (dt * (dt - 1) * p2) \div 2
                + (dt * (dt - 1) * (IF dt > 2 THEN dt - 2 ELSE 0) * p3) \div 6
normalized_income(r, t) == HalfUp(linear_interest(Risk[r].rate, t), Ray, Ray)
normalized_debt(r, t) ==
    HalfUp(IF v2 THEN compounded_interest_v2(Risk[r].rate, t)
           ELSE compounded_interest(Risk[r].rate, t), Ray, Ray)

supply_assets(r, t) == IF acct.version = "v3" THEN Down(acct.supply[r], normalized_income(r, t), Ray)
                       ELSE HalfUp(acct.supply[r], normalized_income(r, t), Ray)
debt_assets(r, t) == IF acct.version = "v3" THEN Up(acct.debt[r], normalized_debt(r, t), Ray)
                     ELSE HalfUp(acct.debt[r], normalized_debt(r, t), Ray)

(***************************************************************************)
(* health.rs                                                               *)
(***************************************************************************)
Counted == {r \in acct.using : acct.supply[r] > 0}
Borrowed == {r \in Reserve : acct.debt[r] > 0}
coll_value(r, t, p) == Down(supply_assets(r, t), p[r], Unit)
debt_value(r, t, p) == IF v2 THEN Down(debt_assets(r, t), p[r], Unit)
                       ELSE Up(debt_assets(r, t), p[r], Unit)
TotalDebt(t, p) == MapThenSumSet(LAMBDA r : debt_value(r, t, p), Borrowed)
TotalColl(t, p) == MapThenSumSet(LAMBDA r : coll_value(r, t, p), Counted)
Weighted(t, p) == MapThenSumSet(LAMBDA r : coll_value(r, t, p) * Risk[r].lt, Counted)

\* V3 divides the weighted value by the debt; V2 first averages the threshold
\* over the collateral that has one.
hf_wad_v2(t, p) ==
    LET c == MapThenSumSet(LAMBDA r : coll_value(r, t, p), {r \in Counted : Risk[r].lt > 0})
        avg == IF c = 0 THEN 0 ELSE Weighted(t, p) \div c
    IN HalfUp(HalfUp(c, avg, Bps), Wad, TotalDebt(t, p))
hf_wad(t, p) ==
    IF TotalDebt(t, p) = 0 THEN MAX
    ELSE IF v2 THEN hf_wad_v2(t, p)
    ELSE HalfUp(Weighted(t, p), Wad, TotalDebt(t, p)) \div Bps
Healthy(t, p) == hf_wad(t, p) >= Wad

in_grace(r, t) == gate.grace[r] # None /\ gate.grace[r] >= t
seizable(t) == {r \in Counted : r \notin gate.paused /\ ~in_grace(r, t)}
repayable(t) == {r \in Borrowed : r \notin gate.paused /\ ~in_grace(r, t)}

\* finish
state(t, p) ==
    IF Healthy(t, p) THEN "Healthy"
    ELSE IF TotalColl(t, p) = 0 THEN "BadDebt"
    ELSE IF gate.halted THEN "Paused"
    ELSE IF seizable(t) # {} /\ repayable(t) # {} THEN "Liquidatable"
    ELSE IF Counted \ gate.paused # {} /\ Borrowed \ gate.paused # {} THEN "GracePeriod"
    ELSE "Paused"

(***************************************************************************)
(* solve.rs                                                                *)
(***************************************************************************)
CrossEarly ==
    IF hf_wad(ts, px) = MAX THEN None
    ELSE IF ~Healthy(ts, px) THEN ts
    ELSE IF Healthy(ts + Horizon, px) THEN None
    ELSE Bisect(ts, ts + Horizon, LAMBDA m : Healthy(m, px))[1]
time_to_cross ==
    IF hf_wad(ts, px) = MAX THEN None
    ELSE IF ~Healthy(ts, px) THEN ts
    ELSE IF Healthy(ts + Horizon, px) THEN None
    ELSE Bisect(ts, ts + Horizon, LAMBDA m : Healthy(m, px))[2]

At(r, p) == [px EXCEPT ![r] = p]
\* The bracket's far end: doubled from the current price, 96 times in the code,
\* for as long as the end has the health the test compares with.
Doublings == 4
RECURSIVE Bracket(_, _, _, _)
Bracket(r, h, n, coll_like) ==
    IF n > 1 /\ Healthy(ts, At(r, 2 * h)) = coll_like
    THEN Bracket(r, 2 * h, n - 1, coll_like) ELSE 2 * h

liquidation_price(r) ==
    LET coll_like == hf_wad(ts, At(r, px[r] + 1)) >= hf_wad(ts, px)
        hi == Bracket(r, px[r], Doublings, coll_like)
    IN IF r \notin Counted \cup Borrowed \/ Healthy(ts, At(r, 1)) = coll_like
          \/ Healthy(ts, At(r, hi)) # coll_like THEN None
       ELSE IF coll_like
            THEN Bisect(1, hi, LAMBDA m : ~Healthy(ts, At(r, m)))[2]
            ELSE Bisect(1, hi, LAMBDA m : Healthy(ts, At(r, m)))[1]

(***************************************************************************)
(* quote.rs                                                                *)
(***************************************************************************)
min_base == IF acct.version = "v3" THEN MinBase ELSE 0

max_liquidatable_debt(c, d) ==
    LET owed == debt_assets(d, ts)
        cap_base == HalfUp(TotalDebt(ts, px), CloseFactor, Bps)
        close == hf_wad(ts, px) > CloseHf
    IN IF acct.version # "v3"
       THEN IF close THEN HalfUp(owed, CloseFactor, Bps) ELSE owed
       ELSE IF /\ close
               /\ coll_value(c, ts, px) >= min_base
               /\ debt_value(d, ts, px) >= min_base
               /\ debt_value(d, ts, px) > cap_base
            THEN (cap_base * Unit) \div px[d] ELSE owed

\* What repaying `cover` takes: collateral to the liquidator, debt, fee.
available(c, d, cover) ==
    LET held == supply_assets(c, ts)
        bonus == Risk[c].bonus
        max_coll == IF v2 THEN HalfUp(px[d] * cover, bonus, Bps) \div px[c]
                    ELSE Down(Down(px[d], cover, px[c]), bonus, Bps)
        whole == Down(px[c], held, px[d])
        taken == IF max_coll > held THEN held ELSE max_coll
        needed == IF max_coll <= held THEN cover
                  ELSE IF v2 THEN HalfUp(whole, Bps, bonus) ELSE Up(whole, Bps, bonus)
        fee == IF Risk[c].fee = 0 THEN 0
               ELSE Up(taken - Down(taken, Bps, bonus), Risk[c].fee, Bps)
    IN [seize |-> taken - fee, repay |-> needed, fee |-> fee]

leaves_no_dust(c, d, cover) ==
    LET a == available(c, d, cover)
        owed == debt_assets(d, ts)
        held == supply_assets(c, ts)
        leftover == min_base \div 2
    IN \/ a.repay >= owed
       \/ a.seize + a.fee >= held
       \/ /\ Up(owed - a.repay, px[d], Unit) >= leftover
          /\ Down(held - a.seize - a.fee, px[c], Unit) >= leftover
Whole(c, d, a) == a.repay >= debt_assets(d, ts) \/ a.seize + a.fee >= supply_assets(c, ts)

with_accrual(c, d, repay) ==
    LET rate == Most(Risk[c].rate, Risk[d].rate)
    IN repay + Up(repay, rate * Window, Ray * Year) + 1

\* The most the leg can repay, 0 when nothing is admitted.
AmountsSkipDust(c, d) ==
    LET cover == max_liquidatable_debt(c, d)
        a == available(c, d, cover)
    IN IF cover = 0 THEN 0
       ELSE IF Whole(c, d, a) THEN with_accrual(c, d, a.repay) ELSE a.repay
amounts(c, d) ==
    LET cover == max_liquidatable_debt(c, d)
        a == available(c, d, cover)
        best == Bisect(0, cover, LAMBDA m : leaves_no_dust(c, d, m))[1]
    IN IF cover = 0 THEN 0
       ELSE IF leaves_no_dust(c, d, cover)
            THEN IF Whole(c, d, a) THEN with_accrual(c, d, a.repay) ELSE a.repay
       ELSE IF best = 0 THEN 0 ELSE available(c, d, best).repay

\* The seize options, best first: net bonus, then the value it yields.
net_span(r) == Down(Risk[r].bonus - Bps, Bps - Risk[r].fee, Bps)
max_seize(r) ==
    LET held == supply_assets(r, ts)
    IN held - Up(held - Down(held, Bps, Risk[r].bonus), Risk[r].fee, Bps)
SeizeOptions == {r \in seizable(ts) : Risk[r].bonus >= Bps}
Better(r, s) == \/ net_span(r) > net_span(s)
                \/ /\ net_span(r) = net_span(s)
                   /\ \/ max_seize(r) * px[r] > max_seize(s) * px[s]
                      \/ max_seize(r) * px[r] = max_seize(s) * px[s] /\ r < s
Best == CHOOSE r \in SeizeOptions : \A s \in SeizeOptions \ {r} : Better(r, s)

\* The repay legs: (debt reserve, amount) pairs; empty for "no quote".
quote ==
    IF state(ts, px) # "Liquidatable" \/ SeizeOptions = {} THEN {}
    ELSE {q \in {<<d, amounts(Best, d)>> : d \in repayable(ts)} : q[2] > 0}

(***************************************************************************)
(* Prices, time and the configurator.                                      *)
(***************************************************************************)
Gates == [paused : SUBSET Reserve, grace : [Reserve -> {None}], halted : BOOLEAN]
Open == [paused |-> {}, grace |-> [r \in Reserve |-> None], halted |-> FALSE]

Init ==
    /\ acct \in [version : Versions, supply : [Reserve -> Balances],
                 debt : [Reserve -> Balances], using : SUBSET Reserve]
    /\ \A r \in acct.using : acct.supply[r] > 0
    /\ Borrowed # {}
    /\ px = [r \in Reserve |-> MaxPrice]
    /\ ts = 0
    /\ gate = Open

Reprice == /\ \E r \in Reserve, p \in 1..MaxPrice : p # px[r] /\ px' = At(r, p)
           /\ UNCHANGED <<acct, ts, gate>>
Elapse == /\ ts < MaxTime
          /\ ts' = ts + 1
          /\ UNCHANGED <<acct, px, gate>>
Pause == /\ gate = Open
         /\ \E r \in Reserve : \/ gate' = [gate EXCEPT !.paused = {r}]
                               \/ gate' = [gate EXCEPT !.grace[r] = ts]
                               \/ gate' = [gate EXCEPT !.halted = TRUE]
         /\ UNCHANGED <<acct, px, ts>>

Next == Reprice \/ Elapse \/ Pause
Spec == Init /\ [][Next]_vars

(***************************************************************************)
(* Properties                                                              *)
(***************************************************************************)
\* The price solve.rs returns is the last healthy one: the account is healthy
\* there and not at the next price unit toward danger; and a healthy account
\* gets one for an asset it only holds whenever some lower price endangers it.
LastHealthyPrice ==
    \A r \in Reserve : \E p \in {liquidation_price(r)} :
        /\ p # None => /\ Healthy(ts, At(r, p))
                       /\ \E n \in {p - 1, p + 1} : ~Healthy(ts, At(r, n))
        /\ (p = None /\ r \notin Borrowed /\ Healthy(ts, px))
             => \A n \in 1..px[r] : Healthy(ts, At(r, n))

\* The doc of Protocol::liquidation_price, on the debt side too: a healthy
\* account with no price is endangered by no price of the asset alone.
EveryCrossingPriced ==
    \A r \in Reserve : liquidation_price(r) = None /\ Healthy(ts, px)
                         => \A n \in 1..4 * MaxPrice : Healthy(ts, At(r, n))

\* The instant time_to_cross returns is the first unhealthy second from now on,
\* and there is none within the horizon when it returns no instant (an account
\* whose debt is worth nothing counts as one without debt).
CrossTime ==
    \E t \in {time_to_cross} :
        IF t = None THEN Healthy(ts + Horizon, px) \/ TotalDebt(ts, px) = 0
        ELSE ~Healthy(t, px) /\ (t > ts => Healthy(t - 1, px))

\* Every repay leg quoted against the best collateral is one the pool's close
\* factor and dust rule admit, the largest such amount, or the whole leg grown
\* by a window of interest; nothing is quoted for an account that is healthy,
\* halted, or has no pair clear of its pauses and grace windows.
QuoteWithinRule ==
    \E q \in {quote} :
        /\ q # {} => state(ts, px) = "Liquidatable" /\ ~gate.halted
        /\ \A leg \in q :
             LET d == leg[1]
                 cap == max_liquidatable_debt(Best, d)
                 Ok(m) == leaves_no_dust(Best, d, m)
                 Repaid(m) == available(Best, d, m).repay
             IN /\ d \notin gate.paused
                /\ \/ /\ Ok(cap) /\ Whole(Best, d, available(Best, d, cap))
                      /\ leg[2] > Repaid(cap)
                   \/ \E m \in 1..cap : /\ Ok(m) /\ leg[2] = Repaid(m)
                                        /\ \A n \in m + 1..cap : ~Ok(n)
====
