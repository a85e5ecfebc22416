---------------------------- MODULE AaveV4Health ----------------------------
(***************************************************************************)
(* What the Aave V4 adapter computes from its copy of an account on a      *)
(* spoke: health and its state (health.rs), the last healthy price in      *)
(* closed form and the instant accrual crosses (solve.rs), and the amounts *)
(* of a quote: the debt that restores the target health, the dust rules    *)
(* and the collateral (quote.rs).                                          *)
(***************************************************************************)
EXTENDS LendingMath, FiniteSetsExt

CONSTANTS
    Reserve,        \* slots 1.. of the spoke
    Hub,            \* [Reserve -> [rate, fee, liq, added, drawn, prem]]
    Factor,         \* [Reserve -> the users' snapshot [cf, bonus]]
    MaxShares, MaxPrice, MaxTime,
    Scale,          \* ray units per unit of the oracle's price
    Ray, Wad, Bps, Unit, Year, Virtual, Horizon,
    Dust, TargetHf, HfForMax, BonusFactor

VARIABLES acct, px, ts, gate

vars == <<acct, px, ts, gate>>
p8(p, r) == p[r] \div Scale
value_scale == Wad \div Unit

(***************************************************************************)
(* math.rs                                                                 *)
(***************************************************************************)
drawn_index_at(r, t) ==
    IF t = 0 \/ (Hub[r].drawn = 0 /\ Hub[r].prem = 0) THEN Ray
    ELSE Up(Ray, Ray + Down(Hub[r].rate, t, Year), Ray)
premium_ray(shares, offset, idx) == shares * idx - offset
owed(r, idx) == Up(Hub[r].drawn * idx + premium_ray(Hub[r].prem, Hub[r].prem * Ray, idx), 1, Ray)
unrealized_fees(r, idx) ==
    IF idx = Ray THEN 0 ELSE Down(owed(r, idx) - owed(r, Ray), Hub[r].fee, Bps)
total_added_assets(r, idx) == Hub[r].liq + owed(r, idx) - unrealized_fees(r, idx)
Total(r, t) == total_added_assets(r, drawn_index_at(r, t))
to_assets_down(r, shares, t) == Down(shares, Total(r, t) + Virtual, Hub[r].added + Virtual)
to_assets_up(r, shares, t) == Up(shares, Total(r, t) + Virtual, Hub[r].added + Virtual)
to_shares_down(r, assets, t) == Down(assets, Hub[r].added + Virtual, Total(r, t) + Virtual)

(***************************************************************************)
(* health.rs                                                               *)
(***************************************************************************)
Counted == {r \in acct.using : Factor[r].cf > 0 /\ acct.supply[r] > 0}
Borrowed == {r \in Reserve : acct.debt[r] > 0}
assets(r, t) == to_assets_down(r, acct.supply[r], t)
\* The user's premium was settled at the index Ray.
user_premium(r, t) == premium_ray(acct.prem[r], acct.prem[r] * Ray, drawn_index_at(r, t))
debt_ray(r, t) == acct.debt[r] * drawn_index_at(r, t) + user_premium(r, t)
CollPerPrice(r, t) == assets(r, t) * value_scale
DebtPerPrice(r, t) == debt_ray(r, t) * value_scale
Weighted(t, p) == MapThenSumSet(LAMBDA r : Factor[r].cf * CollPerPrice(r, t) * p8(p, r), Counted)
DebtValueRay(t, p) == MapThenSumSet(LAMBDA r : DebtPerPrice(r, t) * p8(p, r), Borrowed)
CollValue(t, p) == MapThenSumSet(LAMBDA r : CollPerPrice(r, t) * p8(p, r), Counted)
HfOf(weighted, debt) == IF debt = 0 THEN MAX ELSE Down(weighted * (Wad \div Bps), Ray, debt)
hf_wad(t, p) == HfOf(Weighted(t, p), DebtValueRay(t, p))
Healthy(t, p) == hf_wad(t, p) >= Wad

open(r) == r \notin gate.paused /\ r \in gate.active /\ r \notin gate.halted
seizable == {r \in Counted : open(r)}
repayable == {r \in Borrowed : open(r)}
state(t, p) ==
    IF Healthy(t, p) THEN "Healthy"
    ELSE IF CollValue(t, p) = 0 THEN "BadDebt"
    ELSE IF seizable # {} /\ repayable # {} /\ Borrowed \subseteq gate.active THEN "Liquidatable"
    ELSE "Blocked"

(***************************************************************************)
(* solve.rs.  hf >= 1 without the division: weighted collateral, scaled,   *)
(* at least the debt; both are linear in the price of one asset.           *)
(***************************************************************************)
W_SCALE == Ray \div Bps
CoefColl(r) == IF r \in Counted THEN W_SCALE * Factor[r].cf * CollPerPrice(r, ts) ELSE 0
CoefDebt(r) == IF r \in Borrowed THEN DebtPerPrice(r, ts) ELSE 0
\* What the other debts exceed the other collateral by.
Gap(r) == MapThenSumSet(LAMBDA s : DebtPerPrice(s, ts) * p8(px, s), Borrowed \ {r})
            - W_SCALE * MapThenSumSet(LAMBDA s : Factor[s].cf * CollPerPrice(s, ts) * p8(px, s),
                                      Counted \ {r})

LiquidationPriceFloor(r) ==
    LET coef == CoefColl(r) - CoefDebt(r)
        falls == Down(Gap(r), 1, coef)
    IN IF coef > 0 /\ falls >= 2 THEN falls * Scale ELSE None
LastPrice(coef, gap) ==
    LET falls == Up(gap, 1, coef)
        rises == Down(-gap, 1, -coef)
    IN IF coef > 0 /\ gap >= 0 /\ falls >= 2 THEN falls * Scale
       ELSE IF coef < 0 /\ gap <= 0 /\ rises >= 1 THEN (rises + 1) * Scale - 1
       ELSE None
liquidation_price(r) == LastPrice(CoefColl(r) - CoefDebt(r), Gap(r))

time_to_cross ==
    IF hf_wad(ts, px) = MAX THEN None
    ELSE IF ~Healthy(ts, px) THEN ts
    ELSE IF Healthy(ts + Horizon, px) THEN None
    ELSE Bisect(ts, ts + Horizon, LAMBDA m : Healthy(m, px))[2]

(***************************************************************************)
(* quote.rs: amounts for one (collateral, debt) pair, debtToCover unbounded*)
(***************************************************************************)
liquidation_bonus_bps(max, hf) ==
    LET min == Down(max - Bps, BonusFactor, Bps) + Bps
    IN IF hf <= HfForMax THEN max ELSE min + Down(max - min, Wad - hf, Wad - HfForMax)
bonus_curve(max) == health_linear(Down(max - Bps, BonusFactor, Bps), HfForMax, max - Bps,
                                  hf_wad(ts, px), Wad)
Bonus(c) == liquidation_bonus_bps(Factor[c].bonus, hf_wad(ts, px))
round_ray_up(x) == Up(x, 1, Ray) * Ray

debt_ray_to_target(c, d, bonus) ==
    LET penalty == Up(bonus * (Wad \div Bps), Factor[c].cf, Bps)
    IN Up(DebtValueRay(ts, px), Unit * (TargetHf - hf_wad(ts, px)),
          (TargetHf - penalty) * p8(px, d) * Wad)

debt_to_liquidate(d, target, idx, premium) ==
    LET drawn == acct.debt[d]
        prem == Least(round_ray_up(target), premium)
        shares == IF prem = premium /\ prem < target
                  THEN Least(Up(target - prem, 1, idx), drawn) ELSE 0
        remaining == (drawn - shares) * idx + premium - prem
    IN IF shares < drawn /\ remaining * value_scale * p8(px, d) < Dust * Ray
       THEN <<drawn, premium>> ELSE <<shares, prem>>

collateral_to_liquidate(c, d, x, idx, bonus) ==
    to_shares_down(c, Down(x[1] * idx + x[2], p8(px, d) * bonus, p8(px, c) * Bps * Ray), ts)

\* The whole collateral: how much debt it pays, and back to the collateral
\* when that is more than is owed.
WholeCollateral(c, d, ray, idx, premium, bonus) ==
    LET shares == Up(ray - premium, 1, idx)
        all == <<acct.debt[d], premium>>
    IN IF ray <= premium
       THEN [coll |-> acct.supply[c], drawn |-> 0, prem |-> Least(round_ray_up(ray), premium)]
       ELSE IF shares > acct.debt[d]
       THEN [coll |-> Least(collateral_to_liquidate(c, d, all, idx, bonus), acct.supply[c]),
             drawn |-> acct.debt[d], prem |-> premium]
       ELSE [coll |-> acct.supply[c], drawn |-> shares, prem |-> premium]

Settled(c, d, x, coll, idx, premium, bonus) ==
    LET left == to_assets_down(c, acct.supply[c] - coll, ts) * value_scale * p8(px, c)
        ray == Up(to_assets_up(c, acct.supply[c], ts), p8(px, c) * Bps * Ray, p8(px, d) * bonus)
    IN IF coll > acct.supply[c] \/ (coll < acct.supply[c] /\ left < Dust /\ x[1] < acct.debt[d])
       THEN WholeCollateral(c, d, ray, idx, premium, bonus)
       ELSE [coll |-> coll, drawn |-> x[1], prem |-> x[2]]
AmountsFor(c, d, x, idx, premium, bonus) ==
    Settled(c, d, x, collateral_to_liquidate(c, d, x, idx, bonus), idx, premium, bonus)
AmountsAt(c, d, idx, premium, bonus) ==
    AmountsFor(c, d, debt_to_liquidate(d, debt_ray_to_target(c, d, bonus), idx, premium),
               idx, premium, bonus)
amounts(c, d) == AmountsAt(c, d, drawn_index_at(d, ts), user_premium(d, ts), Bonus(c))

\* Best first: bonus, then value, then slot.
Ahead(a, b) == \/ a.bonus > b.bonus
               \/ /\ a.bonus = b.bonus
                  /\ a.value > b.value \/ (a.value = b.value /\ a.slot < b.slot)
Rank(r) == [bonus |-> Bonus(r), value |-> assets(r, ts) * px[r], slot |-> r]
Better(r, s) == Ahead(Rank(r), Rank(s))
Best == CHOOSE r \in seizable : \A s \in seizable \ {r} : Better(r, s)
quote == IF state(ts, px) # "Liquidatable" THEN {} ELSE {<<d, amounts(Best, d)>> : d \in repayable}

(***************************************************************************)
(* Prices, time and the spoke's gates.                                     *)
(***************************************************************************)
Init ==
    /\ acct \in [supply : [Reserve -> 0..MaxShares], debt : [Reserve -> 0..MaxShares],
                 prem : [Reserve -> 0..1], using : SUBSET Reserve]
    /\ \A r \in Reserve : /\ r \in acct.using => acct.supply[r] > 0
                          /\ acct.prem[r] > 0 => acct.debt[r] > 0
    /\ Borrowed # {}
    /\ px = [r \in Reserve |-> MaxPrice * Scale]
    /\ ts = 0
    /\ gate = [paused |-> {}, active |-> Reserve, halted |-> {}]

Reprice == /\ \E r \in Reserve, p \in 1..MaxPrice :
                  p # p8(px, r) /\ px' = [px EXCEPT ![r] = p * Scale]
           /\ UNCHANGED <<acct, ts, gate>>
Elapse == /\ ts < MaxTime
          /\ ts' = ts + 1
          /\ UNCHANGED <<acct, px, gate>>
Gate == /\ gate = [paused |-> {}, active |-> Reserve, halted |-> {}]
        /\ \E r \in Reserve : \/ gate' = [gate EXCEPT !.paused = {r}]
                              \/ gate' = [gate EXCEPT !.active = @ \ {r}]
                              \/ gate' = [gate EXCEPT !.halted = {r}]
        /\ UNCHANGED <<acct, px, ts>>

Next == Reprice \/ Elapse \/ Gate
Spec == Init /\ [][Next]_vars

-----------------------------------------------------------------------------
\* The closed form is the last healthy price in the vector's own units: healthy
\* there and not at the next unit toward danger, on the collateral and the debt
\* side; and a healthy account without one crosses at no price of the asset.
LastHealthyPrice ==
    \A r \in Reserve : \E p \in {liquidation_price(r)} :
        LET At(n) == Healthy(ts, [px EXCEPT ![r] = n])
        IN IF p = None THEN Healthy(ts, px) => \A n \in Scale..3 * MaxPrice * Scale : At(n)
           ELSE At(p) /\ \E n \in {p - 1, p + 1} : n >= Scale /\ ~At(n)

\* The instant time_to_cross returns is the first unhealthy second from now on,
\* and there is none within the horizon when it returns no instant.
CrossTime ==
    \E t \in {time_to_cross} :
        IF t = None THEN Healthy(ts + Horizon, px)
        ELSE ~Healthy(t, px) /\ (t > ts => Healthy(t - 1, px))

\* A quoted pair is one the spoke accepts: both reserves open, no more than the
\* account holds and owes, and dust left on neither side unless the other side
\* is cleared; the curve the engine is given agrees with the bonus the spoke
\* pays at this health.
QuoteWithinRule ==
    \E q \in {quote} :
        q # {} => \E best \in {Best} :
          /\ ~Healthy(ts, px) /\ open(best) /\ Borrowed \subseteq gate.active
          /\ \A c \in seizable : bonus_curve(Factor[c].bonus) = Bonus(c) - Bps
          /\ \A leg \in q :
               LET d == leg[1]
                   a == leg[2]
                   owes == (acct.debt[d] - a.drawn) * drawn_index_at(d, ts)
                             + user_premium(d, ts) - a.prem
                   held == acct.supply[best] - a.coll
               IN /\ open(d) /\ a.drawn \in 0..acct.debt[d] /\ held >= 0
                  /\ a.prem \in 0..user_premium(d, ts)
                  /\ \/ owes = 0 \/ held = 0
                     \/ owes * value_scale * p8(px, d) >= Dust * Ray
                  /\ \/ held = 0 \/ a.drawn = acct.debt[d]
                     \/ to_assets_down(best, held, ts) * value_scale * p8(px, best) >= Dust
====
