---------------------------- MODULE LendingMath ----------------------------
(***************************************************************************)
(* Arithmetic the lending adapters share: mul_div in its three roundings   *)
(* (liq-types fixed.rs), the bisection of their solvers, and the bonus     *)
(* curves of liq-protocol's bonus.rs.                                      *)
(***************************************************************************)
EXTENDS Integers

None == -1
MAX == 1000000000            \* U256::MAX, the health of an account without debt
Least(a, b) == IF a < b THEN a ELSE b
Most(a, b) == IF a > b THEN a ELSE b
Monus(a, b) == IF a > b THEN a - b ELSE 0

Down(a, b, c) == (a * b) \div c
Up(a, b, c) == (a * b + c - 1) \div c
HalfUp(a, b, c) == (a * b + c \div 2) \div c

\* Halve [first, last] until its ends are neighbours, keeping Left at the lower
\* end and its negation at the upper one.
Bisect(first, last, Left(_)) ==
    LET halve[lo \in first..last, hi \in first..last] ==
            LET mid == lo + (hi - lo) \div 2
            IN IF hi - lo <= 1 THEN <<lo, hi>>
               ELSE IF Left(mid) THEN halve[mid, hi] ELSE halve[lo, mid]
    IN halve[first, last]

\* bonus_at_hf of BonusCurve::HealthLinear, in quanta, with `one` the health
\* of the threshold.
health_linear(at_threshold, hf_for_max, max_bonus, hf, one) ==
    IF hf >= one THEN at_threshold
    ELSE IF hf <= hf_for_max THEN max_bonus
    ELSE at_threshold + Down(max_bonus - at_threshold, one - hf, one - hf_for_max)

\* bonus_at_hf of BonusCurve::Reciprocal.
reciprocal(min_df, hf, one) ==
    IF hf >= one THEN 0 ELSE Down(one, one, Most(hf, min_df)) - one
====
