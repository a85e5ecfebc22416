---------------------------- MODULE FluidHealth ----------------------------
(***************************************************************************)
(* What the Fluid adapter makes of a vault's last answer: health for the   *)
(* block it was read at and the next (health.rs), and a quote with one     *)
(* option per token of either side, the best first (quote.rs).  The cells  *)
(* are fixed in a behaviour; prices move and time passes.                  *)
(***************************************************************************)
EXTENDS LendingMath, FiniteSets, Sequences

CONSTANTS MaxAmount, MaxPrice, MaxTime, FRESH_SECS, Ray, Unit

VARIABLES
    acct,      \* cells by side and token, and the unmapped tokens
    px,        \* prices of the four tokens, 0 when there is none
    ts,
    gate       \* "read" at time 1, or "never"

vars == <<acct, px, ts, gate>>

Token == {0, 1}
Sides == {"col", "debt"}
Slot == Sides \X Token

fresh == gate = "read" /\ ts >= 1 /\ ts - 1 <= FRESH_SECS
cell(s) == acct.cells[s]
value(s) == IF s \in acct.unmapped \/ cell(s) = 0 \/ px[s] = 0 THEN None
            ELSE Down(cell(s), px[s], Unit)
has(side) == \E t \in Token : cell(<<side, t>>) > 0
state == IF ~fresh \/ ~has("debt") THEN "Healthy"
         ELSE IF has("col") THEN "Liquidatable" ELSE "BadDebt"

\* A side's options: mapped tokens with an amount; one without a price refuses
\* the quote.
offered(side) == {t \in Token : cell(<<side, t>>) > 0 /\ <<side, t>> \notin acct.unmapped}
priced == \A s \in Slot : s[2] \in offered(s[1]) => px[s] > 0
\* Most valued first; a tie keeps slot order.
ranked(side) ==
    LET v(t) == value(<<side, t>>)
    IN CASE offered(side) = {} -> <<>>
         [] Cardinality(offered(side)) = 1 -> <<CHOOSE t \in offered(side) : TRUE>>
         [] OTHER -> IF v(1) > v(0) THEN <<1, 0>> ELSE <<0, 1>>
pay_value == value(<<"debt", Head(ranked("debt"))>>)
bonus(t) == LET v == value(<<"col", t>>)
            IN IF pay_value = 0 \/ v <= pay_value THEN 0 ELSE Down(v - pay_value, Ray, pay_value)
\* By bonus, then value: the bonus grows with the value, so by value.
NoQuote == [repay |-> <<>>, seize |-> <<>>]
quote ==
    IF state # "Liquidatable" \/ ~priced \/ <<>> \in {ranked("debt"), ranked("col")} THEN NoQuote
    ELSE [repay |-> ranked("debt"),
          seize |-> [i \in DOMAIN ranked("col") |->
                        [t |-> ranked("col")[i], bonus |-> bonus(ranked("col")[i])]]]

Init ==
    /\ acct \in [cells : [Slot -> 0..MaxAmount], unmapped : {{}} \cup {{s} : s \in Slot}]
    /\ px = [s \in Slot |-> 1]
    /\ ts = 0
    /\ gate \in {"read", "never"}
Reprice ==
    /\ \E s \in Slot, p \in 0..MaxPrice : px' = [px EXCEPT ![s] = p] /\ p # px[s]
    /\ px = [s \in Slot |-> 1]
    /\ UNCHANGED <<acct, ts, gate>>
Elapse ==
    /\ ts < MaxTime
    /\ ts' = ts + 1
    /\ UNCHANGED <<acct, px, gate>>

Next == Reprice \/ Elapse
Spec == Init /\ [][Next]_vars

-----------------------------------------------------------------------------
\* A vault is quoted only on an answer of this block or the one before, in
\* mapped and priced tokens, and the first pair is the best one: no other pair
\* of tokens returns a larger share over what it costs than the bonus quoted
\* for it, except by paying the dearest repayment less.
QuoteWithinRule ==
    \E q \in {quote} : q # NoQuote =>
        /\ gate = "read" /\ ts \in 1..1 + FRESH_SECS
        /\ \A i \in DOMAIN q.repay : LET s == <<"debt", q.repay[i]>> IN px[s] > 0 /\ cell(s) > 0
        /\ \A i \in DOMAIN q.seize : /\ q.seize[1].bonus >= q.seize[i].bonus
                                     /\ <<"col", q.seize[i].t>> \notin acct.unmapped
        /\ \A i \in DOMAIN q.seize, j \in DOMAIN q.repay :
             LET v == value(<<"col", q.seize[i].t>>)
                 c == value(<<"debt", q.repay[j]>>)
             IN /\ c <= pay_value
                /\ pay_value > 0 => pay_value * (Ray + q.seize[i].bonus) <= Ray * Most(v, pay_value)
====
