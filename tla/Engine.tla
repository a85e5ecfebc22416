------------------------------- MODULE Engine -------------------------------
(* What the health engine folds, and when: liq-engine's engine.rs driven by  *)
(* liq-bot's feed_engine after each block and by the SVR hints between       *)
(* blocks, with the block's dirty sets collapsed by liq-node's dirty.rs.     *)
(*                                                                           *)
(* One market with a collateral asset A and a debt asset B.  A position's    *)
(* health is the ratio of what it holds to what it owes; the adapter's       *)
(* liquidation price solves it for one asset with the other fixed.  The      *)
(* threshold, heap, band and queue structures are the sets their own modules *)
(* show them to be.                                                          *)
EXTENDS Integers, FiniteSets, FiniteSetsExt, Sequences

CONSTANTS
  Pos,
  APrice, BPrice,    \* prices the two assets take
  Coll,              \* units of A a position may hold against 10 units of B
  Params,            \* liquidation thresholds of the market, percent
  Closed,            \* positions whose adapter gives a closed-form crossing
  Rates,             \* interest, percent a block
  CORRELATED_ASSETS,
  HOT_BELOW, WARM_BELOW, COOL_BELOW, MARGIN,   \* percent
  NoBand,            \* never classified
  MaxBlock, MaxBorn, MaxChanges, MaxPending  \* bounds of the instance

VARIABLES
  eng,      \* the engine: prices, bands, thresholds, heap, liq_since
  book,     \* the oracle books' prices, seeded at the start, 0 while unpriced
  opx,      \* the protocol's own price of A, 0 while unread
  moves,    \* DrainJoin::protocol_moves, kept until the next batch
  owns,     \* per position: -1 unborn, 0 no debt, else its units of A
  lt,       \* the market's liquidation threshold
  rate,     \* its interest; fixed
  tip,
  flash,    \* the flash index can fund the debt
  routes,   \* the warm route table: its block, and whether it has the exit
  seen,     \* DrainJoin::routes_seen
  did,      \* the handler that ran last
  changes   \* what the environment has changed so far, to bound it

vars == <<eng, book, opx, moves, owns, lt, rate, tip, flash, routes, seen, did, changes>>

Pair == {"A", "B"}
Never == MaxBlock + 1

Init ==
  /\ eng = [px |-> [a \in Pair |-> 0], shadow |-> [a \in Pair |-> 0], loaded |-> FALSE,
            overridden |-> {}, moved |-> {},
            band |-> [p \in Pos |-> NoBand], index |-> [p \in Pos |-> {}],
            heap |-> [p \in Pos |-> Never], since |-> [p \in Pos |-> 0],
            out |-> {},                          \* candidates drained since the block
            input |-> [p \in Pos |-> <<>>],      \* history: what the last fold read
            missed |-> {}]                       \* history: reported, not yet folded
  /\ book \in {[a \in Pair |-> IF a = "A" THEN Max(APrice) ELSE b] : b \in {0, Min(BPrice)}}
  /\ opx = 0 /\ moves = <<>>
  /\ \E S \in SUBSET Pos : /\ Cardinality(S) <= MaxBorn
                         /\ owns = [p \in Pos |-> IF p \in S THEN Max(Coll) ELSE -1]
  /\ lt = Max(Params) /\ rate \in Rates /\ tip = 0
  /\ flash = TRUE /\ routes = [block |-> 0, exit |-> FALSE] /\ seen = 0
  /\ did = "none" /\ changes = 0

-----------------------------------------------------------------------------
(* One evaluation.  A world w is what a call borrows: the store at the target*)
(* block's time, the overlay, and whether flash index and routes fund the    *)
(* pair.  The overlay replaces the vector's price of A for the evaluation.   *)

Overlaid(v, w) == IF w.opx # 0 THEN [v EXCEPT !["A"] = w.opx] ELSE v
Owed(w, t)     == 10 * (100 + rate * t)
Born(w)        == {p \in Pos : w.owns[p] # -1}

(* hf < r percent, at prices v and time t. *)
Below(p, v, w, t, r) == w.owns[p] * v["A"] * w.lt * 100 < r * v["B"] * Owed(w, t)

Liquidatable(p, v, w) == w.owns[p] > 0 /\ Below(p, v, w, w.now, 100)
Evaluates(p, v, w)    == w.owns[p] > 0 => v["A"] # 0 /\ v["B"] # 0

classify(p, v, w) ==
  CASE w.owns[p] = 0 -> "Dead"
    [] w.owns[p] > 0 /\ Below(p, v, w, w.now, HOT_BELOW) -> "Hot"
    [] w.owns[p] > 0 /\ ~Below(p, v, w, w.now, HOT_BELOW) /\ Below(p, v, w, w.now, WARM_BELOW) -> "Warm"
    [] w.owns[p] > 0 /\ ~Below(p, v, w, w.now, WARM_BELOW) /\ Below(p, v, w, w.now, COOL_BELOW) -> "Cool"
    [] w.owns[p] > 0 /\ ~Below(p, v, w, w.now, COOL_BELOW) -> "Cold"

liquidation_price(p, v, w, a) ==
  IF a = "A" THEN (v["B"] * Owed(w, w.now)) \div (w.owns[p] * w.lt)
             ELSE (w.owns[p] * v["A"] * w.lt) \div Owed(w, w.now)

(* Side and place of a threshold: MARGIN before the crossing, never on the   *)
(* safe side of the current price; both sides when the price is at it.       *)
CeilDiv(a, b) == (a + b - 1) \div b
margin(lp, cur) ==
  IF lp < cur THEN {<<"Falling", Min({CeilDiv(lp * (100 + MARGIN), 100), cur})>>}
  ELSE IF lp > cur THEN {<<"Rising", Max({(lp * 100) \div (100 + MARGIN), cur})>>}
  ELSE {<<"Falling", cur>>, <<"Rising", cur>>}

ThresholdsOfCollateral(p, v, w) ==
  {[asset |-> "A", side |-> m[1], at |-> m[2], overlay |-> w.opx # 0] :
     m \in IF w.owns[p] = 0 THEN {} ELSE margin(liquidation_price(p, v, w, "A"), v["A"])}
Thresholds(p, v, w) ==
  IF w.owns[p] = 0 THEN {}
  ELSE UNION {{[asset |-> a, side |-> m[1], at |-> m[2], overlay |-> a = "A" /\ w.opx # 0] :
                 m \in margin(liquidation_price(p, v, w, a), v[a])} : a \in Pair}

(* The block at which interest alone reaches the boundary. *)
time_to_cross(p, v, w) ==
  LET ts == {t \in w.now .. MaxBlock : Below(p, v, w, t, 100)} IN
  IF ts = {} THEN Never ELSE Min(ts)

(* What a fold schedules: nothing for a position without debt or already     *)
(* liquidatable, the crossing where the adapter knows it, else this time, so *)
(* that the next block folds it again.                                       *)
ScheduleClosedOnly(p, v, w) ==
  IF w.owns[p] = 0 \/ Liquidatable(p, v, w) THEN Never ELSE time_to_cross(p, v, w)
Schedule(p, v, w) ==
  IF w.owns[p] = 0 \/ Liquidatable(p, v, w) THEN Never
  ELSE IF p \in Closed THEN time_to_cross(p, v, w) ELSE w.now

Inputs(p, v, w) == <<v["A"], v["B"], w.owns[p], w.lt, rate * w.now>>

(* The canonical fold of a batch.  A position that does not evaluate is left *)
(* as it was (run logs it and goes on).                                      *)
fold(e, S, w) ==
  LET v    == Overlaid(e.px, w)
      ok   == {p \in S : Evaluates(p, v, w)}
      liq(p)  == Liquidatable(p, v, w)
      To(old, F(_)) == [p \in Pos |-> IF p \in ok THEN F(p) ELSE old[p]]
  IN  IF S = {} THEN e ELSE
      [e EXCEPT
        !.band  = To(@, LAMBDA p : IF liq(p) /\ ~w.fund THEN "Unfundable" ELSE classify(p, v, w)),
        !.since = To(@, LAMBDA p : IF ~liq(p) \/ ~w.fund THEN 0
                                   ELSE IF e.since[p] = 0 THEN w.now ELSE e.since[p]),
        !.index = To(@, LAMBDA p : Thresholds(p, v, w)),
        !.heap  = To(@, LAMBDA p : Schedule(p, v, w)),
        !.out   = @ \union {p \in ok : liq(p) /\ w.fund},
        !.input = To(@, LAMBDA p : Inputs(p, v, w)),
        !.missed = @ \ S]

(* An announced price only emits. *)
shadow_fold(e, S, w) ==
  LET v == Overlaid(e.shadow, w) IN
  [e EXCEPT !.out = @ \union {p \in S : Evaluates(p, v, w) /\ Liquidatable(p, v, w) /\ w.fund}]

-----------------------------------------------------------------------------
(* Batches. *)

Members(e, bands) == {p \in Pos : e.band[p] \in bands}

CrossedOneIndex(e, a, overlay, old, new) ==
  {p \in Pos : \E t \in e.index[p] :
      /\ t.asset = a /\ ~t.overlay /\ e.band[p] # "Unfundable"
      /\ \/ new < old /\ t.side = "Falling" /\ new <= t.at /\ t.at <= old
         \/ new >= old /\ t.side = "Rising" /\ old <= t.at /\ t.at <= new}
crossed(e, a, overlay, old, new) ==
  {p \in Pos : \E t \in e.index[p] :
      /\ t.asset = a /\ t.overlay = overlay /\ e.band[p] # "Unfundable"
      /\ \/ new < old /\ t.side = "Falling" /\ new <= t.at /\ t.at <= old
         \/ new >= old /\ t.side = "Rising" /\ old <= t.at /\ t.at <= new}

note_move(e, a) == [e EXCEPT !.moved = @ \union {a}]

gather(e, a, old, new) ==
  crossed(e, a, FALSE, old, new)
    \union Members(e, {"Hot", "Warm"})
    \union (IF Cardinality(e.moved) >= CORRELATED_ASSETS THEN Members(e, {"Cool"}) ELSE {})

(* A landed price: gathered against the old one, then stored in both vectors.*)
commit(e0, a, new, w) ==
  LET e == note_move(e0, a) IN
  fold([e EXCEPT !.px[a] = new, !.shadow[a] = new, !.overridden = @ \ {a}],
       gather(e, a, e.px[a], new), w)

(* An announced price: gathered against the canonical one, laid over shadow. *)
announce(e0, a, new, w) ==
  LET e == note_move(e0, a) IN
  shadow_fold([e EXCEPT !.shadow[a] = new, !.overridden = @ \union {a}],
              gather(e, a, e.px[a], new), w)

resync(e, w) == fold(e, Born(w), w)

load_prices(e, px) ==
  [e EXCEPT !.px = px, !.shadow = px, !.overridden = {}, !.moved = {}, !.loaded = TRUE]

(* sync_prices: the first load, or an asset's first price, loads the vector  *)
(* and folds everything; later each changed slot is one tick.                *)
plan_price_sync(e, bk) == ~e.loaded \/ \E a \in Pair : bk[a] # 0 /\ e.px[a] = 0
sync_prices(e, bk, ticks, w) ==
  IF plan_price_sync(e, bk) THEN resync(load_prices(e, bk), w)
  ELSE LET one(x, a) == IF a \in ticks THEN commit(x, a, bk[a], w) ELSE x
       IN  one(one(e, "A"), "B")

on_protocol_prices(e, mv, w) ==
  IF mv = <<>> THEN e
  ELSE fold(e, UNION {crossed(e, "A", TRUE, mv[i].old, mv[i].new) : i \in DOMAIN mv}
                 \union Members(e, {"Hot", "Warm", "Cool"}), w)

(* A dirty set of this market.  An accrual walks the banded positions only; a*)
(* reprice also those with a threshold in either index.                      *)
gather_rows(e, reprice) ==
  Members(e, {"Hot", "Warm", "Cool"})
    \union (IF reprice THEN {p \in Pos : e.index[p] # {}} ELSE {})

on_dirty(e, kind, ids, w) ==
  CASE kind = "Positions"      -> fold(e, ids, w)
    [] kind = "MarketAccrual"  -> fold(e, gather_rows(e, FALSE), w)
    [] kind = "MarketReprice"  -> fold(e, gather_rows(e, TRUE), w)
    [] kind = "ProtocolWide"   -> resync(e, w)

(* DirtyAccumulator::collapse for one market: the widest report of the block *)
(* is all that is left of it.                                                *)
collapse(kind, ids) == IF kind # "Positions" THEN {} ELSE ids

on_block_keeps_shadow(e0, w) ==
  LET e == [e0 EXCEPT !.overridden = {}, !.moved = {}]
      due == {p \in Pos : e.heap[p] <= w.now}
  IN  fold([e EXCEPT !.heap = [p \in Pos |-> IF p \in due THEN Never ELSE @[p]]], due \union Members(e, {"Hot"}), w)
on_block(e0, w) ==
  LET e == [e0 EXCEPT !.shadow = [a \in Pair |-> IF a \in e0.overridden THEN e0.px[a] ELSE @[a]],
                      !.overridden = {}, !.moved = {}]
      due == {p \in Pos : e.heap[p] <= w.now}
  IN  fold([e EXCEPT !.heap = [p \in Pos |-> IF p \in due THEN Never ELSE @[p]]],
           due \union Members(e, {"Hot"}), w)

on_flash_change(e, w) == fold(e, Members(e, {"Unfundable"}), w)

-----------------------------------------------------------------------------
One(b) == IF b THEN 1 ELSE 0

(* The handlers.  World of a call: *)
World(ow, l, now, o, fl) ==
  [owns |-> ow, lt |-> l, now |-> now, opx |-> o, fund |-> fl /\ routes.exit]

(* Unfundable positions are looked at again when either side moved. *)
RefundFlashOnly(flashMoved) == flashMoved
Refund(flashMoved) == flashMoved \/ routes.block > seen

(* after_block: the block's logs are folded; kind is the widest report on the*)
(* market, ids the positions reported, ticks the assets the books repriced,  *)
(* batch the newest batch of protocol prices (0: none newer).                *)
feed_engine(kind, ids, ticks, batch, flashMoved) ==
  \E w  \in {World(owns', lt', tip', opx', flash')} :
  \E e1 \in {sync_prices([eng EXCEPT !.out = {}, !.missed = @ \union ids], book', ticks, w)} :
  \E e2 \in {IF batch # 0 /\ opx = 0 THEN resync(e1, w) ELSE on_protocol_prices(e1, moves', w)} :
  \E e3 \in {on_dirty(e2, kind, collapse(kind, ids), w)} :
  \E e4 \in {on_block(e3, w)} :
    eng' = IF Refund(flashMoved) THEN on_flash_change(e4, w) ELSE e4

(* take_protocol_prices: without a newer batch the last moves stay. *)
take_protocol_prices(batch) ==
  /\ opx' = IF batch = 0 THEN opx ELSE batch
  /\ moves' = IF batch = 0 THEN moves
              ELSE IF opx # 0 /\ opx # batch THEN <<[old |-> opx, new |-> batch]>> ELSE <<>>

after_block(kind, ids, ticks, batch) ==
  /\ tip < MaxBlock /\ tip' = tip + 1
  /\ flash' \in BOOLEAN
  /\ changes' = changes + Cardinality(ids) + Cardinality({a \in ticks : book[a] # 0}) + One(kind # "Positions")
                  + One(batch # 0 /\ opx # 0) + One(flash' # flash)
  /\ changes' <= MaxChanges
  /\ \E ow \in [ids -> Coll \union {0}] :
       owns' = [p \in Pos |-> IF p \in ids THEN ow[p] ELSE owns[p]]
  /\ Cardinality({p \in Pos : owns'[p] # -1}) <= MaxBorn
  /\ IF kind = "MarketReprice" THEN lt' \in Params ELSE lt' = lt
  /\ book' \in {[a \in Pair |-> IF a = "A" THEN x ELSE y] :
                    x \in IF "A" \in ticks THEN APrice \ {book["A"]} ELSE {book["A"]},
                    y \in IF "B" \in ticks THEN BPrice \ {book["B"]} ELSE {book["B"]}}
  /\ take_protocol_prices(batch)
  /\ seen' = Max({seen, routes.block})
  /\ feed_engine(kind, ids, ticks, batch, flash' # flash)
  /\ did' = "block"
  /\ UNCHANGED <<routes, rate>>

(* poll_svr, one hint.  Hints before the first block are dropped. *)
poll_svr(a, price) ==
  /\ tip > 0 /\ eng.loaded /\ Cardinality(eng.overridden \union {a}) <= MaxPending
  /\ eng' = announce(eng, a, price, World(owns, lt, tip, opx, flash))
  /\ changes < MaxChanges /\ changes' = changes + 1
  /\ did' = "svr"
  /\ UNCHANGED <<book, opx, moves, owns, lt, rate, tip, flash, routes, seen>>

(* The warm thread rebuilds the route table once for each block stamped. *)
Warm ==
  /\ routes.block < tip
  /\ routes' \in [block : {tip}, exit : BOOLEAN]
  /\ changes' = changes + One(routes.block # 0 /\ routes'.exit # routes.exit)
  /\ changes' <= MaxChanges
  /\ did' = "warm"
  /\ UNCHANGED <<eng, book, opx, moves, owns, lt, rate, tip, flash, seen>>

Kind == {"Positions", "MarketAccrual", "MarketReprice", "ProtocolWide"}

Next ==
  \/ \E kind \in Kind, ids \in SUBSET Pos, ticks \in SUBSET Pair, batch \in APrice \union {0} :
       after_block(kind, ids, ticks, batch)
  \/ \E a \in APrice : poll_svr("A", a)
  \/ \E b \in BPrice : poll_svr("B", b)
  \/ Warm

Spec == Init /\ [][Next]_vars

-----------------------------------------------------------------------------
Now     == World(owns, lt, tip, opx, flash)
Current(p) == Inputs(p, Overlaid(eng.px, Now), Now)
Differ(p)  == {i \in 1 .. 5 : eng.input[p][i] # Current(p)[i]}
Tracked    == {p \in Pos : eng.input[p] # <<>> /\ p \notin eng.missed /\ owns[p] > 0
                           /\ Evaluates(p, Overlaid(eng.px, Now), Now)}

(* The threshold index and the time heap are enough for one input moving:    *)
(* after a block, a position that its current prices, balance, parameter and *)
(* interest make liquidatable and that is fundable has been found, provided  *)
(* that at most one of the five changed since it was last folded, through any*)
(* number of ticks, reprices and overlay changes.                            *)
CrossingFound ==
  did = "block" =>
    \A p \in Tracked :
      Cardinality(Differ(p)) <= 1 /\ Liquidatable(p, Overlaid(eng.px, Now), Now) /\ Now.fund
        => eng.since[p] # 0 /\ p \in eng.out

(* A pending price alone finds every position it would make liquidatable.    *)
AnnouncedFound ==
  did = "svr" /\ Cardinality(eng.overridden) = 1 =>
    \A p \in Tracked :
      Differ(p) = {} /\ eng.band[p] # "Unfundable" /\ Now.fund
        /\ Liquidatable(p, Overlaid(eng.shadow, Now), Now)
        => p \in eng.out

(* A position whose adapter has no closed form is recomputed every block: the*)
(* entry popped for it is put back by the fold, through errors and reloads.  *)
OpenFormFresh ==
  did = "block" =>
    \A p \in Tracked \ Closed : eng.band[p] # "Unfundable" => 5 \notin Differ(p)

(* No position stays Unfundable once the flash index and a route table the   *)
(* engine has seen can fund it.                                              *)
NotLeftUnfundable == did = "block" => (Now.fund => Members(eng, {"Unfundable"}) = {})

(* A pending price that does not land leaves no trace past its block.        *)
PendingForgotten ==
  /\ \A a \in Pair : a \notin eng.overridden => eng.shadow[a] = eng.px[a]
  /\ did = "block" => eng.overridden = {}

-----------------------------------------------------------------------------
(* A hint's price finds what it would make liquidatable, and leaves no trace *)
(* once its block has come without it (engine.rs announce, on_block).        *)
AnnouncedExact == AnnouncedFound /\ PendingForgotten

(* No position drops out of recomputation: one without a closed form is      *)
(* folded every block, and an unfundable one again once it can be funded     *)
(* (engine.rs fold, drain.rs feed_engine).                                   *)
NoneForgotten == OpenFormFresh /\ NotLeftUnfundable

(* liq-protocol dirty.rs:31: "These positions' balances or per-position extra *)
(* changed. Recompute them".  After a block no position one of its logs      *)
(* reported and that owes something is left unfolded.                        *)
ReportedFolded == did = "block" => \A p \in eng.missed : owns[p] <= 0
=============================================================================
