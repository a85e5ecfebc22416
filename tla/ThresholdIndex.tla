--------------------------- MODULE ThresholdIndex ---------------------------
(* The sorted thresholds of liq-engine's threshold.rs: per (asset, side) a   *)
(* large sorted base and a small delta whose first entries are sorted, with  *)
(* deletion by generation: re-registering a position makes its older entries *)
(* stale wherever they are.  A query must see exactly the live thresholds,   *)
(* whichever tier they are in and whatever was committed or merged meanwhile.*)
EXTENDS Naturals, Sequences, FiniteSets, FiniteSetsExt, TLC

CONSTANTS
  Pos,                \* positions, numbers: entries are ordered by them
  Asset,
  TPrice,             \* threshold prices
  MERGE_DIV, merge_min,
  MaxGen, MaxEntries  \* bounds of the instance

VARIABLES
  base, delta,   \* per array, sequences of entries
  sorted,        \* per array, how much of delta is sorted
  gen,           \* per position, its registration generation
  live           \* history: the thresholds in force, [id, arr, price]

vars == <<base, delta, sorted, gen, live>>

Side  == {"Falling", "Rising"}
Array == Asset \X Side
Entry == [price : TPrice, id : Pos, gen : 0 .. MaxGen]

Init ==
  /\ base = [a \in Array |-> <<>>] /\ delta = [a \in Array |-> <<>>]
  /\ sorted = [a \in Array |-> 0]
  /\ gen = [p \in Pos |-> 0]
  /\ live = {}

(* The derived order of Entry: price, then id, then generation. *)
Less(e, f) ==
  \/ e.price < f.price
  \/ e.price = f.price /\ e.id < f.id
  \/ e.price = f.price /\ e.id = f.id /\ e.gen < f.gen

is_live(e) == gen[e.id] = e.gen

(* partition_point: how long the prefix is on which the test holds. *)
partition_point(s, Test(_)) ==
  CHOOSE n \in 0 .. Len(s) :
    /\ \A i \in 1 .. n : Test(s[i])
    /\ n < Len(s) => ~Test(s[n + 1])

slice_range(s, lo, hi) ==
  LET below(e) == e.price < lo
      upto(e)  == e.price <= hi
  IN  SubSeq(s, partition_point(s, below) + 1, partition_point(s, upto))

EntriesOf(s) == {s[i] : i \in DOMAIN s}

(* The three tiers of one array; only the tail is scanned entry by entry. *)
RangeNoTail(a, lo, hi) ==
  EntriesOf(slice_range(base[a], lo, hi)) \union EntriesOf(slice_range(SubSeq(delta[a], 1, sorted[a]), lo, hi))
range(a, lo, hi) ==
  EntriesOf(slice_range(base[a], lo, hi))
    \union EntriesOf(slice_range(SubSeq(delta[a], 1, sorted[a]), lo, hi))
    \union {e \in EntriesOf(SubSeq(delta[a], sorted[a] + 1, Len(delta[a]))) : lo <= e.price /\ e.price <= hi}

crossed(asset, old, new) ==
  LET hits == IF new < old THEN range(<<asset, "Falling">>, new, old)
                           ELSE range(<<asset, "Rising">>, old, new)
  IN  {e.id : e \in {h \in hits : is_live(h)}}

RegisteredDelta(asset) ==
  LET all == UNION {EntriesOf(delta[<<asset, s>>]) : s \in Side}
  IN  {e.id : e \in {h \in all : is_live(h)}}
registered(asset) ==
  LET all == UNION {EntriesOf(base[<<asset, s>>]) \union EntriesOf(delta[<<asset, s>>]) : s \in Side}
  IN  {e.id : e \in {h \in all : is_live(h)}}

-----------------------------------------------------------------------------
(* A fold re-registers a position: begin makes all it had stale, wherever it *)
(* is; each threshold then goes to the tail of its array's delta.            *)

BeginKeepsGen(id) ==
  /\ gen' = gen
  /\ live' = {t \in live : t.id # id}
begin(id) ==
  /\ gen' = [gen EXCEPT ![id] = @ + 1]
  /\ live' = {t \in live : t.id # id}

Begin(id) ==
  /\ gen[id] < MaxGen
  /\ begin(id)
  /\ UNCHANGED <<base, delta, sorted>>

Held == FoldSet(LAMBDA a, n : n + Len(base[a]) + Len(delta[a]), 0, Array)

register(id, a, p) ==
  /\ Held < MaxEntries
  /\ delta' = [delta EXCEPT ![a] = Append(@, [price |-> p, id |-> id, gen |-> gen[id]])]
  /\ live' = live \union {[id |-> id, arr |-> a, price |-> p]}
  /\ UNCHANGED <<base, sorted, gen>>

-----------------------------------------------------------------------------
(* Once a block every array drops the delta's stale entries and sorts it; a  *)
(* delta that outgrew its share is merged into the base in one forward pass, *)
(* which also drops the base's stale entries.                                *)

RECURSIVE merge(_, _)
merge(l, r) ==
  IF r = <<>> THEN SelectSeq(l, is_live)
  ELSE IF l # <<>> /\ ~Less(Head(r), Head(l))
       THEN (IF is_live(Head(l)) THEN <<Head(l)>> ELSE <<>>) \o merge(Tail(l), r)
       ELSE <<Head(r)>> \o merge(l, Tail(r))

Max2(a, b) == IF a > b THEN a ELSE b

(* Base, delta and sorted length of an array after its commit. *)
CommittedUnsorted(a) ==
  LET d == SelectSeq(delta[a], is_live) IN
  IF Len(delta[a]) = sorted[a] THEN <<base[a], delta[a], sorted[a]>>
  ELSE IF Len(d) > Max2(merge_min, Len(base[a]) \div MERGE_DIV) THEN <<merge(base[a], d), <<>>, 0>>
  ELSE <<base[a], d, Len(d)>>
Committed(a) ==
  LET d == SortSeq(SelectSeq(delta[a], is_live), Less) IN
  IF Len(delta[a]) = sorted[a] THEN <<base[a], delta[a], sorted[a]>>
  ELSE IF Len(d) > Max2(merge_min, Len(base[a]) \div MERGE_DIV) THEN <<merge(base[a], d), <<>>, 0>>
  ELSE <<base[a], d, Len(d)>>

commit ==
  /\ base' = [a \in Array |-> Committed(a)[1]]
  /\ delta' = [a \in Array |-> Committed(a)[2]]
  /\ sorted' = [a \in Array |-> Committed(a)[3]]
  /\ UNCHANGED <<gen, live>>

Next ==
  \/ \E id \in Pos : Begin(id)
  \/ \E id \in Pos, a \in Array, p \in TPrice : register(id, a, p)
  \/ commit

Spec == Init /\ [][Next]_vars

-----------------------------------------------------------------------------
(* A move from old to new finds every position with a threshold in force     *)
(* between the two prices on the side the move crosses, and no other: not one*)
(* is hidden in a tier, lost by a merge, or alive after it was replaced.     *)
CrossedExact ==
  \A asset \in Asset, old, new \in TPrice :
    crossed(asset, old, new) =
      {t.id : t \in {u \in live :
          \/ new < old /\ u.arr = <<asset, "Falling">> /\ new <= u.price /\ u.price <= old
          \/ new >= old /\ u.arr = <<asset, "Rising">> /\ old <= u.price /\ u.price <= new}}

(* The positions a reprice of an asset re-derives are those with a threshold *)
(* in force on it.                                                           *)
RegisteredExact ==
  \A asset \in Asset : registered(asset) = {t.id : t \in {u \in live : u.arr[1] = asset}}
=============================================================================
