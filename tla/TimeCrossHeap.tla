--------------------------- MODULE TimeCrossHeap ----------------------------
(* The accrual crossings of liq-engine's heap.rs: a min-heap of (time,       *)
(* position, generation) in which a push supersedes the position's earlier   *)
(* entry by bumping its generation; the old one is discarded when it         *)
(* surfaces, or by a compaction when the heap outgrows its bound.            *)
EXTENDS Naturals, FiniteSets

CONSTANTS
  HPos,        \* positions
  Time,        \* timestamps
  NONE,        \* no live entry
  SLACK,       \* compaction slack
  MaxHGen      \* bound of the instance

VARIABLES
  heap,    \* entries <<time, position, generation>>, live and stale
  hgen,    \* per position, its generation; unset until it is first seen
  at,      \* per position, the time of its live entry
  sched,   \* history: when each position should next fire
  fired,   \* history: the positions the last query returned
  due      \* history: the positions it should have returned

vars == <<heap, hgen, at, sched, fired, due>>

Init ==
  /\ heap = {} /\ hgen = [p \in {} |-> 0] /\ at = [p \in {} |-> NONE]
  /\ sched = [p \in HPos |-> NONE] /\ fired = {} /\ due = {}

Known == DOMAIN hgen
scheduled(p) == IF p \in Known THEN at[p] ELSE NONE
ensure(f, p, v) == IF p \in DOMAIN f THEN f ELSE [q \in DOMAIN f \union {p} |-> IF q = p THEN v ELSE f[q]]

CompactedAll(h, g) == {}
Compacted(h, g) == {e \in h : g[e[2]] = e[3]}

PushNoBump(p, t) ==
  LET g == ensure(hgen, p, 0) IN
  /\ hgen' = g
  /\ at' = [ensure(at, p, NONE) EXCEPT ![p] = t]
  /\ heap' = heap \union {<<t, p, g[p]>>}

(* push: the same time again is no change; otherwise the generation is       *)
(* bumped and a new entry added, and a heap above its bound is compacted.    *)
push(p, t) ==
  LET g == [ensure(hgen, p, 0) EXCEPT ![p] = @ + 1]
      h == heap \union {<<t, p, g[p]>>}
      bound == 2 * Cardinality(DOMAIN g) + SLACK
  IN  /\ IF scheduled(p) = t THEN UNCHANGED <<heap, hgen, at>>
         ELSE /\ g[p] <= MaxHGen
              /\ hgen' = g
              /\ at' = [ensure(at, p, NONE) EXCEPT ![p] = t]
              /\ heap' = IF Cardinality(h) > bound THEN Compacted(h, g) ELSE h

Push(p, t) ==
  /\ push(p, t)
  /\ sched' = [sched EXCEPT ![p] = t]
  /\ UNCHANGED <<fired, due>>

invalidate(p) ==
  /\ hgen' = [ensure(hgen, p, 0) EXCEPT ![p] = IF scheduled(p) # NONE THEN @ + 1 ELSE @]
  /\ hgen'[p] <= MaxHGen
  /\ at' = [ensure(at, p, NONE) EXCEPT ![p] = NONE]
  /\ sched' = [sched EXCEPT ![p] = NONE]
  /\ UNCHANGED <<heap, fired, due>>

(* crossed, taken to its end: entries due are popped; the live ones fire.    *)
crossed(now) ==
  LET popped == {e \in heap : e[1] <= now}
      hits   == {e[2] : e \in {x \in popped : hgen[x[2]] = x[3]}}
  IN  /\ heap' = heap \ popped
      /\ at' = [p \in Known |-> IF p \in hits THEN NONE ELSE at[p]]
      /\ fired' = hits
      /\ due' = {p \in HPos : sched[p] # NONE /\ sched[p] <= now}
      /\ sched' = [p \in HPos |-> IF sched[p] # NONE /\ sched[p] <= now THEN NONE ELSE sched[p]]
      /\ UNCHANGED hgen

Next ==
  \/ \E p \in HPos, t \in Time : Push(p, t)
  \/ \E p \in HPos : invalidate(p)
  \/ \E now \in Time : crossed(now)

Spec == Init /\ [][Next]_vars

-----------------------------------------------------------------------------
(* A query yields each position scheduled by then once, and none whose entry *)
(* was superseded or dropped, whether or not a compaction came between.      *)
FiresExactly == fired = due

(* Re-pushing the same positions never grows the heap past twice the tracked *)
(* positions plus the slack, and each scheduled position keeps one live entry.*)
HeapBounded ==
  /\ Cardinality(heap) <= 2 * Cardinality(Known) + SLACK
  /\ \A p \in HPos : (sched[p] # NONE) <=> (Cardinality({e \in heap : e[2] = p /\ hgen[p] = e[3]}) = 1)
=============================================================================
