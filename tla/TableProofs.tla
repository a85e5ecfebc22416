----------------------------- MODULE TableProofs -----------------------------
(***************************************************************************)
(* The engine's tables for any number of positions and any sequence of     *)
(* operations: the band lists (BandManager), where a position and its      *)
(* place in a list always point at each other, and the accrual crossings   *)
(* (TimeCrossHeap), where a position has at most one entry of its present  *)
(* generation, the one its schedule names.                                 *)
(***************************************************************************)
EXTENDS TimeCrossHeap, Integers, Sequences, FiniteSetTheorems, TLAPS

CONSTANTS BPos, NO_SLOT, NoBand
VARIABLES band, slot, sets
Bands == INSTANCE BandManager

-----------------------------------------------------------------------------
(* The timestamps and the slack are numbers, no live entry is none of them. *)
Clock == Time \subseteq Nat /\ NONE \notin Time /\ SLACK \in Nat

(* Per position: what its generation, its time and its entries say of each *)
(* other.  A live entry is the one its time names.                         *)
HShape ==
    /\ hgen \in [DOMAIN hgen -> Nat] /\ DOMAIN hgen \subseteq HPos /\ DOMAIN at = DOMAIN hgen
    /\ at \in [DOMAIN hgen -> Time \cup {NONE}] /\ sched \in [HPos -> Time \cup {NONE}]
    /\ \A e \in heap : /\ e[1] \in Time /\ e[2] \in DOMAIN hgen /\ e[3] \in Nat
                       /\ e = <<e[1], e[2], e[3]>>

HLive ==
    /\ \A p \in HPos : sched[p] = IF p \in DOMAIN hgen THEN at[p] ELSE NONE
    /\ \A e \in heap : e[3] <= hgen[e[2]] /\ (e[3] = hgen[e[2]] => at[e[2]] = e[1])
    /\ \A p \in DOMAIN hgen : at[p] # NONE => <<at[p], p, hgen[p]>> \in heap

HSize ==
    /\ IsFiniteSet(heap) /\ IsFiniteSet(DOMAIN hgen)
    /\ Cardinality(heap) <= 2 * Cardinality(DOMAIN hgen) + SLACK

HInv == HShape /\ HLive /\ HSize /\ fired = due

LEMMA HeapStart ==
    ASSUME Clock, Init
    PROVE  HInv
<1>1. /\ heap = {} /\ DOMAIN hgen = {} /\ DOMAIN at = {} /\ fired = {} /\ due = {}
      /\ sched = [p \in HPos |-> NONE] /\ hgen = [p \in {} |-> 0] /\ at = [p \in {} |-> NONE]
  BY DEF Init
<1>2. HShape
  BY <1>1 DEF HShape
<1>3. HLive
  BY <1>1 DEF HLive
<1>4. HSize
  BY <1>1, FS_EmptySet DEF HSize, Clock
<1> QED
  BY <1>1, <1>2, <1>3, <1>4 DEF HInv

LEMMA CrossedStep ==
    ASSUME Clock, HInv, NEW now \in Time, crossed(now)
    PROVE  HInv'
<1> DEFINE popped == {e \in heap : e[1] <= now}
           hits == {e[2] : e \in {x \in popped : hgen[x[2]] = x[3]}}
<1>1. /\ heap' = heap \ popped /\ hgen' = hgen /\ fired' = hits
      /\ at' = [p \in DOMAIN hgen |-> IF p \in hits THEN NONE ELSE at[p]]
      /\ due' = {p \in HPos : sched[p] # NONE /\ sched[p] <= now}
      /\ sched' = [p \in HPos |-> IF sched[p] # NONE /\ sched[p] <= now THEN NONE ELSE sched[p]]
  BY DEF crossed, Known
<1>2. \A e \in heap : e[1] \in Time /\ e[2] \in DOMAIN hgen /\ e[2] \in HPos
  BY DEF HInv, HShape
<1>3. \A p \in HPos : p \in hits <=> sched[p] # NONE /\ sched[p] <= now
  <2>1. ASSUME NEW p \in HPos, p \in hits PROVE sched[p] # NONE /\ sched[p] <= now
    <3>1. PICK e \in heap : e[1] <= now /\ hgen[e[2]] = e[3] /\ p = e[2]
      BY <2>1
    <3>2. at[p] = e[1] /\ p \in DOMAIN hgen
      BY <3>1, <1>2 DEF HInv, HLive
    <3> QED
      BY <3>1, <3>2, <1>2 DEF HInv, HLive, Clock
  <2>2. ASSUME NEW p \in HPos, sched[p] # NONE, sched[p] <= now PROVE p \in hits
    <3>1. p \in DOMAIN hgen /\ at[p] = sched[p]
      BY <2>2 DEF HInv, HLive
    <3>2. <<at[p], p, hgen[p]>> \in popped
      BY <3>1, <2>2 DEF HInv, HLive
    <3> DEFINE e == <<at[p], p, hgen[p]>>
    <3>3. e[2] = p /\ hgen[e[2]] = e[3] /\ e \in popped
      BY <3>2
    <3> HIDE DEF e
    <3> QED
      BY Zenon, <3>3
  <2> QED
    BY <2>1, <2>2
<1>4. hits \subseteq HPos
  BY <1>2
<1> HIDE DEF hits
<1>5. fired' = due'
  BY <1>1, <1>3, <1>4
<1>6. HShape'
  <2>1. at' \in [DOMAIN hgen -> Time \cup {NONE}] /\ DOMAIN at' = DOMAIN hgen
    BY <1>1 DEF HInv, HShape
  <2>2. sched' \in [HPos -> Time \cup {NONE}]
    BY <1>1 DEF HInv, HShape
  <2> QED
    BY <1>1, <2>1, <2>2 DEF HInv, HShape
<1>7. HLive'
  <2>1. \A p \in HPos : sched'[p] = IF p \in DOMAIN hgen THEN at'[p] ELSE NONE
    BY <1>1, <1>3 DEF HInv, HLive
  <2>2. ASSUME NEW e \in heap'
        PROVE  e[3] <= hgen[e[2]] /\ (e[3] = hgen[e[2]] => at'[e[2]] = e[1])
    <3>1. e \in heap /\ ~(e[1] <= now) /\ e[2] \in DOMAIN hgen /\ e[2] \in HPos
      BY <1>1, <1>2, <2>2
    <3>2. e[3] <= hgen[e[2]] /\ (e[3] = hgen[e[2]] => at[e[2]] = e[1])
      BY <3>1 DEF HInv, HLive
    <3>3. at[e[2]] = e[1] => sched[e[2]] = e[1]
      BY <3>1 DEF HInv, HLive
    <3>4. at[e[2]] = e[1] => e[2] \notin hits
      BY <3>1, <3>3, <1>3
    <3> QED
      BY <1>1, <3>1, <3>2, <3>4
  <2>3. ASSUME NEW p \in DOMAIN hgen, at'[p] # NONE
        PROVE  <<at'[p], p, hgen[p]>> \in heap'
    <3>1. p \in HPos /\ p \notin hits /\ at'[p] = at[p]
      BY <1>1, <2>3 DEF HInv, HShape
    <3>2. sched[p] = at[p] /\ <<at[p], p, hgen[p]>> \in heap
      BY <2>3, <3>1 DEF HInv, HLive
    <3>3. ~(at[p] <= now)
      BY <1>3, <2>3, <3>1, <3>2
    <3> QED
      BY <1>1, <3>1, <3>2, <3>3
  <2> QED
    BY <1>1, <2>1, <2>2, <2>3 DEF HLive
<1>8. HSize'
  <2>1. heap' \subseteq heap
    BY <1>1
  <2>2. IsFiniteSet(heap') /\ Cardinality(heap') <= Cardinality(heap)
    BY <2>1, FS_Subset DEF HInv, HSize
  <2>3. Cardinality(heap') \in Nat /\ Cardinality(heap) \in Nat /\ Cardinality(DOMAIN hgen) \in Nat
    BY <2>2, FS_CardinalityType DEF HInv, HSize
  <2> QED
    BY <1>1, <2>2, <2>3 DEF HInv, HSize, Clock
<1> QED
  BY <1>5, <1>6, <1>7, <1>8 DEF HInv

(* A heap of live entries has at most one for each position.               *)
LEMMA LiveBound ==
    ASSUME NEW h, NEW g, NEW a, IsFiniteSet(DOMAIN g),
           \A e \in h : e[2] \in DOMAIN g /\ e = <<a[e[2]], e[2], g[e[2]]>>
    PROVE  IsFiniteSet(h) /\ Cardinality(h) <= Cardinality(DOMAIN g)
<1> DEFINE f == [e \in h |-> e[2]]
<1>1. f \in [h -> DOMAIN g]
  OBVIOUS
<1>2. \A e, d \in h : f[e] = f[d] => e = d
  OBVIOUS
<1>3. f \in Injection(h, DOMAIN g)
  BY <1>1, <1>2 DEF Injection, IsInjective
<1> HIDE DEF f
<1> QED
  BY Zenon, <1>3, FS_Injection

LEMMA PushStep ==
    ASSUME Clock, HInv, NEW p \in HPos, NEW t \in Time, Push(p, t)
    PROVE  HInv'
<1> DEFINE g == [ensure(hgen, p, 0) EXCEPT ![p] = @ + 1]
           e0 == <<t, p, g[p]>>
           h == heap \cup {e0}
<1>0. t # NONE
  BY DEF Clock
<1>1. sched' = [sched EXCEPT ![p] = t] /\ fired' = due'
  BY DEF Push, HInv
<1>2. CASE scheduled(p) = t
  <2>1. UNCHANGED <<heap, hgen, at>>
    BY <1>2 DEF Push, push
  <2>2. p \in DOMAIN hgen /\ at[p] = t /\ sched[p] = t
    BY <1>0, <1>2 DEF scheduled, Known, HInv, HLive
  <2>3. sched' = sched
    BY <1>1, <2>2 DEF HInv, HShape
  <2> QED
    BY <1>1, <2>1, <2>3 DEF HInv, HShape, HLive, HSize
<1>3. CASE scheduled(p) # t
  <2>1. /\ hgen' = g /\ at' = [ensure(at, p, NONE) EXCEPT ![p] = t]
        /\ heap' = IF Cardinality(h) > 2 * Cardinality(DOMAIN g) + SLACK
                   THEN {e \in h : g[e[2]] = e[3]} ELSE h
    BY Zenon, <1>3 DEF Push, push, Compacted
  <2>2. /\ DOMAIN g = DOMAIN hgen \cup {p} /\ g \in [DOMAIN g -> Nat]
        /\ \A q \in DOMAIN hgen : q # p => g[q] = hgen[q]
        /\ p \in DOMAIN hgen => g[p] = hgen[p] + 1
    <3>1. hgen \in [DOMAIN hgen -> Nat] /\ 0 \in Nat
      BY DEF HInv, HShape
    <3> DEFINE k == ensure(hgen, p, 0)
    <3>2. /\ DOMAIN k = DOMAIN hgen \cup {p} /\ k \in [DOMAIN hgen \cup {p} -> Nat]
          /\ \A q \in DOMAIN hgen : k[q] = hgen[q]
      BY SMTT(60), ZenonT(60), <3>1 DEF ensure
    <3>3. g = [k EXCEPT ![p] = k[p] + 1]
      OBVIOUS
    <3> HIDE DEF k, g
    <3> QED
      BY <3>1, <3>2, <3>3
  <2>3. /\ DOMAIN at' = DOMAIN g /\ at' \in [DOMAIN g -> Time \cup {NONE}] /\ at'[p] = t
        /\ \A q \in DOMAIN hgen : q # p => at'[q] = at[q]
    <3>1. at \in [DOMAIN at -> Time \cup {NONE}] /\ DOMAIN at = DOMAIN hgen
      BY DEF HInv, HShape
    <3> DEFINE k == ensure(at, p, NONE)
    <3>2. /\ DOMAIN k = DOMAIN hgen \cup {p} /\ k \in [DOMAIN hgen \cup {p} -> Time \cup {NONE}]
          /\ \A q \in DOMAIN hgen : k[q] = at[q]
      BY <3>1 DEF ensure
    <3>3. at' = [k EXCEPT ![p] = t]
      BY <2>1
    <3> HIDE DEF k, g
    <3> QED
      BY <2>2, <3>1, <3>2, <3>3
  <2> HIDE DEF g
  <2>4. /\ g[p] \in Nat /\ p \in DOMAIN g /\ e0 \in h /\ heap \subseteq h
        /\ e0[1] = t /\ e0[2] = p /\ e0[3] = g[p] /\ \A e \in h : e \in heap \/ e = e0
    BY <2>2
  <2> HIDE DEF e0, h
  <2>5. \A e \in h : /\ e[1] \in Time /\ e[2] \in DOMAIN g /\ e[3] \in Nat
                     /\ e = <<e[1], e[2], e[3]>>
    BY <2>2, <2>4 DEF HInv, HShape, e0
  <2>6. \A e \in h : e[3] <= g[e[2]] /\ (e[3] = g[e[2]] => at'[e[2]] = e[1])
    <3>1. ASSUME NEW e \in heap, e[2] = p PROVE e[3] < g[p]
      BY <2>2, <3>1 DEF HInv, HShape, HLive
    <3>2. ASSUME NEW e \in heap, e[2] # p
          PROVE  e[3] <= g[e[2]] /\ (e[3] = g[e[2]] => at'[e[2]] = e[1])
      BY <2>2, <2>3, <3>2 DEF HInv, HShape, HLive
    <3>3. ASSUME NEW e \in heap
          PROVE  e[3] <= g[e[2]] /\ (e[3] = g[e[2]] => at'[e[2]] = e[1])
      BY <2>4, <2>5, <3>1, <3>2
    <3> QED
      BY <2>3, <2>4, <3>3
  <2>7. heap' \subseteq h /\ \A e \in h : g[e[2]] = e[3] => e \in heap'
    BY Zenon, <2>1
  <2>8. HShape'
    <3>1. sched' \in [HPos -> Time \cup {NONE}] /\ DOMAIN g \subseteq HPos
      BY <1>1, <2>2 DEF HInv, HShape
    <3> QED
      BY <2>1, <2>2, <2>3, <2>5, <2>7, <3>1 DEF HShape
  <2>9. HLive'
    <3>1. \A q \in HPos : sched'[q] = IF q \in DOMAIN g THEN at'[q] ELSE NONE
      BY <1>1, <2>2, <2>3 DEF HInv, HShape, HLive
    <3>2. ASSUME NEW q \in DOMAIN g, at'[q] # NONE PROVE <<at'[q], q, g[q]>> \in heap'
      <4>1. CASE q = p
        BY <2>3, <2>4, <2>7, <4>1 DEF e0
      <4>2. CASE q # p
        <5>1. q \in DOMAIN hgen /\ at'[q] = at[q] /\ g[q] = hgen[q]
          BY <2>2, <2>3, <4>2
        <5>2. <<at[q], q, g[q]>> \in h
          BY <2>4, <3>2, <5>1 DEF HInv, HLive
        <5> QED
          BY <2>7, <5>1, <5>2
      <4> QED
        BY <4>1, <4>2
    <3> QED
      BY <2>1, <2>6, <2>7, <3>1, <3>2 DEF HLive
  <2>10. HSize'
    <3>1. IsFiniteSet(h) /\ IsFiniteSet(DOMAIN g)
      BY <2>2, FS_AddElement DEF HInv, HSize, h
    <3>2. Cardinality(h) \in Nat /\ Cardinality(DOMAIN g) \in Nat
      BY <3>1, FS_CardinalityType
    <3>3. CASE heap' = h /\ ~(Cardinality(h) > 2 * Cardinality(DOMAIN g) + SLACK)
      BY <2>1, <3>1, <3>2, <3>3 DEF HSize, Clock
    <3>4. CASE heap' = {e \in h : g[e[2]] = e[3]}
      <4>1. \A e \in heap' : e[2] \in DOMAIN g /\ e = <<at'[e[2]], e[2], g[e[2]]>>
        BY <2>5, <2>6, <3>4
      <4>2. IsFiniteSet(heap') /\ Cardinality(heap') <= Cardinality(DOMAIN g)
        BY <3>1, <4>1, LiveBound
      <4>3. Cardinality(heap') \in Nat
        BY <4>2, FS_CardinalityType
      <4> QED
        BY <2>1, <3>1, <3>2, <4>2, <4>3 DEF HSize, Clock
    <3> QED
      BY <2>1, <3>3, <3>4
  <2> QED
    BY <1>1, <2>8, <2>9, <2>10 DEF HInv
<1> QED
  BY <1>2, <1>3

LEMMA InvalidateStep ==
    ASSUME Clock, HInv, NEW p \in HPos, invalidate(p)
    PROVE  HInv'
<1> DEFINE k == ensure(hgen, p, 0)
           a == ensure(at, p, NONE)
<1>1. /\ hgen' = [k EXCEPT ![p] = IF scheduled(p) # NONE THEN k[p] + 1 ELSE k[p]]
      /\ at' = [a EXCEPT ![p] = NONE] /\ sched' = [sched EXCEPT ![p] = NONE]
      /\ UNCHANGED <<heap, fired, due>>
  BY DEF invalidate
<1>2. /\ k \in [DOMAIN hgen \cup {p} -> Nat] /\ \A q \in DOMAIN hgen : k[q] = hgen[q]
      /\ a \in [DOMAIN hgen \cup {p} -> Time \cup {NONE}] /\ \A q \in DOMAIN hgen : a[q] = at[q]
  <2>1. k \in [DOMAIN hgen \cup {p} -> Nat] /\ \A q \in DOMAIN hgen : k[q] = hgen[q]
    BY ZenonT(60), SMTT(60) DEF ensure, HInv, HShape
  <2>2. a \in [DOMAIN hgen \cup {p} -> Time \cup {NONE}] /\ \A q \in DOMAIN hgen : a[q] = at[q]
    BY DEF ensure, HInv, HShape
  <2> QED
    BY Zenon, <2>1, <2>2
<1> HIDE DEF k, a
<1>3. /\ hgen' \in [DOMAIN hgen \cup {p} -> Nat]
      /\ \A q \in DOMAIN hgen : q # p => hgen'[q] = hgen[q]
      /\ at' \in [DOMAIN hgen \cup {p} -> Time \cup {NONE}] /\ at'[p] = NONE
      /\ \A q \in DOMAIN hgen : q # p => at'[q] = at[q]
  BY <1>1, <1>2
<1>4. DOMAIN hgen' = DOMAIN hgen \cup {p} /\ DOMAIN at' = DOMAIN hgen \cup {p}
  BY <1>3
<1>5. \A e \in heap : e[2] = p => e[3] < hgen'[p]
  <2> SUFFICES ASSUME NEW e \in heap, e[2] = p PROVE e[3] < hgen'[p]
    OBVIOUS
  <2>1. /\ p \in DOMAIN hgen /\ e[1] \in Time /\ e[3] \in Nat /\ hgen[p] \in Nat
        /\ e[3] <= hgen[p] /\ (e[3] = hgen[p] => at[p] = e[1])
    BY DEF HInv, HShape, HLive
  <2>2. scheduled(p) = at[p]
    BY <2>1 DEF scheduled, Known
  <2>3. CASE at[p] # NONE
    BY <1>1, <1>2, <2>1, <2>2, <2>3
  <2>4. CASE at[p] = NONE
    BY <1>1, <1>2, <2>1, <2>2, <2>4 DEF Clock
  <2> QED
    BY <2>3, <2>4
<1>6. HShape'
  <2>1. sched' \in [HPos -> Time \cup {NONE}]
    BY <1>1 DEF HInv, HShape
  <2> QED
    BY <1>1, <1>3, <1>4, <2>1 DEF HInv, HShape
<1>7. HLive'
  <2>1. \A q \in HPos : sched'[q] = IF q \in DOMAIN hgen' THEN at'[q] ELSE NONE
    BY <1>1, <1>3, <1>4 DEF HInv, HShape, HLive
  <2>2. \A e \in heap : e[3] <= hgen'[e[2]] /\ (e[3] = hgen'[e[2]] => at'[e[2]] = e[1])
    <3> SUFFICES ASSUME NEW e \in heap
                 PROVE  e[3] <= hgen'[e[2]] /\ (e[3] = hgen'[e[2]] => at'[e[2]] = e[1])
      OBVIOUS
    <3>1. e[2] \in DOMAIN hgen /\ e[3] \in Nat /\ hgen'[p] \in Nat
      BY <1>3 DEF HInv, HShape
    <3>2. CASE e[2] = p
      BY <1>5, <3>1, <3>2
    <3>3. CASE e[2] # p
      BY <1>3, <3>1, <3>3 DEF HInv, HLive
    <3> QED
      BY <3>2, <3>3
  <2>3. \A q \in DOMAIN hgen' : at'[q] # NONE => <<at'[q], q, hgen'[q]>> \in heap
    BY <1>3, <1>4 DEF HInv, HLive
  <2> QED
    BY <1>1, <2>1, <2>2, <2>3 DEF HLive
<1>8. HSize'
  <2>1. /\ IsFiniteSet(DOMAIN hgen') /\ IsFiniteSet(heap')
        /\ Cardinality(heap') = Cardinality(heap)
        /\ Cardinality(DOMAIN hgen') \in {Cardinality(DOMAIN hgen), Cardinality(DOMAIN hgen) + 1}
    BY <1>1, <1>4, FS_AddElement DEF HInv, HSize
  <2>2. Cardinality(heap) \in Nat /\ Cardinality(DOMAIN hgen) \in Nat
    BY FS_CardinalityType DEF HInv, HSize
  <2> QED
    BY <2>1, <2>2 DEF HInv, HSize, Clock
<1> QED
  BY <1>1, <1>6, <1>7, <1>8 DEF HInv

(* The invariant gives a position whose schedule is set its one live entry. *)
LEMMA OneLive ==
    ASSUME Clock, HInv
    PROVE  FiresExactly /\ HeapBounded
<1>1. ASSUME NEW p \in HPos
      PROVE  (sched[p] # NONE) <=> (Cardinality({e \in heap : e[2] = p /\ hgen[p] = e[3]}) = 1)
  <2> DEFINE L == {e \in heap : e[2] = p /\ hgen[p] = e[3]}
  <2>1. CASE sched[p] # NONE
    <3>1. p \in DOMAIN hgen /\ at[p] = sched[p] /\ <<at[p], p, hgen[p]>> \in heap
      BY <2>1 DEF HInv, HLive
    <3>2. \A e \in L : e = <<at[p], p, hgen[p]>>
      BY DEF HInv, HShape, HLive
    <3>3. L = {<<at[p], p, hgen[p]>>}
      BY <3>1, <3>2
    <3> DEFINE x == <<at[p], p, hgen[p]>>
    <3> HIDE DEF L, x
    <3>4. Cardinality(L) = 1
      BY ZenonT(60), SMTT(60), <3>3, FS_Singleton DEF x
    <3> QED
      BY <2>1, <3>4 DEF L
  <2>2. CASE sched[p] = NONE
    <3>1. \A e \in heap : ~(e[2] = p /\ hgen[p] = e[3])
      <4> SUFFICES ASSUME NEW e \in heap, e[2] = p, hgen[p] = e[3] PROVE FALSE
        OBVIOUS
      <4>1. p \in DOMAIN hgen /\ at[p] = e[1] /\ e[1] \in Time
        BY DEF HInv, HShape, HLive
      <4> QED
        BY <2>2, <4>1 DEF HInv, HLive, Clock
    <3>2. L = {}
      BY <3>1
    <3> HIDE DEF L
    <3>3. Cardinality(L) = 0
      BY <3>2, FS_EmptySet
    <3> QED
      BY <2>2, <3>3 DEF L
  <2> QED
    BY <2>1, <2>2
<1> QED
  BY <1>1 DEF HInv, HSize, FiresExactly, HeapBounded, Known

(* For any positions, timestamps and slack: a query fires exactly the       *)
(* positions whose scheduled time has come, whatever was pushed again,      *)
(* dropped or compacted before, and the heap stays within twice the tracked *)
(* positions plus the slack (heap.rs push, invalidate, crossed).            *)
THEOREM CrossingsAreExact ==
    ASSUME Clock
    PROVE  Spec => [](FiresExactly /\ HeapBounded)
<1>1. Init => HInv
  BY HeapStart
<1>2. HInv /\ [Next]_vars => HInv'
  <2> SUFFICES ASSUME HInv, [Next]_vars PROVE HInv'
    OBVIOUS
  <2>1. CASE UNCHANGED vars
    BY <2>1 DEF vars, HInv, HShape, HLive, HSize
  <2>2. CASE Next
    BY <2>2, PushStep, InvalidateStep, CrossedStep DEF Next
  <2> QED
    BY <2>1, <2>2
<1>3. HInv => FiresExactly /\ HeapBounded
  BY OneLive
<1> QED
  BY <1>1, <1>2, <1>3, PTL DEF Spec

-----------------------------------------------------------------------------
Lists(S, s) ==
    /\ S \in [Bands!Walked -> Seq(BPos)] /\ DOMAIN s = BPos
    /\ band \in [BPos -> Bands!Band \cup {NoBand}]

(* A list and the places of its members point at each other: Out(p, S, s)  *)
(* says so of all positions but p, which is in no list.                    *)
Member(S, s, b, i) == i \in 1 .. Len(S[b]) /\ band[S[b][i]] = b /\ s[S[b][i]] = i
Placed(S, s, q) == s[q] \in 1 .. Len(S[band[q]]) /\ S[band[q]][s[q]] = q

BInv ==
    /\ Lists(sets, slot)
    /\ \A b \in Bands!Walked : \A i \in 1 .. Len(sets[b]) : Member(sets, slot, b, i)
    /\ \A q \in BPos : band[q] \in Bands!Walked => Placed(sets, slot, q)

Out(p, S, s) ==
    /\ Lists(S, s)
    /\ \A b \in Bands!Walked : \A i \in 1 .. Len(S[b]) : Member(S, s, b, i) /\ S[b][i] # p
    /\ \A q \in BPos : q # p /\ band[q] \in Bands!Walked => Placed(S, s, q)

LEMMA Replaced ==
    ASSUME NEW T, NEW q \in Seq(T), NEW i \in 1 .. Len(q), NEW x \in T
    PROVE  /\ [q EXCEPT ![i] = x] \in Seq(T) /\ Len([q EXCEPT ![i] = x]) = Len(q)
           /\ \A j \in 1 .. Len(q) : [q EXCEPT ![i] = x][j] = IF j = i THEN x ELSE q[j]
  OBVIOUS

(* Taking a position out of its list (swap_remove) leaves the others placed. *)
LEMMA LeftOut ==
    ASSUME BInv, NEW p \in BPos
    PROVE  Out(p, Bands!Left(p)[1], Bands!Left(p)[2])
<1> DEFINE b == band[p]
           m == Len(sets[b])
           last == sets[b][m]
           rest == SubSeq(sets[b], 1, m - 1)
<1>1. CASE b \notin Bands!Walked
  <2>1. Bands!Left(p) = <<sets, slot>>
    BY Zenon, <1>1 DEF Bands!Left
  <2>2. Out(p, sets, slot)
    BY <1>1 DEF BInv, Out, Member
  <2> QED
    BY <2>1, <2>2
<1>2. CASE b \in Bands!Walked
  <2>1. /\ sets[b] \in Seq(BPos) /\ slot[p] \in 1 .. m /\ sets[b][slot[p]] = p /\ m \in Nat \ {0}
        /\ \A i \in 1 .. m : sets[b][i] \in BPos /\ band[sets[b][i]] = b /\ slot[sets[b][i]] = i
    BY <1>2 DEF BInv, Lists, Placed, Member
  <2>2. /\ last \in BPos /\ band[last] = b /\ slot[last] = m
        /\ rest \in Seq(BPos) /\ Len(rest) = m - 1 /\ \A i \in 1 .. m - 1 : rest[i] = sets[b][i]
    BY <2>1
  <2>3. CASE slot[p] <= m - 1
    <3> DEFINE row == [rest EXCEPT ![slot[p]] = last]
               S == [sets EXCEPT ![b] = row]
               s == [slot EXCEPT ![last] = slot[p]]
    <3>1. Bands!Left(p) = <<S, s>>
      BY ZenonT(60), SMTT(60), <1>2, <2>2, <2>3 DEF Bands!Left
    <3>2. /\ row \in Seq(BPos) /\ Len(row) = m - 1 /\ last # p
          /\ \A i \in 1 .. m - 1 : row[i] = IF i = slot[p] THEN last ELSE sets[b][i]
      <4>1. last # p /\ slot[p] \in 1 .. Len(rest) /\ rest \in Seq(BPos) /\ last \in BPos
        BY <2>1, <2>2, <2>3
      <4> HIDE DEF rest, last
      <4>2. /\ row \in Seq(BPos) /\ Len(row) = Len(rest)
            /\ \A i \in 1 .. Len(rest) : row[i] = IF i = slot[p] THEN last ELSE rest[i]
        BY <4>1, Replaced
      <4> HIDE DEF row
      <4> QED
        BY <2>2, <4>1, <4>2
    <3> HIDE DEF row
    <3>3. /\ S \in [Bands!Walked -> Seq(BPos)] /\ S[b] = row
          /\ \A c \in Bands!Walked : c # b => S[c] = sets[c]
          /\ DOMAIN s = BPos /\ s[last] = slot[p] /\ \A q \in BPos : q # last => s[q] = slot[q]
      BY <1>2, <2>2, <3>2 DEF BInv, Lists
    <3> HIDE DEF S, s, rest, last
    <3>4. ASSUME NEW c \in Bands!Walked, NEW i \in 1 .. Len(S[c])
          PROVE  Member(S, s, c, i) /\ S[c][i] # p
      <4>1. CASE c = b
        <5>1. i \in 1 .. m - 1 /\ i \in 1 .. m /\ S[c][i] = row[i]
          BY <2>1, <3>2, <3>3, <3>4, <4>1
        <5>2. CASE i = slot[p]
          BY Zenon, <2>1, <2>2, <3>2, <3>3, <3>4, <4>1, <5>1, <5>2 DEF Member
        <5>3. CASE i # slot[p]
          <6>1. row[i] = sets[b][i] /\ row[i] # last /\ row[i] # p
            BY <2>1, <2>2, <3>2, <5>1, <5>3
          <6> QED
            BY <2>1, <2>2, <3>2, <3>3, <4>1, <5>1, <6>1 DEF Member
        <5> QED
          BY <5>2, <5>3
      <4>2. CASE c # b
        <5>1. S[c] = sets[c] /\ Member(sets, slot, c, i) /\ sets[c][i] \in BPos
          BY <3>3, <3>4, <4>2 DEF BInv, Lists
        <5> QED
          BY <2>2, <3>3, <4>2, <5>1 DEF Member
      <4> QED
        BY <4>1, <4>2
    <3>5. ASSUME NEW q \in BPos, q # p, band[q] \in Bands!Walked
          PROVE  Placed(S, s, q)
      <4>1. slot[q] \in 1 .. Len(sets[band[q]]) /\ sets[band[q]][slot[q]] = q
        BY <3>5 DEF BInv, Placed
      <4>2. CASE band[q] # b
        <5>1. q # last
          BY <2>2, <4>2
        <5>2. s[q] = slot[q] /\ S[band[q]] = sets[band[q]]
          BY <3>3, <3>5, <4>2, <5>1
        <5> QED
          BY <4>1, <5>2 DEF Placed
      <4>3. CASE band[q] = b /\ q = last
        <5>1. slot[p] \in 1 .. m - 1 /\ row[slot[p]] = last
          BY SMTT(60), ZenonT(60), <2>1, <2>3, <3>2
        <5> QED
          BY <3>2, <3>3, <4>3, <5>1 DEF Placed
      <4>4. CASE band[q] = b /\ q # last
        <5>1. slot[q] \in 1 .. m - 1 /\ slot[q] # slot[p]
          BY <2>1, <2>2, <3>5, <4>1, <4>4 DEF last
        <5>2. s[q] = slot[q] /\ 1 .. Len(S[band[q]]) = 1 .. m - 1 /\ row[slot[q]] = sets[b][slot[q]]
          BY SMTT(60), ZenonT(60), <3>2, <3>3, <3>5, <4>4, <5>1
        <5> QED
          BY Zenon, <3>2, <3>3, <3>5, <4>1, <4>4, <5>1, <5>2 DEF Placed
      <4> QED
        BY <4>2, <4>3, <4>4
    <3>6. Lists(S, s)
      BY <3>3 DEF BInv, Lists
    <3> QED
      BY <3>1, <3>4, <3>5, <3>6 DEF Out
  <2>4. CASE ~(slot[p] <= m - 1)
    <3> DEFINE S == [sets EXCEPT ![b] = rest]
    <3>1. Bands!Left(p) = <<S, slot>>
      BY ZenonT(60), SMTT(60), <1>2, <2>2, <2>4 DEF Bands!Left
    <3>2. slot[p] = m
      BY <2>1, <2>4
    <3>3. /\ S \in [Bands!Walked -> Seq(BPos)] /\ S[b] = rest
          /\ \A c \in Bands!Walked : c # b => S[c] = sets[c]
      BY <1>2, <2>2 DEF BInv, Lists
    <3> HIDE DEF S, rest
    <3>4. ASSUME NEW c \in Bands!Walked, NEW i \in 1 .. Len(S[c])
          PROVE  Member(S, slot, c, i) /\ S[c][i] # p
      <4>1. CASE c = b
        <5>1. i \in 1 .. m - 1 /\ i \in 1 .. m /\ i # slot[p] /\ S[c][i] = sets[b][i]
          BY <2>1, <2>2, <3>2, <3>3, <4>1
        <5>2. sets[b][i] # p /\ band[sets[b][i]] = b /\ slot[sets[b][i]] = i
          BY <2>1, <5>1
        <5> QED
          BY <4>1, <5>1, <5>2 DEF Member
      <4>2. CASE c # b
        BY <3>3, <4>2 DEF BInv, Member
      <4> QED
        BY <4>1, <4>2
    <3>5. ASSUME NEW q \in BPos, q # p, band[q] \in Bands!Walked
          PROVE  Placed(S, slot, q)
      <4>1. slot[q] \in 1 .. Len(sets[band[q]]) /\ sets[band[q]][slot[q]] = q
        BY <3>5 DEF BInv, Placed
      <4>2. CASE band[q] # b
        BY <3>3, <3>5, <4>1, <4>2 DEF Placed
      <4>3. CASE band[q] = b
        <5>1. slot[q] \in 1 .. m - 1
          BY <2>1, <3>2, <3>5, <4>1, <4>3
        <5> QED
          BY ZenonT(60), SMTT(60), <2>2, <3>3, <4>1, <4>3, <5>1 DEF Placed
      <4> QED
        BY <4>2, <4>3
    <3>6. Lists(S, slot)
      BY <3>3 DEF BInv, Lists
    <3> QED
      BY <3>1, <3>4, <3>5, <3>6 DEF Out
  <2> QED
    BY <2>3, <2>4
<1> QED
  BY <1>1, <1>2

(* Every position starts unclassified, and every list empty.               *)
LEMMA BandsStart ==
    ASSUME Bands!Init, NoBand \notin Bands!Walked
    PROVE  BInv
<1>1. /\ band = [p \in BPos |-> NoBand] /\ DOMAIN slot = BPos
      /\ sets = [b \in Bands!Walked |-> <<>>]
  BY DEF Bands!Init
<1>2. Lists(sets, slot)
  BY <1>1 DEF Lists
<1>3. \A b \in Bands!Walked : Len(sets[b]) = 0
  BY <1>1
<1> QED
  BY <1>1, <1>2, <1>3 DEF BInv

LEMMA SetStep ==
    ASSUME BInv, NoBand \notin Bands!Walked, NEW p \in BPos, NEW new \in Bands!Band,
           Bands!set(p, new)
    PROVE  BInv'
<1> DEFINE S == Bands!Left(p)[1]
           s == Bands!Left(p)[2]
<1>1. Out(p, S, s)
  BY LeftOut
<1>2. /\ band' = [band EXCEPT ![p] = new]
      /\ sets' = IF new \in Bands!Walked THEN [S EXCEPT ![new] = Append(S[new], p)] ELSE S
      /\ slot' = [s EXCEPT ![p] = IF new \in Bands!Walked THEN Len(S[new]) + 1 ELSE NO_SLOT]
  BY DEF Bands!set
<1> HIDE DEF S, s
<1>3. /\ S \in [Bands!Walked -> Seq(BPos)] /\ DOMAIN s = BPos
      /\ band \in [BPos -> Bands!Band \cup {NoBand}]
  BY <1>1 DEF Out, Lists
<1>4. /\ band' \in [BPos -> Bands!Band \cup {NoBand}] /\ DOMAIN slot' = BPos
      /\ band'[p] = new /\ \A q \in BPos : q # p => band'[q] = band[q] /\ slot'[q] = s[q]
  BY <1>2, <1>3
<1>5. CASE new \notin Bands!Walked
  <2>1. sets' = S
    BY <1>2, <1>5
  <2>2. ASSUME NEW b \in Bands!Walked, NEW i \in 1 .. Len(S[b])
        PROVE  band'[S[b][i]] = b /\ slot'[S[b][i]] = i
    <3>1. Member(S, s, b, i) /\ S[b][i] # p /\ S[b][i] \in BPos
      BY <1>1, <1>3 DEF Out
    <3> QED
      BY <1>4, <3>1 DEF Member
  <2>3. ASSUME NEW q \in BPos, band'[q] \in Bands!Walked
        PROVE  slot'[q] \in 1 .. Len(S[band'[q]]) /\ S[band'[q]][slot'[q]] = q
    <3>1. q # p
      BY <1>4, <1>5, <2>3
    <3>2. Placed(S, s, q) /\ band'[q] = band[q] /\ slot'[q] = s[q]
      BY <1>1, <1>4, <2>3, <3>1 DEF Out
    <3> QED
      BY <3>2 DEF Placed
  <2> QED
    BY <1>3, <1>4, <2>1, <2>2, <2>3 DEF BInv, Lists, Member, Placed
<1>6. CASE new \in Bands!Walked
  <2> DEFINE n == Len(S[new])
  <2>1. /\ sets' \in [Bands!Walked -> Seq(BPos)] /\ sets'[new] = Append(S[new], p)
        /\ \A b \in Bands!Walked : b # new => sets'[b] = S[b]
        /\ S[new] \in Seq(BPos) /\ n \in Nat /\ slot'[p] = n + 1
    BY <1>2, <1>3, <1>6
  <2>2. /\ Len(sets'[new]) = n + 1 /\ sets'[new][n + 1] = p
        /\ \A i \in 1 .. n : sets'[new][i] = S[new][i]
    BY <2>1
  <2> HIDE DEF n
  <2>3. ASSUME NEW b \in Bands!Walked, NEW i \in 1 .. Len(S[b])
        PROVE  band'[S[b][i]] = b /\ slot'[S[b][i]] = i
    <3>1. Member(S, s, b, i) /\ S[b][i] # p /\ S[b][i] \in BPos
      BY <1>1, <1>3 DEF Out
    <3> QED
      BY <1>4, <3>1 DEF Member
  <2>4. ASSUME NEW b \in Bands!Walked, NEW i \in 1 .. Len(sets'[b])
        PROVE  band'[sets'[b][i]] = b /\ slot'[sets'[b][i]] = i
    <3>1. CASE b # new
      BY <2>1, <2>3, <2>4, <3>1
    <3>2. CASE b = new /\ i = n + 1
      BY <1>4, <2>1, <2>2, <3>2
    <3>3. CASE b = new /\ i # n + 1
      <4>1. i \in 1 .. n /\ i \in 1 .. Len(S[b])
        BY <2>1, <2>2, <2>4, <3>3 DEF n
      <4> QED
        BY <2>2, <2>3, <3>3, <4>1
    <3> QED
      BY <3>1, <3>2, <3>3
  <2>5. ASSUME NEW q \in BPos, band'[q] \in Bands!Walked
        PROVE  slot'[q] \in 1 .. Len(sets'[band'[q]]) /\ sets'[band'[q]][slot'[q]] = q
    <3>1. CASE q = p
      BY <1>4, <2>1, <2>2, <3>1
    <3>2. CASE q # p
      <4>1. band'[q] = band[q] /\ slot'[q] = s[q] /\ s[q] \in 1 .. Len(S[band[q]])
            /\ S[band[q]][s[q]] = q
        BY <1>1, <1>4, <2>5, <3>2 DEF Out, Placed
      <4>2. CASE band[q] = new
        BY <2>1, <2>2, <4>1, <4>2 DEF n
      <4>3. CASE band[q] # new
        BY <2>1, <2>5, <4>1, <4>3
      <4> QED
        BY <4>2, <4>3
    <3> QED
      BY <3>1, <3>2
  <2> QED
    BY <1>4, <2>1, <2>4, <2>5 DEF BInv, Lists, Member, Placed
<1> QED
  BY <1>5, <1>6

(* For any positions and any moves between bands: the list a tick walks     *)
(* holds every position of its band once and no other (band.rs set).        *)
THEOREM ListsAreExact ==
    ASSUME NoBand \notin Bands!Walked
    PROVE  Bands!Spec => []Bands!ListsExact
<1>1. BInv => Bands!ListsExact
  <2> SUFFICES ASSUME BInv, NEW b \in Bands!Walked
               PROVE  /\ Bands!IsInjective(sets[b])
                      /\ Bands!Range(sets[b]) = {p \in BPos : band[p] = b}
    BY DEF Bands!ListsExact
  <2>1. /\ sets[b] \in Seq(BPos)
        /\ \A i \in 1 .. Len(sets[b]) : /\ sets[b][i] \in BPos /\ band[sets[b][i]] = b
                                        /\ slot[sets[b][i]] = i
        /\ \A p \in BPos : band[p] = b => slot[p] \in 1 .. Len(sets[b]) /\ sets[b][slot[p]] = p
    BY DEF BInv, Lists, Member, Placed
  <2>2. DOMAIN sets[b] = 1 .. Len(sets[b])
    BY <2>1
  <2>3. Bands!IsInjective(sets[b])
    BY <2>1, <2>2 DEF Bands!IsInjective
  <2>4. Bands!Range(sets[b]) = {p \in BPos : band[p] = b}
    BY <2>1, <2>2 DEF Bands!Range
  <2> QED
    BY <2>3, <2>4
<1>2. BInv /\ [Bands!Next]_Bands!vars => BInv'
  <2>1. ASSUME BInv, UNCHANGED Bands!vars PROVE BInv'
    BY <2>1 DEF Bands!vars, BInv, Lists, Member, Placed
  <2> QED
    BY <2>1, SetStep DEF Bands!Next
<1> QED
  BY <1>1, <1>2, BandsStart, PTL DEF Bands!Spec
=============================================================================
