--------------------------- MODULE CandidateQueue ---------------------------
(* The bounded candidate queue of liq-engine's candidate.rs: a slab of slots,*)
(* a stack of free slots and a heap of ranks.  Full, it keeps the higher     *)
(* ranked of the incoming candidate and its lowest.  A drain hands out what  *)
(* is left, best first, one candidate per job: the newest queued.            *)
EXTENDS Integers, Sequences, FiniteSets, SequencesExt

CONSTANTS
  QPos,        \* positions
  Follows,     \* transactions a backrun may follow
  Canonical, Predicted,   \* what a candidate follows otherwise
  Value,       \* est_value
  NoCand,      \* an empty slot
  Capacity,
  MaxSeq       \* bound of the instance

VARIABLES
  slots,    \* per slot, its candidate
  free,     \* the free slots, a stack
  ranks,    \* the heap: [fireable, value, seq, slot]
  seq,      \* pushes so far
  pushed,   \* history: the ranks offered since the last drain, without slots
  out       \* what the last drain yielded, in order

vars == <<slots, free, ranks, seq, pushed, out>>

Job  == [position : QPos, follows : Follows \union {Canonical, Predicted}]
Cand == [job : Job, value : Value]

Init ==
  /\ slots = [s \in 1 .. Capacity |-> NoCand]
  /\ free = [i \in 1 .. Capacity |-> Capacity + 1 - i]
  /\ ranks = {} /\ seq = 0 /\ pushed = {} /\ out = <<>>

fireable(c) == c.job.follows # Predicted

AboveByValue(r, s) ==
  \/ r.value > s.value
  \/ r.value = s.value /\ r.seq < s.seq

(* Rank's order: fireable, value, the older, the slot. *)
Above(r, s) ==
  \/ r.fireable /\ ~s.fireable
  \/ r.fireable = s.fireable /\ r.value > s.value
  \/ r.fireable = s.fireable /\ r.value = s.value /\ r.seq < s.seq

Lowest == CHOOSE r \in ranks : \A s \in ranks \ {r} : Above(s, r)

PlaceKeepsFree(c, rank, fr, sl, rk) ==
  /\ slots' = [sl EXCEPT ![Last(fr)] = c]
  /\ free' = fr
  /\ ranks' = rk \union {rank @@ [slot |-> Last(fr)]}
Place(c, rank, fr, sl, rk) ==
  /\ slots' = [sl EXCEPT ![Last(fr)] = c]
  /\ free' = Front(fr)
  /\ ranks' = rk \union {rank @@ [slot |-> Last(fr)]}

push(c) ==
  LET probe == [fireable |-> fireable(c), value |-> c.value, seq |-> seq] IN
  /\ seq < MaxSeq
  /\ seq' = seq + 1
  /\ pushed' = pushed \union {probe}
  /\ \/ /\ free # <<>>
        /\ Place(c, probe, free, slots, ranks)
     \/ /\ free = <<>> /\ ~Above(probe, Lowest)
        /\ UNCHANGED <<slots, free, ranks>>
     \/ /\ free = <<>> /\ Above(probe, Lowest)
        /\ Place(c, probe, <<Lowest.slot>>, [slots EXCEPT ![Lowest.slot] = NoCand], ranks \ {Lowest})
  /\ UNCHANGED out

(* The candidates a drain walks, best first, and the newest seq of each job. *)
Sorted == SetToSortSeq(ranks, Above)
newest(job) ==
  CHOOSE n \in {r.seq : r \in {x \in ranks : slots[x.slot].job = job}} :
    \A r \in ranks : slots[r.slot].job = job => r.seq <= n

(* Every next frees a slot; a candidate that is not its job's newest is      *)
(* skipped.  Dropping the iterator early discards the rest the same way.     *)
YieldAll == [i \in DOMAIN Sorted |-> slots[Sorted[i].slot]]
Yield ==
  LET isNewest(r) == newest(slots[r.slot].job) = r.seq
      kept == SelectSeq(Sorted, isNewest)
  IN  [i \in DOMAIN kept |-> slots[kept[i].slot]]

drain(n) ==
  /\ ranks # {}
  /\ out' = SubSeq(Yield, 1, n)
  /\ slots' = [s \in DOMAIN slots |-> NoCand]
  /\ free' = free \o [i \in DOMAIN Sorted |-> Sorted[i].slot]
  /\ ranks' = {} /\ pushed' = {}
  /\ UNCHANGED seq

Next ==
  \/ \E c \in Cand : push(c)
  \/ \E n \in 0 .. Capacity : n <= Len(Yield) /\ drain(n)

Spec == Init /\ [][Next]_vars

-----------------------------------------------------------------------------
(* Under any load the queue holds the best of what was offered since the last*)
(* drain, as many as fit; no prediction displaces a fireable candidate.      *)
BestKept ==
  LET held == {[fireable |-> r.fireable, value |-> r.value, seq |-> r.seq] : r \in ranks} IN
  /\ held \subseteq pushed
  /\ Cardinality(held) = (IF Cardinality(pushed) < Capacity THEN Cardinality(pushed) ELSE Capacity)
  /\ \A h \in held, p \in pushed \ held :
       \/ h.fireable /\ ~p.fireable
       \/ h.fireable = p.fireable /\ h.value >= p.value

(* No drain plans two liquidations of the same debt.                         *)
OnePerJob == \A i, j \in DOMAIN out : out[i].job = out[j].job => i = j

(* No slot is lost or handed out twice: each is free or holds one ranked     *)
(* candidate, however drains and evictions reuse them.                       *)
SlabExact ==
  /\ IsInjective(free)
  /\ \A s \in DOMAIN slots : (slots[s] = NoCand) <=> \E i \in DOMAIN free : free[i] = s
  /\ \A s \in DOMAIN slots : (slots[s] # NoCand) <=> (Cardinality({r \in ranks : r.slot = s}) = 1)

(* The queue's contract: the best of what was offered, each job once, from a *)
(* slab that loses no slot (candidate.rs push, drain).                       *)
QueueExact == BestKept /\ OnePerJob /\ SlabExact
=============================================================================
