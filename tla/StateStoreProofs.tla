-------------------------- MODULE StateStoreProofs --------------------------
(* Proofs about StateStore, for every depth of the ring and every universe  *)
(* of markets, users, values and blocks.                                    *)
EXTENDS StateStoreInverses

-----------------------------------------------------------------------------
(* The ring's index arithmetic.                                             *)

(* wrap, on the indices the ring computes, subtracts UNDO_DEPTH at most once. *)
LEMMA WrapLow == \A i \in 0 .. UNDO_DEPTH - 1 : wrap(i) = i
  BY StoreAssumption DEF wrap

LEMMA WrapHigh == \A i \in UNDO_DEPTH .. 2 * UNDO_DEPTH - 1 : wrap(i) = i - UNDO_DEPTH
  BY StoreAssumption DEF wrap

(* slot_of and rewind compute this slot, `back` records behind head h. *)
Behind(h, back) == wrap((h + UNDO_DEPTH) - wrap(back))

(* Stepping back fewer than UNDO_DEPTH records from h. *)
LEMMA BehindValue ==
  ASSUME NEW h \in 0 .. UNDO_DEPTH - 1, NEW d \in 0 .. UNDO_DEPTH - 1
  PROVE  Behind(h, d) = IF d <= h THEN h - d ELSE (h + UNDO_DEPTH) - d
<1>1. wrap(d) = d  BY WrapLow
<1>2. CASE d <= h
  <2>1. (h + UNDO_DEPTH) - d \in UNDO_DEPTH .. 2 * UNDO_DEPTH - 1
    BY <1>2, StoreAssumption
  <2>2. wrap((h + UNDO_DEPTH) - d) = ((h + UNDO_DEPTH) - d) - UNDO_DEPTH
    BY <2>1, WrapHigh
  <2> QED BY <1>1, <1>2, <2>2, StoreAssumption DEF Behind
<1>3. CASE ~(d <= h)
  <2>1. (h + UNDO_DEPTH) - d \in 0 .. UNDO_DEPTH - 1
    BY <1>3, StoreAssumption
  <2>2. wrap((h + UNDO_DEPTH) - d) = (h + UNDO_DEPTH) - d
    BY <2>1, WrapLow
  <2> QED BY <1>1, <1>3, <2>2, StoreAssumption DEF Behind
<1> QED BY <1>2, <1>3

(* A whole turn of the ring is no step at all. *)
LEMMA BehindTurn ==
  ASSUME NEW h \in 0 .. UNDO_DEPTH - 1
  PROVE  Behind(h, UNDO_DEPTH) = h
<1>1. wrap(UNDO_DEPTH) = 0  BY WrapHigh, StoreAssumption
<1>2. wrap(h + UNDO_DEPTH) = h
  <2>1. h + UNDO_DEPTH \in UNDO_DEPTH .. 2 * UNDO_DEPTH - 1  BY StoreAssumption
  <2> QED BY <2>1, WrapHigh, StoreAssumption
<1> QED BY <1>1, <1>2, StoreAssumption DEF Behind

(* Advancing the head by one moves every older record one further behind. *)
LEMMA BehindAdvance ==
  ASSUME NEW h \in 0 .. UNDO_DEPTH - 1
  PROVE  /\ wrap(h + 1) \in 0 .. UNDO_DEPTH - 1
         /\ \A d \in 0 .. UNDO_DEPTH - 2 :
               /\ Behind(wrap(h + 1), d + 1) = Behind(h, d)
               /\ Behind(h, d) # wrap(h + 1)
<1>1. wrap(h + 1) = IF h + 1 = UNDO_DEPTH THEN 0 ELSE h + 1
  <2>1. CASE h + 1 = UNDO_DEPTH  BY <2>1, WrapHigh, StoreAssumption
  <2>2. CASE h + 1 # UNDO_DEPTH  BY <2>2, WrapLow, StoreAssumption
  <2> QED BY <2>1, <2>2
<1>2. wrap(h + 1) \in 0 .. UNDO_DEPTH - 1  BY <1>1, StoreAssumption
<1>3. ASSUME NEW d \in 0 .. UNDO_DEPTH - 2
      PROVE  /\ Behind(wrap(h + 1), d + 1) = Behind(h, d)
             /\ Behind(h, d) # wrap(h + 1)
  <2>1. d \in 0 .. UNDO_DEPTH - 1 /\ d + 1 \in 0 .. UNDO_DEPTH - 1  BY StoreAssumption
  <2>2. Behind(h, d) = IF d <= h THEN h - d ELSE (h + UNDO_DEPTH) - d
    BY <2>1, BehindValue
  <2>3. Behind(wrap(h + 1), d + 1) =
          IF d + 1 <= wrap(h + 1) THEN wrap(h + 1) - (d + 1)
                                  ELSE (wrap(h + 1) + UNDO_DEPTH) - (d + 1)
    BY <1>2, <2>1, BehindValue
  <2> QED BY <1>1, <2>1, <2>2, <2>3, StoreAssumption
<1> QED BY <1>2, <1>3

(* Two different distances below UNDO_DEPTH lead to two different slots. *)
LEMMA BehindInjective ==
  ASSUME NEW h \in 0 .. UNDO_DEPTH - 1,
         NEW c \in 0 .. UNDO_DEPTH - 1, NEW d \in 0 .. UNDO_DEPTH - 1, c # d
  PROVE  Behind(h, c) # Behind(h, d) /\ Behind(h, c) \in 0 .. UNDO_DEPTH - 1
<1>1. Behind(h, c) = IF c <= h THEN h - c ELSE (h + UNDO_DEPTH) - c  BY BehindValue
<1>2. Behind(h, d) = IF d <= h THEN h - d ELSE (h + UNDO_DEPTH) - d  BY BehindValue
<1> QED BY <1>1, <1>2, StoreAssumption

(* Stepping back e and then d is stepping back d + e. *)
LEMMA BehindAdd ==
  ASSUME NEW h \in 0 .. UNDO_DEPTH - 1, NEW e \in 0 .. UNDO_DEPTH, NEW d \in Nat,
         d + e < UNDO_DEPTH
  PROVE  Behind(Behind(h, e), d) = Behind(h, d + e)
<1>1. e \in 0 .. UNDO_DEPTH - 1 /\ d \in 0 .. UNDO_DEPTH - 1 /\ d + e \in 0 .. UNDO_DEPTH - 1
  BY StoreAssumption
<1>2. Behind(h, e) = IF e <= h THEN h - e ELSE (h + UNDO_DEPTH) - e  BY <1>1, BehindValue
<1>3. Behind(h, d + e) = IF d + e <= h THEN h - (d + e) ELSE (h + UNDO_DEPTH) - (d + e)
  BY <1>1, BehindValue
<1>4. Behind(h, e) \in 0 .. UNDO_DEPTH - 1  BY <1>1, <1>2, StoreAssumption
<1>5. Behind(Behind(h, e), d) = IF d <= Behind(h, e) THEN Behind(h, e) - d
                                                  ELSE (Behind(h, e) + UNDO_DEPTH) - d
  BY <1>1, <1>4, BehindValue
<1> QED BY <1>1, <1>2, <1>3, <1>5, StoreAssumption
-----------------------------------------------------------------------------
(* A record r of a block, the store now, the machines tr the block passed   *)
(* through and the state pre it started from: every op inverts the machine  *)
(* after it to the machine before it, and the first machine is the start.   *)
Now(tr, r, now, i) == IF i = Len(r.ops) + 1 THEN Tables(now, r) ELSE tr[i]

Chain(tr, pre, r, now) ==
    /\ Len(r.ops) <= Len(tr)
    /\ \A i \in 1 .. Len(r.ops) :
          /\ Inverts(r.ops[i], Now(tr, r, now, i + 1), Now(tr, r, now, i))
          /\ Good(tr[i].st)
    /\ Now(tr, r, now, 1) = [st |-> pre, extras |-> <<>>, rows |-> <<>>]

(* A record just opened. *)
LEMMA ChainNew ==
  ASSUME NEW st, NEW tr \in Seq(Machine)
  PROVE  Chain(tr, st, NoUndo, st)
<1>1. NoUndo.ops = <<>> /\ NoUndo.extras = <<>> /\ NoUndo.rows = <<>>  BY DEF NoUndo
<1>2. Len(NoUndo.ops) = 0  BY <1>1
<1>3. Now(tr, NoUndo, st, 1) = [st |-> st, extras |-> <<>>, rows |-> <<>>]
  BY <1>1, <1>2 DEF Now, Tables
<1> HIDE DEF NoUndo
<1>4. Len(tr) \in Nat  OBVIOUS
<1> QED BY <1>2, <1>3, <1>4 DEF Chain

(* A record with every op undone: the store is the block's start. *)
LEMMA ChainEmpty ==
  ASSUME NEW tr, NEW pre, NEW r, NEW now, Chain(tr, pre, r, now), r.ops = <<>>
  PROVE  now = pre
<1>1. Len(r.ops) = 0  OBVIOUS
<1>2. Tables(now, r) = [st |-> pre, extras |-> <<>>, rows |-> <<>>]
  BY <1>1 DEF Chain, Now
<1> QED BY <1>2 DEF Tables

(* Journaling one more op. *)
LEMMA ChainPush ==
  ASSUME NEW tr \in Seq(Machine), NEW pre, NEW r \in BlockUndo, NEW st \in Store, Good(st),
         Chain(tr, pre, r, st), Len(tr) = Len(r.ops),
         NEW op, NEW st2, NEW r2, Journaled(st, r, op, st2, r2)
  PROVE  /\ Chain(Append(tr, Tables(st, r)), pre, r2, st2)
         /\ Append(tr, Tables(st, r)) \in Seq(Machine)
         /\ Len(Append(tr, Tables(st, r))) = Len(r2.ops)
<1> DEFINE tr2 == Append(tr, Tables(st, r))
           n == Len(r.ops)
<1>1. Tables(st, r) \in Machine  BY DEF Tables, Machine, BlockUndo
<1>2. r.ops \in Seq(UndoOp) /\ n \in Nat  BY DEF BlockUndo
<1>3. /\ tr2 \in Seq(Machine) /\ Len(tr2) = n + 1
      /\ \A i \in 1 .. n : tr2[i] = tr[i]
      /\ tr2[n + 1] = Tables(st, r)
  BY <1>1, AppendFacts
<1>4. /\ op \in UndoOp /\ r2.ops = Append(r.ops, op)
      /\ Inverts(op, Tables(st2, r2), Tables(st, r))
  BY DEF Journaled
<1>5. /\ Len(r2.ops) = n + 1
      /\ \A i \in 1 .. n : r2.ops[i] = r.ops[i]
      /\ r2.ops[n + 1] = op
  BY <1>2, <1>4, AppendFacts
<1> HIDE DEF tr2, n
<1>6. ASSUME NEW i \in 1 .. n + 1
      PROVE  Now(tr2, r2, st2, i) = Now(tr, r, st, i)
  <2>1. i # n + 2 /\ (i = n + 1 \/ i \in 1 .. n)  BY <1>2
  <2>2. Now(tr2, r2, st2, i) = tr2[i]  BY <1>2, <1>5, <2>1 DEF Now
  <2>3. CASE i = n + 1  BY <1>3, <2>2, <2>3 DEF Now, n
  <2>4. CASE i \in 1 .. n
    <3>1. i # n + 1  BY <1>2, <2>4
    <3> QED BY <1>3, <2>2, <2>4, <3>1 DEF Now, n
  <2> QED BY <2>1, <2>3, <2>4
<1>7. Now(tr2, r2, st2, n + 2) = Tables(st2, r2)
  BY <1>2, <1>5 DEF Now
<1>8. ASSUME NEW i \in 1 .. Len(r2.ops)
      PROVE  /\ Inverts(r2.ops[i], Now(tr2, r2, st2, i + 1), Now(tr2, r2, st2, i))
             /\ Good(tr2[i].st)
  <2>1. CASE i = n + 1
    <3>1. i + 1 = n + 2 /\ i \in 1 .. n + 1  BY <1>2, <2>1
    <3>2. Now(tr2, r2, st2, i) = Tables(st, r)  BY <1>6, <2>1, <3>1 DEF Now, n
    <3>3. Tables(st, r).st = st  BY DEF Tables
    <3> QED BY <1>3, <1>4, <1>5, <1>7, <2>1, <3>1, <3>2, <3>3
  <2>2. CASE i \in 1 .. n
    <3>1. i \in 1 .. n + 1 /\ i + 1 \in 1 .. n + 1  BY <1>2, <2>2
    <3>2. /\ Inverts(r.ops[i], Now(tr, r, st, i + 1), Now(tr, r, st, i))
          /\ Good(tr[i].st)
      BY <2>2 DEF Chain, n
    <3> QED BY <1>3, <1>5, <1>6, <2>2, <3>1, <3>2
  <2> QED BY SMTT(240), ZenonT(120), <1>2, <1>5, <2>1, <2>2
<1>9. Now(tr2, r2, st2, 1) = [st |-> pre, extras |-> <<>>, rows |-> <<>>]
  <2>1. 1 \in 1 .. n + 1  BY <1>2
  <2> QED BY <1>6, <2>1 DEF Chain
<1>10. Len(r2.ops) <= Len(tr2)  BY SMTT(240), ZenonT(120), <1>2, <1>3, <1>5
<1> QED BY <1>3, <1>5, <1>8, <1>9, <1>10 DEF Chain, tr2

(* Undoing the last op. *)
LEMMA ChainPop ==
  ASSUME NEW tr \in Seq(Machine), NEW pre, NEW r \in BlockUndo, NEW st \in Store,
         Chain(tr, pre, r, st), r.ops # <<>>
  PROVE  LET op == Last(r.ops)
             m2 == revert(op, Tables(st, r))
             r2 == [ops |-> Front(r.ops), extras |-> m2.extras, rows |-> m2.rows]
         IN  /\ Consistent(op, Tables(st, r))
             /\ m2.st \in Store /\ Good(m2.st)
             /\ r2 \in BlockUndo
             /\ Chain(tr, pre, r2, m2.st)
<1> DEFINE n == Len(r.ops)
           op == Last(r.ops)
           m2 == revert(op, Tables(st, r))
           r2 == [ops |-> Front(r.ops), extras |-> m2.extras, rows |-> m2.rows]
<1>1. r.ops \in Seq(UndoOp)  BY DEF BlockUndo
<1>2. /\ n \in Nat \ {0} /\ Front(r.ops) \in Seq(UndoOp) /\ Len(Front(r.ops)) = n - 1
      /\ \A i \in 1 .. n - 1 : Front(r.ops)[i] = r.ops[i]
  BY ZenonT(240), SMTT(120), <1>1, FrontFacts
<1>3. op = r.ops[n]  BY DEF Last
<1>4. n \in 1 .. n /\ n # n + 1 /\ n \in 1 .. Len(tr)
  <2>1. Len(tr) \in Nat /\ n <= Len(tr)  BY DEF Chain
  <2> QED BY <1>2, <2>1
<1>5. Now(tr, r, st, n + 1) = Tables(st, r) /\ Now(tr, r, st, n) = tr[n]
  BY <1>4 DEF Now
<1>6. Inverts(op, Tables(st, r), tr[n]) /\ Good(tr[n].st)
  BY <1>3, <1>4, <1>5 DEF Chain
<1>7. Consistent(op, Tables(st, r)) /\ m2 = tr[n]  BY <1>6 DEF Inverts
<1> HIDE DEF m2, op, n
<1>8. tr[n] \in Machine  BY <1>4
<1>9. /\ m2.st \in Store /\ m2.extras \in Seq(Extra) /\ m2.rows \in Seq(Row)
      /\ m2 = [st |-> m2.st, extras |-> m2.extras, rows |-> m2.rows]
  BY <1>7, <1>8 DEF Machine
<1>10. r2 \in BlockUndo  BY <1>2, <1>9 DEF BlockUndo
<1>11. /\ r2.ops = Front(r.ops) /\ Tables(m2.st, r2) = m2
  BY <1>9 DEF Tables
<1> HIDE DEF r2
<1>12. Len(r2.ops) = n - 1 /\ Len(r2.ops) + 1 = n  BY <1>2, <1>11
<1>13. ASSUME NEW i \in 1 .. n  PROVE Now(tr, r2, m2.st, i) = Now(tr, r, st, i)
  <2>1. i # n + 1  BY <1>2
  <2>2. Now(tr, r, st, i) = tr[i]  BY <2>1 DEF Now, n
  <2>3. CASE i = n  BY SMTT(240), ZenonT(120), <1>7, <1>11, <1>12, <2>2, <2>3 DEF Now
  <2>4. CASE i # n  BY <1>12, <2>2, <2>4 DEF Now
  <2> QED BY <2>3, <2>4
<1>14. ASSUME NEW i \in 1 .. Len(r2.ops)
       PROVE  /\ Inverts(r2.ops[i], Now(tr, r2, m2.st, i + 1), Now(tr, r2, m2.st, i))
              /\ Good(tr[i].st)
  <2>1. i \in 1 .. n /\ i + 1 \in 1 .. n /\ i \in 1 .. n - 1  BY <1>2, <1>12
  <2>2. r2.ops[i] = r.ops[i]  BY <1>2, <1>11, <2>1
  <2>3. Inverts(r.ops[i], Now(tr, r, st, i + 1), Now(tr, r, st, i)) /\ Good(tr[i].st)
    BY <2>1 DEF Chain, n
  <2> QED BY <1>13, <2>1, <2>2, <2>3
<1>15. Now(tr, r2, m2.st, 1) = [st |-> pre, extras |-> <<>>, rows |-> <<>>]
  <2>1. 1 \in 1 .. n  BY <1>2
  <2> QED BY <1>13, <2>1 DEF Chain
<1>16. Len(r2.ops) <= Len(tr)
  <2>1. Len(tr) \in Nat /\ n <= Len(tr)  BY DEF Chain, n
  <2> QED BY SMTT(240), ZenonT(120), <1>2, <1>12, <2>1
<1>17. Chain(tr, pre, r2, m2.st)  BY <1>14, <1>15, <1>16 DEF Chain
<1> QED BY <1>6, <1>7, <1>9, <1>10, <1>17 DEF r2, m2, op

-----------------------------------------------------------------------------
(* The inductive invariant.  Outside unwind_to, and at each turn of its     *)
(* loop, every record still in the ring chains the state its block was left *)
(* in back to the state the block before was left in; while a record is     *)
(* being reverted, the rest of it chains the store back to that state.      *)
Cur == IF pc = "idle" THEN tip ELSE block
Top == IF pc = "revert" THEN block - 1 ELSE Cur
StoreAt(b) == IF b = Cur THEN store ELSE ended[b]

RecordOK(b) ==
    /\ Chain(trace[b], ended[b - 1], ring[slot_of(b)], StoreAt(b))
    /\ Len(trace[b]) = Len(ring[slot_of(b)].ops)

IInv ==
    /\ TypeOK
    /\ pc # "failed"
    /\ Good(store)
    /\ \A b \in Block : Good(ended[b])
    /\ pc # "idle" => floor <= target /\ target <= block /\ block <= tip
    /\ pc = "revert" => target < block
    /\ pc = "loop" /\ block < tip => store = ended[block]
    /\ \A b \in floor + 1 .. Top : RecordOK(b)
    /\ pc = "revert" => Chain(trace[block], ended[block - 1], rec, store)

LEMMA SlotFacts ==
  ASSUME TypeOK
  PROVE  /\ slot_of(tip) = head
         /\ \A b \in floor + 1 .. tip :
               /\ slot_of(b) \in 0 .. UNDO_DEPTH - 1
               /\ b \in Block /\ b - 1 \in Block
         /\ \A b, c \in floor + 1 .. tip : b # c => slot_of(b) # slot_of(c)
<1>1. /\ head \in 0 .. UNDO_DEPTH - 1 /\ tip \in Nat /\ floor \in Nat /\ tip - floor <= UNDO_DEPTH
      /\ UNDO_DEPTH \in Nat \ {0}
      /\ Base \in Nat /\ MaxTip \in Nat /\ Base <= floor /\ floor <= tip /\ tip <= MaxTip
  BY StoreAssumption DEF TypeOK, Block
<1>2. \A b : slot_of(b) = Behind(head, tip - b)  BY DEF slot_of, Behind
<1>3. slot_of(tip) = head
  <2>1. tip - tip = 0 /\ 0 \in 0 .. UNDO_DEPTH - 1 /\ 0 <= head /\ head - 0 = head  BY <1>1
  <2>2. Behind(head, 0) = head  BY <1>1, <2>1, BehindValue
  <2> QED BY <1>2, <2>1, <2>2
<1>4. ASSUME NEW b \in floor + 1 .. tip
      PROVE  /\ tip - b \in 0 .. UNDO_DEPTH - 1
             /\ slot_of(b) \in 0 .. UNDO_DEPTH - 1
             /\ b \in Block /\ b - 1 \in Block
  <2>1. tip - b \in 0 .. UNDO_DEPTH - 1  BY <1>1
  <2>2. Behind(head, tip - b) =
           IF tip - b <= head THEN head - (tip - b) ELSE (head + UNDO_DEPTH) - (tip - b)
    BY <1>1, <2>1, BehindValue
  <2>3. slot_of(b) \in 0 .. UNDO_DEPTH - 1  BY <1>1, <1>2, <2>1, <2>2
  <2> QED BY <1>1, <2>1, <2>3 DEF Block
<1>5. ASSUME NEW b \in floor + 1 .. tip, NEW c \in floor + 1 .. tip, b # c
      PROVE  slot_of(b) # slot_of(c)
  <2>1. tip - b # tip - c  BY <1>1, <1>5
  <2>2. tip - b \in 0 .. UNDO_DEPTH - 1 /\ tip - c \in 0 .. UNDO_DEPTH - 1  BY <1>4
  <2>3. Behind(head, tip - b) # Behind(head, tip - c)
    BY <1>1, <2>1, <2>2, BehindInjective
  <2> QED BY <1>2, <2>3
<1> QED BY <1>3, <1>4, <1>5

LEMMA EmptyStoreGood == EmptyStore \in Store /\ Good(EmptyStore)
<1>1. /\ EmptyStore.pos = <<>> /\ EmptyStore.order = <<>>
      /\ EmptyStore.cols = [m \in Market |-> <<>>]
      /\ EmptyStore.rows = [m \in Market |-> <<>>]
  BY DEF EmptyStore
<1>2. EmptyStore \in Store
  <2>1. <<>> \in Seq(Position) /\ <<>> \in Seq(Market) /\ <<>> \in Seq(Cells) /\ <<>> \in Seq(Row)
    OBVIOUS
  <2>2. /\ [m \in Market |-> <<>>] \in [Market -> Seq(Cells)]
        /\ [m \in Market |-> <<>>] \in [Market -> Seq(Row)]
    BY <2>1
  <2> QED BY <2>1, <2>2 DEF EmptyStore, Store
<1> HIDE DEF EmptyStore
<1>3. 1 .. Len(EmptyStore.pos) = {}  BY <1>1
<1>4. \A m \in Market : 1 .. Len(EmptyStore.cols[m]) = {} /\ EmptyStore.rows[m] = <<>>
                        /\ EmptyStore.cols[m] = <<>>
  <2>1. Len(<<>>) = 0 /\ 1 .. 0 = {}  OBVIOUS
  <2>2. \A m \in Market : EmptyStore.rows[m] = <<>> /\ EmptyStore.cols[m] = <<>>
    BY ZenonT(240), SMTT(120), <1>1
  <2> QED BY ZenonT(240), SMTT(120), <2>1, <2>2
<1>5. MaskExactIn(EmptyStore) /\ NoAliasingIn(EmptyStore)
  BY <1>3 DEF MaskExactIn, NoAliasingIn
<1>6. PaddingBlankIn(EmptyStore)  BY <1>4 DEF PaddingBlankIn
<1> QED BY <1>2, <1>4, <1>5, <1>6 DEF Good

LEMMA NoUndoType == NoUndo \in BlockUndo /\ NoUndo.ops = <<>>
<1>1. <<>> \in Seq(UndoOp) /\ <<>> \in Seq(Extra) /\ <<>> \in Seq(Row)  OBVIOUS
<1> QED BY <1>1 DEF NoUndo, BlockUndo

LEMMA InitIInv == Init => IInv
<1> SUFFICES ASSUME Init PROVE IInv  OBVIOUS
<1>1. Base \in Block  BY StoreAssumption DEF Block
<1>2. TypeOK
  <2>1. ring \in [0 .. UNDO_DEPTH - 1 -> BlockUndo]  BY NoUndoType DEF Init
  <2>2. head \in 0 .. UNDO_DEPTH - 1  BY StoreAssumption DEF Init
  <2>3. ended \in [Block -> Store]  BY EmptyStoreGood DEF Init
  <2>4. trace \in [Block -> Seq(Machine)]
    <3>1. <<>> \in Seq(Machine)  OBVIOUS
    <3> QED BY <3>1 DEF Init
  <2>5. tip - floor <= UNDO_DEPTH /\ floor <= tip  BY <1>1, StoreAssumption DEF Init
  <2> QED BY SMTT(240), ZenonT(120), <1>1, <2>1, <2>2, <2>3, <2>4, <2>5, EmptyStoreGood, NoUndoType DEF Init, TypeOK
<1>3. \A b \in Block : Good(ended[b])  BY EmptyStoreGood DEF Init
<1>4. floor + 1 .. Top = {}  BY StoreAssumption DEF Init, Top, Cur
<1> QED BY <1>2, <1>3, <1>4, EmptyStoreGood DEF Init, IInv

LEMMA SameRecord ==
  ASSUME NEW b, RecordOK(b),
         trace'[b] = trace[b], ended'[b - 1] = ended[b - 1],
         ring'[slot_of(b)'] = ring[slot_of(b)], StoreAt(b)' = StoreAt(b)
  PROVE  RecordOK(b)'
  BY DEF RecordOK

LEMMA BeginIInv == IInv /\ begin_block => IInv'
<1> SUFFICES ASSUME IInv, begin_block PROVE IInv'  OBVIOUS
<1>1. /\ head \in 0 .. UNDO_DEPTH - 1 /\ tip \in Nat /\ floor \in Nat /\ tip - floor <= UNDO_DEPTH
      /\ UNDO_DEPTH \in Nat \ {0} /\ tip \in Block /\ floor \in Block
      /\ Base \in Nat /\ MaxTip \in Nat /\ Base <= floor /\ floor <= tip /\ tip < MaxTip
  BY StoreAssumption DEF IInv, TypeOK, Block, begin_block
<1>2. /\ pc = "idle" /\ pc' = "idle" /\ tip' = tip + 1 /\ head' = wrap(head + 1)
      /\ ring' = [ring EXCEPT ![head'] = NoUndo]
      /\ ended' = [ended EXCEPT ![tip] = store]
      /\ trace' = [trace EXCEPT ![tip + 1] = <<>>]
      /\ store' = store
  BY DEF begin_block
<1>3. /\ head' \in 0 .. UNDO_DEPTH - 1
      /\ \A d \in 0 .. UNDO_DEPTH - 2 : /\ Behind(head', d + 1) = Behind(head, d)
                                        /\ Behind(head, d) # head'
  BY ZenonT(240), SMTT(120), <1>1, <1>2, BehindAdvance
<1>4. /\ floor' \in Block /\ floor <= floor' /\ floor' <= tip' /\ tip' - floor' <= UNDO_DEPTH
      /\ tip' \in Block /\ floor' \in Nat
  BY <1>1, <1>2 DEF begin_block, Block
<1>f. PICK f \in Nat : /\ floor' = f /\ f \in Block /\ floor <= f
                       /\ f <= tip + 1 /\ (tip + 1) - f <= UNDO_DEPTH
  BY <1>2, <1>4
<1>5. TypeOK'
  <2>1. ring' \in [0 .. UNDO_DEPTH - 1 -> BlockUndo]
    BY SMTT(240), ZenonT(120), <1>2, <1>3, NoUndoType DEF IInv, TypeOK
  <2>2. ended' \in [Block -> Store]  BY <1>2 DEF IInv, TypeOK
  <2>3. trace' \in [Block -> Seq(Machine)]
    <3>1. <<>> \in Seq(Machine)  OBVIOUS
    <3> QED BY <1>2, <1>4, <3>1 DEF IInv, TypeOK
  <2> QED BY ZenonT(240), SMTT(120), <1>2, <1>3, <1>4, <2>1, <2>2, <2>3 DEF IInv, TypeOK, begin_block
<1>6. \A b \in Block : Good(ended'[b])  BY <1>2 DEF IInv, TypeOK
<1>7. /\ \A b : slot_of(b) = Behind(head, tip - b)
      /\ \A b : slot_of(b)' = Behind(head', tip' - b)
  BY SMTT(240), ZenonT(120) DEF slot_of, Behind
<1>8. ASSUME NEW b \in f + 1 .. tip  PROVE RecordOK(b)'
  <2>1. /\ b \in floor + 1 .. tip /\ tip - b \in 0 .. UNDO_DEPTH - 2 /\ tip' - b = (tip - b) + 1
        /\ b # tip + 1 /\ b - 1 # tip /\ b \in Block /\ b - 1 \in Block
    <3>1. b \in Nat /\ f + 1 <= b /\ b <= tip  BY <1>1
    <3>2. b \in floor + 1 .. tip /\ b # tip + 1 /\ b - 1 # tip  BY <1>1, <1>f, <3>1
    <3>3. tip - b \in 0 .. UNDO_DEPTH - 2  BY <1>1, <1>f, <3>1
    <3>4. tip' - b = (tip - b) + 1  BY <1>1, <1>2, <3>1
    <3>5. b \in Block /\ b - 1 \in Block  BY SMTT(240), ZenonT(120), <1>1, <1>f, <3>1 DEF Block
    <3> QED BY <3>2, <3>3, <3>4, <3>5
  <2>2. RecordOK(b)  BY <1>2, <2>1 DEF IInv, Top, Cur
  <2>3. slot_of(b)' = slot_of(b) /\ slot_of(b) # head'
    BY <1>3, <1>7, <2>1
  <2>4. slot_of(b) \in 0 .. UNDO_DEPTH - 1  BY <2>1, SlotFacts DEF IInv
  <2>5. ring'[slot_of(b)'] = ring[slot_of(b)]
    BY SMTT(240), ZenonT(120), <1>2, <2>3, <2>4 DEF IInv, TypeOK
  <2>6. trace'[b] = trace[b] /\ ended'[b - 1] = ended[b - 1]
    BY <1>2, <2>1 DEF IInv, TypeOK
  <2>7. StoreAt(b)' = StoreAt(b)
    <3>1. CASE b = tip
      BY SMTT(240), ZenonT(120), <1>1, <1>2, <3>1 DEF StoreAt, Cur, IInv, TypeOK
    <3>2. CASE b # tip
      BY SMTT(240), ZenonT(120), <1>1, <1>2, <2>1, <3>2 DEF StoreAt, Cur, IInv, TypeOK
    <3> QED BY SMTT(240), ZenonT(120), <3>1, <3>2
  <2> QED BY SMTT(240), ZenonT(120), <2>2, <2>5, <2>6, <2>7, SameRecord
<1>9. ASSUME NEW b, b = tip + 1  PROVE RecordOK(b)'
  <2>1. slot_of(b)' = head'
    <3>1. tip' - b = 0 /\ 0 \in 0 .. UNDO_DEPTH - 1 /\ 0 <= head' /\ head' - 0 = head'
      BY <1>1, <1>2, <1>3, <1>9
    <3>2. Behind(head', 0) = head'  BY SMTT(240), ZenonT(120), <1>3, <3>1, BehindValue
    <3> QED BY <1>7, <3>1, <3>2
  <2>2. ring'[head'] = NoUndo  BY SMTT(240), ZenonT(120), <1>2, <1>3 DEF IInv, TypeOK
  <2>3. trace'[b] = <<>>  BY SMTT(240), ZenonT(120), <1>2, <1>4, <1>9 DEF IInv, TypeOK
  <2>4. b - 1 = tip /\ ended'[tip] = store  BY <1>1, <1>2, <1>9 DEF IInv, TypeOK
  <2>5. StoreAt(b)' = store  BY <1>2, <1>9 DEF StoreAt, Cur
  <2>6. <<>> \in Seq(Machine) /\ Len(<<>>) = 0  OBVIOUS
  <2>7. Chain(<<>>, store, NoUndo, store)  BY ZenonT(240), SMTT(120), <2>6, ChainNew
  <2>8. Len(NoUndo.ops) = 0  BY NoUndoType, <2>6
  <2> QED BY SMTT(240), ZenonT(120), <2>1, <2>2, <2>3, <2>4, <2>5, <2>6, <2>7, <2>8 DEF RecordOK
<1>10. \A b \in floor' + 1 .. Top' : RecordOK(b)'
  <2>1. Top' = tip + 1  BY <1>2 DEF Top, Cur
  <2>2. \A b \in f + 1 .. tip + 1 : b = tip + 1 \/ b \in f + 1 .. tip
    BY <1>1
  <2> QED BY <1>8, <1>9, <1>f, <2>1, <2>2
<1> QED BY <1>2, <1>5, <1>6, <1>10 DEF IInv

LEMMA SetterIInv == IInv /\ Setter => IInv'
<1> SUFFICES ASSUME IInv, Setter PROVE IInv'  OBVIOUS
<1>1. PICK op, st2, r2 : /\ Journaled(store, ring[head], op, st2, r2)
                         /\ JournalThenWrite(st2, r2)
  BY SetterStep DEF IInv
<1>2. /\ pc = "idle" /\ store' = st2 /\ writes' = writes + 1
      /\ head' = head /\ tip' = tip /\ floor' = floor /\ pc' = pc /\ target' = target
      /\ block' = block /\ rec' = rec /\ ended' = ended
      /\ tip = floor => ring' = ring /\ trace' = trace
      /\ tip # floor => /\ ring' = [ring EXCEPT ![head] = r2]
                        /\ trace' = [trace EXCEPT ![tip] = Append(trace[tip], Tables(store, ring[head]))]
  BY <1>1 DEF JournalThenWrite, Tables
<1>3. /\ st2 \in Store /\ Good(st2) /\ r2 \in BlockUndo  BY SMTT(240), ZenonT(120), <1>1 DEF Journaled
<1>4. /\ store \in Store /\ ring \in [0 .. UNDO_DEPTH - 1 -> BlockUndo]
      /\ head \in 0 .. UNDO_DEPTH - 1 /\ tip \in Block /\ floor \in Block /\ floor <= tip
      /\ trace \in [Block -> Seq(Machine)] /\ writes \in Nat /\ Good(store) /\ TypeOK
  BY DEF IInv, TypeOK
<1>5. tip \in Nat /\ floor \in Nat  BY SMTT(240), ZenonT(120), <1>4, StoreAssumption DEF Block
<1>6. CASE tip = floor
  <2>1. TypeOK'  BY SMTT(240), ZenonT(120), <1>2, <1>3, <1>4, <1>6 DEF TypeOK
  <2>2. floor' + 1 .. Top' = {}  BY SMTT(240), ZenonT(120), <1>2, <1>5, <1>6 DEF Top, Cur
  <2> QED BY SMTT(240), ZenonT(120), <1>2, <1>3, <2>1, <2>2 DEF IInv
<1>7. CASE tip # floor
  <2>1. tip \in floor + 1 .. tip  BY SMTT(240), ZenonT(120), <1>4, <1>5, <1>7
  <2>2. RecordOK(tip)  BY <1>2, <2>1 DEF IInv, Top, Cur
  <2>3. slot_of(tip) = head /\ \A b \in floor + 1 .. tip : b # tip => slot_of(b) # head
    BY SMTT(240), ZenonT(120), <1>4, <2>1, SlotFacts
  <2>4. /\ Chain(trace[tip], ended[tip - 1], ring[head], store)
        /\ Len(trace[tip]) = Len(ring[head].ops)
    BY <1>2, <2>2, <2>3 DEF RecordOK, StoreAt, Cur
  <2>5. trace[tip] \in Seq(Machine) /\ ring[head] \in BlockUndo  BY <1>4
  <2> DEFINE tr2 == Append(trace[tip], Tables(store, ring[head]))
  <2>6. /\ Chain(tr2, ended[tip - 1], r2, st2)
        /\ tr2 \in Seq(Machine) /\ Len(tr2) = Len(r2.ops)
    BY SMTT(240), ZenonT(120), <1>1, <1>4, <2>4, <2>5, ChainPush
  <2> HIDE DEF tr2
  <2>7. /\ ring' = [ring EXCEPT ![head] = r2] /\ trace' = [trace EXCEPT ![tip] = tr2]
    BY SMTT(240), ZenonT(120), <1>2, <1>7 DEF tr2
  <2>8. TypeOK'
    <3>1. ring' \in [0 .. UNDO_DEPTH - 1 -> BlockUndo]  BY <1>3, <1>4, <2>7
    <3>2. trace' \in [Block -> Seq(Machine)]  BY SMTT(240), ZenonT(120), <1>4, <2>6, <2>7
    <3> QED BY SMTT(240), ZenonT(120), <1>2, <1>3, <1>4, <3>1, <3>2 DEF TypeOK
  <2>9. \A b : slot_of(b)' = slot_of(b)  BY <1>2 DEF slot_of
  <2>10. ASSUME NEW b, b = tip PROVE RecordOK(b)'
    <3>1. ring'[slot_of(b)'] = r2 /\ trace'[b] = tr2
      BY SMTT(240), ZenonT(120), <1>4, <2>3, <2>7, <2>9, <2>10
    <3>2. StoreAt(b)' = st2  BY <1>2, <2>10 DEF StoreAt, Cur
    <3> QED BY SMTT(240), ZenonT(120), <1>2, <2>6, <2>10, <3>1, <3>2 DEF RecordOK
  <2>11. ASSUME NEW b \in floor + 1 .. tip, b # tip PROVE RecordOK(b)'
    <3>1. RecordOK(b)  BY <1>2 DEF IInv, Top, Cur
    <3>2. slot_of(b) \in 0 .. UNDO_DEPTH - 1 /\ b \in Block  BY <1>4, SlotFacts
    <3>3. ring'[slot_of(b)'] = ring[slot_of(b)] /\ trace'[b] = trace[b]
      BY SMTT(240), ZenonT(120), <1>4, <2>3, <2>7, <2>9, <2>11, <3>2
    <3>4. StoreAt(b)' = StoreAt(b)  BY <1>2, <2>11 DEF StoreAt, Cur
    <3> QED BY SMTT(240), ZenonT(120), <1>2, <3>1, <3>3, <3>4, SameRecord
  <2>13. \A b \in floor' + 1 .. Top' : RecordOK(b)'
    <3>1. floor' = floor /\ Top' = tip  BY SMTT(240), ZenonT(120), <1>2 DEF Top, Cur
    <3> QED BY <2>10, <2>11, <3>1
  <2> QED BY <1>2, <1>3, <2>8, <2>13 DEF IInv
<1> QED BY <1>6, <1>7

LEMMA UnwindIInv == ASSUME NEW t \in Block PROVE IInv /\ unwind_to(t) => IInv'
<1> SUFFICES ASSUME IInv, unwind_to(t) PROVE IInv'  OBVIOUS
<1>1. /\ pc = "idle" /\ pc' = "loop" /\ target' = t /\ block' = tip /\ t <= tip /\ floor <= t
      /\ store' = store /\ ring' = ring /\ head' = head /\ tip' = tip /\ floor' = floor
      /\ rec' = rec /\ ended' = ended /\ trace' = trace /\ writes' = writes
  BY SMTT(240), ZenonT(120), StoreAssumption DEF unwind_to, IInv, TypeOK, Block
<1>2. TypeOK'  BY SMTT(240), ZenonT(120), <1>1 DEF IInv, TypeOK
<1>3. tip <= tip /\ ~(tip < tip)  BY StoreAssumption DEF IInv, TypeOK, Block
<1>4. \A b \in floor + 1 .. tip : RecordOK(b)  BY <1>1 DEF IInv, Top, Cur
<1>5. \A b : slot_of(b)' = slot_of(b) /\ StoreAt(b)' = StoreAt(b)
  BY <1>1 DEF slot_of, StoreAt, Cur
<1>6. Top' = tip  BY <1>1 DEF Top, Cur
<1>7. \A b \in floor' + 1 .. Top' : RecordOK(b)'
  BY SMTT(240), ZenonT(120), <1>1, <1>4, <1>5, <1>6, SameRecord
<1> QED BY <1>1, <1>2, <1>3, <1>7 DEF IInv

LEMMA TakeIInv == IInv /\ take => IInv'
<1> SUFFICES ASSUME IInv, take PROVE IInv'  OBVIOUS
<1>1. /\ pc = "loop" /\ pc' = "revert" /\ target < block
      /\ rec' = ring[slot_of(block)]
      /\ ring' = [ring EXCEPT ![slot_of(block)] = NoUndo]
      /\ store' = store /\ head' = head /\ tip' = tip /\ floor' = floor
      /\ target' = target /\ block' = block
      /\ ended' = ended /\ trace' = trace /\ writes' = writes
  BY SMTT(240), ZenonT(120), StoreAssumption DEF take, IInv, TypeOK, Block
<1>2. /\ floor <= target /\ target <= block /\ block <= tip
      /\ floor \in Nat /\ target \in Nat /\ block \in Nat /\ tip \in Nat /\ TypeOK
  BY SMTT(240), ZenonT(120), <1>1, StoreAssumption DEF IInv, TypeOK, Block
<1>3. block \in floor + 1 .. tip /\ block \in floor + 1 .. block  BY <1>1, <1>2
<1>4. slot_of(block) \in 0 .. UNDO_DEPTH - 1  BY SMTT(240), ZenonT(120), <1>2, <1>3, SlotFacts
<1>5. RecordOK(block) /\ StoreAt(block) = store
  BY <1>1, <1>3 DEF IInv, Top, Cur, StoreAt
<1>6. Chain(trace[block], ended[block - 1], rec', store)
  BY SMTT(240), ZenonT(120), <1>1, <1>5 DEF RecordOK
<1>7. TypeOK'
  <2>1. rec' \in BlockUndo  BY SMTT(240), ZenonT(120), <1>1, <1>4 DEF IInv, TypeOK
  <2>2. ring' \in [0 .. UNDO_DEPTH - 1 -> BlockUndo]
    BY SMTT(240), ZenonT(120), <1>1, <1>4, NoUndoType DEF IInv, TypeOK
  <2> QED BY SMTT(240), ZenonT(120), <1>1, <2>1, <2>2 DEF IInv, TypeOK
<1>8. ASSUME NEW b \in floor + 1 .. block - 1 PROVE RecordOK(b)'
  <2>1. b \in floor + 1 .. block /\ b \in floor + 1 .. tip /\ b # block  BY SMTT(240), ZenonT(120), <1>2
  <2>2. RecordOK(b)  BY <1>1, <2>1 DEF IInv, Top, Cur
  <2>3. slot_of(b) # slot_of(block) /\ slot_of(b) \in 0 .. UNDO_DEPTH - 1
    BY SMTT(240), ZenonT(120), <1>2, <1>3, <2>1, SlotFacts
  <2>4. slot_of(b)' = slot_of(b)  BY SMTT(240), ZenonT(120), <1>1 DEF slot_of
  <2>5. ring'[slot_of(b)'] = ring[slot_of(b)]  BY <1>1, <2>3, <2>4 DEF IInv, TypeOK
  <2>6. StoreAt(b)' = StoreAt(b)  BY <1>1, <2>1 DEF StoreAt, Cur
  <2> QED BY SMTT(240), ZenonT(120), <1>1, <2>2, <2>5, <2>6, SameRecord
<1>9. Top' = block - 1  BY <1>1 DEF Top
<1>10. \A b \in floor' + 1 .. Top' : RecordOK(b)'  BY SMTT(240), ZenonT(120), <1>1, <1>8, <1>9
<1> QED BY SMTT(240), ZenonT(120), <1>1, <1>2, <1>6, <1>7, <1>10 DEF IInv

LEMMA RevertIInv == IInv /\ RevertOp => IInv'
<1> SUFFICES ASSUME IInv, RevertOp PROVE IInv'  OBVIOUS
<1> DEFINE op == Last(rec.ops)
           m2 == revert(op, Tables(store, rec))
           r2 == [ops |-> Front(rec.ops), extras |-> m2.extras, rows |-> m2.rows]
<1> HIDE DEF op, m2, r2
<1>1. /\ pc = "revert" /\ rec.ops # <<>>
      /\ ring' = ring /\ head' = head /\ tip' = tip /\ floor' = floor
      /\ target' = target /\ block' = block
      /\ ended' = ended /\ trace' = trace /\ writes' = writes
      /\ Consistent(op, Tables(store, rec)) => store' = m2.st /\ rec' = r2 /\ pc' = pc
  <2>1. /\ pc = "revert" /\ rec.ops # <<>>
        /\ ring' = ring /\ head' = head /\ tip' = tip /\ floor' = floor
        /\ target' = target /\ block' = block
        /\ ended' = ended /\ trace' = trace /\ writes' = writes
    BY DEF RevertOp
  <2>2. Consistent(op, Tables(store, rec)) => store' = m2.st /\ rec' = r2 /\ pc' = pc
    BY ZenonT(240), SMTT(120) DEF RevertOp, Tables, op, m2, r2
  <2> QED BY ZenonT(240), SMTT(120), <2>1, <2>2
<1>2. /\ Chain(trace[block], ended[block - 1], rec, store)
      /\ trace[block] \in Seq(Machine) /\ rec \in BlockUndo /\ store \in Store
  BY ZenonT(240), SMTT(120), <1>1 DEF IInv, TypeOK
<1>3. /\ Consistent(op, Tables(store, rec))
      /\ m2.st \in Store /\ Good(m2.st) /\ r2 \in BlockUndo
      /\ Chain(trace[block], ended[block - 1], r2, m2.st)
  BY SMTT(240), ZenonT(120), <1>1, <1>2, ChainPop DEF op, m2, r2
<1>4. store' = m2.st /\ rec' = r2 /\ pc' = pc  BY ZenonT(240), SMTT(120), <1>1, <1>3
<1>5. TypeOK'  BY ZenonT(240), SMTT(120), <1>1, <1>3, <1>4 DEF IInv, TypeOK
<1>6. /\ floor \in Nat /\ block \in Nat  BY SMTT(240), ZenonT(120), StoreAssumption DEF IInv, TypeOK, Block
<1>7. Top' = block - 1 /\ Top = block - 1  BY ZenonT(240), SMTT(120), <1>1, <1>4 DEF Top
<1>8. ASSUME NEW b \in floor + 1 .. block - 1 PROVE RecordOK(b)'
  <2>1. b # block  BY <1>6
  <2>2. RecordOK(b)  BY SMTT(240), ZenonT(120), <1>7 DEF IInv
  <2>3. slot_of(b)' = slot_of(b)  BY <1>1 DEF slot_of
  <2>4. StoreAt(b)' = StoreAt(b)  BY SMTT(240), ZenonT(120), <1>1, <1>4, <2>1 DEF StoreAt, Cur
  <2> QED BY ZenonT(240), SMTT(120), <1>1, <2>2, <2>3, <2>4, SameRecord
<1>9. \A b \in floor' + 1 .. Top' : RecordOK(b)'  BY SMTT(240), ZenonT(120), <1>1, <1>7, <1>8
<1> QED BY SMTT(240), ZenonT(120), <1>1, <1>3, <1>4, <1>5, <1>9 DEF IInv

LEMMA PutIInv == IInv /\ put => IInv'
<1> SUFFICES ASSUME IInv, put PROVE IInv'  OBVIOUS
<1>1. /\ pc = "revert" /\ pc' = "loop" /\ rec.ops = <<>> /\ rec' = NoUndo
      /\ ring' = [ring EXCEPT ![slot_of(block)] = NoUndo]
      /\ block' = block - 1
      /\ store' = store /\ head' = head /\ tip' = tip /\ floor' = floor /\ target' = target
      /\ ended' = ended /\ trace' = trace /\ writes' = writes
  BY SMTT(240), ZenonT(120) DEF put
<1>2. /\ floor <= target /\ target < block /\ block <= tip
      /\ floor \in Nat /\ target \in Nat /\ block \in Nat /\ tip \in Nat /\ TypeOK
      /\ Base \in Nat /\ Base <= floor /\ tip <= MaxTip /\ MaxTip \in Nat
  BY SMTT(240), ZenonT(120), <1>1, StoreAssumption DEF IInv, TypeOK, Block
<1>3. store = ended[block - 1]
  <2>1. Chain(trace[block], ended[block - 1], rec, store)  BY <1>1 DEF IInv
  <2> QED BY SMTT(240), ZenonT(120), <1>1, <2>1, ChainEmpty
<1>4. block \in floor + 1 .. tip /\ target <= block - 1 /\ block - 1 <= tip /\ block - 1 \in Block
  BY <1>2 DEF Block
<1>5. slot_of(block) \in 0 .. UNDO_DEPTH - 1  BY SMTT(240), ZenonT(120), <1>2, <1>4, SlotFacts
<1>6. TypeOK'
  <2>1. ring' \in [0 .. UNDO_DEPTH - 1 -> BlockUndo]
    BY SMTT(240), ZenonT(120), <1>1, <1>5, NoUndoType DEF IInv, TypeOK
  <2> QED BY SMTT(240), ZenonT(120), <1>1, <1>4, <2>1, NoUndoType DEF IInv, TypeOK
<1>7. ASSUME NEW b \in floor + 1 .. block - 1 PROVE RecordOK(b)'
  <2>1. b \in floor + 1 .. tip /\ b # block  BY SMTT(240), ZenonT(120), <1>2
  <2>2. RecordOK(b)  BY <1>1 DEF IInv, Top
  <2>3. slot_of(b) # slot_of(block) /\ slot_of(b) \in 0 .. UNDO_DEPTH - 1
    BY SMTT(240), ZenonT(120), <1>2, <1>4, <2>1, SlotFacts
  <2>4. slot_of(b)' = slot_of(b)  BY SMTT(240), ZenonT(120), <1>1 DEF slot_of
  <2>5. ring'[slot_of(b)'] = ring[slot_of(b)]  BY SMTT(240), ZenonT(120), <1>1, <2>3, <2>4 DEF IInv, TypeOK
  <2>6. StoreAt(b)' = StoreAt(b)  BY <1>1, <1>3, <2>1 DEF StoreAt, Cur
  <2> QED BY SMTT(240), ZenonT(120), <1>1, <2>2, <2>5, <2>6, SameRecord
<1>8. Top' = block - 1  BY <1>1 DEF Top, Cur
<1>9. \A b \in floor' + 1 .. Top' : RecordOK(b)'  BY SMTT(240), ZenonT(120), <1>1, <1>7, <1>8
<1> QED BY SMTT(240), ZenonT(120), <1>1, <1>2, <1>3, <1>4, <1>6, <1>9 DEF IInv

LEMMA RewindIInv == IInv /\ rewind => IInv'
<1> SUFFICES ASSUME IInv, rewind PROVE IInv'  OBVIOUS
<1>1. /\ pc = "loop" /\ pc' = "idle" /\ block = target
      /\ head' = Behind(head, tip - target) /\ tip' = target
      /\ store' = store /\ ring' = ring /\ floor' = floor /\ target' = target /\ block' = block
      /\ rec' = rec /\ ended' = ended /\ trace' = trace /\ writes' = writes
  BY SMTT(240), ZenonT(120) DEF rewind, Behind
<1>2. /\ floor <= target /\ target <= tip /\ tip - floor <= UNDO_DEPTH
      /\ floor \in Nat /\ target \in Nat /\ tip \in Nat
      /\ head \in 0 .. UNDO_DEPTH - 1 /\ UNDO_DEPTH \in Nat \ {0}
  BY <1>1, StoreAssumption DEF IInv, TypeOK, Block
<1>3. tip - target \in 0 .. UNDO_DEPTH  BY <1>2
<1>4. head' \in 0 .. UNDO_DEPTH - 1
  <2>1. CASE tip - target = UNDO_DEPTH  BY <1>1, <1>2, <2>1, BehindTurn
  <2>2. CASE tip - target # UNDO_DEPTH
    <3>1. tip - target \in 0 .. UNDO_DEPTH - 1  BY <1>2, <1>3, <2>2
    <3>2. Behind(head, tip - target) =
            IF tip - target <= head THEN head - (tip - target)
                                    ELSE (head + UNDO_DEPTH) - (tip - target)
      BY <1>2, <3>1, BehindValue
    <3>3. Behind(head, tip - target) \in 0 .. UNDO_DEPTH - 1  BY SMTT(240), ZenonT(120), <1>2, <3>1, <3>2
    <3> QED BY <1>1, <3>3
  <2> QED BY <2>1, <2>2
<1>5. TypeOK'
  <2>1. target - floor <= UNDO_DEPTH  BY <1>2
  <2> QED BY <1>1, <1>2, <1>4, <2>1 DEF IInv, TypeOK
<1>6. ASSUME NEW b \in floor + 1 .. target PROVE RecordOK(b)'
  <2>1. b \in Nat /\ target - b \in Nat /\ (target - b) + (tip - target) < UNDO_DEPTH
        /\ (target - b) + (tip - target) = tip - b
    BY <1>2
  <2>2. Behind(Behind(head, tip - target), target - b) = Behind(head, (target - b) + (tip - target))
    BY SMTT(240), ZenonT(120), <1>2, <1>3, <2>1, BehindAdd
  <2>3. slot_of(b)' = slot_of(b)
    <3>1. slot_of(b)' = Behind(head', tip' - b) /\ slot_of(b) = Behind(head, tip - b)
      BY DEF slot_of, Behind
    <3> QED BY SMTT(240), ZenonT(120), <1>1, <2>1, <2>2, <3>1
  <2>4. RecordOK(b)  BY <1>1 DEF IInv, Top, Cur
  <2>5. StoreAt(b)' = StoreAt(b)  BY <1>1 DEF StoreAt, Cur
  <2> QED BY SMTT(240), ZenonT(120), <1>1, <2>3, <2>4, <2>5, SameRecord
<1>7. Top' = target  BY <1>1 DEF Top, Cur
<1>8. \A b \in floor' + 1 .. Top' : RecordOK(b)'  BY SMTT(240), ZenonT(120), <1>1, <1>6, <1>7
<1> QED BY <1>1, <1>5, <1>8 DEF IInv

LEMMA StutterIInv == IInv /\ UNCHANGED vars => IInv'
<1> SUFFICES ASSUME IInv, UNCHANGED vars PROVE IInv'  OBVIOUS
<1>1. /\ store' = store /\ writes' = writes /\ ring' = ring /\ head' = head /\ tip' = tip
      /\ floor' = floor /\ pc' = pc /\ target' = target /\ block' = block /\ rec' = rec
      /\ ended' = ended /\ trace' = trace
  BY SMTT(240), ZenonT(120) DEF vars
<1>2. TypeOK'  BY <1>1 DEF IInv, TypeOK
<1>3. \A b : slot_of(b)' = slot_of(b) /\ StoreAt(b)' = StoreAt(b)
  BY <1>1 DEF slot_of, StoreAt, Cur
<1>4. Top' = Top  BY SMTT(240), ZenonT(120), <1>1 DEF Top, Cur
<1>5. \A b \in floor' + 1 .. Top' : RecordOK(b)'
  <2>1. \A b \in floor + 1 .. Top : RecordOK(b)  BY DEF IInv
  <2> QED BY <1>1, <1>3, <1>4, <2>1, SameRecord
<1> QED BY <1>1, <1>2, <1>5 DEF IInv

(* The inductive invariant holds in every reachable state. *)
THEOREM Invariance == Spec => []IInv
<1>1. Init => IInv  BY InitIInv
<1>2. IInv /\ [Next]_vars => IInv'
  <2> SUFFICES ASSUME IInv, [Next]_vars PROVE IInv'  OBVIOUS
  <2>1. CASE begin_block  BY <2>1, BeginIInv
  <2>2. CASE Setter  BY <2>2, SetterIInv
  <2>3. ASSUME NEW t \in Block, unwind_to(t) PROVE IInv'  BY SMTT(240), ZenonT(120), <2>3, UnwindIInv
  <2>4. CASE take  BY <2>4, TakeIInv
  <2>5. CASE RevertOp  BY <2>5, RevertIInv
  <2>6. CASE put  BY <2>6, PutIInv
  <2>7. CASE rewind  BY <2>7, RewindIInv
  <2>8. CASE UNCHANGED vars  BY <2>8, StutterIInv
  <2> QED BY SMTT(240), ZenonT(120), <2>1, <2>2, <2>3, <2>4, <2>5, <2>6, <2>7, <2>8 DEF Next
<1> QED BY <1>1, <1>2, PTL DEF Spec

(* Every variable of the store, the ring and unwind_to keeps its type. *)
THEOREM TypeCorrect == Spec => []TypeOK
<1>1. IInv => TypeOK  BY DEF IInv
<1> QED BY <1>1, Invariance, PTL

(* unwind_to never meets a record that does not match the state it is      *)
(* applied to, whatever sequence of blocks, writes and unwinds came before.*)
THEOREM UnwindNeverInconsistent == Spec => []NeverInconsistent
<1>1. IInv => NeverInconsistent  BY DEF IInv, NeverInconsistent
<1> QED BY <1>1, Invariance, PTL

(* The mask, padding and aliasing invariants of the columns hold at every   *)
(* moment, also half-way through an unwind.                                 *)
THEOREM ColumnsGood == Spec => [](MaskExact /\ PaddingBlank /\ NoAliasing)
<1>1. IInv => MaskExact /\ PaddingBlank /\ NoAliasing
  BY DEF IInv, Good, MaskExact, PaddingBlank, NoAliasing
<1> QED BY <1>1, Invariance, PTL

(* unwind_to(t) leaves exactly the state block t was left in. *)
THEOREM UnwindIsExact == Spec => UnwindExact
<1>1. IInv /\ [Next]_vars => [rewind /\ target < tip => store' = ended[target]]_vars
  <2> SUFFICES ASSUME IInv, rewind, target < tip PROVE store' = ended[target]
    OBVIOUS
  <2>1. pc = "loop" /\ block = target /\ store' = store  BY DEF rewind
  <2> QED BY <2>1 DEF IInv
<1> QED BY <1>1, Invariance, PTL DEF Spec, UnwindExact
-----------------------------------------------------------------------------
(* StateStore implements VersionedStore. *)

LEMMA AbstractInit == Init => Abstract!Init
<1> SUFFICES ASSUME Init PROVE Abstract!Init  OBVIOUS
<1>1. Base \in Block  BY StoreAssumption DEF Block
<1>2. ended \in [Block -> Store]  BY EmptyStoreGood DEF Init
<1>3. pc = "idle" /\ store = EmptyStore /\ tip = Base /\ floor = Base  BY DEF Init
<1> QED BY SMTT(240), ZenonT(120), <1>1, <1>2, <1>3, EmptyStoreGood DEF Abstract!Init

LEMMA AbstractStep == IInv /\ IInv' /\ [Next]_vars => [Abstract!Next]_(Abstract!vars)
<1> SUFFICES ASSUME IInv, IInv', [Next]_vars
             PROVE  [Abstract!Next]_(Abstract!vars)
  OBVIOUS
<1>0. /\ tip \in Nat /\ floor \in Nat /\ target \in Nat /\ block \in Nat /\ floor <= tip
      /\ store \in Store /\ store' \in Store
  BY SMTT(240), ZenonT(120), StoreAssumption DEF IInv, TypeOK, Block
<1>1. CASE begin_block
  <2>1. /\ pc = "idle" /\ pc' = "idle" /\ tip' = tip + 1 /\ tip + 1 \in Block
        /\ ended' = [ended EXCEPT ![tip] = store]
        /\ floor' = IF tip' - floor > UNDO_DEPTH THEN tip' - UNDO_DEPTH ELSE floor
        /\ store' = store
    BY SMTT(240), ZenonT(120), <1>1, StoreAssumption DEF begin_block, IInv, TypeOK, Block
  <2>2. Abstract!Begin  BY <2>1 DEF Abstract!Begin
  <2> QED BY SMTT(240), ZenonT(120), <2>2 DEF Abstract!Next
<1>2. CASE Setter
  <2>1. PICK op, st2, r2 : JournalThenWrite(st2, r2)
    BY ZenonT(240), SMTT(120), <1>2, SetterStep DEF IInv
  <2>2. /\ pc = "idle" /\ pc' = "idle" /\ tip' = tip /\ floor' = floor /\ ended' = ended
    BY <2>1 DEF JournalThenWrite
  <2>3. Abstract!Write  BY <1>0, <2>2 DEF Abstract!Write
  <2> QED BY SMTT(240), ZenonT(120), <2>3 DEF Abstract!Next
<1>3. ASSUME NEW t \in Block, unwind_to(t) PROVE [Abstract!Next]_(Abstract!vars)
  <2>1. /\ pc = "idle" /\ pc' = "loop" /\ target' = t /\ t <= tip /\ floor <= t /\ t \in Nat
        /\ store' = store /\ tip' = tip /\ floor' = floor /\ ended' = ended
    BY SMTT(240), ZenonT(120), <1>3, StoreAssumption DEF unwind_to, IInv, TypeOK, Block
  <2>2. CASE t < tip
    <3>1. t \in floor .. tip - 1  BY SMTT(240), ZenonT(120), <1>0, <2>1, <2>2
    <3>2. Abstract!Unwind(t)  BY SMTT(240), ZenonT(120), <2>1, <2>2 DEF Abstract!Unwind
    <3> QED BY SMTT(240), ZenonT(120), <2>1, <3>1, <3>2 DEF Abstract!Next
  <2>3. CASE t = tip
    <3>1. ~(tip < tip)  BY <1>0
    <3> QED BY <2>1, <2>3, <3>1 DEF Abstract!vars
  <2> QED BY SMTT(240), ZenonT(120), <1>0, <2>1, <2>2, <2>3
<1>4. CASE take \/ put \/ RevertOp
  <2>0. /\ pc # "idle" => floor <= target /\ target <= block /\ block <= tip
        /\ pc = "revert" => target < block
        /\ pc' # "failed" /\ target \in Int /\ block \in Int
    BY SMTT(240), ZenonT(120), StoreAssumption DEF IInv, TypeOK, Block
  <2>1. /\ pc \in {"loop", "revert"} /\ target < tip /\ pc' \in {"loop", "revert"}
        /\ tip' = tip /\ floor' = floor /\ ended' = ended /\ target' = target
    <3>1. CASE take      BY SMTT(240), ZenonT(120), <1>0, <2>0, <3>1 DEF take
    <3>2. CASE put       BY SMTT(240), ZenonT(120), <1>0, <2>0, <3>2 DEF put
    <3>3. CASE RevertOp
      <4>1. /\ pc = "revert" /\ (pc' = pc \/ pc' = "failed")
            /\ tip' = tip /\ floor' = floor /\ ended' = ended /\ target' = target
        BY <3>3 DEF RevertOp
      <4>2. target < tip  BY <1>0, <2>0, <4>1
      <4> QED BY SMTT(240), ZenonT(120), <2>0, <4>1, <4>2
    <3> QED BY SMTT(240), ZenonT(120), <1>4, <3>1, <3>2, <3>3
  <2>2. pc' \in {"loop", "revert"}
    BY <2>1
  <2> QED BY SMTT(240), ZenonT(120), <2>1, <2>2 DEF Abstract!vars
<1>5. CASE rewind
  <2>1. /\ pc = "loop" /\ pc' = "idle" /\ block = target /\ tip' = target /\ store' = store
        /\ floor' = floor /\ ended' = ended
    BY SMTT(240), ZenonT(120), <1>5 DEF rewind
  <2>2. target < tip => store = ended[target]  BY SMTT(240), ZenonT(120), <2>1 DEF IInv
  <2> QED BY SMTT(240), ZenonT(120), <2>1, <2>2 DEF Abstract!vars
<1>6. CASE UNCHANGED vars
  BY <1>6 DEF vars, Abstract!vars
<1> QED BY <1>1, <1>2, <1>3, <1>4, <1>5, <1>6 DEF Next

(* Every step of the store and its ring is a step of VersionedStore. *)
THEOREM Refinement == Spec => ImplementsVersionedStore
<1>1. Init => Abstract!Init  BY AbstractInit
<1>2. IInv /\ IInv' /\ [Next]_vars => [Abstract!Next]_(Abstract!vars)  BY AbstractStep
<1> QED BY <1>1, <1>2, Invariance, PTL DEF Spec, ImplementsVersionedStore, Abstract!Spec
=============================================================================
