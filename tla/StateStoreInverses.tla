------------------------- MODULE StateStoreInverses -------------------------
(* What the ops of StateStore's undo journal invert: for each setter, the   *)
(* op it journals takes the store and the side tables back exactly, and the *)
(* setter keeps the store's invariants.                                     *)
EXTENDS StateStore, SequenceTheorems, TLAPS

-----------------------------------------------------------------------------
(* Sequences.                                                               *)

LEMMA AppendFacts ==
  ASSUME NEW S, NEW q \in Seq(S), NEW e \in S
  PROVE  /\ Append(q, e) \in Seq(S)
         /\ Len(Append(q, e)) = Len(q) + 1
         /\ Append(q, e) # <<>>
         /\ \A i \in 1 .. Len(q) : Append(q, e)[i] = q[i]
         /\ Append(q, e)[Len(q) + 1] = e
         /\ Last(Append(q, e)) = e
         /\ Front(Append(q, e)) = q
<1>1. /\ Append(q, e) \in Seq(S)
      /\ Len(Append(q, e)) = Len(q) + 1
      /\ \A i \in 1 .. Len(q) : Append(q, e)[i] = q[i]
      /\ Append(q, e)[Len(q) + 1] = e
  OBVIOUS
<1>2. Last(Append(q, e)) = e  BY <1>1 DEF Last
<1>3. Front(Append(q, e)) = q  BY <1>1 DEF Front
<1>4. Append(q, e) # <<>>  BY <1>1
<1> QED BY <1>1, <1>2, <1>3, <1>4

LEMMA FrontFacts ==
  ASSUME NEW S, NEW q \in Seq(S), q # <<>>
  PROVE  /\ Front(q) \in Seq(S)
         /\ Len(Front(q)) = Len(q) - 1
         /\ Len(q) \in Nat \ {0}
         /\ \A i \in 1 .. Len(q) - 1 : Front(q)[i] = q[i]
         /\ Last(q) \in S
<1>1. Len(q) \in Nat \ {0}  OBVIOUS
<1>2. \A i \in 1 .. Len(q) - 1 : q[i] \in S  BY <1>1
<1>3. Last(q) \in S  BY <1>1 DEF Last
<1>4. /\ Front(q) \in Seq(S)
      /\ Len(Front(q)) = IF 1 <= Len(q) - 1 THEN (Len(q) - 1) - 1 + 1 ELSE 0
      /\ \A i \in 1 .. (Len(q) - 1) - 1 + 1 : Front(q)[i] = q[1 + i - 1]
  BY <1>1, <1>2, SubSeqProperties DEF Front
<1>5. Len(Front(q)) = Len(q) - 1
  <2>1. \A n \in Nat \ {0} : (IF 1 <= n - 1 THEN (n - 1) - 1 + 1 ELSE 0) = n - 1
    OBVIOUS
  <2> QED BY ZenonT(240), SMTT(120), <1>1, <1>4, <2>1
<1>6. ASSUME NEW i \in 1 .. Len(q) - 1  PROVE Front(q)[i] = q[i]
  <2>1. i \in 1 .. (Len(q) - 1) - 1 + 1 /\ 1 + i - 1 = i  BY <1>1
  <2> QED BY <1>4, <2>1
<1> QED BY <1>1, <1>3, <1>4, <1>5, <1>6

(* Overwriting a cell and writing back what it held. *)
LEMMA SeqUpdate ==
  ASSUME NEW S, NEW q \in Seq(S), NEW i \in 1 .. Len(q), NEW e \in S
  PROVE  /\ [q EXCEPT ![i] = e] \in Seq(S)
         /\ Len([q EXCEPT ![i] = e]) = Len(q)
         /\ [q EXCEPT ![i] = e][i] = e
         /\ \A j \in 1 .. Len(q) : j # i => [q EXCEPT ![i] = e][j] = q[j]
         /\ [[q EXCEPT ![i] = e] EXCEPT ![i] = q[i]] = q
         /\ q[i] \in S
<1> DEFINE u == [q EXCEPT ![i] = e]
<1>1. q[i] \in S  OBVIOUS
<1>2. /\ u \in Seq(S) /\ Len(u) = Len(q)
      /\ \A j \in 1 .. Len(q) : u[j] = IF j = i THEN e ELSE q[j]
  BY ExceptSeq
<1> HIDE DEF u
<1>3. /\ [u EXCEPT ![i] = q[i]] \in Seq(S) /\ Len([u EXCEPT ![i] = q[i]]) = Len(u)
      /\ \A j \in 1 .. Len(u) : [u EXCEPT ![i] = q[i]][j] = IF j = i THEN q[i] ELSE u[j]
  BY <1>1, <1>2, ExceptSeq
<1>4. [u EXCEPT ![i] = q[i]] = q
  <2>1. \A j \in 1 .. Len(q) : [u EXCEPT ![i] = q[i]][j] = q[j]  BY <1>2, <1>3
  <2> QED BY <1>2, <1>3, <2>1, SeqEqual
<1> QED BY <1>1, <1>2, <1>4 DEF u

LEMMA FcnUpdate ==
  ASSUME NEW D, NEW R, NEW f \in [D -> R], NEW i \in D, NEW e \in R
  PROVE  /\ [f EXCEPT ![i] = e] \in [D -> R]
         /\ [f EXCEPT ![i] = e][i] = e
         /\ \A j \in D : j # i => [f EXCEPT ![i] = e][j] = f[j]
         /\ [[f EXCEPT ![i] = e] EXCEPT ![i] = f[i]] = f
         /\ f[i] \in R
  BY ZenonT(240), SMTT(120)

LEMMA StoreFields ==
  ASSUME NEW st \in Store
  PROVE  /\ st.pos \in Seq(Position)
         /\ st.cols \in [Market -> Seq(Cells)]
         /\ st.rows \in [Market -> Seq(Row)]
         /\ st.order \in Seq(Market)
         /\ st = [pos |-> st.pos, cols |-> st.cols, rows |-> st.rows, order |-> st.order]
  BY DEF Store

LEMMA StoreMake ==
  ASSUME NEW ps \in Seq(Position), NEW cs \in [Market -> Seq(Cells)],
         NEW rs \in [Market -> Seq(Row)], NEW os \in Seq(Market)
  PROVE  [pos |-> ps, cols |-> cs, rows |-> rs, order |-> os] \in Store
  BY DEF Store

LEMMA CellFacts ==
  ASSUME NEW st \in Store, NEW p, HasCell(st, p)
  PROVE  /\ p \in 1 .. Len(st.pos) /\ st.pos[p] \in Position
         /\ MarketOf(st, p) \in Market
         /\ st.cols[MarketOf(st, p)] \in Seq(Cells)
         /\ LocalOf(st, p) \in 1 .. Len(st.cols[MarketOf(st, p)])
         /\ CellsOf(st, p) \in Cells
         /\ Len(st.pos) \in Nat /\ p \in Nat
<1>1. p \in 1 .. Len(st.pos) /\ st.pos \in Seq(Position)
  BY StoreFields DEF HasCell
<1>2. st.pos[p] \in Position  BY <1>1
<1>3. MarketOf(st, p) \in Market  BY <1>2 DEF MarketOf, Position, Key
<1>4. st.cols[MarketOf(st, p)] \in Seq(Cells)  BY <1>3, StoreFields
<1>5. LocalOf(st, p) \in 1 .. Len(st.cols[MarketOf(st, p)])  BY DEF HasCell
<1>6. CellsOf(st, p) \in Cells  BY <1>4, <1>5 DEF CellsOf
<1> QED BY <1>1, <1>2, <1>3, <1>4, <1>5, <1>6

(* Overwriting a position's entry and cells, and writing them back. *)
LEMMA WithPositionFacts ==
  ASSUME NEW st \in Store, NEW p, HasCell(st, p), NEW e \in Position, NEW c \in Cells,
         e.key = st.pos[p].key, e.local = st.pos[p].local
  PROVE  LET st2 == WithPosition(st, p, e, c)
             m == MarketOf(st, p)
             l == LocalOf(st, p)
         IN  /\ st2 \in Store
             /\ st2.rows = st.rows /\ st2.order = st.order
             /\ st2.pos = [st.pos EXCEPT ![p] = e]
             /\ st2.cols = [st.cols EXCEPT ![m] = [st.cols[m] EXCEPT ![l] = c]]
             /\ HasCell(st2, p) /\ MarketOf(st2, p) = m /\ LocalOf(st2, p) = l
             /\ st2.pos[p] = e /\ CellsOf(st2, p) = c
             /\ WithPosition(st2, p, st.pos[p], CellsOf(st, p)) = st
<1> DEFINE m == MarketOf(st, p)
           l == LocalOf(st, p)
           st2 == WithPosition(st, p, e, c)
           ps == [st.pos EXCEPT ![p] = e]
           cm == [st.cols[m] EXCEPT ![l] = c]
           cs == [st.cols EXCEPT ![m] = cm]
<1>1. /\ p \in 1 .. Len(st.pos) /\ m \in Market /\ st.cols[m] \in Seq(Cells)
      /\ l \in 1 .. Len(st.cols[m])
  BY CellFacts
<1>2. /\ st.pos \in Seq(Position) /\ st.cols \in [Market -> Seq(Cells)]
      /\ st.rows \in [Market -> Seq(Row)] /\ st.order \in Seq(Market)
      /\ st = [pos |-> st.pos, cols |-> st.cols, rows |-> st.rows, order |-> st.order]
  BY StoreFields
<1>3. /\ ps \in Seq(Position) /\ Len(ps) = Len(st.pos) /\ ps[p] = e
      /\ [ps EXCEPT ![p] = st.pos[p]] = st.pos
  BY <1>1, <1>2, SeqUpdate
<1>4. /\ cm \in Seq(Cells) /\ Len(cm) = Len(st.cols[m]) /\ cm[l] = c
      /\ [cm EXCEPT ![l] = st.cols[m][l]] = st.cols[m]
  BY <1>1, SeqUpdate
<1>5. /\ cs \in [Market -> Seq(Cells)] /\ cs[m] = cm
      /\ [cs EXCEPT ![m] = st.cols[m]] = st.cols
  <2> HIDE DEF cm
  <2> QED BY <1>1, <1>2, <1>4, FcnUpdate
<1>6. st2 = [pos |-> ps, cols |-> cs, rows |-> st.rows, order |-> st.order]
  BY <1>2 DEF WithPosition
<1> HIDE DEF ps, cs, cm, st2
<1>7. st2 \in Store  BY ZenonT(240), SMTT(120), <1>2, <1>3, <1>5, <1>6, StoreMake
<1>8. /\ st2.pos = ps /\ st2.cols = cs /\ st2.rows = st.rows /\ st2.order = st.order
  BY <1>6
<1>9. MarketOf(st2, p) = m /\ LocalOf(st2, p) = l
  BY <1>3, <1>8 DEF MarketOf, LocalOf
<1>10. HasCell(st2, p)
  BY <1>1, <1>3, <1>4, <1>5, <1>8, <1>9 DEF HasCell, Known
<1>11. CellsOf(st2, p) = c  BY <1>4, <1>5, <1>8, <1>9 DEF CellsOf
<1>12. WithPosition(st2, p, st.pos[p], CellsOf(st, p)) =
         [pos |-> [ps EXCEPT ![p] = st.pos[p]],
          cols |-> [cs EXCEPT ![m] = [cs[m] EXCEPT ![l] = st.cols[m][l]]],
          rows |-> st.rows, order |-> st.order]
  BY <1>6, <1>9 DEF WithPosition, CellsOf
<1>13. WithPosition(st2, p, st.pos[p], CellsOf(st, p)) = st
  BY <1>2, <1>3, <1>4, <1>5, <1>12
<1> QED BY <1>3, <1>7, <1>8, <1>9, <1>10, <1>11, <1>13 DEF st2, ps, cs, cm

LEMMA WithPositionAt ==
  ASSUME NEW st \in Store, NEW p, HasCell(st, p), NEW e \in Position, NEW c \in Cells,
         e.key = st.pos[p].key, e.local = st.pos[p].local
  PROVE  /\ WithPosition(st, p, e, c).pos[p] = e
         /\ CellsOf(WithPosition(st, p, e, c), p) = c
<1> DEFINE st2 == WithPosition(st, p, e, c)
           m == MarketOf(st, p)
           l == LocalOf(st, p)
<1>1. /\ st2.pos = [st.pos EXCEPT ![p] = e]
      /\ st2.cols = [st.cols EXCEPT ![m] = [st.cols[m] EXCEPT ![l] = c]]
  BY DEF WithPosition
<1> HIDE DEF st2
<1>2. /\ p \in 1 .. Len(st.pos) /\ m \in Market /\ st.cols[m] \in Seq(Cells)
      /\ l \in 1 .. Len(st.cols[m]) /\ st.pos \in Seq(Position)
      /\ st.cols \in [Market -> Seq(Cells)]
  BY CellFacts, StoreFields
<1>3. st2.pos[p] = e  BY <1>1, <1>2
<1>4. st2.cols[m][l] = c  BY SMTT(240), ZenonT(120), <1>1, <1>2
<1>5. CellsOf(st2, p) = c
  BY <1>3, <1>4 DEF CellsOf, MarketOf, LocalOf
<1> QED BY <1>3, <1>5 DEF st2

-----------------------------------------------------------------------------
(* The invariant of a store: the three safety invariants, and a market that *)
(* was never created holds nothing.                                         *)
Good(st) ==
    /\ MaskExactIn(st)
    /\ PaddingBlankIn(st)
    /\ NoAliasingIn(st)
    /\ \A m \in Market : ~Known(st, m) => st.rows[m] = <<>> /\ st.cols[m] = <<>>

(* A position's entry and cells, rewritten in agreement with each other. *)
LEMMA WithPositionGood ==
  ASSUME NEW st \in Store, Good(st), NEW p, HasCell(st, p),
         NEW e \in Position, NEW c \in Cells,
         e.key = st.pos[p].key, e.local = st.pos[p].local,
         e.config = {s \in Slot : \E col \in Col : c.bal[col][s] # 0},
         \A s \in Slot : s > Len(st.rows[MarketOf(st, p)]) =>
            /\ \A col \in Col : c.bal[col][s] = 0
            /\ c.slot_extra[s] = ZERO
  PROVE  Good(WithPosition(st, p, e, c))
<1> DEFINE m == MarketOf(st, p)
           l == LocalOf(st, p)
           st2 == WithPosition(st, p, e, c)
<1>1. /\ p \in 1 .. Len(st.pos) /\ m \in Market /\ st.cols[m] \in Seq(Cells)
      /\ l \in 1 .. Len(st.cols[m])
  BY CellFacts
<1>2. /\ st2.rows = st.rows /\ st2.order = st.order
      /\ st2.pos = [st.pos EXCEPT ![p] = e]
      /\ st2.cols = [st.cols EXCEPT ![m] = [st.cols[m] EXCEPT ![l] = c]]
      /\ HasCell(st2, p) /\ MarketOf(st2, p) = m /\ LocalOf(st2, p) = l
      /\ st2.pos[p] = e /\ CellsOf(st2, p) = c
  BY WithPositionFacts
<1> HIDE DEF st2
<1>3. /\ st.pos \in Seq(Position) /\ st.cols \in [Market -> Seq(Cells)]
  BY StoreFields
<1>4. /\ Len(st2.pos) = Len(st.pos)
      /\ \A q \in 1 .. Len(st.pos) : q # p => st2.pos[q] = st.pos[q]
  BY SMTT(240), ZenonT(120), <1>1, <1>2, <1>3, SeqUpdate
<1>5. /\ st2.cols \in [Market -> Seq(Cells)]
      /\ Len(st2.cols[m]) = Len(st.cols[m]) /\ st2.cols[m][l] = c
      /\ \A k \in 1 .. Len(st.cols[m]) : k # l => st2.cols[m][k] = st.cols[m][k]
      /\ \A n \in Market : n # m => st2.cols[n] = st.cols[n]
  <2>1. /\ [st.cols[m] EXCEPT ![l] = c] \in Seq(Cells)
        /\ Len([st.cols[m] EXCEPT ![l] = c]) = Len(st.cols[m])
        /\ [st.cols[m] EXCEPT ![l] = c][l] = c
        /\ \A k \in 1 .. Len(st.cols[m]) : k # l => [st.cols[m] EXCEPT ![l] = c][k] = st.cols[m][k]
    BY <1>1, SeqUpdate
  <2> DEFINE cm == [st.cols[m] EXCEPT ![l] = c]
  <2> HIDE DEF cm
  <2>2. /\ [st.cols EXCEPT ![m] = cm] \in [Market -> Seq(Cells)]
        /\ [st.cols EXCEPT ![m] = cm][m] = cm
        /\ \A n \in Market : n # m => [st.cols EXCEPT ![m] = cm][n] = st.cols[n]
    BY <1>1, <1>3, <2>1, FcnUpdate DEF cm
  <2> QED BY <1>2, <2>1, <2>2 DEF cm
<1>6. \A n : Known(st2, n) <=> Known(st, n)  BY <1>2 DEF Known
<1>7. ASSUME NEW q \in 1 .. Len(st.pos)
      PROVE  /\ st2.pos[q].key = st.pos[q].key /\ st2.pos[q].local = st.pos[q].local
             /\ MarketOf(st2, q) = MarketOf(st, q) /\ LocalOf(st2, q) = LocalOf(st, q)
             /\ HasCell(st, q) /\ HasCell(st2, q)
             /\ q # p => CellsOf(st2, q) = CellsOf(st, q)
  <2>1. st2.pos[q].key = st.pos[q].key /\ st2.pos[q].local = st.pos[q].local
    BY <1>2, <1>4
  <2>2. MarketOf(st2, q) = MarketOf(st, q) /\ LocalOf(st2, q) = LocalOf(st, q)
    BY <2>1 DEF MarketOf, LocalOf
  <2>3. HasCell(st, q)  BY DEF Good, NoAliasingIn
  <2>4. MarketOf(st, q) \in Market /\ LocalOf(st, q) \in 1 .. Len(st.cols[MarketOf(st, q)])
    BY <2>3, CellFacts
  <2>5. Len(st2.cols[MarketOf(st, q)]) = Len(st.cols[MarketOf(st, q)])
    BY <1>5, <2>4
  <2>6. HasCell(st2, q)
    BY <1>4, <1>6, <2>2, <2>3, <2>5 DEF HasCell
  <2>7. ASSUME q # p PROVE CellsOf(st2, q) = CellsOf(st, q)
    <3>1. MarketOf(st, q) = m => LocalOf(st, q) # l
      BY <1>1, <2>7 DEF Good, NoAliasingIn
    <3> QED BY <1>5, <2>2, <2>4, <3>1 DEF CellsOf
  <2> QED BY <2>1, <2>2, <2>3, <2>6, <2>7
<1>8. MaskExactIn(st2)
  BY SMTT(240), ZenonT(120), <1>2, <1>4, <1>7 DEF MaskExactIn, Good
<1>9. PaddingBlankIn(st2)
  <2> SUFFICES ASSUME NEW n \in Market, NEW k \in 1 .. Len(st2.cols[n]), NEW s \in Slot,
                      s > Len(st2.rows[n])
               PROVE  /\ \A col \in Col : st2.cols[n][k].bal[col][s] = 0
                      /\ st2.cols[n][k].slot_extra[s] = ZERO
    BY SMTT(240), ZenonT(120) DEF PaddingBlankIn
  <2>1. CASE n = m /\ k = l  BY SMTT(240), ZenonT(120), <1>2, <1>5, <2>1
  <2>2. CASE ~(n = m /\ k = l)
    <3>1. k \in 1 .. Len(st.cols[n]) /\ st2.cols[n][k] = st.cols[n][k]  BY SMTT(240), ZenonT(120), <1>5, <2>2
    <3> QED BY SMTT(240), ZenonT(120), <1>2, <3>1 DEF Good, PaddingBlankIn
  <2> QED BY SMTT(240), ZenonT(120), <2>1, <2>2
<1>10. NoAliasingIn(st2)
  BY SMTT(240), ZenonT(120), <1>4, <1>7 DEF Good, NoAliasingIn
<1>11. \A n \in Market : ~Known(st2, n) => st2.rows[n] = <<>> /\ st2.cols[n] = <<>>
  <2>1. Known(st, m)  BY DEF HasCell
  <2> QED BY <1>2, <1>5, <1>6, <2>1 DEF Good
<1> QED BY <1>8, <1>9, <1>10, <1>11 DEF Good, st2

-----------------------------------------------------------------------------
(* Every inverse is exact: reverting the op a setter journaled, on the      *)
(* store and the side tables as that setter left them, is consistent and    *)
(* gives back the store and the side tables it found.                       *)
Tables(st, r) == [st |-> st, extras |-> r.extras, rows |-> r.rows]

Inverts(op, new, old) == Consistent(op, new) /\ revert(op, new) = old

(* A setter's whole effect: journal op into r, giving r2, and write st2. *)
Journaled(st, r, op, st2, r2) ==
    /\ op \in UndoOp
    /\ st2 \in Store
    /\ Good(st2)
    /\ r2 \in BlockUndo
    /\ r2.ops = Append(r.ops, op)
    /\ Inverts(op, Tables(st2, r2), Tables(st, r))

LEMMA PushFacts ==
  ASSUME NEW r \in BlockUndo, NEW op \in UndoOp
  PROVE  /\ push(r, op) \in BlockUndo
         /\ push(r, op).ops = Append(r.ops, op)
         /\ push(r, op).extras = r.extras
         /\ push(r, op).rows = r.rows
         /\ \A x \in Extra : /\ push_extra(r, op, x) \in BlockUndo
                             /\ push_extra(r, op, x).ops = Append(r.ops, op)
                             /\ push_extra(r, op, x).rows = r.rows
                             /\ push_extra(r, op, x).extras # <<>>
                             /\ Last(push_extra(r, op, x).extras) = x
                             /\ Front(push_extra(r, op, x).extras) = r.extras
         /\ \A x \in Row :   /\ push_market(r, op, x) \in BlockUndo
                             /\ push_market(r, op, x).ops = Append(r.ops, op)
                             /\ push_market(r, op, x).extras = r.extras
                             /\ push_market(r, op, x).rows # <<>>
                             /\ Last(push_market(r, op, x).rows) = x
                             /\ Front(push_market(r, op, x).rows) = r.rows
<1>1. r.ops \in Seq(UndoOp) /\ r.extras \in Seq(Extra) /\ r.rows \in Seq(Row)
  BY DEF BlockUndo
<1>2. r = [ops |-> r.ops, extras |-> r.extras, rows |-> r.rows]
  BY DEF BlockUndo
<1>3. Append(r.ops, op) \in Seq(UndoOp)  BY <1>1, AppendFacts
<1>4. push(r, op) = [ops |-> Append(r.ops, op), extras |-> r.extras, rows |-> r.rows]
  <2>1. \A o : [r EXCEPT !.ops = o] = [ops |-> o, extras |-> r.extras, rows |-> r.rows]
    BY SMTT(240), ZenonT(120) DEF BlockUndo
  <2> QED BY <2>1 DEF push
<1>5. /\ push(r, op) \in BlockUndo
      /\ push(r, op).ops = Append(r.ops, op)
      /\ push(r, op).extras = r.extras
      /\ push(r, op).rows = r.rows
  BY <1>1, <1>3, <1>4 DEF BlockUndo
<1>6. ASSUME NEW x \in Extra
      PROVE  /\ push_extra(r, op, x) \in BlockUndo
             /\ push_extra(r, op, x).ops = Append(r.ops, op)
             /\ push_extra(r, op, x).rows = r.rows
             /\ push_extra(r, op, x).extras # <<>>
             /\ Last(push_extra(r, op, x).extras) = x
             /\ Front(push_extra(r, op, x).extras) = r.extras
  <2>1. /\ Append(r.extras, x) \in Seq(Extra) /\ Append(r.extras, x) # <<>>
        /\ Last(Append(r.extras, x)) = x /\ Front(Append(r.extras, x)) = r.extras
    BY <1>1, AppendFacts
  <2> QED BY <1>1, <1>3, <2>1 DEF push_extra, BlockUndo
<1>7. ASSUME NEW x \in Row
      PROVE  /\ push_market(r, op, x) \in BlockUndo
             /\ push_market(r, op, x).ops = Append(r.ops, op)
             /\ push_market(r, op, x).extras = r.extras
             /\ push_market(r, op, x).rows # <<>>
             /\ Last(push_market(r, op, x).rows) = x
             /\ Front(push_market(r, op, x).rows) = r.rows
  <2>1. /\ Append(r.rows, x) \in Seq(Row) /\ Append(r.rows, x) # <<>>
        /\ Last(Append(r.rows, x)) = x /\ Front(Append(r.rows, x)) = r.rows
    BY <1>1, AppendFacts
  <2> QED BY <1>1, <1>3, <2>1 DEF push_market, BlockUndo
<1> QED BY <1>5, <1>6, <1>7

LEMMA EntryConfig ==
  ASSUME NEW e \in Position, NEW cfg
  PROVE  [e EXCEPT !.config = cfg] =
           [key |-> e.key, local |-> e.local, config |-> cfg, extra |-> e.extra]
  BY DEF Position

LEMMA ColumnJournaled ==
  ASSUME NEW st \in Store, Good(st), NEW r \in BlockUndo, NEW col \in Col, NEW p,
         NEW s \in Slot, NEW v \in Shares,
         HasCell(st, p), s <= Len(st.rows[MarketOf(st, p)])
  PROVE  LET cfg   == st.pos[p].config
             cells == CellsOf(st, p)
             op    == [kind |-> "Column", col |-> col, pos |-> p, slot |-> s,
                       prev_set |-> s \in cfg, prev |-> cells.bal[col][s]]
         IN  Journaled(st, r, op,
                 WithColumn(st, p, col, s, v,
                          IF v # 0 \/ cells.bal[Other(col)][s] # 0 THEN cfg \cup {s} ELSE cfg \ {s}),
                 push(r, op))
<1> DEFINE cfg   == st.pos[p].config
           cells == CellsOf(st, p)
           op    == [kind |-> "Column", col |-> col, pos |-> p, slot |-> s,
                     prev_set |-> s \in cfg, prev |-> cells.bal[col][s]]
           cfg2  == IF v # 0 \/ cells.bal[Other(col)][s] # 0 THEN cfg \cup {s} ELSE cfg \ {s}
           e     == [st.pos[p] EXCEPT !.config = cfg2]
           c     == [bal |-> [cells.bal EXCEPT ![col][s] = v], slot_extra |-> cells.slot_extra]
           st2   == WithPosition(st, p, e, c)
           r2    == push(r, op)
<1>1. /\ p \in 1 .. Len(st.pos) /\ p \in Nat /\ st.pos[p] \in Position /\ cells \in Cells
      /\ MarketOf(st, p) \in Market
      /\ LocalOf(st, p) \in 1 .. Len(st.cols[MarketOf(st, p)])
  BY CellFacts
<1>2. /\ cells.bal \in [Col -> [Slot -> Shares]] /\ cells.slot_extra \in [Slot -> Extra]
      /\ cells = [bal |-> cells.bal, slot_extra |-> cells.slot_extra]
      /\ cfg \in SUBSET Slot
      /\ st.pos[p] = [key |-> st.pos[p].key, local |-> st.pos[p].local,
                      config |-> cfg, extra |-> st.pos[p].extra]
      /\ st.pos[p].key \in Key /\ st.pos[p].local \in Nat /\ st.pos[p].extra \in Extra
  BY <1>1 DEF Cells, Position
<1>3. op \in UndoOp
  BY <1>1, <1>2 DEF UndoOp
<1>4. e = [key |-> st.pos[p].key, local |-> st.pos[p].local,
           config |-> cfg2, extra |-> st.pos[p].extra]
  BY ZenonT(240), SMTT(120), <1>1, EntryConfig
<1>5. cfg2 \in SUBSET Slot  BY <1>2
<1>6. e \in Position /\ e.key = st.pos[p].key /\ e.local = st.pos[p].local /\ e.config = cfg2
  <2> HIDE DEF cfg2, e
  <2> QED BY <1>2, <1>4, <1>5 DEF Position
<1> DEFINE b2 == [cells.bal EXCEPT ![col] = [cells.bal[col] EXCEPT ![s] = v]]
<1>7. /\ b2 \in [Col -> [Slot -> Shares]]
      /\ b2[col][s] = v
      /\ \A c1 \in Col, s1 \in Slot : (c1 # col \/ s1 # s) => b2[c1][s1] = cells.bal[c1][s1]
      /\ [b2 EXCEPT ![col] = [b2[col] EXCEPT ![s] = cells.bal[col][s]]] = cells.bal
  <2> HIDE DEF cells
  <2>1. cells.bal[col] \in [Slot -> Shares]  BY <1>2
  <2> DEFINE f == [cells.bal[col] EXCEPT ![s] = v]
  <2>2. /\ f \in [Slot -> Shares] /\ f[s] = v
        /\ \A s1 \in Slot : s1 # s => f[s1] = cells.bal[col][s1]
        /\ [f EXCEPT ![s] = cells.bal[col][s]] = cells.bal[col]
    BY <2>1, FcnUpdate
  <2> HIDE DEF f
  <2>3. /\ [cells.bal EXCEPT ![col] = f] \in [Col -> [Slot -> Shares]]
        /\ [cells.bal EXCEPT ![col] = f][col] = f
        /\ \A c1 \in Col : c1 # col => [cells.bal EXCEPT ![col] = f][c1] = cells.bal[c1]
        /\ [[cells.bal EXCEPT ![col] = f] EXCEPT ![col] = cells.bal[col]] = cells.bal
    BY <1>2, <2>1, <2>2, FcnUpdate
  <2>4. b2 = [cells.bal EXCEPT ![col] = f]  BY DEF f
  <2> HIDE DEF b2
  <2> QED BY <2>2, <2>3, <2>4
<1>8. c = [bal |-> b2, slot_extra |-> cells.slot_extra]
  OBVIOUS
<1> HIDE DEF b2
<1>9. c \in Cells /\ c.bal = b2 /\ c.slot_extra = cells.slot_extra
  BY <1>2, <1>7, <1>8 DEF Cells
<1>10. e.config = {s1 \in Slot : \E c1 \in Col : c.bal[c1][s1] # 0}
  <2>1. cfg = {s1 \in Slot : \E c1 \in Col : cells.bal[c1][s1] # 0}
    BY <1>1 DEF Good, MaskExactIn
  <2>2. /\ Other(col) \in Col /\ Other(col) # col
        /\ \A c1 \in Col : c1 = col \/ c1 = Other(col)
    BY DEF Other, Col
  <2>3. b2[Other(col)][s] = cells.bal[Other(col)][s]  BY <1>7, <2>2
  <2>4. (\E c1 \in Col : b2[c1][s] # 0) <=> (v # 0 \/ cells.bal[Other(col)][s] # 0)
    BY <1>7, <2>2, <2>3
  <2>5. \A s1 \in Slot : s1 # s => \A c1 \in Col : b2[c1][s1] = cells.bal[c1][s1]
    BY <1>7
  <2> HIDE DEF cells, cfg
  <2>6. cfg2 = {s1 \in Slot : \E c1 \in Col : b2[c1][s1] # 0}
    BY SMTT(240), ZenonT(120), <2>1, <2>4, <2>5
  <2> QED BY ZenonT(240), SMTT(120), <1>6, <1>9, <2>6
<1>11. \A s1 \in Slot : s1 > Len(st.rows[MarketOf(st, p)]) =>
            /\ \A c1 \in Col : c.bal[c1][s1] = 0
            /\ c.slot_extra[s1] = ZERO
  <2>1. \A s1 \in Slot : s1 > Len(st.rows[MarketOf(st, p)]) =>
            /\ \A c1 \in Col : cells.bal[c1][s1] = 0
            /\ cells.slot_extra[s1] = ZERO
    BY <1>1 DEF Good, PaddingBlankIn, CellsOf
  <2>2. st.rows[MarketOf(st, p)] \in Seq(Row)  BY <1>1, StoreFields
  <2>3. \A s1 \in Slot : s1 > Len(st.rows[MarketOf(st, p)]) => s1 # s
    BY SMTT(240), ZenonT(120), <2>2, StoreAssumption DEF Slot
  <2> QED BY SMTT(240), ZenonT(120), <1>7, <1>9, <2>1, <2>3
<1> HIDE DEF e, c
<1>12. Good(st2)
  BY <1>6, <1>9, <1>10, <1>11, WithPositionGood
<1>13. /\ st2 \in Store /\ HasCell(st2, p) /\ st2.pos[p] = e /\ CellsOf(st2, p) = c
       /\ WithPosition(st2, p, st.pos[p], CellsOf(st, p)) = st
  <2> HIDE DEF cfg, cells, op, cfg2
  <2>1. st2 \in Store  BY ZenonT(240), SMTT(120), <1>6, <1>9, WithPositionFacts
  <2>2. HasCell(st2, p)  BY ZenonT(240), SMTT(120), <1>6, <1>9, WithPositionFacts
  <2>3. st2.pos[p] = e  BY <1>6, <1>9, WithPositionAt
  <2>4. CellsOf(st2, p) = c  BY <1>6, <1>9, WithPositionAt
  <2>5. WithPosition(st2, p, st.pos[p], CellsOf(st, p)) = st BY ZenonT(240), SMTT(120), <1>6, <1>9, WithPositionFacts
  <2> QED BY SMTT(240), ZenonT(120), <2>1, <2>2, <2>3, <2>4, <2>5
<1>14. /\ r2 \in BlockUndo /\ r2.ops = Append(r.ops, op)
       /\ r2.extras = r.extras /\ r2.rows = r.rows
  BY <1>3, PushFacts
<1> DEFINE new == Tables(st2, r2)
<1> HIDE DEF st2, r2
<1>15. Consistent(op, new)
  BY <1>13 DEF Consistent, Tables
<1>16. restore_cell(st2, op) = st
  <2>1. restore_cell(st2, op) =
          WithPosition(st2, p,
             [e EXCEPT !.config = IF s \in cfg THEN e.config \cup {s} ELSE e.config \ {s}],
             [bal |-> [c.bal EXCEPT ![col][s] = cells.bal[col][s]], slot_extra |-> c.slot_extra])
    BY ZenonT(240), SMTT(120), <1>13 DEF restore_cell, WithColumn
  <2>2. (IF s \in cfg THEN e.config \cup {s} ELSE e.config \ {s}) = cfg
    BY ZenonT(240), SMTT(120), <1>6
  <2>3. [e EXCEPT !.config = cfg] = st.pos[p]
    BY SMTT(240), ZenonT(120), <1>2, <1>4, <1>6, EntryConfig
  <2>4. [bal |-> [c.bal EXCEPT ![col][s] = cells.bal[col][s]], slot_extra |-> c.slot_extra] = cells
    BY <1>2, <1>7, <1>9
  <2> QED BY ZenonT(240), SMTT(120), <1>13, <2>1, <2>2, <2>3, <2>4
<1>17. revert(op, new) = Tables(st, r)
  <2>1. revert(op, new) = [new EXCEPT !.st = restore_cell(st2, op)]
    BY SMTT(240), ZenonT(120) DEF revert, Tables
  <2> QED BY <1>14, <1>16, <2>1 DEF Tables
<1>18. Journaled(st, r, op, st2, r2)
  BY SMTT(240), ZenonT(120), <1>3, <1>12, <1>13, <1>14, <1>15, <1>17 DEF Journaled, Inverts
<1> QED BY <1>18 DEF st2, r2, e, c, WithColumn

LEMMA SlotExtraJournaled ==
  ASSUME NEW st \in Store, Good(st), NEW r \in BlockUndo, NEW p,
         NEW s \in Slot, NEW x \in Extra,
         HasCell(st, p), s <= Len(st.rows[MarketOf(st, p)])
  PROVE  LET op == [kind |-> "SlotExtra", pos |-> p, slot |-> s]
         IN  Journaled(st, r, op, WithSlotExtra(st, p, s, x),
                       push_extra(r, op, CellsOf(st, p).slot_extra[s]))
<1> DEFINE cells == CellsOf(st, p)
           op    == [kind |-> "SlotExtra", pos |-> p, slot |-> s]
           c     == [bal |-> cells.bal, slot_extra |-> [cells.slot_extra EXCEPT ![s] = x]]
           e     == st.pos[p]
           st2   == WithPosition(st, p, e, c)
           r2    == push_extra(r, op, cells.slot_extra[s])
<1>1. /\ p \in 1 .. Len(st.pos) /\ p \in Nat /\ e \in Position /\ cells \in Cells
      /\ MarketOf(st, p) \in Market
      /\ LocalOf(st, p) \in 1 .. Len(st.cols[MarketOf(st, p)])
  BY CellFacts
<1>2. /\ cells.bal \in [Col -> [Slot -> Shares]] /\ cells.slot_extra \in [Slot -> Extra]
      /\ cells = [bal |-> cells.bal, slot_extra |-> cells.slot_extra]
  BY <1>1 DEF Cells
<1>3. op \in UndoOp  BY <1>1 DEF UndoOp
<1>4. /\ [cells.slot_extra EXCEPT ![s] = x] \in [Slot -> Extra]
      /\ \A s1 \in Slot : s1 # s => [cells.slot_extra EXCEPT ![s] = x][s1] = cells.slot_extra[s1]
      /\ [[cells.slot_extra EXCEPT ![s] = x] EXCEPT ![s] = cells.slot_extra[s]] = cells.slot_extra
      /\ cells.slot_extra[s] \in Extra
  <2> HIDE DEF cells
  <2> QED BY <1>2, FcnUpdate
<1>5. /\ c \in Cells /\ c.bal = cells.bal
      /\ c.slot_extra = [cells.slot_extra EXCEPT ![s] = x]
  BY SMTT(240), ZenonT(120), <1>2, <1>4 DEF Cells
<1>6. e.config = {s1 \in Slot : \E c1 \in Col : c.bal[c1][s1] # 0}
  BY SMTT(240), ZenonT(120), <1>1, <1>5 DEF Good, MaskExactIn
<1>7. \A s1 \in Slot : s1 > Len(st.rows[MarketOf(st, p)]) =>
            /\ \A c1 \in Col : c.bal[c1][s1] = 0
            /\ c.slot_extra[s1] = ZERO
  <2>1. \A s1 \in Slot : s1 > Len(st.rows[MarketOf(st, p)]) =>
            /\ \A c1 \in Col : cells.bal[c1][s1] = 0
            /\ cells.slot_extra[s1] = ZERO
    BY SMTT(240), ZenonT(120), <1>1 DEF Good, PaddingBlankIn, CellsOf
  <2>2. st.rows[MarketOf(st, p)] \in Seq(Row)  BY <1>1, StoreFields
  <2>3. \A s1 \in Slot : s1 > Len(st.rows[MarketOf(st, p)]) => s1 # s
    BY <2>2, StoreAssumption DEF Slot
  <2> QED BY SMTT(240), ZenonT(120), <1>4, <1>5, <2>1, <2>3
<1> HIDE DEF e, c
<1>8. Good(st2)
  BY ZenonT(240), SMTT(120), <1>1, <1>5, <1>6, <1>7, WithPositionGood DEF e
<1>9. /\ st2 \in Store /\ HasCell(st2, p)
      /\ WithPosition(st2, p, e, cells) = st
  BY ZenonT(240), SMTT(120), <1>1, <1>5, WithPositionFacts DEF e
<1>10. st2.pos[p] = e /\ CellsOf(st2, p) = c
  BY <1>1, <1>5, WithPositionAt DEF e
<1>11. /\ r2 \in BlockUndo /\ r2.ops = Append(r.ops, op)
       /\ r2.rows = r.rows /\ r2.extras # <<>>
       /\ Last(r2.extras) = cells.slot_extra[s] /\ Front(r2.extras) = r.extras
  BY SMTT(240), ZenonT(120), <1>3, <1>4, PushFacts
<1> DEFINE new == Tables(st2, r2)
<1> HIDE DEF st2, r2
<1>12. Consistent(op, new)
  BY <1>9, <1>11 DEF Consistent, Tables
<1>13. WithSlotExtra(st2, p, s, cells.slot_extra[s]) = st
  <2>1. WithSlotExtra(st2, p, s, cells.slot_extra[s]) =
          WithPosition(st2, p, e, [bal |-> c.bal,
                                   slot_extra |-> [c.slot_extra EXCEPT ![s] = cells.slot_extra[s]]])
    BY <1>10 DEF WithSlotExtra
  <2>2. [bal |-> c.bal, slot_extra |-> [c.slot_extra EXCEPT ![s] = cells.slot_extra[s]]] = cells
    BY <1>2, <1>4, <1>5
  <2> QED BY SMTT(240), ZenonT(120), <1>9, <2>1, <2>2
<1>14. revert(op, new) = Tables(st, r)
  BY SMTT(240), ZenonT(120), <1>11, <1>13 DEF revert, Tables
<1>15. Journaled(st, r, op, st2, r2)
  BY <1>3, <1>8, <1>9, <1>11, <1>12, <1>14 DEF Journaled, Inverts
<1>16. st2 = WithSlotExtra(st, p, s, x)  BY DEF st2, e, c, WithSlotExtra
<1>17. r2 = push_extra(r, op, cells.slot_extra[s])  BY DEF r2
<1> QED BY ZenonT(240), SMTT(120), <1>15, <1>16, <1>17

LEMMA RecordUpdate ==
  ASSUME NEW A, NEW B, NEW C, NEW D,
         NEW st \in [pos : A, cols : B, rows : C, order : D], NEW x
  PROVE  /\ [st EXCEPT !.pos = x] =
              [pos |-> x, cols |-> st.cols, rows |-> st.rows, order |-> st.order]
         /\ [st EXCEPT !.rows = x] =
              [pos |-> st.pos, cols |-> st.cols, rows |-> x, order |-> st.order]
  OBVIOUS

LEMMA StorePos ==
  ASSUME NEW st \in Store, NEW p, NEW x, st.pos[p] \in Position
  PROVE  [st EXCEPT !.pos[p].extra = x] =
           [pos |-> [st.pos EXCEPT ![p] = [key |-> st.pos[p].key, local |-> st.pos[p].local,
                                           config |-> st.pos[p].config, extra |-> x]],
            cols |-> st.cols, rows |-> st.rows, order |-> st.order]
<1>1. \A ps : [st EXCEPT !.pos = ps] =
                [pos |-> ps, cols |-> st.cols, rows |-> st.rows, order |-> st.order]
  <2> DEFINE A == Seq(Position)
             B == [Market -> Seq(Cells)]
             C == [Market -> Seq(Row)]
             D == Seq(Market)
  <2>1. st \in [pos : A, cols : B, rows : C, order : D]  BY DEF Store
  <2> HIDE DEF A, B, C, D
  <2> QED BY <2>1, RecordUpdate
<1>2. \A e \in Position : [e EXCEPT !.extra = x] =
                [key |-> e.key, local |-> e.local, config |-> e.config, extra |-> x]
  BY DEF Position
<1>3. [st EXCEPT !.pos[p].extra = x] =
        [st EXCEPT !.pos = [st.pos EXCEPT ![p] = [st.pos[p] EXCEPT !.extra = x]]]
  OBVIOUS
<1> QED BY <1>1, <1>2, <1>3

LEMMA ExtraJournaled ==
  ASSUME NEW st \in Store, Good(st), NEW r \in BlockUndo, NEW p \in 1 .. Len(st.pos),
         NEW x \in Extra
  PROVE  LET op == [kind |-> "Extra", pos |-> p]
         IN  Journaled(st, r, op, [st EXCEPT !.pos[p].extra = x],
                       push_extra(r, op, st.pos[p].extra))
<1> DEFINE cells == CellsOf(st, p)
           op    == [kind |-> "Extra", pos |-> p]
           e     == [key |-> st.pos[p].key, local |-> st.pos[p].local,
                     config |-> st.pos[p].config, extra |-> x]
           st2   == WithPosition(st, p, e, cells)
           r2    == push_extra(r, op, st.pos[p].extra)
<1>0. HasCell(st, p)  BY DEF Good, NoAliasingIn
<1>1. /\ p \in Nat /\ st.pos[p] \in Position /\ cells \in Cells
      /\ MarketOf(st, p) \in Market
      /\ LocalOf(st, p) \in 1 .. Len(st.cols[MarketOf(st, p)])
      /\ st.cols[MarketOf(st, p)] \in Seq(Cells)
  BY <1>0, CellFacts
<1>2. /\ st.pos[p].key \in Key /\ st.pos[p].local \in Nat /\ st.pos[p].extra \in Extra
      /\ st.pos[p].config \in SUBSET Slot
      /\ st.pos[p] = [key |-> st.pos[p].key, local |-> st.pos[p].local,
                      config |-> st.pos[p].config, extra |-> st.pos[p].extra]
  BY <1>1 DEF Position
<1>3. op \in UndoOp  BY <1>1 DEF UndoOp
<1>4. /\ e \in Position /\ e.key = st.pos[p].key /\ e.local = st.pos[p].local
      /\ e.config = st.pos[p].config
  BY <1>2 DEF Position
<1>5. e.config = {s1 \in Slot : \E c1 \in Col : cells.bal[c1][s1] # 0}
  BY SMTT(240), ZenonT(120), <1>4 DEF Good, MaskExactIn
<1>6. \A s1 \in Slot : s1 > Len(st.rows[MarketOf(st, p)]) =>
            /\ \A c1 \in Col : cells.bal[c1][s1] = 0
            /\ cells.slot_extra[s1] = ZERO
  BY <1>1 DEF Good, PaddingBlankIn, CellsOf
<1>8. [st EXCEPT !.pos[p].extra = x] = st2
  <2>1. [st EXCEPT !.pos[p].extra = x] =
          [pos |-> [st.pos EXCEPT ![p] = e],
           cols |-> st.cols, rows |-> st.rows, order |-> st.order]
    BY ZenonT(240), SMTT(120), <1>1, StorePos
  <2>2. [st.cols EXCEPT ![MarketOf(st, p)][LocalOf(st, p)] = CellsOf(st, p)] = st.cols
    <3>1. [st.cols[MarketOf(st, p)] EXCEPT ![LocalOf(st, p)] = CellsOf(st, p)]
             = st.cols[MarketOf(st, p)]
      BY <1>1 DEF CellsOf
    <3> QED BY ZenonT(240), SMTT(120), <1>1, <3>1, StoreFields
  <2> QED BY SMTT(240), ZenonT(120), <2>1, <2>2 DEF WithPosition
<1> HIDE DEF e, cells
<1>9. Good(st2)
  BY <1>0, <1>1, <1>4, <1>5, <1>6, WithPositionGood
<1>10. /\ st2 \in Store /\ HasCell(st2, p)
       /\ WithPosition(st2, p, st.pos[p], cells) = st
       /\ st2.pos = [st.pos EXCEPT ![p] = e]
  <2>1. st2 \in Store  BY ZenonT(240), SMTT(120), <1>0, <1>1, <1>4, WithPositionFacts
  <2>2. HasCell(st2, p)  BY ZenonT(240), SMTT(120), <1>0, <1>1, <1>4, WithPositionFacts
  <2>3. WithPosition(st2, p, st.pos[p], cells) = st
    BY ZenonT(240), SMTT(120), <1>0, <1>1, <1>4, WithPositionFacts DEF cells
  <2>4. st2.pos = [st.pos EXCEPT ![p] = e]  BY DEF WithPosition
  <2> QED BY SMTT(240), ZenonT(120), <2>1, <2>2, <2>3, <2>4
<1>11. st2.pos[p] = e /\ CellsOf(st2, p) = cells
  BY SMTT(240), ZenonT(120), <1>0, <1>1, <1>4, WithPositionAt
<1>12. /\ r2 \in BlockUndo /\ r2.ops = Append(r.ops, op)
       /\ r2.rows = r.rows /\ r2.extras # <<>>
       /\ Last(r2.extras) = st.pos[p].extra /\ Front(r2.extras) = r.extras
  BY SMTT(240), ZenonT(120), <1>2, <1>3, PushFacts
<1> DEFINE new == Tables(st2, r2)
<1> HIDE DEF st2, r2
<1>13. Consistent(op, new)
  BY <1>10, <1>12 DEF Consistent, Tables, HasCell
<1>14. [st2 EXCEPT !.pos[p].extra = st.pos[p].extra] = st
  <2>1. [st2 EXCEPT !.pos[p].extra = st.pos[p].extra] =
          [pos |-> [st2.pos EXCEPT ![p] = [key |-> e.key, local |-> e.local,
                                           config |-> e.config, extra |-> st.pos[p].extra]],
           cols |-> st2.cols, rows |-> st2.rows, order |-> st2.order]
    <3>1. st2.pos[p] \in Position  BY <1>4, <1>11
    <3>2. st2 \in Store  BY <1>10
    <3>3. [st2 EXCEPT !.pos[p].extra = st.pos[p].extra] =
           [pos |-> [st2.pos EXCEPT ![p] = [key |-> st2.pos[p].key, local |-> st2.pos[p].local,
                                           config |-> st2.pos[p].config, extra |-> st.pos[p].extra]],
            cols |-> st2.cols, rows |-> st2.rows, order |-> st2.order]
      BY ZenonT(240), SMTT(120), <3>1, <3>2, StorePos
    <3> QED BY <1>11, <3>3
  <2>2. [key |-> e.key, local |-> e.local,
         config |-> e.config, extra |-> st.pos[p].extra] = st.pos[p]
    BY <1>2, <1>4
  <2>3. [st2.pos EXCEPT ![p] = st.pos[p]] = st.pos
    BY SMTT(240), ZenonT(120), <1>4, <1>10, StoreFields, SeqUpdate
  <2>4. st2.cols = st.cols /\ st2.rows = st.rows /\ st2.order = st.order
    BY <1>8 DEF Store
  <2>5. st = [pos |-> st.pos, cols |-> st.cols, rows |-> st.rows, order |-> st.order]
    BY StoreFields
  <2> QED BY <2>1, <2>2, <2>3, <2>4, <2>5
<1>15. revert(op, new) = Tables(st, r)
  BY ZenonT(240), SMTT(120), <1>12, <1>14 DEF revert, Tables
<1>16. Journaled(st, r, op, st2, r2)
  BY SMTT(240), ZenonT(120), <1>3, <1>9, <1>10, <1>12, <1>13, <1>15 DEF Journaled, Inverts
<1> QED BY SMTT(240), ZenonT(120), <1>8, <1>16 DEF r2

(* Rewriting or adding reserve rows leaves the positions as they are. *)
LEMMA RowsGood ==
  ASSUME NEW st \in Store, Good(st), NEW st2 \in Store,
         st2.pos = st.pos, st2.cols = st.cols,
         \A n \in Market : Known(st, n) => Known(st2, n),
         \A n \in Market : Len(st2.rows[n]) >= Len(st.rows[n]),
         \A n \in Market : ~Known(st2, n) => st2.rows[n] = st.rows[n]
  PROVE  Good(st2)
<1>1. \A p : /\ MarketOf(st2, p) = MarketOf(st, p) /\ LocalOf(st2, p) = LocalOf(st, p)
             /\ CellsOf(st2, p) = CellsOf(st, p)
  BY SMTT(240), ZenonT(120) DEF MarketOf, LocalOf, CellsOf
<1>2. MaskExactIn(st2)  BY SMTT(240), ZenonT(120), <1>1 DEF Good, MaskExactIn
<1>3. PaddingBlankIn(st2)
  <2> SUFFICES ASSUME NEW n \in Market, NEW k \in 1 .. Len(st2.cols[n]), NEW s \in Slot,
                      s > Len(st2.rows[n])
               PROVE  /\ \A col \in Col : st2.cols[n][k].bal[col][s] = 0
                      /\ st2.cols[n][k].slot_extra[s] = ZERO
    BY DEF PaddingBlankIn
  <2>1. st.rows[n] \in Seq(Row) /\ st2.rows[n] \in Seq(Row)  BY StoreFields
  <2>2. s > Len(st.rows[n])  BY <2>1, StoreAssumption DEF Slot
  <2> QED BY <2>2 DEF Good, PaddingBlankIn
<1>4. NoAliasingIn(st2)
  <2>1. ASSUME NEW p \in 1 .. Len(st.pos)  PROVE HasCell(st2, p)
    <3>1. HasCell(st, p)  BY DEF Good, NoAliasingIn
    <3>2. MarketOf(st, p) \in Market  BY <3>1, CellFacts
    <3> QED BY SMTT(240), ZenonT(120), <1>1, <3>1, <3>2 DEF HasCell
  <2> QED BY <1>1, <2>1 DEF Good, NoAliasingIn
<1>5. \A n \in Market : ~Known(st2, n) => st2.rows[n] = <<>> /\ st2.cols[n] = <<>>
  BY DEF Good
<1> QED BY <1>2, <1>3, <1>4, <1>5 DEF Good

LEMMA StoreRows ==
  ASSUME NEW st \in Store, NEW m, NEW s, NEW x
  PROVE  WithRow(st, m, s, x) =
           [pos |-> st.pos, cols |-> st.cols,
            rows |-> [st.rows EXCEPT ![m] = [st.rows[m] EXCEPT ![s] = x]], order |-> st.order]
<1> DEFINE A == Seq(Position)
           B == [Market -> Seq(Cells)]
           C == [Market -> Seq(Row)]
           D == Seq(Market)
           rs == [st.rows EXCEPT ![m] = [st.rows[m] EXCEPT ![s] = x]]
<1>1. st \in [pos : A, cols : B, rows : C, order : D]  BY DEF Store
<1> HIDE DEF A, B, C, D
<1>2. \A y : [st EXCEPT !.rows = y] =
        [pos |-> st.pos, cols |-> st.cols, rows |-> y, order |-> st.order]
  BY <1>1, RecordUpdate
<1>3. WithRow(st, m, s, x) = [st EXCEPT !.rows = rs]
  BY SMTT(240), ZenonT(120) DEF WithRow
<1> QED BY SMTT(240), ZenonT(120), <1>2, <1>3

LEMMA MarketJournaled ==
  ASSUME NEW st \in Store, Good(st), NEW r \in BlockUndo, NEW m \in Market,
         NEW s \in Slot, NEW x \in Row,
         Known(st, m), s <= Len(st.rows[m])
  PROVE  LET op == [kind |-> "Market", market |-> m, slot |-> s]
         IN  Journaled(st, r, op, WithRow(st, m, s, x),
                       push_market(r, op, st.rows[m][s]))
<1> DEFINE op  == [kind |-> "Market", market |-> m, slot |-> s]
           rm  == [st.rows[m] EXCEPT ![s] = x]
           rs  == [st.rows EXCEPT ![m] = rm]
           st2 == [pos |-> st.pos, cols |-> st.cols, rows |-> rs, order |-> st.order]
           r2  == push_market(r, op, st.rows[m][s])
<1>1. /\ st.pos \in Seq(Position) /\ st.cols \in [Market -> Seq(Cells)]
      /\ st.rows \in [Market -> Seq(Row)] /\ st.order \in Seq(Market)
      /\ st = [pos |-> st.pos, cols |-> st.cols, rows |-> st.rows, order |-> st.order]
  BY StoreFields
<1>2. st.rows[m] \in Seq(Row) /\ s \in 1 .. Len(st.rows[m])
  BY <1>1, StoreAssumption DEF Slot
<1>3. op \in UndoOp  BY DEF UndoOp
<1>4. /\ rm \in Seq(Row) /\ Len(rm) = Len(st.rows[m])
      /\ [rm EXCEPT ![s] = st.rows[m][s]] = st.rows[m]
      /\ st.rows[m][s] \in Row
  BY <1>2, SeqUpdate
<1> HIDE DEF rm
<1>5. /\ rs \in [Market -> Seq(Row)] /\ rs[m] = rm
      /\ \A n \in Market : n # m => rs[n] = st.rows[n]
      /\ [rs EXCEPT ![m] = st.rows[m]] = st.rows
  BY <1>1, <1>4, FcnUpdate
<1>6. WithRow(st, m, s, x) = st2  
  <2>1. WithRow(st, m, s, x) =
          [pos |-> st.pos, cols |-> st.cols,
           rows |-> [st.rows EXCEPT ![m] = [st.rows[m] EXCEPT ![s] = x]], order |-> st.order]
    BY StoreRows
  <2> QED BY SMTT(240), ZenonT(120), <2>1 DEF rm
<1> HIDE DEF rs
<1>7. /\ st2 \in Store /\ st2.pos = st.pos /\ st2.cols = st.cols /\ st2.rows = rs
      /\ st2.order = st.order
  BY ZenonT(240), SMTT(120), <1>1, <1>5, StoreMake
<1> HIDE DEF st2
<1>8. \A n : Known(st2, n) <=> Known(st, n)  BY <1>7 DEF Known
<1>9. Good(st2)
  <2>1. \A n \in Market : Len(st2.rows[n]) >= Len(st.rows[n])
    <3> TAKE n \in Market
    <3>1. st.rows[n] \in Seq(Row)  BY <1>1
    <3>2. Len(st2.rows[n]) = Len(st.rows[n])
      <4>1. CASE n = m  BY SMTT(240), ZenonT(120), <1>4, <1>5, <1>7, <4>1
      <4>2. CASE n # m  BY <1>5, <1>7, <4>2
      <4> QED BY SMTT(240), ZenonT(120), <4>1, <4>2
    <3>3. Len(st.rows[n]) \in Nat  BY <3>1
    <3> QED BY <3>2, <3>3
  <2>2. \A n \in Market : ~Known(st2, n) => st2.rows[n] = st.rows[n]
    BY SMTT(240), ZenonT(120), <1>5, <1>7, <1>8
  <2> QED BY <1>7, <1>8, <2>1, <2>2, RowsGood
<1>10. /\ r2 \in BlockUndo /\ r2.ops = Append(r.ops, op)
       /\ r2.extras = r.extras /\ r2.rows # <<>>
       /\ Last(r2.rows) = st.rows[m][s] /\ Front(r2.rows) = r.rows
  <2> DEFINE prev == st.rows[m][s]
  <2>1. prev \in Row  BY SMTT(240), ZenonT(120), <1>4
  <2> HIDE DEF prev, op
  <2>2. /\ push_market(r, op, prev) \in BlockUndo
        /\ push_market(r, op, prev).ops = Append(r.ops, op)
        /\ push_market(r, op, prev).extras = r.extras
        /\ push_market(r, op, prev).rows # <<>>
        /\ Last(push_market(r, op, prev).rows) = prev
        /\ Front(push_market(r, op, prev).rows) = r.rows
    BY <1>3, <2>1, PushFacts
  <2> QED BY <2>2 DEF prev
<1> DEFINE new == Tables(st2, r2)
<1> HIDE DEF r2
<1>11. Consistent(op, new)
  <2>1. s <= Len(st2.rows[m])  BY <1>4, <1>5, <1>7
  <2> QED BY <1>8, <1>10, <2>1 DEF Consistent, Tables
<1>12. WithRow(st2, m, s, st.rows[m][s]) = st
  <2>1. WithRow(st2, m, s, st.rows[m][s]) =
          [pos |-> st.pos, cols |-> st.cols,
           rows |-> [rs EXCEPT ![m] = [rs[m] EXCEPT ![s] = st.rows[m][s]]], order |-> st.order]
    <3>1. WithRow(st2, m, s, st.rows[m][s]) =
            [pos |-> st2.pos, cols |-> st2.cols,
             rows |-> [st2.rows EXCEPT ![m] = [st2.rows[m] EXCEPT ![s] = st.rows[m][s]]],
             order |-> st2.order]
      BY <1>7, StoreRows
    <3> QED BY SMTT(240), ZenonT(120), <1>7, <3>1
  <2> QED BY <1>1, <1>4, <1>5, <2>1
<1>13. revert(op, new) = Tables(st, r)
  BY SMTT(240), ZenonT(120), <1>10, <1>12 DEF revert, Tables
<1>14. Journaled(st, r, op, st2, r2)
  BY SMTT(240), ZenonT(120), <1>3, <1>7, <1>9, <1>10, <1>11, <1>13 DEF Journaled, Inverts
<1> QED BY <1>6, <1>14 DEF r2

LEMMA PushedJournaled ==
  ASSUME NEW st \in Store, Good(st), NEW r \in BlockUndo, NEW m \in Market, NEW x \in Row
  PROVE  LET created == ~Known(st, m)
             op == [kind |-> "Pushed", market |-> m, created |-> created]
         IN  Journaled(st, r, op,
                       [pos   |-> st.pos,
                        cols  |-> st.cols,
                        rows  |-> [st.rows EXCEPT ![m] = Append(@, x)],
                        order |-> IF created THEN Append(st.order, m) ELSE st.order],
                       push(r, op))
<1> DEFINE created == ~Known(st, m)
           op  == [kind |-> "Pushed", market |-> m, created |-> created]
           rm  == Append(st.rows[m], x)
           rs  == [st.rows EXCEPT ![m] = rm]
           os  == IF created THEN Append(st.order, m) ELSE st.order
           st2 == [pos |-> st.pos, cols |-> st.cols, rows |-> rs, order |-> os]
           r2  == push(r, op)
<1>1. /\ st.pos \in Seq(Position) /\ st.cols \in [Market -> Seq(Cells)]
      /\ st.rows \in [Market -> Seq(Row)] /\ st.order \in Seq(Market)
      /\ st = [pos |-> st.pos, cols |-> st.cols, rows |-> st.rows, order |-> st.order]
  BY StoreFields
<1>2. st.rows[m] \in Seq(Row)  BY <1>1
<1>3. created \in BOOLEAN  BY DEF Known
<1>4. op \in UndoOp
  <2> HIDE DEF created
  <2> QED BY <1>3 DEF UndoOp
<1>5. /\ rm \in Seq(Row) /\ Len(rm) = Len(st.rows[m]) + 1 /\ rm # <<>> /\ Front(rm) = st.rows[m]
  BY <1>2, AppendFacts
<1> HIDE DEF rm
<1>6. /\ rs \in [Market -> Seq(Row)] /\ rs[m] = rm
      /\ \A n \in Market : n # m => rs[n] = st.rows[n]
      /\ [rs EXCEPT ![m] = st.rows[m]] = st.rows
  BY SMTT(240), ZenonT(120), <1>1, <1>2, <1>5, FcnUpdate
<1>7. /\ os \in Seq(Market)
      /\ created => Last(os) = m /\ Front(os) = st.order
      /\ \A n : Known(st, n) => \E i \in 1 .. Len(os) : os[i] = n
      /\ \E i \in 1 .. Len(os) : os[i] = m
  <2>1. /\ Append(st.order, m) \in Seq(Market)
        /\ Len(Append(st.order, m)) = Len(st.order) + 1
        /\ \A i \in 1 .. Len(st.order) : Append(st.order, m)[i] = st.order[i]
        /\ Append(st.order, m)[Len(st.order) + 1] = m
        /\ Last(Append(st.order, m)) = m /\ Front(Append(st.order, m)) = st.order
    BY <1>1, AppendFacts
  <2>2. Len(st.order) \in Nat  BY SMTT(240), ZenonT(120), <1>1
  <2>3. CASE created
    <3>1. os = Append(st.order, m)  BY <2>3
    <3>2. Len(st.order) + 1 \in 1 .. Len(os)  BY <2>1, <2>2, <3>1
    <3>3. \A i \in 1 .. Len(st.order) : i \in 1 .. Len(os)  BY SMTT(240), ZenonT(120), <2>1, <2>2, <3>1
    <3>4. \E i \in 1 .. Len(os) : os[i] = m  BY SMTT(240), ZenonT(120), <2>1, <3>1, <3>2
    <3>5. \A n : Known(st, n) => \E i \in 1 .. Len(os) : os[i] = n
      BY <2>1, <3>1, <3>3 DEF Known
    <3> QED BY <2>1, <3>1, <3>4, <3>5
  <2>4. CASE ~created
    <3>1. os = st.order  BY <2>4
    <3> QED BY <1>1, <2>4, <3>1 DEF Known
  <2> QED BY <2>3, <2>4
<1> HIDE DEF rs, os
<1>8. /\ st2 \in Store /\ st2.pos = st.pos /\ st2.cols = st.cols /\ st2.rows = rs
      /\ st2.order = os
  BY ZenonT(240), SMTT(120), <1>1, <1>6, <1>7, StoreMake
<1> HIDE DEF st2
<1>9. Known(st2, m) /\ \A n \in Market : Known(st, n) => Known(st2, n)
  BY ZenonT(240), SMTT(120), <1>7, <1>8 DEF Known
<1>10. Good(st2)
  <2>1. ASSUME NEW n \in Market PROVE Len(st2.rows[n]) >= Len(st.rows[n])
    <3>1. Len(st.rows[n]) \in Nat  BY <1>1
    <3>2. CASE n = m  BY <1>5, <1>6, <1>8, <3>1, <3>2
    <3>3. CASE n # m  BY <1>6, <1>8, <3>1, <3>3
    <3> QED BY <3>2, <3>3
  <2>2. \A n \in Market : ~Known(st2, n) => st2.rows[n] = st.rows[n]
    BY SMTT(240), ZenonT(120), <1>6, <1>8, <1>9
  <2> QED BY <1>8, <1>9, <2>1, <2>2, RowsGood
<1>11. /\ r2 \in BlockUndo /\ r2.ops = Append(r.ops, op)
       /\ r2.extras = r.extras /\ r2.rows = r.rows
  <2> HIDE DEF op
  <2> QED BY SMTT(240), ZenonT(120), <1>4, PushFacts
<1> DEFINE new == Tables(st2, r2)
<1> HIDE DEF r2
<1>12. created => /\ Last(st2.order) = m /\ Len(st2.rows[m]) = 1 /\ st2.cols[m] = <<>>
  <2> SUFFICES ASSUME created PROVE /\ Last(st2.order) = m /\ Len(st2.rows[m]) = 1
                                    /\ st2.cols[m] = <<>>
    OBVIOUS
  <2>1. st.rows[m] = <<>> /\ st.cols[m] = <<>>  BY DEF Good
  <2>2. Len(rm) = 1  BY <1>5, <2>1
  <2> QED BY <1>6, <1>7, <1>8, <2>1, <2>2
<1>13. Consistent(op, new)
  <2>1. st2.rows[m] # <<>>  BY <1>5, <1>6, <1>8
  <2> HIDE DEF created
  <2> QED BY <1>9, <1>12, <2>1 DEF Consistent, Tables
<1>14. [pos |-> st2.pos, cols |-> st2.cols, rows |-> [st2.rows EXCEPT ![m] = Front(st2.rows[m])],
        order |-> IF created THEN Front(st2.order) ELSE st2.order] = st
  <2>1. [st2.rows EXCEPT ![m] = Front(st2.rows[m])] = st.rows
    BY ZenonT(240), SMTT(120), <1>5, <1>6, <1>8
  <2>2. (IF created THEN Front(st2.order) ELSE st2.order) = st.order
    BY <1>7, <1>8 DEF os
  <2> QED BY <1>1, <1>8, <2>1, <2>2
<1>15. revert(op, new) = Tables(st, r)
  <2> HIDE DEF created
  <2>1. revert(op, new) =
          [new EXCEPT !.st = [pos |-> st2.pos, cols |-> st2.cols,
                              rows |-> [st2.rows EXCEPT ![m] = Front(st2.rows[m])],
                              order |-> IF created THEN Front(st2.order) ELSE st2.order]]
    BY DEF revert, Tables
  <2> QED BY <1>11, <1>14, <2>1 DEF Tables
<1>16. Journaled(st, r, op, st2, r2)
  <2> HIDE DEF op
  <2> QED BY SMTT(240), ZenonT(120), <1>4, <1>8, <1>10, <1>11, <1>13, <1>15 DEF Journaled, Inverts
<1> QED BY <1>16 DEF r2, st2, rs, rm, os

LEMMA CreatedJournaled ==
  ASSUME NEW st \in Store, Good(st), NEW r \in BlockUndo, NEW k \in Key,
         \A i \in 1 .. Len(st.pos) : st.pos[i].key # k,
         Known(st, k.market)
  PROVE  LET op == [kind |-> "Created", pos |-> Len(st.pos) + 1]
         IN  Journaled(st, r, op,
                       [pos   |-> Append(st.pos, [key |-> k, local |-> Len(st.cols[k.market]) + 1,
                                                  config |-> {}, extra |-> ZERO]),
                        cols  |-> [st.cols EXCEPT ![k.market] = Append(@, BlankCells)],
                        rows  |-> st.rows,
                        order |-> st.order],
                       push(r, op))
<1> DEFINE m   == k.market
           op  == [kind |-> "Created", pos |-> Len(st.pos) + 1]
           e   == [key |-> k, local |-> Len(st.cols[m]) + 1, config |-> {}, extra |-> ZERO]
           ps  == Append(st.pos, e)
           cm  == Append(st.cols[m], BlankCells)
           cs  == [st.cols EXCEPT ![m] = cm]
           st2 == [pos |-> ps, cols |-> cs, rows |-> st.rows, order |-> st.order]
           r2  == push(r, op)
           p   == Len(st.pos) + 1
<1>1. /\ st.pos \in Seq(Position) /\ st.cols \in [Market -> Seq(Cells)]
      /\ st.rows \in [Market -> Seq(Row)] /\ st.order \in Seq(Market)
      /\ st = [pos |-> st.pos, cols |-> st.cols, rows |-> st.rows, order |-> st.order]
  BY StoreFields
<1>2. m \in Market /\ st.cols[m] \in Seq(Cells) /\ Len(st.cols[m]) \in Nat /\ Len(st.pos) \in Nat
  BY <1>1 DEF Key
<1>3. op \in UndoOp  BY SMTT(240), ZenonT(120), <1>2 DEF UndoOp
<1> HIDE DEF op, r2
<1>4. /\ e \in Position /\ e.key = k /\ e.local = Len(st.cols[m]) + 1 /\ e.config = {}
  BY SMTT(240), ZenonT(120), <1>2, StoreAssumption DEF Position
<1>5. /\ BlankCells \in Cells
      /\ \A s \in Slot : /\ \A col \in Col : BlankCells.bal[col][s] = 0
                         /\ BlankCells.slot_extra[s] = ZERO
  BY StoreAssumption DEF BlankCells, Cells
<1> HIDE DEF e
<1>6. /\ ps \in Seq(Position) /\ Len(ps) = p
      /\ \A i \in 1 .. Len(st.pos) : ps[i] = st.pos[i]
      /\ ps[p] = e /\ Front(ps) = st.pos
  BY SMTT(240), ZenonT(120), <1>1, <1>4, AppendFacts
<1>7. /\ cm \in Seq(Cells) /\ Len(cm) = Len(st.cols[m]) + 1
      /\ \A i \in 1 .. Len(st.cols[m]) : cm[i] = st.cols[m][i]
      /\ cm[Len(st.cols[m]) + 1] = BlankCells /\ Front(cm) = st.cols[m]
  BY SMTT(240), ZenonT(120), <1>2, <1>5, AppendFacts
<1> HIDE DEF ps, cm, p
<1>8. /\ cs \in [Market -> Seq(Cells)] /\ cs[m] = cm
      /\ \A n \in Market : n # m => cs[n] = st.cols[n]
      /\ [cs EXCEPT ![m] = st.cols[m]] = st.cols
  BY <1>1, <1>2, <1>7, FcnUpdate
<1> HIDE DEF cs
<1>9. /\ st2 \in Store /\ st2.pos = ps /\ st2.cols = cs /\ st2.rows = st.rows
      /\ st2.order = st.order
  BY ZenonT(240), SMTT(120), <1>1, <1>6, <1>8, StoreMake
<1> HIDE DEF st2, m
<1>10. \A n : Known(st2, n) <=> Known(st, n)  BY SMTT(240), ZenonT(120), <1>9 DEF Known
<1>11. /\ MarketOf(st2, p) = m /\ LocalOf(st2, p) = Len(st.cols[m]) + 1
       /\ CellsOf(st2, p) = BlankCells /\ HasCell(st2, p)
       /\ LocalOf(st2, p) = Len(st2.cols[m])
  <2>1. MarketOf(st2, p) = m /\ LocalOf(st2, p) = Len(st.cols[m]) + 1
    BY SMTT(240), ZenonT(120), <1>4, <1>6, <1>9 DEF MarketOf, LocalOf, m
  <2>2. CellsOf(st2, p) = BlankCells  BY SMTT(240), ZenonT(120), <1>7, <1>8, <1>9, <2>1 DEF CellsOf
  <2>3. p \in 1 .. Len(st2.pos)  BY SMTT(240), ZenonT(120), <1>2, <1>6, <1>9 DEF p
  <2>4. LocalOf(st2, p) \in 1 .. Len(st2.cols[m])  BY SMTT(240), ZenonT(120), <1>2, <1>7, <1>8, <1>9, <2>1
  <2>5. HasCell(st2, p)  BY SMTT(240), ZenonT(120), <1>10, <2>1, <2>3, <2>4 DEF HasCell, m
  <2> QED BY SMTT(240), ZenonT(120), <1>7, <1>8, <1>9, <2>1, <2>2, <2>5
<1>12. ASSUME NEW q \in 1 .. Len(st.pos)
       PROVE  /\ st2.pos[q] = st.pos[q]
              /\ MarketOf(st2, q) = MarketOf(st, q) /\ LocalOf(st2, q) = LocalOf(st, q)
              /\ CellsOf(st2, q) = CellsOf(st, q) /\ HasCell(st2, q)
              /\ st.pos[q].key # k /\ MarketOf(st, q) = m => LocalOf(st, q) # Len(st.cols[m]) + 1
  <2>1. st2.pos[q] = st.pos[q]  BY SMTT(240), ZenonT(120), <1>6, <1>9
  <2>2. MarketOf(st2, q) = MarketOf(st, q) /\ LocalOf(st2, q) = LocalOf(st, q)
    BY SMTT(240), ZenonT(120), <2>1 DEF MarketOf, LocalOf
  <2>3. HasCell(st, q)  BY ZenonT(240), SMTT(120) DEF Good, NoAliasingIn
  <2>4. MarketOf(st, q) \in Market /\ LocalOf(st, q) \in 1 .. Len(st.cols[MarketOf(st, q)])
    BY SMTT(240), ZenonT(120), <2>3, CellFacts
  <2>5. CASE MarketOf(st, q) = m
    <3>1. LocalOf(st, q) \in 1 .. Len(st.cols[m]) /\ LocalOf(st, q) # Len(st.cols[m]) + 1
      BY SMTT(240), ZenonT(120), <1>2, <2>4, <2>5
    <3>2. CellsOf(st2, q) = CellsOf(st, q)
      BY SMTT(240), ZenonT(120), <1>7, <1>8, <1>9, <2>2, <2>5, <3>1 DEF CellsOf
    <3>3. HasCell(st2, q)
      <4>1. q \in 1 .. Len(st2.pos)  BY SMTT(240), ZenonT(120), <1>2, <1>6, <1>9 DEF p
      <4>2. LocalOf(st2, q) \in 1 .. Len(st2.cols[MarketOf(st2, q)])
        BY SMTT(240), ZenonT(120), <1>2, <1>7, <1>8, <1>9, <2>2, <2>5, <3>1
      <4> QED BY SMTT(240), ZenonT(120), <1>10, <2>2, <2>3, <4>1, <4>2 DEF HasCell
    <3> QED BY SMTT(240), ZenonT(120), <2>1, <2>2, <3>1, <3>2, <3>3
  <2>6. CASE MarketOf(st, q) # m
    <3>1. st2.cols[MarketOf(st, q)] = st.cols[MarketOf(st, q)]  BY SMTT(240), ZenonT(120), <1>8, <1>9, <2>4, <2>6
    <3>2. CellsOf(st2, q) = CellsOf(st, q)  BY SMTT(240), ZenonT(120), <2>2, <3>1 DEF CellsOf
    <3>3. q \in 1 .. Len(st2.pos)  BY SMTT(240), ZenonT(120), <1>2, <1>6, <1>9 DEF p
    <3>4. HasCell(st2, q)  BY SMTT(240), ZenonT(120), <1>10, <2>2, <2>3, <3>1, <3>3 DEF HasCell
    <3> QED BY SMTT(240), ZenonT(120), <2>1, <2>2, <2>6, <3>2, <3>4
  <2> QED BY SMTT(240), ZenonT(120), <2>5, <2>6
<1>13. \A q \in 1 .. Len(st2.pos) : q = p \/ q \in 1 .. Len(st.pos)
  BY SMTT(240), ZenonT(120), <1>2, <1>6, <1>9 DEF p
<1>14. \A q \in 1 .. Len(st.pos) : q # p  BY SMTT(240), ZenonT(120), <1>2 DEF p
<1>15. MaskExactIn(st2)
  <2> SUFFICES ASSUME NEW q \in 1 .. Len(st2.pos)
               PROVE  st2.pos[q].config =
                         {s \in Slot : \E col \in Col : CellsOf(st2, q).bal[col][s] # 0}
    BY SMTT(240), ZenonT(120) DEF MaskExactIn
  <2>1. CASE q = p  BY SMTT(240), ZenonT(120), <1>4, <1>5, <1>6, <1>9, <1>11, <2>1
  <2>2. CASE q \in 1 .. Len(st.pos)  BY SMTT(240), ZenonT(120), <1>12, <2>2 DEF Good, MaskExactIn
  <2> QED BY SMTT(240), ZenonT(120), <1>13, <2>1, <2>2
<1>16. PaddingBlankIn(st2)
  <2> SUFFICES ASSUME NEW n \in Market, NEW i \in 1 .. Len(st2.cols[n]), NEW s \in Slot,
                      s > Len(st2.rows[n])
               PROVE  /\ \A col \in Col : st2.cols[n][i].bal[col][s] = 0
                      /\ st2.cols[n][i].slot_extra[s] = ZERO
    BY SMTT(240), ZenonT(120) DEF PaddingBlankIn
  <2>1. CASE n = m /\ i = Len(st.cols[m]) + 1  BY SMTT(240), ZenonT(120), <1>5, <1>7, <1>8, <1>9, <2>1
  <2>2. CASE ~(n = m /\ i = Len(st.cols[m]) + 1)
    <3>1. i \in 1 .. Len(st.cols[n]) /\ st2.cols[n][i] = st.cols[n][i]
      BY SMTT(240), ZenonT(120), <1>2, <1>7, <1>8, <1>9, <2>2
    <3> QED BY SMTT(240), ZenonT(120), <1>9, <3>1 DEF Good, PaddingBlankIn
  <2> QED BY ZenonT(240), SMTT(120), <2>1, <2>2
<1>17. NoAliasingIn(st2)
  <2> SUFFICES ASSUME NEW q \in 1 .. Len(st2.pos), NEW q2 \in 1 .. Len(st2.pos), q # q2
               PROVE  /\ HasCell(st2, q)
                      /\ st2.pos[q].key # st2.pos[q2].key
                      /\ MarketOf(st2, q) = MarketOf(st2, q2) => LocalOf(st2, q) # LocalOf(st2, q2)
    BY ZenonT(240), SMTT(120), <1>11, <1>12, <1>13 DEF NoAliasingIn
  <2>0. st2.pos[p].key = k  BY SMTT(240), ZenonT(120), <1>4, <1>6, <1>9
  <2>1. CASE q = p /\ q2 \in 1 .. Len(st.pos)  BY ZenonT(240), SMTT(120), <1>11, <1>12, <2>0, <2>1
  <2>2. CASE q2 = p /\ q \in 1 .. Len(st.pos)  BY SMTT(240), ZenonT(120), <1>11, <1>12, <2>0, <2>2
  <2>3. CASE q \in 1 .. Len(st.pos) /\ q2 \in 1 .. Len(st.pos)
    BY SMTT(240), ZenonT(120), <1>12, <2>3 DEF Good, NoAliasingIn
  <2> QED BY SMTT(240), ZenonT(120), <1>13, <2>1, <2>2, <2>3
<1>18. \A n \in Market : ~Known(st2, n) => st2.rows[n] = <<>> /\ st2.cols[n] = <<>>
  BY SMTT(240), ZenonT(120), <1>8, <1>9, <1>10 DEF Good, m
<1>19. Good(st2)  BY SMTT(240), ZenonT(120), <1>15, <1>16, <1>17, <1>18 DEF Good
<1>20. /\ r2 \in BlockUndo /\ r2.ops = Append(r.ops, op)
       /\ r2.extras = r.extras /\ r2.rows = r.rows
  BY <1>3, PushFacts DEF r2
<1> DEFINE new == Tables(st2, r2)
<1>21. Consistent(op, new)
  BY SMTT(240), ZenonT(120), <1>6, <1>9, <1>11 DEF Consistent, Tables, op, p
<1>22. [pos |-> Front(st2.pos), cols |-> [st2.cols EXCEPT ![m] = Front(st2.cols[m])],
        rows |-> st2.rows, order |-> st2.order] = st
  BY <1>1, <1>6, <1>7, <1>8, <1>9
<1>23. revert(op, new) = Tables(st, r)
  <2>1. revert(op, new) =
          [new EXCEPT !.st = [pos |-> Front(st2.pos),
                              cols |-> [st2.cols EXCEPT ![m] = Front(st2.cols[m])],
                              rows |-> st2.rows, order |-> st2.order]]
    BY SMTT(240), ZenonT(120), <1>11 DEF revert, Tables, op, p
  <2> QED BY <1>20, <1>22, <2>1 DEF Tables
<1>24. Journaled(st, r, op, st2, r2)
  BY SMTT(240), ZenonT(120), <1>3, <1>9, <1>19, <1>20, <1>21, <1>23 DEF Journaled, Inverts
<1> QED BY <1>24 DEF op, r2, st2, cs, cm, ps, e, m

-----------------------------------------------------------------------------
(* Every setter journals an exact inverse and keeps a good store good. *)
LEMMA SetterStep ==
  ASSUME TypeOK, Good(store), Setter
  PROVE  \E op, st2, r2 : /\ Journaled(store, ring[head], op, st2, r2)
                          /\ JournalThenWrite(st2, r2)
<1>1. store \in Store /\ ring[head] \in BlockUndo  BY ZenonT(240), SMTT(120) DEF TypeOK
<1>2. ASSUME NEW p \in 1 .. Len(store.pos), NEW s \in Slot, NEW col \in Col, NEW v \in Shares,
             set_column(col, p, s, v)
      PROVE  \E op, st2, r2 : /\ Journaled(store, ring[head], op, st2, r2)
                              /\ JournalThenWrite(st2, r2)
  <2> DEFINE cfg   == store.pos[p].config
             cells == CellsOf(store, p)
             op    == [kind |-> "Column", col |-> col, pos |-> p, slot |-> s,
                       prev_set |-> s \in cfg, prev |-> cells.bal[col][s]]
             st2   == WithColumn(store, p, col, s, v,
                        IF v # 0 \/ cells.bal[Other(col)][s] # 0 THEN cfg \cup {s} ELSE cfg \ {s})
             r2    == push(ring[head], op)
  <2>1. /\ HasCell(store, p) /\ s <= Len(store.rows[MarketOf(store, p)])
        /\ JournalThenWrite(st2, r2)
    BY ZenonT(240), SMTT(120), <1>2 DEF set_column
  <2>2. Journaled(store, ring[head], op, st2, r2)
    BY ZenonT(240), SMTT(120), <1>1, <2>1, ColumnJournaled
  <2> HIDE DEF op, st2, r2
  <2> QED BY <2>1, <2>2
<1>3. ASSUME NEW p \in 1 .. Len(store.pos), NEW s \in Slot, NEW x \in Extra,
             set_slot_extra(p, s, x)
      PROVE  \E op, st2, r2 : /\ Journaled(store, ring[head], op, st2, r2)
                              /\ JournalThenWrite(st2, r2)
  BY ZenonT(240), SMTT(120), <1>1, <1>3, SlotExtraJournaled DEF set_slot_extra
<1>4. ASSUME NEW p \in 1 .. Len(store.pos), NEW x \in Extra, set_extra(p, x)
      PROVE  \E op, st2, r2 : /\ Journaled(store, ring[head], op, st2, r2)
                              /\ JournalThenWrite(st2, r2)
  BY SMTT(240), ZenonT(120), <1>1, <1>4, ExtraJournaled DEF set_extra
<1>5. ASSUME NEW m \in Market, NEW x \in Row, push_market_row(m, x)
      PROVE  \E op, st2, r2 : /\ Journaled(store, ring[head], op, st2, r2)
                              /\ JournalThenWrite(st2, r2)
  BY ZenonT(240), SMTT(120), <1>1, <1>5, PushedJournaled DEF push_market_row
<1>6. ASSUME NEW m \in Market, NEW x \in Row, NEW s \in Slot, set_market(m, s, x)
      PROVE  \E op, st2, r2 : /\ Journaled(store, ring[head], op, st2, r2)
                              /\ JournalThenWrite(st2, r2)
  BY ZenonT(240), SMTT(120), <1>1, <1>6, MarketJournaled DEF set_market
<1>7. ASSUME NEW k \in Key, intern(k)
      PROVE  \E op, st2, r2 : /\ Journaled(store, ring[head], op, st2, r2)
                              /\ JournalThenWrite(st2, r2)
  BY ZenonT(240), SMTT(120), <1>1, <1>7, CreatedJournaled DEF intern
<1> QED BY <1>2, <1>3, <1>4, <1>5, <1>6, <1>7 DEF Setter
=============================================================================
