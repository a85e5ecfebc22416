----------------------------- MODULE StateStore -----------------------------
(***************************************************************************)
(* liq-state's StateStore and its UndoRing (store.rs, undo.rs): columns of *)
(* balances written by the one hot thread, with the inverse of every write *)
(* of the last UNDO_DEPTH blocks journaled in a ring of per-block records. *)
(*                                                                         *)
(* Abstractions.  The row-major columns of a market are one sequence of    *)
(* cell records per market, indexed by a position's `local`; the stride    *)
(* (room beyond the listed slots) is the slots of Slot not listed yet.     *)
(* Position ids, locals and slots count from 1.  A call that returns an    *)
(* error before its "journal, then write" line changes nothing and is no   *)
(* step.  unwind_to is stepped op by op, so that a record that does not    *)
(* match the state can be seen half-way.                                   *)
(***************************************************************************)
EXTENDS Naturals, Sequences

CONSTANTS Market, User,  \* a position's key is [market, user]
          Shares,        \* cell values: 0 is "no balance"
          Extra,         \* adapter cells (PositionExtraRepr)
          ZERO,          \* the blank adapter cell
          Row,           \* reserve rows (MarketRow)
          MaxSlots,      \* AssetMask::MAX_SLOTS
          UNDO_DEPTH,    \* blocks of history the ring holds
          Base,          \* block the store was built at
          MaxTip,        \* bound: highest block number
          MaxWrites      \* bound: setter calls

ASSUME StoreAssumption ==
    /\ UNDO_DEPTH \in Nat \ {0}
    /\ MaxSlots \in Nat
    /\ Base \in Nat /\ MaxTip \in Nat /\ MaxWrites \in Nat
    /\ Base <= MaxTip
    /\ 0 \in Shares
    /\ ZERO \in Extra

Slot  == 1 .. MaxSlots
Block == Base .. MaxTip
Col   == {"supply", "debt"}
Key   == [market : Market, user : User]

VARIABLES
    store,   \* [pos, cols, rows, order]: the columns, see Store
    writes,  \* mutations applied, ever
    ring,    \* UndoRing::blocks
    head, tip, floor,
    pc,      \* where unwind_to is: "idle" outside it, "failed" after Inconsistent
    target, block,  \* unwind_to's argument and loop variable
    rec,     \* the record unwind_to has taken out of the ring
    ended,   \* history: ended[b] is the store as block b was left
    trace    \* history: trace[b][i] is what op i of block b's record inverts to

ringVars == <<ring, head, tip, floor>>
unwindVars == <<pc, target, block, rec>>
vars == <<store, writes, ring, head, tip, floor, pc, target, block, rec, ended, trace>>
-----------------------------------------------------------------------------
(* The store's columns. *)
Cells == [bal : [Col -> [Slot -> Shares]], slot_extra : [Slot -> Extra]]
Position == [key : Key, local : Nat, config : SUBSET Slot, extra : Extra]
Store == [pos   : Seq(Position),             \* PositionTable, config and extra, by PositionId
          cols  : [Market -> Seq(Cells)],    \* balance and slot_extra columns, by local
          rows  : [Market -> Seq(Row)],      \* reserve rows, by slot
          order : Seq(Market)]               \* markets, in order of creation

EmptyStore == [pos   |-> <<>>,
               cols  |-> [m \in Market |-> <<>>],
               rows  |-> [m \in Market |-> <<>>],
               order |-> <<>>]

BlankCells == [bal        |-> [c \in Col |-> [s \in Slot |-> 0]],
               slot_extra |-> [s \in Slot |-> ZERO]]

Known(st, m) == \E i \in 1 .. Len(st.order) : st.order[i] = m
MarketOf(st, p) == st.pos[p].key.market
LocalOf(st, p) == st.pos[p].local
CellsOf(st, p) == st.cols[MarketOf(st, p)][LocalOf(st, p)]
Other(col) == IF col = "supply" THEN "debt" ELSE "supply"
Front(s) == SubSeq(s, 1, Len(s) - 1)
Last(s) == s[Len(s)]
-----------------------------------------------------------------------------
(* UndoOp and BlockUndo. *)
UndoOp ==
         [kind : {"Column"}, col : Col, pos : Nat, slot : Slot,
          prev_set : BOOLEAN, prev : Shares]
    \cup [kind : {"Extra"}, pos : Nat]
    \cup [kind : {"SlotExtra"}, pos : Nat, slot : Slot]
    \cup [kind : {"Market"}, market : Market, slot : Slot]
    \cup [kind : {"Created"}, pos : Nat]
    \cup [kind : {"Pushed"}, market : Market, created : BOOLEAN]

BlockUndo == [ops : Seq(UndoOp), extras : Seq(Extra), rows : Seq(Row)]
NoUndo == [ops |-> <<>>, extras |-> <<>>, rows |-> <<>>]

wrap(i) == i % UNDO_DEPTH

(* Ring slot of block b's record, for b in (floor, tip]. *)
slot_of(b) == wrap((head + UNDO_DEPTH) - wrap(tip - b))

push(r, op) == [r EXCEPT !.ops = Append(@, op)]
push_extra(r, op, prev) ==
    [ops |-> Append(r.ops, op), extras |-> Append(r.extras, prev), rows |-> r.rows]
push_market(r, op, prev) ==
    [ops |-> Append(r.ops, op), extras |-> r.extras, rows |-> Append(r.rows, prev)]
-----------------------------------------------------------------------------
(* revert: one inverse applied to the store, with the block's side tables. *)
(* Consistent is FALSE where the code returns StateError::Inconsistent.    *)
WithPosition(st, p, entry, cells) ==
    [pos   |-> [st.pos EXCEPT ![p] = entry],
     cols  |-> [st.cols EXCEPT ![MarketOf(st, p)][LocalOf(st, p)] = cells],
     rows  |-> st.rows,
     order |-> st.order]

WithColumn(st, p, col, s, v, cfg) ==
    WithPosition(st, p, [st.pos[p] EXCEPT !.config = cfg],
                        [bal        |-> [CellsOf(st, p).bal EXCEPT ![col][s] = v],
                         slot_extra |-> CellsOf(st, p).slot_extra])

WithSlotExtra(st, p, s, x) ==
    WithPosition(st, p, st.pos[p], [bal        |-> CellsOf(st, p).bal,
                                    slot_extra |-> [CellsOf(st, p).slot_extra EXCEPT ![s] = x]])

WithRow(st, m, s, r) == [st EXCEPT !.rows[m][s] = r]

HasCell(st, p) ==
    /\ p \in 1 .. Len(st.pos)
    /\ Known(st, MarketOf(st, p))
    /\ LocalOf(st, p) \in 1 .. Len(st.cols[MarketOf(st, p)])

Consistent(op, m) ==
    CASE op.kind = "Column"    -> HasCell(m.st, op.pos)
      [] op.kind = "Extra"     -> m.extras # <<>> /\ op.pos \in 1 .. Len(m.st.pos)
      [] op.kind = "SlotExtra" -> m.extras # <<>> /\ HasCell(m.st, op.pos)
      [] op.kind = "Market"    -> /\ m.rows # <<>>
                                  /\ Known(m.st, op.market)
                                  /\ op.slot <= Len(m.st.rows[op.market])
      [] op.kind = "Created"   -> /\ op.pos = Len(m.st.pos)
                                  /\ HasCell(m.st, op.pos)
                                  /\ LocalOf(m.st, op.pos) = Len(m.st.cols[MarketOf(m.st, op.pos)])
      [] op.kind = "Pushed"    -> /\ Known(m.st, op.market)
                                  /\ m.st.rows[op.market] # <<>>
                                  /\ op.created => /\ Last(m.st.order) = op.market
                                                   /\ Len(m.st.rows[op.market]) = 1
                                                   /\ m.st.cols[op.market] = <<>>

restore_cell(st, op) ==
    WithColumn(st, op.pos, op.col, op.slot, op.prev,
               IF op.prev_set THEN st.pos[op.pos].config \cup {op.slot}
                              ELSE st.pos[op.pos].config \ {op.slot})

(* m is [st, extras, rows]: the store and the two side tables. *)
revert(op, m) ==
    CASE op.kind = "Column" ->
            [m EXCEPT !.st = restore_cell(m.st, op)]
      [] op.kind = "Extra" ->
            [st     |-> [m.st EXCEPT !.pos[op.pos].extra = Last(m.extras)],
             extras |-> Front(m.extras),
             rows   |-> m.rows]
      [] op.kind = "SlotExtra" ->
            [st     |-> WithSlotExtra(m.st, op.pos, op.slot, Last(m.extras)),
             extras |-> Front(m.extras),
             rows   |-> m.rows]
      [] op.kind = "Market" ->
            [st     |-> WithRow(m.st, op.market, op.slot, Last(m.rows)),
             extras |-> m.extras,
             rows   |-> Front(m.rows)]
      [] op.kind = "Created" ->
            [m EXCEPT !.st = [pos   |-> Front(m.st.pos),
                              cols  |-> [m.st.cols EXCEPT ![MarketOf(m.st, op.pos)] = Front(@)],
                              rows  |-> m.st.rows,
                              order |-> m.st.order]]
      [] op.kind = "Pushed" ->
            [m EXCEPT !.st = [pos   |-> m.st.pos,
                              cols  |-> m.st.cols,
                              rows  |-> [m.st.rows EXCEPT ![op.market] = Front(@)],
                              order |-> IF op.created THEN Front(m.st.order) ELSE m.st.order]]
-----------------------------------------------------------------------------
Init ==
    /\ store = EmptyStore
    /\ writes = 0
    /\ ring = [i \in 0 .. UNDO_DEPTH - 1 |-> NoUndo]
    /\ head = 0
    /\ tip = Base /\ floor = Base
    /\ pc = "idle" /\ target = Base /\ block = Base
    /\ rec = NoUndo
    /\ ended = [b \in Block |-> EmptyStore]
    /\ trace = [b \in Block |-> <<>>]

(* begin_block: open the record of tip + 1, evicting the oldest when full. *)
begin_block ==
    /\ pc = "idle"
    /\ tip < MaxTip
    /\ tip' = tip + 1
    /\ head' = wrap(head + 1)
    /\ floor' = IF tip' - floor > UNDO_DEPTH THEN tip' - UNDO_DEPTH ELSE floor
    /\ ring' = [ring EXCEPT ![head'] = NoUndo]
    /\ ended' = [ended EXCEPT ![tip] = store]
    /\ trace' = [trace EXCEPT ![tip'] = <<>>]
    /\ UNCHANGED <<store, writes, pc, target, block, rec>>

(* The common end of every setter: journal r into the open record, unless  *)
(* no record is open (depth 0), then write.                                *)
JournalThenWrite(st, r) ==
    /\ pc = "idle"
    /\ writes < MaxWrites
    /\ store' = st
    /\ writes' = writes + 1
    /\ IF tip = floor
       THEN UNCHANGED <<ring, trace>>
       ELSE /\ ring' = [ring EXCEPT ![head] = r]
            /\ trace' = [trace EXCEPT ![tip] =
                  Append(@, [st |-> store, extras |-> ring[head].extras, rows |-> ring[head].rows])]
    /\ UNCHANGED <<head, tip, floor, pc, target, block, rec, ended>>

(* Fault: the mask follows the written column only. *)
set_column_one_sided(col, p, s, v) ==
    /\ HasCell(store, p)
    /\ s <= Len(store.rows[MarketOf(store, p)])
    /\ LET cfg == store.pos[p].config
       IN  JournalThenWrite(
               WithColumn(store, p, col, s, v, IF v # 0 THEN cfg \cup {s} ELSE cfg \ {s}),
               push(ring[head], [kind |-> "Column", col |-> col, pos |-> p, slot |-> s,
                                 prev_set |-> s \in cfg, prev |-> CellsOf(store, p).bal[col][s]]))

(* set_supply / set_debt.  The mask bit says "supply or debt is nonzero". *)
set_column(col, p, s, v) ==
    /\ HasCell(store, p)
    /\ s <= Len(store.rows[MarketOf(store, p)])
    /\ LET cfg   == store.pos[p].config
           cells == CellsOf(store, p)
       IN  JournalThenWrite(
               WithColumn(store, p, col, s, v,
                          IF v # 0 \/ cells.bal[Other(col)][s] # 0 THEN cfg \cup {s} ELSE cfg \ {s}),
               push(ring[head], [kind |-> "Column", col |-> col, pos |-> p, slot |-> s,
                                 prev_set |-> s \in cfg, prev |-> cells.bal[col][s]]))

set_extra(p, x) ==
    /\ p \in 1 .. Len(store.pos)
    /\ JournalThenWrite([store EXCEPT !.pos[p].extra = x],
                        push_extra(ring[head], [kind |-> "Extra", pos |-> p], store.pos[p].extra))

set_slot_extra(p, s, x) ==
    /\ HasCell(store, p)
    /\ s <= Len(store.rows[MarketOf(store, p)])
    /\ JournalThenWrite(WithSlotExtra(store, p, s, x),
                        push_extra(ring[head], [kind |-> "SlotExtra", pos |-> p, slot |-> s],
                                   CellsOf(store, p).slot_extra[s]))

set_market(m, s, r) ==
    /\ Known(store, m)
    /\ s <= Len(store.rows[m])
    /\ JournalThenWrite(WithRow(store, m, s, r),
                        push_market(ring[head], [kind |-> "Market", market |-> m, slot |-> s],
                                    store.rows[m][s]))

(* List a reserve: a new slot of a known market, or the first of a new one. *)
push_market_row(m, r) ==
    /\ Len(store.rows[m]) < MaxSlots
    /\ LET created == ~Known(store, m)
       IN  JournalThenWrite([pos   |-> store.pos,
                             cols  |-> store.cols,
                             rows  |-> [store.rows EXCEPT ![m] = Append(@, r)],
                             order |-> IF created THEN Append(store.order, m) ELSE store.order],
                            push(ring[head], [kind |-> "Pushed", market |-> m, created |-> created]))

(* First sight of a key: the next id, and a blank row of cells. *)
intern(k) ==
    /\ \A i \in 1 .. Len(store.pos) : store.pos[i].key # k
    /\ Known(store, k.market)
    /\ JournalThenWrite(
           [pos   |-> Append(store.pos, [key |-> k, local |-> Len(store.cols[k.market]) + 1,
                                         config |-> {}, extra |-> ZERO]),
            cols  |-> [store.cols EXCEPT ![k.market] = Append(@, BlankCells)],
            rows  |-> store.rows,
            order |-> store.order],
           push(ring[head], [kind |-> "Created", pos |-> Len(store.pos) + 1]))
-----------------------------------------------------------------------------
(* Fault: a target below the floor is not refused. *)
unwind_to_any(t) ==
    /\ pc = "idle"
    /\ t <= tip
    /\ pc' = "loop"
    /\ target' = t
    /\ block' = tip
    /\ UNCHANGED <<store, writes, ring, head, tip, floor, rec, ended, trace>>

(* unwind_to(t): refused before anything is touched unless floor <= t <= tip. *)
unwind_to(t) ==
    /\ pc = "idle"
    /\ t <= tip
    /\ t >= floor
    /\ pc' = "loop"
    /\ target' = t
    /\ block' = tip
    /\ UNCHANGED <<store, writes, ring, head, tip, floor, rec, ended, trace>>

take ==
    /\ pc = "loop"
    /\ block > target
    /\ rec' = ring[slot_of(block)]
    /\ ring' = [ring EXCEPT ![slot_of(block)] = NoUndo]
    /\ pc' = "revert"
    /\ UNCHANGED <<store, writes, head, tip, floor, target, block, ended, trace>>

(* Fault: the record is replayed oldest op first. *)
RevertOp_oldest_first ==
    /\ pc = "revert"
    /\ rec.ops # <<>>
    /\ LET op == Head(rec.ops)
           m  == [st |-> store, extras |-> rec.extras, rows |-> rec.rows]
       IN  \/ /\ Consistent(op, m)
              /\ store' = revert(op, m).st
              /\ rec' = [ops    |-> Tail(rec.ops),
                         extras |-> revert(op, m).extras,
                         rows   |-> revert(op, m).rows]
              /\ UNCHANGED pc
           \/ /\ ~Consistent(op, m)
              /\ rec' = NoUndo
              /\ pc' = "failed"
              /\ UNCHANGED store
    /\ UNCHANGED <<writes, ring, head, tip, floor, target, block, ended, trace>>

RevertOp ==
    /\ pc = "revert"
    /\ rec.ops # <<>>
    /\ LET op == Last(rec.ops)
           m  == [st |-> store, extras |-> rec.extras, rows |-> rec.rows]
       IN  \/ /\ Consistent(op, m)
              /\ store' = revert(op, m).st
              /\ rec' = [ops    |-> Front(rec.ops),
                         extras |-> revert(op, m).extras,
                         rows   |-> revert(op, m).rows]
              /\ UNCHANGED pc
           \/ /\ ~Consistent(op, m)
              /\ rec' = NoUndo
              /\ pc' = "failed"
              /\ UNCHANGED store
    /\ UNCHANGED <<writes, ring, head, tip, floor, target, block, ended, trace>>

put ==
    /\ pc = "revert"
    /\ rec.ops = <<>>
    /\ ring' = [ring EXCEPT ![slot_of(block)] = NoUndo]
    /\ rec' = NoUndo
    /\ block' = block - 1
    /\ pc' = "loop"
    /\ UNCHANGED <<store, writes, head, tip, floor, target, ended, trace>>

(* Fault: the head is left where the unwound tip was. *)
rewind_stale_head ==
    /\ pc = "loop"
    /\ block = target
    /\ tip' = target
    /\ pc' = "idle"
    /\ UNCHANGED <<store, writes, ring, head, floor, target, block, rec, ended, trace>>

rewind ==
    /\ pc = "loop"
    /\ block = target
    /\ head' = wrap((head + UNDO_DEPTH) - wrap(tip - target))
    /\ tip' = target
    /\ pc' = "idle"
    /\ UNCHANGED <<store, writes, ring, floor, target, block, rec, ended, trace>>
-----------------------------------------------------------------------------
Setter ==
    \/ \E p \in 1 .. Len(store.pos), s \in Slot :
          \/ \E col \in Col, v \in Shares : set_column(col, p, s, v)
          \/ \E x \in Extra : set_slot_extra(p, s, x)
    \/ \E p \in 1 .. Len(store.pos), x \in Extra : set_extra(p, x)
    \/ \E m \in Market, r \in Row :
          \/ push_market_row(m, r)
          \/ \E s \in Slot : set_market(m, s, r)
    \/ \E k \in Key : intern(k)

Next ==
    \/ begin_block
    \/ Setter
    \/ \E t \in Block : unwind_to(t)
    \/ take
    \/ RevertOp
    \/ put
    \/ rewind

Spec == Init /\ [][Next]_vars
-----------------------------------------------------------------------------
Machine == [st : Store, extras : Seq(Extra), rows : Seq(Row)]

(* Every variable keeps its type. *)
TypeOK ==
    /\ store \in Store
    /\ writes \in Nat
    /\ ring \in [0 .. UNDO_DEPTH - 1 -> BlockUndo]
    /\ head \in 0 .. UNDO_DEPTH - 1
    /\ tip \in Block /\ floor \in Block
    /\ floor <= tip
    /\ tip - floor <= UNDO_DEPTH
    /\ pc \in {"idle", "loop", "revert", "failed"}
    /\ target \in Block /\ block \in Block
    /\ rec \in BlockUndo
    /\ ended \in [Block -> Store]
    /\ trace \in [Block -> Seq(Machine)]

(* The record taken from the ring always matches the state it is applied   *)
(* to: unwind_to never returns StateError::Inconsistent half-way.          *)
NeverInconsistent == pc # "failed"

(* `config` of a position is exactly the set of slots with a nonzero       *)
(* supply or debt, at every moment, also between two reverted ops          *)
(* (set_column's mask rule and restore_cell's prev_set).                   *)
MaskExactIn(st) ==
    \A p \in 1 .. Len(st.pos) :
        st.pos[p].config =
            {s \in Slot : \E col \in Col : CellsOf(st, p).bal[col][s] # 0}

MaskExact == MaskExactIn(store)

(* Cells at or past rows.len() are always blank (Market::stride), so a     *)
(* slot that a reorg unlists and a later block lists again starts blank.   *)
PaddingBlankIn(st) ==
    \A m \in Market : \A l \in 1 .. Len(st.cols[m]) : \A s \in Slot :
        s > Len(st.rows[m]) =>
            /\ \A col \in Col : st.cols[m][l].bal[col][s] = 0
            /\ st.cols[m][l].slot_extra[s] = ZERO

PaddingBlank == PaddingBlankIn(store)

(* Two positions never share a key or a row of cells, and every position   *)
(* has one, however creations and their undos interleave (intern, Created).*)
NoAliasingIn(st) ==
    \A p \in 1 .. Len(st.pos) :
        /\ HasCell(st, p)
        /\ \A q \in 1 .. Len(st.pos) : p # q =>
              /\ st.pos[p].key # st.pos[q].key
              /\ MarketOf(st, p) = MarketOf(st, q) => LocalOf(st, p) # LocalOf(st, q)

NoAliasing == NoAliasingIn(store)

(* When unwind_to(t) returns, the store is exactly the store block t was   *)
(* left in, "byte for byte", whatever blocks were opened, amended, evicted *)
(* from the ring or unwound before.                                        *)
UnwindExact == [][rewind /\ target < tip => store' = ended[target]]_vars

(* The promise: the store is a versioned store.  While unwind_to runs, its *)
(* result is already what the abstract store shows.                        *)
Abstract == INSTANCE VersionedStore WITH
    Image <- Store, Depth <- UNDO_DEPTH,
    image <- IF pc \in {"loop", "revert"} /\ target < tip THEN ended[target] ELSE store,
    tip   <- IF pc \in {"loop", "revert"} THEN target ELSE tip

(* Every step of the store and its ring is a step of VersionedStore. *)
ImplementsVersionedStore == Abstract!Spec
=============================================================================
