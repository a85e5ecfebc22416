------------------------ MODULE InclusionWatchProofs ------------------------
(***************************************************************************)
(* OutcomesExact and RivalNotMissed for any set of traces and windows, any *)
(* channel capacities, and any length of the chain.                        *)
(*                                                                         *)
(* Two arguments run side by side.  The ledger's (Places, Rows): a trace   *)
(* is open exactly while it is on its way to the map or in it, so what the *)
(* watcher resolves has no row anywhere yet.  The chain's (Chain), on a    *)
(* chain that only grows: the head is read first, so a receipt that is     *)
(* missing from a poll whose head is past the window can not appear later  *)
(* (Read); and the cursor never passes a block whose logs a tracked trace  *)
(* has not been given (Missed).                                            *)
(***************************************************************************)
EXTENDS InclusionWatch, Integers, TLAPS

Windows == MinBlock \in [Trace -> Nat] /\ MaxBlock \in [Trace -> Nat]

Row == Trace \X Terminal
Receipt == [block : Nat, status : {"none", "ok", "reverted", "unattested"}]
Obs == [block : Nat, inclusions : SUBSET (Trace \X {"ok", "reverted"}),
        liquidations : SUBSET (Trace \X Nat), incomplete : BOOLEAN]

Shape ==
    /\ head \in Nat \ {0} /\ reorgs \in Nat /\ cursor \in Nat
    /\ landed \in [Trace -> Receipt] /\ rival \in [Trace -> Nat]
    /\ \A t \in Trace : landed[t].status = "none" <=> landed[t] = NotMined
    /\ job \in [Trace -> {"new", "posted", "tracked"}]
    /\ cmds \in Seq(Trace) /\ map \subseteq Trace /\ unread \subseteq Trace /\ obs \in Obs
    /\ rows \subseteq Row /\ outcomes \in Seq(Row) /\ ledger \in Seq(Row)
    /\ terminal \in [Trace -> Terminal \cup {"open"}] /\ seen_from \in [Trace -> Nat]

(* Where an open trace can be. *)
Places ==
    /\ \A t \in Trace : job[t] # "tracked" => t \notin map /\ terminal[t] = "open"
    /\ \A i \in 1 .. Len(cmds) : /\ job[cmds[i]] = "tracked" /\ cmds[i] \notin map
                                 /\ terminal[cmds[i]] = "open"
    /\ \A i, j \in 1 .. Len(cmds) : cmds[i] = cmds[j] => i = j
    /\ \A t \in map : terminal[t] = "open"

(* A resolved trace has at most one row, on its way or written. *)
Rows ==
    /\ \A r \in rows : r[2] = terminal[r[1]]
    /\ \A i \in 1 .. Len(outcomes) : outcomes[i][2] = terminal[outcomes[i][1]]
    /\ \A i \in 1 .. Len(ledger) : ledger[i][2] = terminal[ledger[i][1]]
    /\ \A i, j \in 1 .. Len(outcomes) : outcomes[i][1] = outcomes[j][1] => i = j
    /\ \A i, j \in 1 .. Len(ledger) : ledger[i][1] = ledger[j][1] => i = j
    /\ \A r \in rows, i \in 1 .. Len(outcomes) : r[1] # outcomes[i][1]
    /\ \A r \in rows, i \in 1 .. Len(ledger) : r[1] # ledger[i][1]
    /\ \A i \in 1 .. Len(outcomes), j \in 1 .. Len(ledger) : outcomes[i][1] # ledger[j][1]

InWindow(t, b) == MinBlock[t] <= b /\ b <= MaxBlock[t]

Grown ==
    /\ cursor <= head + 1
    /\ \A t \in Trace : landed[t] # NotMined => MinBlock[t] <= MaxBlock[t]

(* What a poll has read is still so. *)
Read ==
    /\ pc \in {"receipts", "observe"} =>
         /\ obs.block \in 1 .. head
         /\ \A t \in Trace, st \in {"ok", "reverted"} :
              <<t, st>> \in obs.inclusions => landed[t].status = st
         /\ \A t \in map : t \notin unread /\ obs.block > MaxBlock[t] =>
              \/ landed[t] = NotMined \/ obs.incomplete
              \/ <<t, "ok">> \in obs.inclusions \/ <<t, "reverted">> \in obs.inclusions
    /\ pc = "observe" =>
         /\ unread = {} /\ cursor > obs.block
         /\ \A t \in Trace, b \in Nat : <<t, b>> \in obs.liquidations =>
              rival[t] = b /\ b # 0 /\ b <= obs.block
         /\ \A t \in map : seen_from[t] # 0

Missed ==
    /\ cursor = 0 => \A t \in map : seen_from[t] = 0
    /\ \A t \in map :
         seen_from[t] # 0 /\ rival[t] # 0 /\ InWindow(t, rival[t]) /\ seen_from[t] <= rival[t] =>
             \/ cursor <= rival[t]
             \/ pc = "observe" /\ <<t, rival[t]>> \in obs.liquidations

Closed ==
    \A t \in Trace :
        /\ terminal[t] = "Dropped" =>
             /\ landed[t] = NotMined /\ MaxBlock[t] < head
             /\ InWindow(t, rival[t]) => rival[t] < seen_from[t]
        /\ terminal[t] = "Included" => landed[t].status = "ok"
        /\ terminal[t] = "Reverted" => landed[t].status = "reverted"
        /\ terminal[t] = "LostToCompetitor" => rival[t] # 0 /\ InWindow(t, rival[t])

Chain == reorgs = 0 => Grown /\ Read /\ Missed /\ Closed

IInv == Shape /\ Places /\ Rows /\ Chain

-----------------------------------------------------------------------------
LEMMA Appended ==
    ASSUME NEW S, NEW q \in Seq(S), NEW x \in S
    PROVE  /\ Append(q, x) \in Seq(S) /\ Len(Append(q, x)) = Len(q) + 1 /\ Len(q) \in Nat
           /\ \A i \in 1 .. Len(q) : Append(q, x)[i] = q[i] /\ q[i] \in S
           /\ Append(q, x)[Len(q) + 1] = x
  OBVIOUS

LEMMA Tailed ==
    ASSUME NEW S, NEW q \in Seq(S), q # <<>>
    PROVE  /\ Head(q) \in S /\ Head(q) = q[1] /\ Tail(q) \in Seq(S)
           /\ Len(q) \in Nat \ {0} /\ Len(Tail(q)) = Len(q) - 1
           /\ \A i \in 1 .. Len(Tail(q)) : Tail(q)[i] = q[i + 1] /\ i + 1 \in 1 .. Len(q)
           /\ \A i \in 1 .. Len(q) : q[i] \in S
  OBVIOUS

LEMMA StartIInv == Init => IInv
<1> SUFFICES ASSUME Init PROVE IInv
  OBVIOUS
<1>1. Shape
  BY DEF Init, Shape, NotMined, NoObs, Terminal, Row, Receipt, Obs
<1>2. Places /\ Rows
  BY DEF Init, Places, Rows
<1>3. Chain
  BY DEF Init, Chain, Grown, Read, Missed, Closed, NotMined
<1> QED
  BY <1>1, <1>2, <1>3 DEF IInv

LEMMA PlacesFrame ==
    ASSUME Places, UNCHANGED <<job, cmds, map, terminal>>
    PROVE  Places'
  BY DEF Places

LEMMA RowsFrame ==
    ASSUME Rows, rows' \subseteq rows, UNCHANGED <<outcomes, ledger, terminal>>
    PROVE  Rows'
<1>1. \A r \in rows' : r \in rows
  OBVIOUS
<1> QED
  BY SMTT(60), ZenonT(60), <1>1 DEF Rows

(* The watcher's reads are not under way, or nothing they speak of moves.  *)
LEMMA ChainFrame ==
    ASSUME Chain, UNCHANGED <<head, reorgs, landed, rival, cursor, map, terminal, seen_from>>,
           \/ UNCHANGED <<pc, obs, unread>>
           \/ pc # "observe" /\ pc' \notin {"receipts", "observe"}
    PROVE  Chain'
<1>1. CASE UNCHANGED <<pc, obs, unread>>
  BY <1>1 DEF Chain, Grown, Read, Missed, Closed, InWindow
<1>2. CASE pc # "observe" /\ pc' \notin {"receipts", "observe"}
  <2>1. Read'
    BY <1>2 DEF Read
  <2> QED
    BY <1>2, <2>1 DEF Chain, Grown, Missed, Closed, InWindow
<1> QED
  BY <1>1, <1>2

(* A block lands our transactions and rivals': it is above every block a   *)
(* poll has read, so no window that had passed opens again.                *)
LEMMA NewBlockStep ==
    ASSUME IInv, Windows, NewBlock
    PROVE  IInv'
<1>1. /\ head' = head + 1 /\ head \in Nat
      /\ UNCHANGED <<reorgs, job, cmds, map, pc, cursor, unread, obs, rows, outcomes, ledger,
                     terminal, seen_from>>
  BY DEF NewBlock, feed, IInv, Shape
<1> DEFINE n == head + 1
<1>2. PICK ours \in SUBSET {t \in Trace : /\ job[t] # "new" /\ landed[t] = NotMined
                                         /\ n \in MinBlock[t] .. MaxBlock[t]},
           theirs \in SUBSET {t \in Trace : rival[t] = 0} :
        /\ \E st \in [ours -> Status] :
             landed' = [t \in Trace |-> IF t \in ours THEN [block |-> n, status |-> st[t]]
                                        ELSE landed[t]]
        /\ rival' = [t \in Trace |-> IF t \in theirs THEN n ELSE rival[t]]
  BY ZenonT(60), SMTT(60) DEF NewBlock
<1>3. PICK st \in [ours -> Status] :
        landed' = [t \in Trace |-> IF t \in ours THEN [block |-> n, status |-> st[t]]
                                   ELSE landed[t]]
  BY <1>2
<1>4. \A t \in ours : st[t] \in {"ok", "reverted", "unattested"}
  BY <1>3 DEF Status
<1>5. landed' \in [Trace -> Receipt]
  BY <1>1, <1>3, <1>4 DEF IInv, Shape, Receipt
<1>6. rival' \in [Trace -> Nat]
  BY <1>1, <1>2 DEF IInv, Shape
<1>7. \A t \in Trace : \/ landed'[t] = landed[t]
                       \/ /\ landed[t] = NotMined /\ landed'[t].status # "none"
                          /\ landed'[t] # NotMined /\ InWindow(t, n)
  BY <1>1, <1>2, <1>3, <1>4 DEF InWindow, NotMined, Windows
<1>8. \A t \in Trace : rival'[t] = rival[t] \/ (rival[t] = 0 /\ rival'[t] = n)
  BY <1>2
<1>9. Shape'
  <2>1. \A t \in Trace : landed'[t].status = "none" <=> landed'[t] = NotMined
    BY <1>7 DEF IInv, Shape
  <2> QED
    BY <1>1, <1>5, <1>6, <2>1 DEF IInv, Shape
<1>10. Places' /\ Rows'
  BY <1>1, PlacesFrame, RowsFrame DEF IInv
<1>11. ASSUME reorgs' = 0 PROVE (Grown /\ Read /\ Missed /\ Closed)'
  <2>1. Grown /\ Read /\ Missed /\ Closed
    BY <1>1, <1>11 DEF IInv, Chain
  <2>2. Grown'
    <3>1. cursor' <= head' + 1
      BY <1>1, <2>1 DEF Grown, IInv, Shape
    <3>2. \A t \in Trace : landed'[t] # NotMined => MinBlock[t] <= MaxBlock[t]
      BY <1>1, <1>7, <2>1 DEF Grown, InWindow, Windows
    <3> QED
      BY <3>1, <3>2 DEF Grown
  <2>3. Read'
    <3>1. ASSUME pc \in {"receipts", "observe"}
          PROVE  /\ obs.block \in 1 .. head'
                 /\ \A t \in Trace, s \in {"ok", "reverted"} :
                      <<t, s>> \in obs.inclusions => landed'[t].status = s
                 /\ \A t \in map : t \notin unread /\ obs.block > MaxBlock[t] =>
                      \/ landed'[t] = NotMined \/ obs.incomplete
                      \/ <<t, "ok">> \in obs.inclusions \/ <<t, "reverted">> \in obs.inclusions
      <4>1. obs.block \in 1 .. head /\ obs.block \in 1 .. head'
        BY <1>1, <2>1, <3>1 DEF Read
      <4>2. \A t \in Trace, s \in {"ok", "reverted"} :
              <<t, s>> \in obs.inclusions => landed'[t].status = s
        <5>1. NotMined.status = "none"
          BY DEF NotMined
        <5>2. ASSUME NEW t \in Trace, NEW s \in {"ok", "reverted"}, <<t, s>> \in obs.inclusions
              PROVE  landed[t].status = s
          BY ZenonT(60), SMTT(60), <2>1, <3>1, <5>2 DEF Read
        <5> QED
          BY ZenonT(60), SMTT(60), <1>7, <5>1, <5>2
      <4>3. ASSUME NEW t \in map, t \notin unread, obs.block > MaxBlock[t]
            PROVE  \/ landed'[t] = NotMined \/ obs.incomplete
                   \/ <<t, "ok">> \in obs.inclusions \/ <<t, "reverted">> \in obs.inclusions
        <5>1. t \in Trace /\ MaxBlock[t] \in Nat
          BY DEF IInv, Shape, Windows
        <5>2. ~InWindow(t, n)
          BY <1>1, <4>1, <4>3, <5>1 DEF InWindow
        <5> QED
          BY <1>7, <2>1, <3>1, <4>3, <5>1, <5>2 DEF Read
      <4> QED
        BY <4>1, <4>2, <4>3
    <3>2. ASSUME pc = "observe"
          PROVE  \A t \in Trace, b \in Nat :
                   <<t, b>> \in obs.liquidations =>
                     rival'[t] = b /\ b # 0 /\ b <= obs.block
      BY <1>8, <2>1, <3>2 DEF Read
    <3> QED
      BY <1>1, <2>1, <3>1, <3>2 DEF Read
  <2>4. Missed'
    <3>1. \A t \in map : t \in Trace
      BY DEF IInv, Shape
    <3>2. cursor <= n
      BY <1>1, <2>1 DEF Grown
    <3> QED
      BY <1>1, <1>8, <2>1, <3>1, <3>2 DEF Missed, InWindow
  <2>5. Closed'
    <3>1. ASSUME NEW t \in Trace, terminal[t] = "Dropped"
          PROVE  /\ landed'[t] = NotMined /\ MaxBlock[t] < head'
                 /\ InWindow(t, rival'[t]) => rival'[t] < seen_from[t]
      <4>1. MaxBlock[t] \in Nat /\ MaxBlock[t] < head /\ landed[t] = NotMined
        BY <2>1, <3>1 DEF Closed, Windows
      <4>2. ~InWindow(t, n)
        BY <1>1, <4>1 DEF InWindow
      <4> QED
        BY <1>1, <1>7, <1>8, <2>1, <3>1, <4>1, <4>2 DEF Closed
    <3>2. \A t \in Trace : terminal[t] = "Included" => landed'[t].status = "ok"
      BY <1>7, <2>1 DEF Closed, NotMined
    <3>3. \A t \in Trace : terminal[t] = "Reverted" => landed'[t].status = "reverted"
      BY <1>7, <2>1 DEF Closed, NotMined
    <3>4. \A t \in Trace : terminal[t] = "LostToCompetitor" =>
            rival'[t] # 0 /\ InWindow(t, rival'[t])
      BY <1>8, <2>1 DEF Closed
    <3> QED
      BY <1>1, <3>1, <3>2, <3>3, <3>4 DEF Closed, InWindow
  <2> QED
    BY <2>2, <2>3, <2>4, <2>5
<1> QED
  BY <1>9, <1>10, <1>11 DEF IInv, Chain

(* A block taken back ends what is said of a growing chain, and touches    *)
(* nothing of the watcher's.                                               *)
LEMMA ReorgStep ==
    ASSUME IInv, Reorg
    PROVE  IInv'
<1>1. /\ reorgs' = reorgs + 1 /\ head' = head - 1 /\ head > 1
      /\ UNCHANGED <<job, cmds, map, pc, cursor, unread, obs, rows, outcomes, ledger, terminal,
                     seen_from>>
  BY DEF Reorg, feed
<1>2. landed' \in [Trace -> Receipt] /\ rival' \in [Trace -> Nat]
  BY DEF Reorg, IInv, Shape, NotMined, Receipt
<1>3. \A t \in Trace : landed'[t].status = "none" <=> landed'[t] = NotMined
  <2>1. NotMined.status = "none"
    BY DEF NotMined
  <2>2. \A t \in Trace : landed'[t] = landed[t] \/ landed'[t] = NotMined
    BY DEF Reorg
  <2> QED
    BY <2>1, <2>2 DEF IInv, Shape
<1>4. Shape' /\ reorgs' # 0
  BY <1>1, <1>2, <1>3 DEF IInv, Shape
<1>5. Places' /\ Rows'
  BY <1>1, PlacesFrame, RowsFrame DEF IInv
<1> QED
  BY <1>4, <1>5 DEF IInv, Chain

LEMMA ExecStep ==
    ASSUME IInv, NEW t \in Trace, Post(t) \/ track(t)
    PROVE  IInv'
<1>1. UNCHANGED <<head, reorgs, landed, rival, map, pc, cursor, unread, obs, rows, outcomes,
                  ledger, terminal, seen_from>>
  BY DEF Post, track, world, feed
<1>2. job[t] \in {"new", "posted"} /\ job' = [job EXCEPT ![t] = job'[t]]
      /\ job'[t] \in {"posted", "tracked"}
  BY DEF Post, track, IInv, Shape
<1>3. cmds' = cmds \/ (cmds' = Append(cmds, t) /\ job'[t] = "tracked")
  BY DEF Post, track, IInv, Shape
<1>4. Shape'
  <2>1. job' \in [Trace -> {"new", "posted", "tracked"}]
    BY ZenonT(60), SMTT(60), <1>2 DEF IInv, Shape
  <2>2. cmds' \in Seq(Trace)
    <3>1. cmds \in Seq(Trace)
      BY DEF IInv, Shape
    <3> QED
      BY <1>3, <3>1
  <2> QED
    BY <1>1, <2>1, <2>2 DEF IInv, Shape
<1>5. Rows'
  BY <1>1, RowsFrame DEF IInv
<1>6. Places'
  <2>1. /\ t \notin map /\ terminal[t] = "open" /\ \A i \in 1 .. Len(cmds) : cmds[i] # t
        /\ cmds \in Seq(Trace)
    BY ZenonT(60), SMTT(60), <1>2 DEF IInv, Places, Shape
  <2>2. \A u \in Trace : job'[u] # "tracked" => job[u] # "tracked"
    BY <1>2 DEF IInv, Shape
  <2>3. \A u \in Trace : job[u] = "tracked" => job'[u] = "tracked"
    BY <1>2 DEF IInv, Shape
  <2>4. \A i \in 1 .. Len(cmds) : cmds[i] \in Trace
    BY <2>1
  <2>5. CASE cmds' = cmds
    BY <1>1, <2>2, <2>3, <2>4, <2>5 DEF IInv, Places
  <2>6. CASE cmds' = Append(cmds, t) /\ job'[t] = "tracked"
    <3>1. /\ Len(cmds') = Len(cmds) + 1 /\ Len(cmds) \in Nat
          /\ \A i \in 1 .. Len(cmds) : cmds'[i] = cmds[i]
          /\ cmds'[Len(cmds) + 1] = t
      BY <2>1, <2>6, Appended
    <3>2. \A i \in 1 .. Len(cmds') : i \in 1 .. Len(cmds) \/ i = Len(cmds) + 1
      BY <3>1
    <3>3. \A i \in 1 .. Len(cmds') : /\ job'[cmds'[i]] = "tracked" /\ cmds'[i] \notin map
                                     /\ terminal[cmds'[i]] = "open"
      BY <2>1, <2>3, <2>4, <2>6, <3>1, <3>2 DEF IInv, Places
    <3>4. \A i, j \in 1 .. Len(cmds') : cmds'[i] = cmds'[j] => i = j
      BY <2>1, <3>1, <3>2 DEF IInv, Places
    <3> QED
      BY <1>1, <2>2, <3>3, <3>4 DEF IInv, Places
  <2> QED
    BY <1>3, <2>5, <2>6
<1>7. Chain'
  BY <1>1, ChainFrame DEF IInv
<1> QED
  BY <1>4, <1>5, <1>6, <1>7 DEF IInv

(* A trace comes into the map with what was read before it known to be     *)
(* below the cursor.                                                       *)
LEMMA RecvTrackStep ==
    ASSUME IInv, RecvTrack
    PROVE  IInv'
<1> DEFINE h == Head(cmds)
<1>1. /\ pc = "recv" /\ pc' = "head" /\ map' = map \cup {h} /\ cmds' = Tail(cmds) /\ cmds # <<>>
      /\ seen_from' = [seen_from EXCEPT ![h] = cursor]
      /\ UNCHANGED <<head, reorgs, landed, rival, job, cursor, unread, obs, rows, outcomes,
                     ledger, terminal>>
  BY DEF RecvTrack, world
<1>2. /\ h \in Trace /\ h = cmds[1] /\ cmds' \in Seq(Trace)
      /\ Len(cmds) \in Nat \ {0} /\ Len(cmds') = Len(cmds) - 1
      /\ \A i \in 1 .. Len(cmds') : cmds'[i] = cmds[i + 1] /\ i + 1 \in 1 .. Len(cmds)
  BY <1>1, Tailed DEF IInv, Shape
<1> HIDE DEF h
<1>3. h \notin map /\ terminal[h] = "open" /\ job[h] = "tracked"
  BY <1>2 DEF IInv, Places
<1>4. Shape'
  BY <1>1, <1>2 DEF IInv, Shape
<1>5. Rows'
  BY <1>1, RowsFrame DEF IInv
<1>6. Places'
  <2>1. \A i \in 1 .. Len(cmds') : cmds'[i] # h /\ i + 1 # 1
    BY <1>2 DEF IInv, Places
  <2>2. \A i, j \in 1 .. Len(cmds') : cmds'[i] = cmds'[j] => i = j
    BY <1>2 DEF IInv, Places
  <2> QED
    BY <1>1, <1>2, <1>3, <2>1, <2>2 DEF IInv, Places
<1>7. ASSUME reorgs' = 0 PROVE (Grown /\ Read /\ Missed /\ Closed)'
  <2>1. Grown /\ Read /\ Missed /\ Closed
    BY <1>1, <1>7 DEF IInv, Chain
  <2>2. Grown' /\ Read'
    BY <1>1, <2>1 DEF Grown, Read
  <2>3. seen_from'[h] = cursor /\ \A t \in Trace : t # h => seen_from'[t] = seen_from[t]
    BY <1>1, <1>2 DEF IInv, Shape
  <2>4. Missed'
    <3>1. \A t \in map : t \in Trace /\ t # h
      BY <1>3 DEF IInv, Shape
    <3> QED
      BY <1>1, <2>1, <2>3, <3>1 DEF Missed, InWindow
  <2>5. Closed'
    BY <1>1, <1>3, <2>1, <2>3 DEF Closed, InWindow
  <2> QED
    BY <2>2, <2>4, <2>5
<1> QED
  BY <1>4, <1>5, <1>6, <1>7 DEF IInv, Chain

(* A poll that stops, or nothing to do. *)
LEMMA IdleStep ==
    ASSUME IInv, RecvTimeout \/ ReadFailed
    PROVE  IInv'
<1>1. /\ UNCHANGED <<head, reorgs, landed, rival, job, cmds, map, cursor, unread, obs, rows,
                     outcomes, ledger, terminal, seen_from>>
      /\ pc # "observe" /\ pc' \notin {"receipts", "observe"}
  BY DEF RecvTimeout, ReadFailed, world
<1>2. Chain'
  BY <1>1, ChainFrame DEF IInv
<1>3. Shape'
  BY <1>1 DEF IInv, Shape
<1>4. Places' /\ Rows'
  BY <1>1, PlacesFrame, RowsFrame DEF IInv
<1> QED
  BY <1>2, <1>3, <1>4 DEF IInv

(* The head is read first: what the poll's observation says of it bounds   *)
(* everything read after.                                                  *)
LEMMA ReadHeadStep ==
    ASSUME IInv, ReadHead
    PROVE  IInv'
<1>1. /\ UNCHANGED <<head, reorgs, landed, rival, job, cmds, map, rows, outcomes, ledger,
                     terminal, seen_from>>
      /\ pc = "head"
  BY DEF ReadHead, world
<1>2. Places' /\ Rows'
  BY <1>1, PlacesFrame, RowsFrame DEF IInv
<1>3. CASE cursor > 1 /\ head < cursor - 1
  <2>1. cursor' = head /\ pc' = "recv" /\ UNCHANGED <<unread, obs>>
    BY <1>3 DEF ReadHead
  <2>2. Shape'
    BY <1>1, <2>1 DEF IInv, Shape
  <2>3. reorgs # 0
    BY <1>3 DEF IInv, Shape, Chain, Grown
  <2> QED
    BY <1>1, <1>2, <2>2, <2>3 DEF IInv, Chain
<1>4. CASE ~(cursor > 1 /\ head < cursor - 1)
  <2>1. /\ obs' = [NoObs EXCEPT !.block = head] /\ unread' = map /\ pc' = "receipts"
        /\ cursor' = cursor
    BY <1>4 DEF ReadHead
  <2>2. obs' = [block |-> head, inclusions |-> {}, liquidations |-> {}, incomplete |-> FALSE]
    BY ZenonT(60), SMTT(60), <2>1 DEF NoObs
  <2>3. Shape'
    <3>1. obs' \in Obs
      BY <2>2 DEF IInv, Shape, Obs
    <3> QED
      BY <1>1, <2>1, <3>1 DEF IInv, Shape
  <2>4. ASSUME reorgs' = 0 PROVE (Grown /\ Read /\ Missed /\ Closed)'
    <3>1. Grown /\ Read /\ Missed /\ Closed
      BY <1>1, <2>4 DEF IInv, Chain
    <3>2. Grown' /\ Closed'
      BY <1>1, <2>1, <3>1 DEF Grown, Closed, InWindow
    <3>3. Missed'
      BY <1>1, <2>1, <3>1 DEF Missed, InWindow
    <3>4. Read'
      <4>1. obs'.block = head /\ obs'.inclusions = {} /\ head \in 1 .. head
        BY <2>2 DEF IInv, Shape
      <4> QED
        BY <1>1, <2>1, <4>1 DEF Read
    <3> QED
      BY <3>2, <3>3, <3>4
  <2> QED
    BY <1>2, <2>3, <2>4 DEF IInv, Chain
<1> QED
  BY <1>3, <1>4

(* One receipt: what is found is recorded, or its absence from the         *)
(* observation is.                                                         *)
LEMMA ReceiptStep ==
    ASSUME IInv, NEW t \in Trace, receipt_obs(t)
    PROVE  IInv'
<1>1. /\ UNCHANGED <<head, reorgs, landed, rival, job, cmds, map, pc, cursor, rows, outcomes,
                     ledger, terminal, seen_from>>
      /\ pc = "receipts" /\ unread' = unread \ {t}
  BY DEF receipt_obs, world
<1>2. /\ obs \in Obs /\ landed[t] \in Receipt
      /\ landed[t].status \in {"none", "ok", "reverted", "unattested"}
  BY DEF IInv, Shape, Receipt
<1>3. /\ obs' \in Obs /\ obs'.block = obs.block /\ obs.inclusions \subseteq obs'.inclusions
      /\ obs.incomplete => obs'.incomplete
  <2>1. CASE landed[t] = NotMined
    BY <1>2, <2>1 DEF receipt_obs
  <2>2. CASE landed[t] # NotMined /\ landed[t].status = "unattested"
    BY ZenonT(60), SMTT(60), <1>2, <2>2 DEF receipt_obs, Obs
  <2>3. CASE landed[t] # NotMined /\ landed[t].status # "unattested"
    <3>1. obs' = [obs EXCEPT !.inclusions = @ \cup {<<t, landed[t].status>>}]
      BY <2>3 DEF receipt_obs
    <3> QED
      <4>1. <<t, landed[t].status>> \in Trace \X {"ok", "reverted"}
        BY <1>2, <2>3 DEF IInv, Shape
      <4> QED
        BY <1>2, <3>1, <4>1 DEF Obs
  <2> QED
    BY <2>1, <2>2, <2>3
<1>4. Shape' /\ Places' /\ Rows'
  <2>1. Shape'
    BY <1>1, <1>3 DEF IInv, Shape
  <2> QED
    BY <1>1, <2>1, PlacesFrame, RowsFrame DEF IInv
<1>5. ASSUME reorgs' = 0 PROVE (Grown /\ Read /\ Missed /\ Closed)'
  <2>1. Grown /\ Read /\ Missed /\ Closed
    BY SMTT(60), ZenonT(60), <1>1, <1>5 DEF IInv, Chain
  <2>2. Grown' /\ Missed' /\ Closed'
    BY <1>1, <2>1 DEF Grown, Missed, Closed, InWindow
  <2>3. \A u \in Trace, s \in {"ok", "reverted"} :
          <<u, s>> \in obs'.inclusions => landed[u].status = s
    BY ZenonT(60), SMTT(60), <1>1, <1>2, <2>1 DEF receipt_obs, Read, Obs
  <2>4. \/ landed[t] = NotMined \/ obs'.incomplete
        \/ <<t, "ok">> \in obs'.inclusions \/ <<t, "reverted">> \in obs'.inclusions
    BY <1>2 DEF receipt_obs, Obs, IInv, Shape
  <2>5. Read'
    BY <1>1, <1>3, <2>1, <2>3, <2>4 DEF Read
  <2> QED
    BY <2>2, <2>5
<1> QED
  BY <1>4, <1>5 DEF IInv, Chain

(* The pages of logs: the cursor moves past exactly the blocks whose       *)
(* liquidations are now in the observation.                                *)
LEMMA FetchStep ==
    ASSUME IInv, FetchPages
    PROVE  IInv'
<1> DEFINE lo == from
<1>1. /\ UNCHANGED <<head, reorgs, landed, rival, job, cmds, map, unread, rows, outcomes,
                     ledger, terminal>>
      /\ pc = "receipts" /\ pc' = "observe" /\ unread = {}
      /\ cursor' = IF obs.block >= lo THEN obs.block + 1 ELSE cursor
  BY DEF FetchPages, world
<1>2. obs \in Obs /\ obs.block \in Nat /\ cursor \in Nat
  BY DEF IInv, Shape, Obs
<1>3. lo \in Nat /\ (cursor # 0 => lo = cursor) /\ (cursor = 0 => lo = obs.block)
  BY <1>2 DEF from
<1>4. \A t \in Trace : seen_from'[t] = IF t \in map /\ seen_from[t] = 0 THEN lo ELSE seen_from[t]
  BY DEF FetchPages
<1>5. seen_from' \in [Trace -> Nat]
  BY <1>3 DEF FetchPages, IInv, Shape
<1> DEFINE found == {<<t, rival[t]>> :
                       t \in {t \in Trace : rival[t] # 0 /\ rival[t] \in lo .. obs.block}}
<1>6. obs' = [obs EXCEPT !.liquidations = found]
  BY DEF FetchPages
<1>7. found \in SUBSET (Trace \X Nat)
  BY DEF IInv, Shape
<1>8. \A t \in Trace, b \in Nat : <<t, b>> \in found => rival[t] = b /\ b # 0 /\ b <= obs.block
  BY <1>2, <1>3
<1>9. \A t \in Trace : rival[t] # 0 /\ lo <= rival[t] /\ rival[t] <= obs.block =>
        <<t, rival[t]>> \in found
  BY <1>2, <1>3 DEF IInv, Shape
<1> HIDE DEF found, lo
<1>10. /\ obs' \in Obs /\ obs'.block = obs.block /\ obs'.inclusions = obs.inclusions
       /\ obs'.incomplete = obs.incomplete /\ obs'.liquidations = found
  BY <1>2, <1>6, <1>7 DEF Obs
<1>11. Shape'
  BY <1>1, <1>2, <1>5, <1>10 DEF IInv, Shape
<1>12. Places' /\ Rows'
  BY <1>1, PlacesFrame, RowsFrame DEF IInv
<1>13. ASSUME reorgs' = 0 PROVE (Grown /\ Read /\ Missed /\ Closed)'
  <2>1. Grown /\ Read /\ Missed /\ Closed
    BY <1>1, <1>13 DEF IInv, Chain
  <2>2. obs.block \in Nat /\ 1 <= obs.block /\ obs.block <= head /\ head \in Nat
    BY <1>1, <2>1 DEF Read, IInv, Shape
  <2>3. cursor' > obs.block /\ cursor' <= head + 1 /\ lo # 0
    BY <1>1, <1>2, <1>3, <2>1, <2>2 DEF Grown
  <2>4. Grown'
    BY <1>1, <2>1, <2>3 DEF Grown
  <2>5. \A t \in map : t \in Trace /\ seen_from'[t] # 0
    BY <1>4, <2>3 DEF IInv, Shape
  <2>6. Read'
    BY <1>1, <1>8, <1>10, <2>1, <2>3, <2>5 DEF Read
  <2>7. ASSUME NEW t \in map, rival[t] # 0, InWindow(t, rival[t]), seen_from'[t] <= rival[t]
        PROVE  cursor' <= rival[t] \/ <<t, rival[t]>> \in found
    <3>1. t \in Trace /\ rival[t] \in Nat /\ seen_from[t] \in Nat
      BY DEF IInv, Shape
    <3>2. lo <= rival[t]
      <4>1. CASE seen_from[t] = 0
        BY <1>4, <2>7, <3>1, <4>1
      <4>2. CASE seen_from[t] # 0
        <5>1. cursor <= rival[t]
          BY <1>1, <1>4, <2>1, <2>7, <3>1, <4>2 DEF Missed
        <5>2. cursor # 0
          BY <2>1, <4>2 DEF Missed
        <5> QED
          BY <1>3, <5>1, <5>2
      <4> QED
        BY <4>1, <4>2
    <3>3. CASE rival[t] <= obs.block
      BY <1>9, <2>7, <3>1, <3>2, <3>3
    <3>4. CASE ~(rival[t] <= obs.block)
      BY <1>1, <1>2, <1>3, <3>1, <3>2, <3>4
    <3> QED
      BY <3>3, <3>4
  <2>8. Missed'
    BY SMTT(60), ZenonT(60), <1>1, <1>2, <1>10, <2>2, <2>3, <2>7 DEF Missed, InWindow
  <2>9. Closed'
    <3>1. \A t \in Trace : terminal[t] = "Dropped" => seen_from'[t] = seen_from[t]
      BY <1>4 DEF IInv, Places
    <3> QED
      BY SMTT(60), ZenonT(60), <1>1, <2>1, <3>1 DEF Closed, InWindow
  <2> QED
    BY <2>4, <2>6, <2>8, <2>9
<1> QED
  BY <1>11, <1>12, <1>13 DEF IInv, Chain

(* What a trace leaves the map as is true of the chain now, and stays so.  *)
LEMMA OutcomeTrue ==
    ASSUME IInv, Windows, pc = "observe", reorgs = 0, NEW t \in map
    PROVE  /\ outcome(t) = "Dropped" =>
                /\ landed[t] = NotMined /\ MaxBlock[t] < head
                /\ InWindow(t, rival[t]) => rival[t] < seen_from[t]
           /\ outcome(t) = "Included" => landed[t].status = "ok"
           /\ outcome(t) = "Reverted" => landed[t].status = "reverted"
           /\ outcome(t) = "LostToCompetitor" => rival[t] # 0 /\ InWindow(t, rival[t])
<1>1. /\ t \in Trace /\ MinBlock[t] \in Nat /\ MaxBlock[t] \in Nat /\ rival[t] \in Nat
      /\ seen_from[t] \in Nat /\ obs \in Obs /\ obs.block \in Nat /\ cursor \in Nat /\ head \in Nat
  BY DEF IInv, Shape, Windows, Obs
<1>2. Grown /\ Read /\ Missed
  BY DEF IInv, Chain
<1>3. /\ unread = {} /\ cursor > obs.block /\ seen_from[t] # 0 /\ obs.block <= head
      /\ \A s \in {"ok", "reverted"} : <<t, s>> \in obs.inclusions => landed[t].status = s
      /\ \A b \in Nat : <<t, b>> \in obs.liquidations => rival[t] = b /\ b # 0
  BY <1>1, <1>2 DEF Read
<1>4. ASSUME outcome(t) = "Dropped"
      PROVE  /\ landed[t] = NotMined /\ MaxBlock[t] < head
             /\ InWindow(t, rival[t]) => rival[t] < seen_from[t]
  <2>1. resolve_one(t) = "open" /\ ~obs.incomplete /\ obs.block > MaxBlock[t]
    BY <1>4 DEF outcome, resolve_one
  <2>2. /\ MinBlock[t] <= obs.block =>
             /\ <<t, "reverted">> \notin obs.inclusions /\ <<t, "ok">> \notin obs.inclusions
             /\ \A b \in MinBlock[t] .. MaxBlock[t] : <<t, b>> \notin obs.liquidations
    BY <1>1, <2>1 DEF resolve_one
  <2>3. landed[t] = NotMined
    <3>1. SUFFICES ASSUME landed[t] # NotMined PROVE FALSE
      OBVIOUS
    <3>2. MinBlock[t] <= obs.block
      BY <1>1, <1>2, <2>1, <3>1 DEF Grown
    <3> QED
      BY <1>1, <1>2, <1>3, <2>1, <2>2, <3>1, <3>2 DEF Read
  <2>4. ASSUME InWindow(t, rival[t]), ~(rival[t] < seen_from[t]) PROVE FALSE
    <3>1. /\ rival[t] # 0 /\ seen_from[t] <= rival[t] /\ rival[t] < cursor
          /\ MinBlock[t] <= obs.block /\ rival[t] \in MinBlock[t] .. MaxBlock[t]
      BY <1>1, <1>3, <2>1, <2>4 DEF InWindow
    <3>2. <<t, rival[t]>> \in obs.liquidations
      BY <1>1, <1>2, <1>3, <2>4, <3>1 DEF Missed
    <3> QED
      BY <2>2, <3>1, <3>2
  <2> QED
    BY <1>1, <1>3, <2>1, <2>3, <2>4
<1>5. outcome(t) = "Included" => <<t, "ok">> \in obs.inclusions
  BY DEF outcome, resolve_one
<1>6. outcome(t) = "Reverted" => <<t, "reverted">> \in obs.inclusions
  BY DEF outcome, resolve_one
<1>7. outcome(t) = "LostToCompetitor" =>
        \E b \in MinBlock[t] .. MaxBlock[t] : <<t, b>> \in obs.liquidations
  BY DEF outcome, resolve_one
<1>8. outcome(t) = "LostToCompetitor" => rival[t] # 0 /\ InWindow(t, rival[t])
  <2>1. \A b \in MinBlock[t] .. MaxBlock[t] : b \in Nat /\ InWindow(t, b)
    BY <1>1 DEF InWindow
  <2> QED
    BY ZenonT(60), SMTT(60), <1>3, <1>7, <2>1
<1> QED
  BY <1>3, <1>4, <1>5, <1>6, <1>8

LEMMA ObserveStep ==
    ASSUME IInv, Windows, observe
    PROVE  IInv'
<1>1. /\ UNCHANGED <<head, reorgs, landed, rival, job, cmds, cursor, unread, outcomes, ledger,
                     seen_from>>
      /\ pc = "observe" /\ pc' = "emit" /\ map' = map \ Resolved /\ obs' = NoObs
      /\ rows' = {<<t, outcome(t)>> : t \in Resolved}
      /\ terminal' = [t \in Trace |-> IF t \in Resolved THEN outcome(t) ELSE terminal[t]]
  BY DEF observe, world
<1>2. /\ Resolved \subseteq map /\ map \subseteq Trace
      /\ \A t \in Resolved : outcome(t) \in Terminal
  <2>1. Resolved \subseteq map /\ map \subseteq Trace
    BY DEF Resolved, IInv, Shape
  <2>2. \A t \in Resolved : outcome(t) \in Terminal
    BY DEF Resolved, outcome, resolve_one, Terminal
  <2> QED
    BY <2>1, <2>2
<1>3. Shape'
  <2>1. rows' \subseteq Row
    <3>1. \A t \in Resolved : <<t, outcome(t)>> \in Row
      BY <1>2 DEF Row
    <3>2. \A r \in rows' : \E t \in Resolved : r = <<t, outcome(t)>>
      BY ZenonT(60), SMTT(60), Zenon, <1>1
    <3> QED
      BY Zenon, <3>1, <3>2
  <2>2. terminal' \in [Trace -> Terminal \cup {"open"}]
    BY <1>1, <1>2 DEF IInv, Shape
  <2>3. obs' \in Obs
    BY SMTT(60), ZenonT(60), <1>1 DEF NoObs, Obs
  <2> QED
    BY <1>1, <1>2, <2>1, <2>2, <2>3 DEF IInv, Shape
<1>4. \A t \in Trace : /\ t \in Resolved => terminal[t] = "open" /\ terminal'[t] = outcome(t)
                       /\ t \notin Resolved => terminal'[t] = terminal[t]
  BY SMTT(60), ZenonT(60), <1>1, <1>2 DEF IInv, Places
<1>5. Places'
  <2>1. \A i \in 1 .. Len(cmds) : cmds[i] \in Trace /\ cmds[i] \notin Resolved
    BY <1>2 DEF IInv, Places, Shape
  <2>2. \A t \in Trace : job[t] # "tracked" => t \notin Resolved
    BY <1>2 DEF IInv, Places
  <2>3. \A t \in map' : t \in Trace /\ t \notin Resolved /\ t \in map
    BY <1>1, <1>2
  <2>4. job' = job /\ cmds' = cmds
    BY <1>1
  <2>5. \A t \in Trace : job[t] # "tracked" => t \notin map' /\ terminal'[t] = "open"
    BY <1>4, <2>2, <2>3 DEF IInv, Places
  <2>6. \A i \in 1 .. Len(cmds) : /\ job[cmds[i]] = "tracked" /\ cmds[i] \notin map'
                                  /\ terminal'[cmds[i]] = "open"
    BY <1>4, <2>1, <2>3 DEF IInv, Places
  <2>7. \A t \in map' : terminal'[t] = "open"
    BY <1>4, <2>3 DEF IInv, Places
  <2> QED
    BY <2>4, <2>5, <2>6, <2>7 DEF IInv, Places
<1>6. Rows'
  <2>1. \A i \in 1 .. Len(outcomes) : /\ outcomes[i][1] \in Trace /\ outcomes[i][2] # "open"
                                      /\ outcomes[i][1] \notin Resolved
    <3>1. \A i \in 1 .. Len(outcomes) : outcomes[i] \in Row
      BY DEF IInv, Shape
    <3>2. \A r \in Row : r[1] \in Trace /\ r[2] # "open"
      BY DEF Row, Terminal
    <3> QED
      BY <1>4, <3>1, <3>2 DEF IInv, Rows
  <2>2. \A i \in 1 .. Len(ledger) : /\ ledger[i][1] \in Trace /\ ledger[i][2] # "open"
                                    /\ ledger[i][1] \notin Resolved
    <3>1. \A i \in 1 .. Len(ledger) : ledger[i] \in Row
      BY DEF IInv, Shape
    <3>2. \A r \in Row : r[1] \in Trace /\ r[2] # "open"
      BY DEF Row, Terminal
    <3> QED
      BY <1>4, <3>1, <3>2 DEF IInv, Rows
  <2>3. \A r \in rows' : r[1] \in Resolved /\ r[1] \in Trace /\ r[2] = outcome(r[1])
    BY <1>1, <1>2
  <2>4. /\ \A r \in rows' : r[2] = terminal'[r[1]]
        /\ \A r \in rows', i \in 1 .. Len(outcomes) : r[1] # outcomes[i][1]
        /\ \A r \in rows', i \in 1 .. Len(ledger) : r[1] # ledger[i][1]
    BY <1>4, <2>1, <2>2, <2>3
  <2>5. /\ \A i \in 1 .. Len(outcomes) : outcomes[i][2] = terminal'[outcomes[i][1]]
        /\ \A i \in 1 .. Len(ledger) : ledger[i][2] = terminal'[ledger[i][1]]
    BY <1>4, <2>1, <2>2 DEF IInv, Rows
  <2>6. outcomes' = outcomes /\ ledger' = ledger
    BY <1>1
  <2> QED
    BY <2>4, <2>5, <2>6 DEF IInv, Rows
<1>7. ASSUME reorgs' = 0 PROVE (Grown /\ Read /\ Missed /\ Closed)'
  <2>1. reorgs = 0 /\ Grown /\ Read /\ Missed /\ Closed
    BY <1>1, <1>7 DEF IInv, Chain
  <2>2. Grown' /\ Read'
    BY <1>1, <2>1 DEF Grown, Read
  <2>3. Missed'
    <3>1. ASSUME NEW t \in map', <<t, rival[t]>> \in obs.liquidations, InWindow(t, rival[t])
          PROVE  cursor <= rival[t]
      <4>1. /\ t \in map /\ t \notin Resolved /\ t \in Trace /\ rival[t] \in Nat
            /\ MinBlock[t] \in Nat /\ MaxBlock[t] \in Nat /\ obs.block \in Nat /\ cursor \in Nat
        BY <1>1, <1>2 DEF IInv, Shape, Windows, Obs
      <4>2. resolve_one(t) = "open"
        BY <4>1 DEF Resolved, outcome
      <4>3. rival[t] \in MinBlock[t] .. MaxBlock[t]
        BY <3>1, <4>1 DEF InWindow
      <4>4. obs.block < MinBlock[t]
        BY SMTT(60), ZenonT(60), <3>1, <4>2, <4>3 DEF resolve_one
      <4>5. rival[t] <= obs.block
        BY ZenonT(60), SMTT(60), <1>1, <2>1, <3>1, <4>1 DEF Read
      <4> QED
        BY SMTT(60), ZenonT(60), <3>1, <4>1, <4>4, <4>5 DEF InWindow
    <3>2. \A t \in map' : t \in map
      BY ZenonT(60), SMTT(60), <1>1
    <3> QED
      BY ZenonT(60), SMTT(60), <1>1, <2>1, <3>1, <3>2 DEF Missed, InWindow
  <2>4. \A t \in Resolved : t \in map
    BY SMTT(60), ZenonT(60), <1>2
  <2>5. Closed'
    <3>1. ASSUME NEW t \in Trace, t \notin Resolved
          PROVE  /\ terminal'[t] = "Dropped" =>
                      /\ landed[t] = NotMined /\ MaxBlock[t] < head
                      /\ InWindow(t, rival[t]) => rival[t] < seen_from[t]
                 /\ terminal'[t] = "Included" => landed[t].status = "ok"
                 /\ terminal'[t] = "Reverted" => landed[t].status = "reverted"
                 /\ terminal'[t] = "LostToCompetitor" => rival[t] # 0 /\ InWindow(t, rival[t])
      BY ZenonT(60), SMTT(60), <1>4, <2>1, <3>1 DEF Closed
    <3>2. ASSUME NEW t \in Trace, t \in Resolved
          PROVE  /\ terminal'[t] = "Dropped" =>
                      /\ landed[t] = NotMined /\ MaxBlock[t] < head
                      /\ InWindow(t, rival[t]) => rival[t] < seen_from[t]
                 /\ terminal'[t] = "Included" => landed[t].status = "ok"
                 /\ terminal'[t] = "Reverted" => landed[t].status = "reverted"
                 /\ terminal'[t] = "LostToCompetitor" => rival[t] # 0 /\ InWindow(t, rival[t])
      BY <1>1, <1>4, <2>1, <2>4, <3>2, OutcomeTrue
    <3> QED
      BY SMTT(60), ZenonT(60), <1>1, <3>1, <3>2 DEF Closed, InWindow
  <2> QED
    BY <2>2, <2>3, <2>5
<1> QED
  BY <1>3, <1>5, <1>6, <1>7 DEF IInv, Chain

(* A row leaves the watcher, or is lost; and is written by the ledger      *)
(* thread.                                                                 *)
LEMMA EmitStep ==
    ASSUME IInv, emit
    PROVE  IInv'
<1>1. /\ UNCHANGED <<head, reorgs, landed, rival, job, cmds, map, cursor, unread, obs, ledger,
                     terminal, seen_from>>
      /\ pc = "emit" /\ pc' \in {"emit", "recv"}
  BY DEF emit, world
<1>2. Chain'
  BY <1>1, ChainFrame DEF IInv
<1>3. Places'
  BY <1>1, PlacesFrame DEF IInv
<1>4. CASE rows = {}
  <2>1. UNCHANGED <<rows, outcomes>>
    BY <1>4 DEF emit
  <2>2. Shape'
    BY <1>1, <2>1 DEF IInv, Shape
  <2> QED
    BY <1>1, <1>2, <1>3, <2>1, <2>2, RowsFrame DEF IInv
<1>5. ASSUME NEW row \in rows, rows' = rows \ {row},
             outcomes' = outcomes \/ outcomes' = Append(outcomes, row)
      PROVE  IInv'
  <2>1. row \in Row /\ outcomes \in Seq(Row) /\ \A r \in rows : r \in Row
    BY DEF IInv, Shape
  <2>2. CASE outcomes' = outcomes
    <3>1. Shape'
      BY <1>1, <1>5, <2>2 DEF IInv, Shape
    <3> QED
      BY <1>1, <1>2, <1>3, <1>5, <2>2, <3>1, RowsFrame DEF IInv
  <2>3. CASE outcomes' = Append(outcomes, row)
    <3>1. /\ outcomes' \in Seq(Row) /\ Len(outcomes') = Len(outcomes) + 1 /\ Len(outcomes) \in Nat
          /\ \A i \in 1 .. Len(outcomes) : outcomes'[i] = outcomes[i]
          /\ outcomes'[Len(outcomes) + 1] = row
      BY <2>1, <2>3, Appended
    <3>2. \A i \in 1 .. Len(outcomes') : i \in 1 .. Len(outcomes) \/ i = Len(outcomes) + 1
      BY <3>1
    <3>3. Shape'
      BY <1>1, <1>5, <3>1 DEF IInv, Shape
    <3>4. \A r \in rows' : r \in rows /\ r[1] # row[1]
      <4>1. ASSUME NEW r \in rows, r[1] = row[1] PROVE r = row
        <5>1. r[2] = row[2]
          BY SMTT(60), ZenonT(60), <4>1 DEF IInv, Rows
        <5> QED
          BY SMTT(60), ZenonT(60), <2>1, <4>1, <5>1 DEF Row
      <4> QED
        BY <1>5, <4>1
    <3>5. \A i \in 1 .. Len(outcomes') : outcomes'[i][2] = terminal[outcomes'[i][1]]
      BY <3>1, <3>2 DEF IInv, Rows
    <3>6. \A i, j \in 1 .. Len(outcomes') : outcomes'[i][1] = outcomes'[j][1] => i = j
      BY <3>1, <3>2 DEF IInv, Rows
    <3>7. \A r \in rows', i \in 1 .. Len(outcomes') : r[1] # outcomes'[i][1]
      BY <3>1, <3>2, <3>4 DEF IInv, Rows
    <3>8. \A i \in 1 .. Len(outcomes'), j \in 1 .. Len(ledger) : outcomes'[i][1] # ledger[j][1]
      BY SMTT(60), ZenonT(60), <3>1, <3>2 DEF IInv, Rows
    <3>9. Rows'
      BY <1>1, <3>4, <3>5, <3>6, <3>7, <3>8 DEF IInv, Rows
    <3> QED
      BY <1>2, <1>3, <3>3, <3>9 DEF IInv
  <2> QED
    BY <1>5, <2>2, <2>3
<1> QED
  BY <1>4, <1>5 DEF emit

LEMMA LogStep ==
    ASSUME IInv, log_outcomes
    PROVE  IInv'
<1> DEFINE row == Head(outcomes)
<1>1. /\ UNCHANGED <<head, reorgs, landed, rival, job, cmds, map, pc, cursor, unread, obs, rows,
                     terminal, seen_from>>
      /\ outcomes # <<>> /\ ledger' = Append(ledger, row) /\ outcomes' = Tail(outcomes)
  BY DEF log_outcomes, world, feed
<1>2. /\ row \in Row /\ row = outcomes[1] /\ outcomes' \in Seq(Row) /\ Len(outcomes) \in Nat \ {0}
      /\ Len(outcomes') = Len(outcomes) - 1
      /\ \A i \in 1 .. Len(outcomes') : /\ outcomes'[i] = outcomes[i + 1]
                                         /\ i + 1 \in 1 .. Len(outcomes)
  BY <1>1, Tailed DEF IInv, Shape
<1> HIDE DEF row
<1>3. /\ ledger' \in Seq(Row) /\ Len(ledger') = Len(ledger) + 1 /\ Len(ledger) \in Nat
      /\ \A i \in 1 .. Len(ledger) : ledger'[i] = ledger[i]
      /\ ledger'[Len(ledger) + 1] = row
  BY <1>1, <1>2, Appended DEF IInv, Shape
<1>4. \A i \in 1 .. Len(ledger') : i \in 1 .. Len(ledger) \/ i = Len(ledger) + 1
  BY <1>3
<1>5. 1 \in 1 .. Len(outcomes) /\ \A i \in 1 .. Len(outcomes') : outcomes'[i][1] # row[1]
  BY <1>2 DEF IInv, Rows
<1>6. Shape'
  BY SMTT(60), ZenonT(60), <1>1, <1>2, <1>3 DEF IInv, Shape
<1>7. Places' /\ Chain'
  BY <1>1, ChainFrame, PlacesFrame DEF IInv
<1>8. Rows'
  <2>1. \A i \in 1 .. Len(outcomes') : outcomes'[i][2] = terminal[outcomes'[i][1]]
    BY SMTT(60), ZenonT(60), <1>2 DEF IInv, Rows
  <2>2. \A i \in 1 .. Len(ledger') : ledger'[i][2] = terminal[ledger'[i][1]]
    BY SMTT(60), ZenonT(60), <1>2, <1>3, <1>4, <1>5 DEF IInv, Rows
  <2>3. ASSUME NEW i \in 1 .. Len(outcomes'), NEW j \in 1 .. Len(outcomes'),
               outcomes'[i][1] = outcomes'[j][1]
        PROVE  i = j
    <3>1. i + 1 = j + 1
      <4>1. /\ i + 1 \in 1 .. Len(outcomes) /\ j + 1 \in 1 .. Len(outcomes)
            /\ outcomes[i + 1][1] = outcomes[j + 1][1]
        BY <1>2, <2>3
      <4>2. \A k, l \in 1 .. Len(outcomes) : outcomes[k][1] = outcomes[l][1] => k = l
        BY DEF IInv, Rows
      <4> QED
        BY Zenon, <4>1, <4>2
    <3>2. i \in Int /\ j \in Int
      BY <1>2
    <3> QED
      BY <3>1, <3>2
  <2>4. \A i, j \in 1 .. Len(ledger') : ledger'[i][1] = ledger'[j][1] => i = j
    BY <1>2, <1>3, <1>4, <1>5 DEF IInv, Rows
  <2>5. \A r \in rows, i \in 1 .. Len(outcomes') : r[1] # outcomes'[i][1]
    BY <1>2 DEF IInv, Rows
  <2>6. \A r \in rows, i \in 1 .. Len(ledger') : r[1] # ledger'[i][1]
    BY <1>2, <1>3, <1>4, <1>5 DEF IInv, Rows
  <2>7. ASSUME NEW i \in 1 .. Len(outcomes'), NEW j \in 1 .. Len(ledger')
        PROVE  outcomes'[i][1] # ledger'[j][1]
    <3>1. CASE j = Len(ledger) + 1
      BY <1>3, <1>5, <3>1
    <3>2. CASE j \in 1 .. Len(ledger)
      <4>1. outcomes[i + 1][1] # ledger[j][1]
        BY <1>2, <3>2 DEF IInv, Rows
      <4> QED
        BY <1>2, <1>3, <3>2, <4>1
    <3> QED
      BY <1>4, <3>1, <3>2
  <2> QED
    BY ZenonT(60), SMTT(60), <1>1, <2>1, <2>2, <2>3, <2>4, <2>5, <2>6, <2>7 DEF IInv, Rows
<1> QED
  BY <1>6, <1>7, <1>8 DEF IInv

(* The invariant is inductive: one lemma per action.                       *)
LEMMA Inductive ==
    ASSUME IInv, Windows, [Next]_vars
    PROVE  IInv'
<1>1. CASE UNCHANGED vars
  <2>1. UNCHANGED <<head, reorgs, landed, rival, job, cmds, map, pc, cursor, unread, obs, rows,
                    outcomes, ledger, terminal, seen_from>>
    BY <1>1 DEF vars, world, feed
  <2>2. Shape'
    BY <2>1 DEF IInv, Shape
  <2> QED
    BY <2>1, <2>2, ChainFrame, PlacesFrame, RowsFrame DEF IInv
<1>2. CASE Watcher
  BY <1>2, RecvTrackStep, IdleStep, ReadHeadStep, ReceiptStep, FetchStep, ObserveStep, EmitStep
     DEF Watcher
<1> QED
  BY <1>1, <1>2, NewBlockStep, ReorgStep, ExecStep, LogStep DEF Next

(* Every trace the watcher resolves is recorded once, as what it became:   *)
(* for any traces, windows with natural bounds, channel capacities and     *)
(* number of failed reads (inclusion.rs observe, ledger.rs insert_outcome). *)
THEOREM OutcomesAreExact ==
    ASSUME Windows
    PROVE  Spec => []OutcomesExact
<1>1. IInv => OutcomesExact
  <2> SUFFICES ASSUME IInv PROVE OutcomesExact
    OBVIOUS
  <2>1. TerminalTrue
    <3>1. \A t \in Trace : InWindow(t, rival[t]) => rival[t] \in MinBlock[t] .. MaxBlock[t]
      BY SMTT(60), ZenonT(60) DEF IInv, Shape, InWindow, Windows
    <3> QED
      BY <3>1 DEF IInv, Chain, Closed, TerminalTrue
  <2>2. LedgerOnce
    BY SMTT(60), ZenonT(60) DEF IInv, Rows, LedgerOnce
  <2> QED
    BY <2>1, <2>2 DEF OutcomesExact
<1>2. IInv /\ [Next]_vars => IInv'
  BY Inductive
<1> QED
  BY <1>1, <1>2, StartIInv, PTL DEF Spec

(* On a chain that only grows, a trace dropped with a rival in its window   *)
(* was tracked after that block's logs had been read: the cursor skips no   *)
(* block (inclusion_feed.rs poll_async).                                    *)
THEOREM NoRivalMissed ==
    ASSUME Windows
    PROVE  Spec => []RivalNotMissed
<1>1. IInv => RivalNotMissed
  <2> SUFFICES ASSUME IInv PROVE RivalNotMissed
    OBVIOUS
  <2>1. \A t \in Trace : rival[t] \in MinBlock[t] .. MaxBlock[t] => InWindow(t, rival[t])
    BY SMTT(60), ZenonT(60) DEF IInv, Shape, InWindow, Windows
  <2> QED
    BY ZenonT(60), SMTT(60), <2>1 DEF IInv, Chain, Closed, RivalNotMissed
<1>2. IInv /\ [Next]_vars => IInv'
  BY Inductive
<1> QED
  BY <1>1, <1>2, StartIInv, PTL DEF Spec
=============================================================================
