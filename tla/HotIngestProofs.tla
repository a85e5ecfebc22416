-------------------------- MODULE HotIngestProofs ---------------------------
(***************************************************************************)
(* The steps of the hot thread keep HotIngest's inductive invariant, and   *)
(* what follows from it.                                                   *)
(***************************************************************************)
EXTENDS HotIngestInvariant

(* The steps of the hot thread between two notifications, with the store   *)
(* as it is.                                                               *)
LEMMA SameStore ==
    ASSUME IInv, UNCHANGED <<canon, note, exex, to_hot, job, image, tip, floor, ended>>,
           hot \notin {"revert", "chain", "fold", "logs"},
           hot' \notin {"revert", "chain", "fold", "logs"},
           Alive' => Alive /\ hot \in Rests
    PROVE  Versions' /\ Queued' /\ Prefix' /\ Folding' /\ NoteInv'
<1>1. Versions'
  BY DEF IInv, Versions
<1>2. Queued'
  BY DEF IInv, Queued, LenBefore, Fits
<1>3. Prefix'
  BY DEF IInv, Prefix, Pending
<1>4. Folding'
  BY DEF Folding
<1>5. NoteInv'
  BY DEF IInv, NoteInv, WellFormed, HasTip
<1> QED BY <1>1, <1>2, <1>3, <1>4, <1>5

LEMMA SpinStep == ASSUME IInv, Spin PROVE IInv'
<1>0. Types /\ Versions /\ NoteInv /\ Where /\ Heights /\ ExitHalts
  BY DEF IInv
<1>1. /\ UNCHANGED <<canon, note, exex, done, to_hot, from_hot, refusals, stop>>
      /\ UNCHANGED <<job, left, height, halts, image, tip, floor, ended>>
      /\ hot = "spin" /\ hot' = IF stop THEN "exited" ELSE "drain"
  BY DEF Spin, reth, future, rings, store
<1>2. Types'
  BY <1>0, <1>1 DEF Types, Rests, Dead
<1>3. Where'
  BY <1>0, <1>1 DEF Where, Types, WellFormed, HasTip, Waits, committed_tip, Commits, Dead
<1>4. Versions' /\ Queued' /\ Prefix' /\ Folding' /\ NoteInv'
  BY <1>1, SameStore DEF Alive, Dead, Rests
<1>5. Heights' /\ ExitHalts'
  BY <1>1 DEF Heights, ExitHalts
<1> QED BY <1>2, <1>3, <1>4, <1>5 DEF IInv

LEMMA AfterBlockStep == ASSUME IInv, AfterBlock PROVE IInv'
<1>0. Types /\ Versions /\ NoteInv /\ Where /\ Heights /\ ExitHalts
  BY DEF IInv
<1>1. /\ UNCHANGED <<canon, note, exex, done, to_hot, from_hot, refusals, stop>>
      /\ UNCHANGED <<job, left, height, halts, image, tip, floor, ended>>
      /\ hot = "hook" /\ hot' = "drain"
  BY DEF AfterBlock, reth, future, rings, store
<1>2. Types'
  BY <1>0, <1>1 DEF Types, Rests
<1>3. Where'
  BY <1>0, <1>1 DEF Where, Types, WellFormed, HasTip, Waits, committed_tip, Commits, Dead
<1>4. Versions' /\ Queued' /\ Prefix' /\ Folding' /\ NoteInv'
  BY <1>1, SameStore DEF Alive, Dead, Rests
<1>5. Heights' /\ ExitHalts'
  BY <1>1 DEF Heights, ExitHalts
<1> QED BY <1>2, <1>3, <1>4, <1>5 DEF IInv

LEMMA ExitStep == ASSUME IInv, Exit PROVE IInv'
<1>0. Types /\ Versions /\ NoteInv /\ Where /\ Heights /\ ExitHalts
  BY DEF IInv
<1>1. /\ UNCHANGED <<canon, note, exex, done, to_hot, from_hot, refusals, stop>>
      /\ UNCHANGED <<job, left, height, halts, image, tip, floor, ended>>
      /\ hot = "returning" /\ hot' = "exited"
  BY DEF Exit, reth, future, rings, store
<1>2. Types'
  BY <1>0, <1>1 DEF Types, Dead
<1>3. Where'
  BY <1>0, <1>1 DEF Where, Types, WellFormed, HasTip, Waits, committed_tip, Commits, Dead
<1>4. Versions' /\ Queued' /\ Prefix' /\ Folding' /\ NoteInv'
  BY <1>1, SameStore DEF Alive, Dead
<1>5. Heights' /\ ExitHalts'
  BY <1>0, <1>1 DEF Heights, ExitHalts
<1> QED BY <1>2, <1>3, <1>4, <1>5 DEF IInv

(* A wake after a refusal leaves a thread that is no longer in step; the   *)
(* refusal, or the failed future, remembers it.                            *)
LEMMA WakeStep == ASSUME IInv, Wake PROVE IInv'
<1>0. Types /\ Versions /\ NoteInv /\ Where /\ Heights /\ ExitHalts
  BY DEF IInv
<1>1. /\ UNCHANGED <<canon, note, exex, done, to_hot, from_hot, refusals, stop>>
      /\ UNCHANGED <<job, left, height, image, tip, floor, ended>>
      /\ \/ hot = "confirmed" /\ hot' = "hook" /\ halts' = halts
         \/ hot = "err" /\ hot' = "returning" /\ halts' = halts \cup {"Global"}
         \/ hot \in {"refused", "reverted"} /\ hot' = "amend" /\ halts' = halts
  BY DEF Wake, reth, future, store
<1>2. Types'
  BY <1>0, <1>1 DEF Types, Rests, Dead
<1>3. Where'
  BY <1>0, <1>1 DEF Where, Types, WellFormed, HasTip, Waits, committed_tip, Commits, Dead
<1>4. Versions' /\ Queued' /\ Prefix' /\ Folding' /\ NoteInv'
  <2>1. Alive' => Alive /\ hot \in Rests
    BY <1>0, <1>1 DEF Alive, Dead, Rests, Where
  <2> QED BY <1>1, <2>1, SameStore
<1>5. Heights' /\ ExitHalts'
  BY <1>0, <1>1 DEF Heights, ExitHalts, committed_tip
<1> QED BY <1>2, <1>3, <1>4, <1>5 DEF IInv

(* The height published is the store's tip: the chain of the notification  *)
(* ends where Reth's chain and the store do.                               *)
LEMMA PublishStep == ASSUME IInv, Publish PROVE IInv'
<1>0. Types /\ Versions /\ NoteInv /\ Where /\ Prefix /\ Heights /\ ExitHalts
  BY DEF IInv
<1>1. /\ UNCHANGED <<canon, note, exex, done, to_hot, from_hot, refusals, stop>>
      /\ UNCHANGED <<job, left, halts, image, tip, floor, ended>>
      /\ hot = "publish" /\ hot' = "confirm" /\ height' = committed_tip(job)
  BY DEF Publish, reth, future, rings, store
<1>2. exex \in Waits /\ job = note /\ to_hot = <<>> /\ refusals = 0 /\ HasTip(note)
  BY <1>0, <1>1 DEF Where, Commits
<1>3. note.at \in Nat /\ note.new \in Seq(Hash) /\ Len(note.new) \in Nat /\ Len(note.new) >= 1
      /\ note.new[Len(note.new)] \in Hash
  <2>1. note.at \in Nat /\ note.new \in Seq(Hash) /\ Len(note.new) \in Nat
    BY <1>0, NoteFields DEF Types
  <2>2. Len(note.new) # 0
    BY <1>2, <2>1, Emptied DEF HasTip
  <2> QED BY <2>1, <2>2, Element
<1>4. height' \in Tip
  BY <1>1, <1>2, <1>3 DEF committed_tip, Tip
<1>5. Types'
  BY <1>0, <1>1, <1>4 DEF Types, Rests, Commits
<1>6. Where'
  BY <1>0, <1>1 DEF Where, Types, WellFormed, HasTip, Waits, committed_tip, Commits, Dead
<1>7. Versions' /\ Queued' /\ Prefix' /\ Folding' /\ NoteInv'
  BY <1>1, SameStore DEF Alive, Dead, Rests
<1>8. Heights'
  <2>1. Alive /\ ~Pending
    BY <1>1, <1>2 DEF Alive, Pending, Dead, Pushes, Waits
  <2>2. Len(canon) = Len(image) /\ \A i \in 1 .. Len(image) : canon[i] = image[i].hash
    BY <1>0, <1>1, <2>1 DEF Prefix, Rests
  <2>3. Len(image) = tip /\ tip \in Nat /\ tip >= 1
    BY <1>0, <1>1 DEF Versions, Types
  <2>4. Len(canon) = note.at - 1 + Len(note.new)
        /\ canon[note.at - 1 + Len(note.new)] = note.new[Len(note.new)]
    BY <1>0, <1>2, <1>3 DEF NoteInv, Waits
  <2>5. note.at + Len(note.new) - 1 = tip /\ note.new[Len(note.new)] = image[tip].hash
    BY <1>3, <2>2, <2>3, <2>4
  <2> QED BY <1>1, <1>2, <2>5 DEF Heights, committed_tip
<1>9. ExitHalts'
  BY <1>1 DEF ExitHalts
<1> QED BY <1>5, <1>6, <1>7, <1>8, <1>9 DEF IInv

(* The answer always finds room: at most one is unread. *)
LEMMA ConfirmStep == ASSUME IInv, Confirm PROVE IInv'
<1>0. Types /\ Versions /\ NoteInv /\ Where /\ Heights /\ ExitHalts
  BY DEF IInv
<1>1. /\ UNCHANGED <<canon, note, exex, done, to_hot, refusals, stop>>
      /\ UNCHANGED <<job, left, height, image, tip, floor, ended>>
      /\ hot = "confirm"
  BY DEF Confirm, reth, future, store
<1>2. /\ exex \in Waits /\ job = note /\ to_hot = <<>> /\ refusals = 0 /\ from_hot = <<>>
      /\ height = committed_tip(note) /\ height \in Tip
  BY <1>0, <1>1 DEF Where, Commits, Heights, Types
<1>3. hot' = "confirmed" /\ halts' = halts /\ from_hot' = Append(from_hot, height)
  BY <1>1, <1>2, IngestAssumption DEF Confirm
<1>4. /\ from_hot' \in Seq(Tip) /\ from_hot' # <<>> /\ Len(from_hot') = 1
      /\ from_hot'[1] = committed_tip(note)
  BY <1>2, <1>3
<1>5. Types'
  BY SMTT(60), ZenonT(60), <1>0, <1>1, <1>3, <1>4 DEF Types, Rests
<1>6. Where'
  BY <1>0, <1>1, <1>2, <1>3, <1>4
     DEF Where, Types, WellFormed, HasTip, Waits, committed_tip, Commits, Dead
<1>7. Versions' /\ Queued' /\ Prefix' /\ Folding' /\ NoteInv'
  BY <1>1, <1>3, SameStore DEF Alive, Dead, Rests
<1>8. Heights' /\ ExitHalts'
  BY <1>0, <1>1, <1>3 DEF Heights, ExitHalts
<1> QED BY <1>5, <1>6, <1>7, <1>8 DEF IInv

LEMMA RefuseStep == ASSUME IInv, Refuse PROVE IInv'
<1>0. Types /\ Versions /\ NoteInv /\ Where /\ Heights /\ ExitHalts
  BY DEF IInv
<1>1. /\ UNCHANGED <<canon, note, exex, done, to_hot, from_hot, stop>>
      /\ UNCHANGED <<job, left, height, image, tip, floor, ended>>
      /\ hot = "refuse"
  BY DEF Refuse, reth, future, store
<1>2. exex \in Waits /\ to_hot = <<>> /\ refusals = 0 /\ from_hot = <<>>
  BY <1>0, <1>1 DEF Where, Commits
<1>3. hot' = "refused" /\ halts' = halts /\ refusals' = 1
  BY <1>1, <1>2, IngestAssumption DEF Refuse
<1>4. Types'
  BY SMTT(60), ZenonT(60), <1>0, <1>1, <1>3 DEF Types
<1>5. Where'
  BY <1>0, <1>1, <1>2, <1>3
     DEF Where, Types, WellFormed, HasTip, Waits, committed_tip, Commits, Dead
<1>6. Versions' /\ Queued' /\ Prefix' /\ Folding' /\ NoteInv'
  BY <1>1, <1>3, SameStore DEF Alive
<1>7. Heights' /\ ExitHalts'
  BY <1>0, <1>1, <1>3 DEF Heights, ExitHalts
<1> QED BY <1>4, <1>5, <1>6, <1>7 DEF IInv

(* Chain reads change what is known of a block, never which block it is. *)
LEMMA AmendStep == ASSUME IInv, Amend PROVE IInv'
<1>0. Types /\ Versions /\ NoteInv /\ Where /\ Queued /\ Prefix /\ Heights /\ ExitHalts
  BY DEF IInv
<1>1. /\ UNCHANGED <<canon, note, exex, done, to_hot, from_hot, refusals, stop>>
      /\ UNCHANGED <<job, left, height, halts, tip, floor, ended>>
      /\ hot = "amend" /\ hot' = "spin"
      /\ image' = image \/ image' = [image EXCEPT ![Len(image)].read = TRUE]
  BY DEF Amend, reth, future, rings, store, Store!Write
<1>2. image \in Seq(Entry) /\ Len(image) = tip /\ tip \in Nat /\ tip >= 1
  BY <1>0, <1>1 DEF Types, Versions, Image
<1>3. /\ image' \in Image /\ Len(image') = Len(image)
      /\ \A i \in 1 .. Len(image) :
            image'[i].hash = image[i].hash /\ image'[i].whole = image[i].whole
  <2>1. image[Len(image)] \in Entry
    BY <1>2, Element
  <2>2. [image[Len(image)] EXCEPT !.read = TRUE] \in Entry
    BY ZenonT(60), SMTT(60), <2>1 DEF Entry
  <2>3. CASE image' = image
    BY <2>3, <1>2 DEF Image
  <2>4. CASE image' = [image EXCEPT ![Len(image)].read = TRUE]
    <3> DEFINE e == [image[Len(image)] EXCEPT !.read = TRUE]
    <3>1. image' = [image EXCEPT ![Len(image)] = e]
      BY <2>4
    <3>2. e.hash = image[Len(image)].hash /\ e.whole = image[Len(image)].whole
      BY <2>1 DEF Entry
    <3>3. e \in Entry /\ Len(image) \in 1 .. Len(image)
      BY <1>2, <2>2
    <3> HIDE DEF e
    <3>4. /\ image' \in Seq(Entry) /\ Len(image') = Len(image) /\ image'[Len(image)] = e
          /\ \A i \in 1 .. Len(image) : i # Len(image) => image'[i] = image[i]
      BY <1>2, <3>1, <3>3, Changed
    <3> QED BY <3>2, <3>4 DEF Image
  <2> QED BY <1>1, <2>3, <2>4
<1>4. Types'
  BY <1>0, <1>1, <1>3 DEF Types, Rests
<1>5. Versions'
  <2>1. \A b \in floor .. tip - 1 : b \in Nat /\ 1 .. b \subseteq 1 .. Len(image)
    BY <1>0, <1>2 DEF Types
  <2> QED BY <1>0, <1>1, <1>2, <1>3, <2>1 DEF Versions
<1>6. Where' /\ NoteInv'
  BY <1>0, <1>1
     DEF Where, Types, NoteInv, WellFormed, HasTip, Waits, committed_tip, Commits, Dead
<1>7. Queued'
  BY <1>0, <1>1, <1>3 DEF Queued, LenBefore, Fits, Alive, Dead
<1>8. Prefix'
  <2>1. Alive' <=> Alive
    BY <1>1 DEF Alive, Dead
  <2>2. Pending' <=> Pending
    BY <1>1 DEF Pending
  <2>3. note.at \in Nat
    BY <1>0, NoteFields DEF Types
  <2> QED BY <1>0, <1>1, <1>2, <1>3, <2>1, <2>2, <2>3 DEF Prefix, Rests
<1>9. Folding' /\ Heights' /\ ExitHalts'
  BY <1>1 DEF Folding, Heights, ExitHalts
<1> QED BY <1>4, <1>5, <1>6, <1>7, <1>8, <1>9 DEF IInv

(* The facts that hold while a chain is folded do not need the ring. *)
LEMMA WhileFolding ==
    ASSUME IInv, hot \in {"chain", "fold", "logs"}
    PROVE  /\ exex \in Waits /\ job = note /\ to_hot = <<>> /\ from_hot = <<>> /\ refusals = 0
           /\ HasTip(note) /\ stop = FALSE
           /\ ~Pending
  BY DEF IInv, Types, Where, Commits, Waits, Pending, Pushes

LEMMA FoldLogStep == ASSUME IInv, FoldLog PROVE IInv'
<1>0. Types /\ Versions /\ NoteInv /\ Where /\ Folding
  BY DEF IInv
<1>1. /\ UNCHANGED <<canon, note, exex, done, to_hot, from_hot, refusals, stop>>
      /\ UNCHANGED <<job, left, height, halts, tip, floor, ended>>
      /\ hot = "fold" /\ hot' = "logs"
      /\ image' = Append(image, [hash |-> Head(left), whole |-> FALSE, read |-> FALSE])
  BY DEF FoldLog, reth, future, rings, Store!Write
<1>2. /\ image \in Seq(Entry) /\ Len(image) = tip - 1 /\ tip \in Nat /\ tip >= 1 /\ floor \in Nat
      /\ left \in Seq(Hash) /\ left # <<>> /\ Len(image) \in Nat
  BY <1>0, <1>1 DEF Types, Versions, Folding, Image
<1>3. /\ Tail(left) \in Seq(Hash) /\ Len(left) \in Nat /\ Len(left) >= 1
      /\ Len(Tail(left)) = Len(left) - 1 /\ Head(left) = left[1] /\ Head(left) \in Hash
      /\ \A i \in 1 .. Len(left) - 1 : Tail(left)[i] = left[i + 1]
  BY <1>2, Tailed
<1>4. [hash |-> Head(left), whole |-> FALSE, read |-> FALSE] \in Entry
  BY <1>3 DEF Entry
<1>5. /\ image' \in Image /\ Len(image') = tip
      /\ image'[tip] = [hash |-> Head(left), whole |-> FALSE, read |-> FALSE]
      /\ \A i \in 1 .. tip - 1 : image'[i] = image[i]
  BY SMTT(60), ZenonT(60), <1>1, <1>2, <1>4, Appended DEF Image
<1>6. Types'
  BY SMTT(60), ZenonT(60), <1>0, <1>1, <1>5 DEF Types, Commits
<1>7. Versions'
  <2>1. \A i \in 1 .. tip : image'[i].whole \/ i = tip
    BY SMTT(60), ZenonT(60), <1>0, <1>1, <1>2, <1>5 DEF Versions
  <2>2. \A b \in floor .. tip - 1 : b \in Nat /\ 1 .. b \subseteq 1 .. tip - 1
    BY SMTT(60), ZenonT(60), <1>0, <1>2 DEF Types
  <2> QED BY SMTT(60), ZenonT(60), <1>0, <1>1, <1>2, <1>5, <2>1, <2>2 DEF Versions
<1>8. Where' /\ NoteInv'
  BY SMTT(60), ZenonT(60), <1>0, <1>1
     DEF Where, Types, NoteInv, WellFormed, HasTip, Waits, committed_tip, Commits, Dead
<1>9. Queued' /\ Prefix'
  BY <1>1, WhileFolding DEF Queued, Prefix, Pending, Waits, Pushes, Rests
<1>10. Folding'
  <2>1. Len(canon) = tip - 1 + Len(left)
    BY <1>0, <1>1, <1>2 DEF Folding, Rest
  <2>2. \A i \in 1 .. tip - 1 : canon[i] = image[i].hash
    BY <1>0, <1>1, <1>2 DEF Folding, Rest
  <2>3. \A i \in 1 .. Len(left) : canon[tip - 1 + i] = left[i]
    BY <1>0, <1>1, <1>2 DEF Folding, Rest
  <2>4. canon[tip] = left[1]
    <3>1. 1 \in 1 .. Len(left) /\ tip - 1 + 1 = tip
      BY SMTT(60), ZenonT(60), <1>2, <1>3
    <3> QED BY <2>3, <3>1
  <2>5. \A i \in 1 .. tip : canon[i] = image'[i].hash
    BY <1>2, <1>3, <1>5, <2>2, <2>4
  <2>6. \A i \in 1 .. Len(left) - 1 : canon[tip + i] = Tail(left)[i]
    <3> TAKE i \in 1 .. Len(left) - 1
    <3>1. i + 1 \in 1 .. Len(left) /\ tip - 1 + (i + 1) = tip + i
      BY <1>2, <1>3
    <3> QED BY <1>3, <2>3, <3>1
  <2>7. Len(canon) = tip + Len(Tail(left)) /\ Len(Tail(left)) = Len(left) - 1
    BY <1>2, <1>3, <2>1
  <2>8. Rest' = Tail(left)
    BY <1>1 DEF Rest
  <2>9. left # <<>> /\ Len(image') = tip
    BY <1>2, <1>5
  <2> QED BY ZenonT(60), SMTT(60), <1>1, <2>5, <2>6, <2>7, <2>8, <2>9 DEF Folding
<1>11. Heights' /\ ExitHalts'
  BY <1>1 DEF Heights, ExitHalts
<1> QED BY <1>6, <1>7, <1>8, <1>9, <1>10, <1>11 DEF IInv

LEMMA FoldRestStep == ASSUME IInv, FoldRest PROVE IInv'
<1>0. Types /\ Versions /\ NoteInv /\ Where /\ Folding
  BY DEF IInv
<1>1. /\ UNCHANGED <<canon, note, exex, done, to_hot, from_hot, refusals, stop>>
      /\ UNCHANGED <<job, height, halts, tip, floor, ended>>
      /\ hot = "logs" /\ hot' = "chain" /\ left' = Tail(left)
      /\ image' = [image EXCEPT ![Len(image)].whole = TRUE]
  BY DEF FoldRest, reth, future, rings, Store!Write
<1>2. /\ image \in Seq(Entry) /\ Len(image) = tip /\ tip \in Nat /\ tip >= 1 /\ floor \in Nat
      /\ left \in Seq(Hash) /\ left # <<>>
  BY <1>0, <1>1 DEF Types, Versions, Folding, Image
<1>3. left' \in Seq(Hash)
  BY <1>1, <1>2, Tailed
<1>4. /\ image' \in Image /\ Len(image') = tip
      /\ \A i \in 1 .. tip : image'[i].hash = image[i].hash
      /\ \A i \in 1 .. tip : image'[i].whole \/ (i # tip /\ ~image[i].whole)
  <2> DEFINE e == [image[tip] EXCEPT !.whole = TRUE]
  <2>1. image[tip] \in Entry /\ tip \in 1 .. Len(image)
    BY <1>2, Element
  <2>2. e \in Entry /\ e.hash = image[tip].hash /\ e.whole = TRUE
    BY ZenonT(60), SMTT(60), <2>1 DEF Entry
  <2>3. image' = [image EXCEPT ![tip] = e]
    BY <1>1, <1>2
  <2> HIDE DEF e
  <2>4. /\ image' \in Seq(Entry) /\ Len(image') = tip /\ image'[tip] = e
        /\ \A i \in 1 .. tip : i # tip => image'[i] = image[i]
    BY <1>2, <2>1, <2>2, <2>3, Changed
  <2> QED BY <2>2, <2>4 DEF Image
<1>5. Types'
  BY <1>0, <1>1, <1>3, <1>4 DEF Types, Commits
<1>6. Versions'
  <2>1. \A b \in floor .. tip - 1 : b \in Nat /\ 1 .. b \subseteq 1 .. tip
    BY <1>0, <1>2 DEF Types
  <2> QED BY <1>0, <1>1, <1>2, <1>4, <2>1 DEF Versions
<1>7. Where' /\ NoteInv'
  BY <1>0, <1>1
     DEF Where, Types, NoteInv, WellFormed, HasTip, Waits, committed_tip, Commits, Dead
<1>8. Queued' /\ Prefix'
  BY <1>1, WhileFolding DEF Queued, Prefix, Pending, Waits, Pushes, Rests
<1>9. Folding'
  <2>1. Rest' = Rest
    BY <1>1 DEF Rest
  <2>2. /\ Len(canon) = Len(image) + Len(Rest)
        /\ \A i \in 1 .. Len(image) : canon[i] = image[i].hash
        /\ \A i \in 1 .. Len(Rest) : canon[Len(image) + i] = Rest[i]
    BY <1>0, <1>1 DEF Folding
  <2> QED BY ZenonT(60), SMTT(60), <1>1, <1>2, <1>4, <2>1, <2>2 DEF Folding
<1>10. Heights' /\ ExitHalts'
  BY <1>1 DEF Heights, ExitHalts
<1> QED BY <1>5, <1>6, <1>7, <1>8, <1>9, <1>10 DEF IInv

(* recover_partial takes the open block back, whole or not. *)
LEMMA ContainedStep == ASSUME IInv, Contained PROVE IInv'
<1>0. Types /\ Versions /\ NoteInv /\ Where
  BY DEF IInv
<1>1. /\ UNCHANGED <<canon, note, exex, done, to_hot, from_hot, refusals, stop>>
      /\ UNCHANGED <<job, left, height, floor, ended>>
      /\ hot \in {"fold", "logs"} /\ hot' = "refuse"
      /\ image' = ended[tip - 1] /\ tip' = tip - 1
  BY DEF Contained, reth, future, rings, Store!Unwind
<1>2. tip \in Nat /\ floor \in Nat /\ floor >= 1 /\ floor < tip /\ tip <= MaxChain
      /\ MaxChain \in Nat
  BY <1>0, <1>1, IngestAssumption DEF Types, Versions
<1>3. tip - 1 \in floor .. tip - 1 /\ tip - 1 \in BlockNum
  BY <1>2 DEF BlockNum
<1>4. /\ image' \in Image /\ Len(image') = tip - 1
      /\ \A i \in 1 .. tip - 1 : image'[i].whole /\ image'[i].hash = image[i].hash
  BY <1>0, <1>1, <1>3 DEF Types, Versions
<1>5. Types'
  BY SMTT(60), ZenonT(60), <1>0, <1>1, <1>2, <1>4 DEF Types, Commits
<1>6. Versions'
  <2>1. \A b \in floor .. tip' - 1 : b \in floor .. tip - 1 /\ 1 .. b \subseteq 1 .. tip - 1
    BY SMTT(60), ZenonT(60), <1>1, <1>2
  <2> QED BY <1>0, <1>1, <1>2, <1>4, <2>1 DEF Versions
<1>7. Where' /\ NoteInv'
  BY SMTT(60), ZenonT(60), <1>0, <1>1
     DEF Where, Types, NoteInv, WellFormed, HasTip, Waits, committed_tip, Commits, Dead
<1>8. Queued' /\ Prefix' /\ Folding' /\ Heights' /\ ExitHalts'
  BY ZenonT(60), SMTT(60), <1>1 DEF Queued, Prefix, Alive, Folding, Heights, ExitHalts
<1> QED BY <1>5, <1>6, <1>7, <1>8 DEF IInv

(* apply_chain: a block is opened on the store's whole tip; after the last *)
(* one the store is Reth's chain.                                          *)
LEMMA ApplyChainStep == ASSUME IInv, ApplyChain PROVE IInv'
<1>0. Types /\ Versions /\ NoteInv /\ Where /\ Folding /\ ExitHalts
  BY DEF IInv
<1>1. /\ UNCHANGED <<canon, note, exex, done, to_hot, from_hot, refusals, stop>>
      /\ UNCHANGED <<job, left, height>> /\ hot = "chain"
  BY DEF ApplyChain, reth, future, rings
<1>2. /\ image \in Seq(Entry) /\ Len(image) = tip /\ tip \in Nat /\ tip >= 1
      /\ floor \in Nat /\ floor >= 1 /\ floor <= tip /\ tip <= MaxChain
      /\ left \in Seq(Hash) /\ Len(left) \in Nat
      /\ UNDO_DEPTH \in Nat /\ UNDO_DEPTH >= 1 /\ MaxChain \in Nat
  BY <1>0, <1>1, IngestAssumption DEF Types, Versions, Image
<1>3. /\ Len(canon) = tip + Len(left) /\ Len(canon) <= MaxChain
      /\ \A i \in 1 .. tip : canon[i] = image[i].hash
      /\ \A i \in 1 .. Len(left) : canon[tip + i] = left[i]
  BY SMTT(60), ZenonT(60), <1>0, <1>1, <1>2 DEF Folding, Rest, Types
<1>4. NoteInv'
  BY <1>0, <1>1 DEF NoteInv, WellFormed, HasTip
<1>5. CASE hot' = "fold" /\ left # <<>> /\ Store!Begin
  <2>1. /\ image' = image /\ tip' = tip + 1 /\ ended' = [ended EXCEPT ![tip] = image]
        /\ floor' = IF tip' - floor > UNDO_DEPTH THEN tip' - UNDO_DEPTH ELSE floor
    BY <1>5 DEF Store!Begin
  <2>2. Len(left) >= 1
    BY <1>2, <1>5, Emptied
  <2>3. tip' \in 1 .. MaxChain /\ floor' \in Nat /\ floor' >= 1 /\ floor <= floor' /\ floor' <= tip
    BY <1>2, <1>3, <2>1, <2>2
  <2>4. tip \in BlockNum /\ ended \in [BlockNum -> Image] /\ image \in Image
    BY <1>0, <1>2 DEF Types, BlockNum
  <2>5. /\ ended' \in [BlockNum -> Image] /\ ended'[tip] = image
        /\ \A b \in floor .. tip - 1 : ended'[b] = ended[b]
    BY SMTT(60), ZenonT(60), <1>2, <2>1, <2>4 DEF BlockNum
  <2>6. Types'
    BY SMTT(60), ZenonT(60), <1>0, <1>1, <1>5, <2>1, <2>3, <2>5 DEF Types, Commits
  <2>7. Versions'
    <3>1. \A i \in 1 .. tip : image[i].whole
      BY <1>0, <1>1, <1>2 DEF Versions
    <3>2. \A b \in floor .. tip - 1 :
             /\ Len(ended[b]) = b
             /\ \A i \in 1 .. b : ended[b][i].whole /\ ended[b][i].hash = image[i].hash
      BY <1>0 DEF Versions
    <3>3. \A b \in floor' .. tip :
             /\ Len(ended'[b]) = b
             /\ \A i \in 1 .. b : ended'[b][i].whole /\ ended'[b][i].hash = image[i].hash
      <4> TAKE b \in floor' .. tip
      <4>1. CASE b = tip
        BY <1>2, <2>5, <3>1, <4>1
      <4>2. CASE b # tip
        <5>1. b \in floor .. tip - 1
          BY <1>2, <2>3, <4>2
        <5> QED BY <2>5, <3>2, <5>1
      <4> QED BY <4>1, <4>2
    <3>4. tip' - 1 = tip /\ floor' < tip' /\ Len(image') = tip' - 1
      BY SMTT(60), ZenonT(60), <1>2, <2>1, <2>3
    <3> QED BY SMTT(60), ZenonT(60), <1>2, <1>5, <2>1, <3>1, <3>3, <3>4 DEF Versions
  <2>8. Where'
    BY SMTT(60), ZenonT(60), <1>0, <1>1, <1>5
       DEF Where, Types, WellFormed, HasTip, Waits, committed_tip, Commits, Dead
  <2>9. Queued' /\ Prefix'
    BY <1>1, <1>5, WhileFolding DEF Queued, Prefix, Pending, Waits, Pushes, Rests
  <2>10. Folding'
    BY ZenonT(60), SMTT(60), <1>1, <1>2, <1>3, <1>5, <2>1 DEF Folding, Rest
  <2>11. Heights' /\ ExitHalts'
    BY <1>5 DEF Heights, ExitHalts
  <2> QED BY <1>4, <2>6, <2>7, <2>8, <2>9, <2>10, <2>11 DEF IInv
<1>6. CASE /\ hot' \in {"publish", "err", "refuse"} /\ UNCHANGED store
           /\ hot' = "publish" => left = <<>>
  <2>1. UNCHANGED <<image, tip, floor, ended>>
    BY <1>6 DEF store
  <2>2. Types'
    BY SMTT(60), ZenonT(60), <1>0, <1>1, <1>6, <2>1 DEF Types, Commits, Dead
  <2>3. Versions'
    BY SMTT(60), ZenonT(60), <1>0, <1>1, <1>6, <2>1 DEF Versions
  <2>4. Where'
    BY <1>0, <1>1, <1>6
       DEF Where, Types, WellFormed, HasTip, Waits, committed_tip, Commits, Dead
  <2>5. Queued'
    BY SMTT(60), ZenonT(60), <1>1, <1>6, WhileFolding DEF Queued, Waits, Pushes
  <2>6. hot' = "publish" => /\ Len(canon) = Len(image)
                            /\ \A i \in 1 .. Len(image) : canon[i] = image[i].hash
    BY <1>2, <1>3, <1>6
  <2>7. Prefix'
    BY <1>1, <1>6, <2>1, <2>6, WhileFolding
       DEF Prefix, Alive, Pending, Waits, Pushes, Rests, Dead
  <2>8. Folding' /\ Heights' /\ ExitHalts'
    BY <1>6 DEF Folding, Heights, ExitHalts
  <2> QED BY <1>4, <2>2, <2>3, <2>4, <2>5, <2>7, <2>8 DEF IInv
<1> QED BY <1>5, <1>6 DEF ApplyChain

(* drain: the notification taken fits the store. *)
LEMMA PopStep == ASSUME IInv, Pop PROVE IInv'
<1>0. Types /\ Versions /\ NoteInv /\ Where /\ Queued /\ Prefix /\ Heights /\ ExitHalts
  BY DEF IInv
<1>1. /\ UNCHANGED <<canon, note, exex, done, from_hot, refusals, stop>>
      /\ UNCHANGED <<height, halts, image, tip, floor, ended>> /\ hot = "drain"
  BY DEF Pop, reth, future, store
<1>2. CASE to_hot = <<>>
  <2>1. UNCHANGED <<to_hot, job, left>> /\ hot' = "amend"
    BY <1>2 DEF Pop
  <2>2. Types'
    BY SMTT(60), ZenonT(60), <1>0, <1>1, <2>1 DEF Types, Rests
  <2>3. Where'
    BY <1>0, <1>1, <2>1 DEF Where, Types, WellFormed, HasTip, Waits, committed_tip, Commits, Dead
  <2>4. Versions' /\ Queued' /\ Prefix' /\ Folding' /\ NoteInv'
    BY <1>1, <2>1, SameStore DEF Alive, Dead, Rests
  <2>5. Heights' /\ ExitHalts'
    BY <2>1 DEF Heights, ExitHalts
  <2> QED BY <2>2, <2>3, <2>4, <2>5 DEF IInv
<1>3. CASE to_hot # <<>>
  <2> DEFINE n == to_hot[1]
  <2>1. /\ job' = n /\ to_hot' = Tail(to_hot) /\ left' = n.new
        /\ hot' = IF n.first = 0 THEN "chain" ELSE "revert"
    BY <1>0, <1>3, Tailed DEF Pop, Types
  <2>2. /\ to_hot \in Seq(Note) /\ Len(to_hot) \in Nat /\ Len(to_hot) >= 1 /\ n \in Note
        /\ to_hot' \in Seq(Note) /\ Len(to_hot') = Len(to_hot) - 1
        /\ \A i \in 1 .. Len(to_hot) - 1 : to_hot'[i] = to_hot[i + 1]
    BY <1>0, <1>3, <2>1, Tailed, Element DEF Types
  <2>3. n.first \in Nat /\ n.at \in Nat /\ n.new \in Seq(Hash) /\ Len(n.new) \in Nat
    BY SMTT(60), ZenonT(60), <2>2, NoteFields
  <2>4. /\ from_hot = <<>> /\ refusals = 0 /\ exex \notin {"finish", "failed"}
        /\ WellFormed(n)
        /\ HasTip(n) => Len(to_hot) = 1 /\ exex \in Waits /\ n = note
    BY <1>0, <1>1, <1>3, <2>2 DEF Where, Types
  <2> HIDE DEF n
  <2>5. to_hot' = <<>> \/ Len(to_hot') >= 1
    BY <2>2, Emptied
  <2>6. Alive /\ Pending
    BY SMTT(60), ZenonT(60), <1>1, <1>3, <2>4 DEF Alive, Pending, Dead
  <2>7. Types'
    BY SMTT(60), ZenonT(60), <1>0, <1>1, <2>1, <2>2, <2>3 DEF Types, Commits
  <2>8. Versions'
    BY SMTT(60), ZenonT(60), <1>0, <1>1, <2>1 DEF Versions
  <2>9. NoteInv'
    BY <1>0, <1>1, <1>3 DEF NoteInv, WellFormed, HasTip
  <2>10. CASE n.first = 0
    <3>1. HasTip(n) /\ Len(to_hot) = 1 /\ exex \in Waits /\ n = note /\ hot' = "chain"
      BY <2>1, <2>4, <2>10 DEF WellFormed
    <3>2. to_hot' = <<>>
      BY SMTT(60), ZenonT(60), <2>2, <3>1, Emptied
    <3>3. Where'
      <4>1. (stop => exex = "parked") /\ HasTip(note) /\ job' = note
        BY SMTT(60), ZenonT(60), <1>0, <2>1, <3>1 DEF Where
      <4> QED BY SMTT(60), ZenonT(60), <1>1, <2>4, <3>1, <3>2, <4>1
                 DEF Where, HasTip, Commits, Waits
    <3>4. Queued' /\ Prefix'
      BY <1>1, <3>1, <3>2 DEF Queued, Prefix, Pending, Waits, Pushes, Rests
    <3>5. note.at = Len(image) + 1
      <4>1. Fits(n, LenBefore(1)) /\ LenBefore(1) = Len(image)
        BY <1>0, <1>1, <2>2, <2>6 DEF Queued, LenBefore, n
      <4> QED BY SMTT(60), ZenonT(60), <2>10, <3>1, <4>1 DEF Fits
    <3>6. Len(image) \in Nat
      BY <1>0 DEF Types, Image
    <3>7. /\ Len(canon) = note.at - 1 + Len(note.new)
          /\ \A i \in 1 .. Len(note.new) : canon[note.at - 1 + i] = note.new[i]
      BY <1>0, <1>3 DEF NoteInv
    <3>8. \A i \in 1 .. note.at - 1 : canon[i] = image[i].hash
      BY <1>0, <2>6 DEF Prefix
    <3>9. left' = note.new /\ note.at - 1 = Len(image)
      BY <2>1, <2>3, <3>1, <3>5, <3>6
    <3>10. Folding'
      BY ZenonT(60), SMTT(60), <1>1, <3>1, <3>7, <3>8, <3>9 DEF Folding, Rest
    <3>11. Heights' /\ ExitHalts'
      BY <3>1 DEF Heights, ExitHalts
    <3> QED BY <2>7, <2>8, <2>9, <3>3, <3>4, <3>10, <3>11 DEF IInv
  <2>11. CASE n.first # 0
    <3>1. hot' = "revert"
      BY <2>1, <2>11
    <3>2. \A i \in 1 .. Len(to_hot') : i + 1 \in 1 .. Len(to_hot) /\ to_hot'[i] = to_hot[i + 1]
      BY <2>2
    <3>3. to_hot' # <<>> => to_hot'[Len(to_hot')] = to_hot[Len(to_hot)]
      BY SMTT(60), ZenonT(60), <2>2, <2>5, <3>2
    <3>4. Where'
      <4>1. HasTip(n) => to_hot' = <<>>
        BY SMTT(60), ZenonT(60), <2>2, <2>4, Emptied
      <4>2. \A i \in 1 .. Len(to_hot') :
              /\ WellFormed(to_hot'[i])
              /\ HasTip(to_hot'[i]) =>
                    i = Len(to_hot') /\ exex \in Waits /\ to_hot'[i] = note
        BY SMTT(60), ZenonT(60), <1>0, <2>2, <2>4, <3>2 DEF Where
      <4>3. exex \in Waits => to_hot[Len(to_hot)] = note /\ HasTip(note)
        BY <1>0, <1>1, <1>3, <2>4 DEF Where, Commits, Dead
      <4>4. exex \in Waits => (to_hot' # <<>> /\ to_hot'[Len(to_hot')] = note) \/ n = note
        <5>1. CASE to_hot' # <<>>
          BY <3>3, <4>3, <5>1
        <5>2. CASE to_hot' = <<>>
          <6>1. Len(to_hot) = 1
            BY SMTT(60), ZenonT(60), <2>2, <5>2
          <6> QED BY <4>3, <6>1 DEF n
        <5> QED BY <5>1, <5>2
      <4> QED BY <1>0, <1>1, <2>1, <2>4, <2>11, <3>1, <4>1, <4>2, <4>3, <4>4
             DEF Where, WellFormed, HasTip, committed_tip, Commits, Dead
    <3>5. Queued'
      <4>1. \A k \in 1 .. Len(to_hot) : LenBefore(k)' = LenBefore(k + 1)
        BY SMTT(60), ZenonT(60), <2>1, <2>2, <3>1, <3>2 DEF LenBefore, n
      <4>2. /\ \A k \in 1 .. Len(to_hot) :
                  Fits(to_hot[k], LenBefore(k)) /\ note.at <= to_hot[k].at
            /\ exex \in Pushes => Fits(note, LenBefore(Len(to_hot) + 1))
            /\ exex \notin Pushes => to_hot[Len(to_hot)] = note
        BY <1>0, <1>3, <2>6 DEF Queued
      <4>3. \A k \in 1 .. Len(to_hot') :
               Fits(to_hot'[k], LenBefore(k)') /\ note.at <= to_hot'[k].at
        <5> TAKE k \in 1 .. Len(to_hot')
        <5>1. k \in 1 .. Len(to_hot) /\ k + 1 \in 1 .. Len(to_hot)
          BY <2>2
        <5>2. LenBefore(k)' = LenBefore(k + 1) /\ to_hot'[k] = to_hot[k + 1]
          BY SMTT(60), ZenonT(60), <3>2, <4>1, <5>1
        <5>3. Fits(to_hot[k + 1], LenBefore(k + 1)) /\ note.at <= to_hot[k + 1].at
          BY <4>2, <5>1
        <5> QED BY <5>2, <5>3
      <4>4. LenBefore(Len(to_hot) + 1)' = LenBefore(Len(to_hot) + 1)
        <5>1. to_hot' = <<>> => Len(to_hot) = 1
          BY <2>2
        <5> QED BY <2>1, <2>2, <2>5, <3>1, <3>3, <5>1 DEF LenBefore, n
      <4>5. LenBefore(1) = Len(image)
        BY <1>1 DEF LenBefore
      <4>6. Fits(n, Len(image)) /\ note.at <= n.at
        BY <2>2, <4>2, <4>5 DEF n
      <4>7. to_hot' = <<>> /\ exex \notin Pushes => n = note
        <5>1. to_hot' = <<>> => Len(to_hot) = 1
          BY <2>2
        <5> QED BY ZenonT(60), SMTT(60), <4>2, <5>1 DEF n
      <4> QED BY <1>1, <2>1, <3>1, <3>3, <4>2, <4>3, <4>4, <4>6, <4>7 DEF Queued, Fits
    <3>6. Prefix'
      BY SMTT(60), ZenonT(60), <1>0, <1>1, <2>6, <3>1 DEF Prefix, Pending
    <3>7. Folding' /\ Heights' /\ ExitHalts'
      BY <2>1, <3>1 DEF Folding, Heights, ExitHalts
    <3> QED BY <2>7, <2>8, <2>9, <3>4, <3>5, <3>6, <3>7 DEF IInv
  <2> QED BY <2>10, <2>11
<1> QED BY <1>2, <1>3

(* revert: the store is put back to the block the notification keeps, or   *)
(* the thread halts all trading and ends.                                  *)
LEMMA RevertStep == ASSUME IInv, Revert PROVE IInv'
<1>0. Types /\ Versions /\ NoteInv /\ Where /\ Queued /\ Prefix /\ Folding /\ ExitHalts
  BY DEF IInv
<1>1. /\ UNCHANGED <<canon, note, exex, done, to_hot, from_hot, refusals, stop>>
      /\ UNCHANGED <<job, left, height>> /\ hot = "revert"
  BY DEF Revert, reth, future, rings
<1>2. /\ WellFormed(job) /\ job.first # 0 /\ from_hot = <<>> /\ refusals = 0 /\ exex # "failed"
      /\ HasTip(job) => exex \in Waits /\ job = note /\ to_hot = <<>>
  BY SMTT(60), ZenonT(60), <1>0, <1>1 DEF Where
<1>3. NoteInv'
  BY <1>0, <1>1 DEF NoteInv, WellFormed, HasTip
<1>4. /\ job.first \in Nat /\ job.at \in Nat /\ job.at = job.first /\ Len(job.new) \in Nat
      /\ note.at \in Nat /\ Len(note.new) \in Nat
  BY <1>0, <1>2, NoteFields DEF Types, WellFormed
<1>5. CASE job.first - 1 \notin floor .. tip
  <2>1. hot' = "err" /\ UNCHANGED <<image, tip, floor, ended>>
    BY <1>5 DEF Revert, store
  <2>2. Types'
    BY SMTT(60), ZenonT(60), <1>0, <1>1, <2>1 DEF Types, Dead
  <2>3. Versions'
    BY SMTT(60), ZenonT(60), <1>0, <1>1, <2>1 DEF Versions
  <2>4. Where'
    BY ZenonT(60), SMTT(60), <1>0, <1>1, <1>2, <2>1
       DEF Where, Types, WellFormed, HasTip, Waits, committed_tip, Commits, Dead
  <2>5. Queued' /\ Prefix' /\ Folding' /\ Heights' /\ ExitHalts'
    BY <2>1 DEF Queued, Prefix, Alive, Dead, Folding, Heights, ExitHalts
  <2> QED BY <1>3, <2>2, <2>3, <2>4, <2>5 DEF IInv
<1>6. CASE job.first - 1 \in floor .. tip
  <2>1. /\ hot' = IF HasTip(job) THEN "chain" ELSE "reverted"
        /\ image' = ended[job.first - 1] /\ tip' = job.first - 1
        /\ UNCHANGED <<floor, ended>>
    BY <1>6 DEF Revert, Store!Unwind
  <2>2. Alive /\ Pending
    BY <1>1, <1>2 DEF Alive, Pending, Dead
  <2>3. /\ Len(image) = tip /\ tip \in Nat /\ floor \in Nat /\ floor >= 1 /\ tip <= MaxChain
        /\ MaxChain \in Nat
    BY SMTT(60), ZenonT(60), <1>0, <1>1, IngestAssumption DEF Types, Versions
  <2>4. Fits(job, Len(image)) /\ note.at <= job.at
    BY <1>0, <1>1, <2>2 DEF Queued
  <2>5. job.first - 1 \in floor .. tip - 1 /\ job.first - 1 \in BlockNum /\ job.first - 1 \in Nat
    BY SMTT(60), ZenonT(60), <1>2, <1>4, <1>6, <2>3, <2>4 DEF Fits, BlockNum
  <2>6. /\ image' \in Image /\ Len(image') = job.at - 1 /\ tip' = job.at - 1
        /\ \A i \in 1 .. job.at - 1 : image'[i].whole /\ image'[i].hash = image[i].hash
    BY ZenonT(60), SMTT(60), <1>0, <1>4, <2>1, <2>5 DEF Types, Versions
  <2>7. tip' \in Nat /\ floor <= tip' /\ tip' < tip
    BY <1>4, <2>3, <2>5, <2>6
  <2>8. hot' \in {"chain", "reverted"} /\ (hot' = "chain" <=> HasTip(job))
    BY <2>1
  <2>9. Types'
    <3>1. tip' \in 1 .. MaxChain /\ floor' \in 1 .. tip'
      BY SMTT(60), ZenonT(60), <2>1, <2>3, <2>7
    <3> QED BY <1>0, <1>1, <2>1, <2>6, <2>8, <3>1 DEF Types, Commits, Rests
  <2>10. Versions'
    <3>1. \A b \in floor .. tip' - 1 : b \in floor .. tip - 1 /\ 1 .. b \subseteq 1 .. job.at - 1
      BY <1>4, <2>3, <2>6, <2>7
    <3> QED BY <1>0, <2>1, <2>6, <2>8, <3>1 DEF Versions
  <2>11. /\ note.at >= 1 /\ note.at - 1 <= Len(image')
         /\ \A i \in 1 .. note.at - 1 : canon[i] = image'[i].hash
    <3>1. /\ note.at >= 1
          /\ \A i \in 1 .. note.at - 1 : canon[i] = image[i].hash
      BY <1>0, <2>2 DEF Prefix
    <3>2. \A i \in 1 .. note.at - 1 : i \in 1 .. job.at - 1
      BY <1>4, <2>4
    <3>3. note.at - 1 <= Len(image')
      BY SMTT(60), ZenonT(60), <1>4, <2>4, <2>6
    <3>4. \A i \in 1 .. note.at - 1 : canon[i] = image'[i].hash
      BY SMTT(60), ZenonT(60), <2>6, <3>1, <3>2
    <3> QED BY <3>1, <3>3, <3>4
  <2>12. /\ Len(canon) = note.at - 1 + Len(note.new)
         /\ \A i \in 1 .. Len(note.new) : canon[note.at - 1 + i] = note.new[i]
    BY <1>0, <2>11 DEF NoteInv, NoNote
  <2>13. CASE HasTip(job)
    <3>1. hot' = "chain" /\ exex \in Waits /\ job = note /\ to_hot = <<>>
      BY SMTT(60), ZenonT(60), <1>2, <2>8, <2>13
    <3>2. Where'
      <4>1. (stop => exex = "parked") /\ HasTip(note)
        BY SMTT(60), ZenonT(60), <1>0, <3>1 DEF Where
      <4> QED BY <1>1, <1>2, <3>1, <4>1 DEF Where, HasTip, Commits, Waits
    <3>3. Queued' /\ Prefix'
      BY SMTT(60), ZenonT(60), <1>1, <3>1 DEF Queued, Prefix, Pending, Waits, Pushes, Rests
    <3>4. left' = note.new /\ Len(image') = note.at - 1
      BY SMTT(60), ZenonT(60), <1>0, <1>1, <2>6, <3>1 DEF Folding
    <3>5. Folding'
      BY <1>1, <2>11, <2>12, <3>1, <3>4 DEF Folding, Rest
    <3>6. Heights' /\ ExitHalts'
      BY <3>1 DEF Heights, ExitHalts
    <3> QED BY <1>3, <2>9, <2>10, <3>2, <3>3, <3>5, <3>6 DEF IInv
  <2>14. CASE ~HasTip(job)
    <3>1. hot' = "reverted"
      BY SMTT(60), ZenonT(60), <2>8, <2>14
    <3>2. Where'
      BY SMTT(60), ZenonT(60), <1>0, <1>1, <1>2, <2>14, <3>1
         DEF Where, Types, WellFormed, HasTip, Waits, committed_tip, Commits, Dead
    <3>3. Queued'
      <4>1. /\ \A k \in 1 .. Len(to_hot) :
                  Fits(to_hot[k], LenBefore(k)) /\ note.at <= to_hot[k].at
            /\ exex \in Pushes => Fits(note, LenBefore(Len(to_hot) + 1))
            /\ to_hot # <<>> /\ exex \notin Pushes => to_hot[Len(to_hot)] = note
        BY SMTT(60), ZenonT(60), <1>0, <2>2 DEF Queued
      <4>2. \A k \in 1 .. Len(to_hot) + 1 : LenBefore(k)' = LenBefore(k)
        BY SMTT(60), ZenonT(60), <1>1, <2>6, <3>1 DEF LenBefore
      <4>3. LenBefore(Len(to_hot) + 1)' = LenBefore(Len(to_hot) + 1)
        BY SMTT(60), ZenonT(60), <1>1, <2>6, <3>1 DEF LenBefore
      <4>4. \A k \in 1 .. Len(to_hot) : Fits(to_hot[k], LenBefore(k)')
        <5>1. \A k \in 1 .. Len(to_hot) : k \in 1 .. Len(to_hot) + 1
          BY <1>0 DEF Types
        <5> QED BY <4>1, <4>2, <5>1
      <4> QED BY SMTT(60), ZenonT(60), <1>1, <3>1, <4>1, <4>3, <4>4 DEF Queued, Fits
    <3>4. Prefix'
      <4>1. CASE Pending'
        BY SMTT(60), ZenonT(60), <1>1, <2>11, <4>1 DEF Prefix
      <4>2. CASE ~Pending'
        <5>1. to_hot = <<>> /\ exex \notin Pushes
          BY <1>1, <4>2 DEF Pending
        <5>2. job = note
          BY <1>0, <1>1, <2>2, <5>1 DEF Queued
        <5>3. Len(note.new) = 0
          BY SMTT(60), ZenonT(60), <2>14, <5>2 DEF HasTip
        <5>4. Len(canon) = Len(image') /\ Len(image') = note.at - 1
          BY SMTT(60), ZenonT(60), <1>4, <2>6, <2>12, <5>2, <5>3
        <5> QED BY <1>1, <2>11, <4>2, <5>4 DEF Prefix
      <4> QED BY <4>1, <4>2
    <3>5. Folding' /\ Heights' /\ ExitHalts'
      BY SMTT(60), ZenonT(60), <3>1 DEF Folding, Heights, ExitHalts
    <3> QED BY <1>3, <2>9, <2>10, <3>2, <3>3, <3>4, <3>5 DEF IInv
  <2> QED BY <2>13, <2>14
<1> QED BY <1>5, <1>6
-----------------------------------------------------------------------------
LEMMA StutterStep == ASSUME IInv, UNCHANGED vars PROVE IInv'
<1>1. /\ UNCHANGED <<canon, note, exex, done, to_hot, from_hot, refusals, stop>>
      /\ UNCHANGED <<hot, job, left, height, halts, image, tip, floor, ended>>
      /\ UNCHANGED <<thread, store>>
  BY SMTT(60), ZenonT(60) DEF vars, reth, future, rings, thread, store
<1>2. Types'
  BY SMTT(60), ZenonT(60), <1>1 DEF IInv, Types
<1>3. NoteInv'
  BY SMTT(60), ZenonT(60), <1>1 DEF IInv, NoteInv, WellFormed, HasTip
<1>4. Where'
  BY ZenonT(60), SMTT(60), <1>1 DEF IInv, Where, WellFormed, HasTip, committed_tip
<1>5. Queued' /\ Prefix' /\ Folding'
  BY <1>1, SameQueue DEF Alive
<1> QED BY SMTT(60), ZenonT(60), <1>1, <1>2, <1>3, <1>4, <1>5, ThreadUnchanged DEF IInv

LEMMA NextIInv == ASSUME IInv, [Next]_vars PROVE IInv'
<1>1. CASE NextNotification
  BY <1>1, NextNotificationStep
<1>2. CASE StreamEnded
  BY <1>2, RestStep
<1>3. CASE Future
  BY <1>3, PushOwnedStep, TakeFinishedStep, TakeRefusedStep, IsFinishedStep, NotifiedStep, RestStep
     DEF Future
<1>4. CASE Thread
  BY <1>4, SpinStep, PopStep, RevertStep, ApplyChainStep, FoldLogStep, FoldRestStep, ContainedStep,
     PublishStep, ConfirmStep, RefuseStep, WakeStep, AfterBlockStep, AmendStep, ExitStep DEF Thread
<1>5. CASE UNCHANGED vars
  BY <1>5, StutterStep
<1> QED BY <1>1, <1>2, <1>3, <1>4, <1>5 DEF Next

LEMMA AlwaysIInv == Spec => []IInv
<1>1. Init => IInv
  BY StartIInv
<1>2. IInv /\ [Next]_vars => IInv'
  BY NextIInv
<1> QED BY <1>1, <1>2, PTL DEF Spec

(* A sequence is given by its length and its elements. *)
LEMMA SameSeq ==
    ASSUME NEW S, NEW s \in Seq(S), NEW f, f = [i \in 1 .. Len(s) |-> f[i]],
           \A i \in 1 .. Len(s) : f[i] = s[i]
    PROVE  f = s
  OBVIOUS

LEMMA FoldedIs ==
    ASSUME IInv, Len(canon) = Len(image), \A i \in 1 .. Len(image) : canon[i] = image[i].hash
    PROVE  Folded = canon
<1>1. canon \in Seq(Hash)
  BY SMTT(60), ZenonT(60) DEF IInv, Types
<1>2. /\ Folded = [i \in 1 .. Len(canon) |-> Folded[i]]
      /\ \A i \in 1 .. Len(canon) : Folded[i] = canon[i]
  BY DEF Folded
<1> QED BY SMTT(60), ZenonT(60), <1>1, <1>2, SameSeq

(* For every undo depth, ring capacity and chain: no block is confirmed    *)
(* over a partial fold, the future passes on a height only when the store  *)
(* is Reth's chain, whole, and at most one answer is under way (reorg.rs   *)
(* apply_contained, forward.rs wait_consistent).                           *)
THEOREM AnswersAreExact == Spec => []AnswersExact
<1>1. ASSUME IInv PROVE AnswersExact
  <2>0. Types /\ Versions /\ Where /\ Prefix
    BY <1>1 DEF IInv
  <2>1. NeverOnPartial
    BY <2>0 DEF NeverOnPartial, Versions
  <2>2. FinishedIsFolded
    <3> SUFFICES ASSUME exex = "finish"
                 PROVE  Whole /\ Folded = canon /\ done = committed_tip(note)
      BY SMTT(60), ZenonT(60) DEF FinishedIsFolded
    <3>1. to_hot = <<>> /\ done = committed_tip(note) /\ refusals = 0
          /\ hot \in {"confirmed", "hook", "drain", "amend", "spin"}
      BY <2>0 DEF Where, Waits
    <3>2. Alive /\ ~Pending /\ hot \in Rests
      BY <3>1 DEF Alive, Pending, Rests, Dead, Pushes
    <3>3. Folded = canon
      BY SMTT(60), ZenonT(60), <1>1, <2>0, <3>2, FoldedIs DEF Prefix
    <3>4. Whole
      BY <2>0, <3>1 DEF Whole, Versions
    <3> QED BY <3>1, <3>3, <3>4
  <2>3. OneAnswerPending
    <3>1. CASE hot \in {"confirm", "refuse"}
      <4>1. from_hot = <<>> /\ refusals = 0
        BY <2>0, <3>1 DEF Where, Commits
      <4> QED BY SMTT(60), ZenonT(60), <3>1, <4>1 DEF OneAnswerPending
    <3>2. CASE hot \notin {"confirm", "refuse"}
      <4>1. CASE from_hot # <<>>
        <5>1. Len(from_hot) = 1 /\ refusals = 0
          BY <2>0, <4>1 DEF Where
        <5> QED BY SMTT(60), ZenonT(60), <3>2, <5>1 DEF OneAnswerPending
      <4>2. CASE from_hot = <<>>
        <5>1. refusals = 0 \/ refusals = 1
          BY <2>0 DEF Where
        <5> QED BY SMTT(60), ZenonT(60), <3>2, <4>2, <5>1 DEF OneAnswerPending
      <4> QED BY <4>1, <4>2
    <3> QED BY <3>1, <3>2
  <2> QED BY <2>1, <2>2, <2>3 DEF AnswersExact
<1> QED BY <1>1, AlwaysIInv, PTL

(* For every undo depth, ring capacity and chain: when the after_block hook *)
(* runs, the number and hash it gives the engine are the store's whole tip *)
(* block (hot.rs drain).                                                   *)
THEOREM HookIsExact == Spec => []HookSeesChain
<1>1. ASSUME IInv PROVE HookSeesChain
  <2> SUFFICES ASSUME hot = "hook"
               PROVE  Whole /\ height = [number |-> tip, hash |-> image[tip].hash]
    BY SMTT(60), ZenonT(60) DEF HookSeesChain
  <2>1. Whole
    BY <1>1 DEF IInv, Versions, Whole
  <2>2. height = [number |-> tip, hash |-> image[tip].hash]
    BY <1>1 DEF IInv, Heights
  <2> QED BY <2>1, <2>2
<1> QED BY <1>1, AlwaysIInv, PTL

(* For every undo depth, ring capacity and chain: a store that is not      *)
(* Reth's chain when no notification is under way has halted all trading,  *)
(* and so has a hot thread that returns unasked (reorg.rs revert, hot.rs   *)
(* drain).                                                                 *)
THEOREM DivergenceAlwaysStops == Spec => []DivergenceStops
<1>1. ASSUME IInv PROVE DivergenceStops
  <2>0. Types /\ Where /\ Prefix /\ ExitHalts
    BY <1>1 DEF IInv
  <2>1. NoSilentDivergence
    <3> SUFFICES ASSUME exex = "idle", to_hot = <<>>,
                        hot \in {"spin", "amend", "exited", "returning"}
                 PROVE  Folded = canon \/ "Global" \in halts
      BY SMTT(60), ZenonT(60) DEF NoSilentDivergence
    <3>1. ~stop /\ refusals = 0
      BY <2>0 DEF Where, Waits
    <3>2. CASE hot \in {"exited", "returning"}
      BY SMTT(60), ZenonT(60), <2>0, <3>1, <3>2 DEF ExitHalts
    <3>3. CASE hot \in {"spin", "amend"}
      <4>1. Alive /\ ~Pending /\ hot \in Rests
        BY <3>1, <3>3 DEF Alive, Pending, Rests, Dead, Pushes
      <4> QED BY <1>1, <2>0, <4>1, FoldedIs DEF Prefix
    <3> QED BY <3>2, <3>3
  <2> QED BY <2>0, <2>1 DEF DivergenceStops
<1> QED BY <1>1, AlwaysIInv, PTL
=============================================================================
