------------------------- MODULE HotIngestInvariant -------------------------
EXTENDS HotIngest, Integers, TLAPS

(***************************************************************************)
(* The safety of block ingestion for every ring capacity, undo depth and   *)
(* chain: the inductive invariant of HotIngest and, from it, what its runs  *)
(* check.  A notification is in one of four places, held by the future, in *)
(* the ring, with the hot thread, or done; the invariant says which, and   *)
(* that the store with the ones under way makes up Reth's chain.           *)
(***************************************************************************)
Note == [first : Nat, at : Nat, new : Seq(Hash)]
Tip == [number : Int, hash : Hash]
Pushes == {"push", "push_gone", "push_await"}
Waits == {"wait", "wait_refused", "wait_gone", "wait_await"}
Dead == {"err", "returning", "exited"}
Rests == {"spin", "drain", "amend", "hook", "confirmed", "reverted", "publish", "confirm"}
Commits == {"chain", "fold", "logs", "publish", "confirm", "refuse"}

Types ==
    /\ canon \in Seq(Hash) /\ Len(canon) <= MaxChain
    /\ exex \in {"idle", "finish", "failed", "parked"} \cup Pushes \cup Waits
    /\ note \in Note /\ job \in Note /\ to_hot \in Seq(Note)
    /\ from_hot \in Seq(Tip) /\ height \in Tip
    /\ refusals \in Nat /\ stop \in BOOLEAN
    /\ hot \in {"revert", "refused"} \cup Rests \cup Commits \cup Dead
    /\ left \in Seq(Hash)
    /\ image \in Image /\ tip \in 1 .. MaxChain /\ floor \in 1 .. tip
    /\ ended \in [BlockNum -> Image]

(* Every version the store can be put back to is whole, and what it folded *)
(* is a prefix of what is folded now.                                      *)
Versions ==
    /\ Len(image) = IF hot = "fold" THEN tip - 1 ELSE tip
    /\ \A i \in 1 .. Len(image) : image[i].whole \/ (i = Len(image) /\ hot = "logs")
    /\ hot \in {"fold", "logs"} => floor < tip
    /\ \A b \in floor .. tip - 1 :
          /\ Len(ended[b]) = b
          /\ \A i \in 1 .. b : ended[b][i].whole /\ ended[b][i].hash = image[i].hash

(* A notification keeps the chain before `at`; a revert without new blocks *)
(* starts at the first block it takes back.                                *)
WellFormed(n) ==
    /\ n.at >= 1
    /\ n.first = 0 \/ n.first = n.at
    /\ n.first = 0 => HasTip(n)

NoteInv ==
    \/ note = NoNote /\ exex \in {"idle", "parked"} /\ to_hot = <<>> /\ job = NoNote
    \/ /\ WellFormed(note)
       /\ Len(canon) = note.at - 1 + Len(note.new)
       /\ \A i \in 1 .. Len(note.new) : canon[note.at - 1 + i] = note.new[i]

(* Where the commit the future waits for is. *)
Where ==
    /\ stop => exex = "parked"
    /\ exex \in Waits \cup {"finish"} => HasTip(note)
    /\ hot \in Commits =>
          exex \in Waits /\ job = note /\ to_hot = <<>> /\ from_hot = <<>> /\ refusals = 0
    /\ hot = "revert" =>
          /\ WellFormed(job) /\ job.first # 0 /\ from_hot = <<>> /\ refusals = 0 /\ exex # "failed"
          /\ HasTip(job) => exex \in Waits /\ job = note /\ to_hot = <<>>
    /\ from_hot # <<>> =>
          /\ exex \in Waits /\ to_hot = <<>> /\ refusals = 0
          /\ Len(from_hot) = 1 /\ from_hot[1] = committed_tip(note)
          /\ hot \in {"confirmed", "hook", "drain", "amend", "spin"}
    /\ refusals # 0 =>
          /\ exex \in Waits /\ to_hot = <<>> /\ refusals = 1
          /\ hot \in {"refused", "drain", "amend", "spin"}
    /\ hot = "refused" => refusals # 0 \/ exex = "failed"
    /\ exex = "finish" =>
          /\ to_hot = <<>> /\ done = committed_tip(note)
          /\ hot \in {"confirmed", "hook", "drain", "amend", "spin"}
    /\ exex = "failed" =>
          /\ hot \in {"refused", "drain", "amend", "spin", "exited"}
          /\ hot # "exited" => to_hot = <<>>
    /\ \A i \in 1 .. Len(to_hot) :
          /\ WellFormed(to_hot[i])
          /\ HasTip(to_hot[i]) =>
                i = Len(to_hot) /\ exex \in Waits \cup {"failed"} /\ to_hot[i] = note
    /\ exex \in Waits =>
          \/ to_hot # <<>> /\ to_hot[Len(to_hot)] = note
          \/ hot \in Commits \cup {"revert"} /\ job = note
          \/ from_hot # <<>> \/ refusals # 0
          \/ hot \in Dead

Alive == hot \notin Dead \cup {"refuse", "refused"} /\ refusals = 0 /\ exex # "failed"
Pending == to_hot # <<>> \/ exex \in Pushes \/ hot = "revert"

(* How long the store's chain is once what comes before to_hot[k] is done. *)
LenBefore(k) ==
    IF k > 1 THEN to_hot[k - 1].at - 1
    ELSE IF hot = "revert" THEN job.at - 1 ELSE Len(image)
Fits(n, len) == IF n.first = 0 THEN n.at = len + 1 ELSE n.at <= len

(* The notifications under way follow each other: each one starts where the *)
(* one before it leaves the store, and none keeps less than the last.      *)
Queued ==
    Alive =>
      /\ \A k \in 1 .. Len(to_hot) : Fits(to_hot[k], LenBefore(k)) /\ note.at <= to_hot[k].at
      /\ exex \in Pushes => Fits(note, LenBefore(Len(to_hot) + 1))
      /\ hot = "revert" => Fits(job, Len(image)) /\ note.at <= job.at
      /\ to_hot # <<>> /\ exex \notin Pushes => to_hot[Len(to_hot)] = note
      /\ hot = "revert" /\ to_hot = <<>> /\ exex \notin Pushes => job = note

(* What the last notification keeps of the store is Reth's chain; with none *)
(* under way the whole store is.                                           *)
Prefix ==
    Alive =>
      /\ Pending => /\ note.at >= 1 /\ note.at - 1 <= Len(image)
                    /\ \A i \in 1 .. note.at - 1 : canon[i] = image[i].hash
      /\ ~Pending /\ hot \in Rests => /\ Len(canon) = Len(image)
                                     /\ \A i \in 1 .. Len(image) : canon[i] = image[i].hash

(* While a chain is folded, the store and the blocks left make up Reth's. *)
Rest == IF hot = "logs" THEN Tail(left) ELSE left

Folding ==
    /\ hot = "revert" => left = job.new
    /\ hot \in {"fold", "logs"} => left # <<>>
    /\ hot \in {"chain", "fold", "logs"} =>
         /\ Len(canon) = Len(image) + Len(Rest)
         /\ \A i \in 1 .. Len(image) : canon[i] = image[i].hash
         /\ \A i \in 1 .. Len(Rest) : canon[Len(image) + i] = Rest[i]

(* The published height is the store's tip whenever someone may look. *)
Heights ==
    /\ hot \in {"confirm", "confirmed", "hook"} =>
          height = [number |-> tip, hash |-> image[tip].hash]
    /\ hot = "confirm" => height = committed_tip(job)

IInv ==
    /\ Types /\ Versions /\ NoteInv /\ Where /\ Queued /\ Prefix /\ Folding /\ Heights
    /\ ExitHalts
-----------------------------------------------------------------------------
(* Sequences, element by element. *)
LEMMA Appended ==
    ASSUME NEW S, NEW s \in Seq(S), NEW e \in S
    PROVE  /\ Append(s, e) \in Seq(S)
           /\ Append(s, e) # <<>>
           /\ Len(Append(s, e)) = Len(s) + 1
           /\ Append(s, e)[Len(s) + 1] = e
           /\ \A i \in 1 .. Len(s) : Append(s, e)[i] = s[i]
  OBVIOUS

LEMMA Tailed ==
    ASSUME NEW S, NEW s \in Seq(S), s # <<>>
    PROVE  /\ Tail(s) \in Seq(S)
           /\ Head(s) \in S /\ Head(s) = s[1]
           /\ Len(s) \in Nat /\ Len(s) >= 1
           /\ Len(Tail(s)) = Len(s) - 1
           /\ \A i \in 1 .. Len(s) - 1 : Tail(s)[i] = s[i + 1]
  OBVIOUS

LEMMA Element == ASSUME NEW S, NEW s \in Seq(S), NEW i \in 1 .. Len(s) PROVE s[i] \in S
  OBVIOUS

LEMMA Changed ==
    ASSUME NEW S, NEW s \in Seq(S), NEW k \in 1 .. Len(s), NEW e \in S
    PROVE  /\ [s EXCEPT ![k] = e] \in Seq(S)
           /\ Len([s EXCEPT ![k] = e]) = Len(s)
           /\ [s EXCEPT ![k] = e][k] = e
           /\ \A i \in 1 .. Len(s) : i # k => [s EXCEPT ![k] = e][i] = s[i]
  OBVIOUS

LEMMA Emptied == ASSUME NEW S, NEW s \in Seq(S), Len(s) = 0 PROVE s = <<>>
  OBVIOUS

LEMMA NoteFields ==
    ASSUME NEW n \in Note
    PROVE  n.first \in Nat /\ n.at \in Nat /\ n.new \in Seq(Hash) /\ Len(n.new) \in Nat
  BY DEF Note

LEMMA Spliced ==
    ASSUME NEW S, NEW s \in Seq(S), NEW t \in Seq(S), NEW k \in 0 .. Len(s)
    PROVE  /\ SubSeq(s, 1, k) \o t \in Seq(S)
           /\ Len(SubSeq(s, 1, k) \o t) = k + Len(t)
           /\ \A i \in 1 .. k : (SubSeq(s, 1, k) \o t)[i] = s[i]
           /\ \A i \in 1 .. Len(t) : (SubSeq(s, 1, k) \o t)[k + i] = t[i]
<1>1. SubSeq(s, 1, k) \in Seq(S) /\ Len(SubSeq(s, 1, k)) = k
  OBVIOUS
<1>2. \A i \in 1 .. k : SubSeq(s, 1, k)[i] = s[i]
  OBVIOUS
<1> QED BY <1>1, <1>2

LEMMA SpanIsSeq == ASSUME NEW new \in Span PROVE new \in Seq(Hash) /\ Len(new) \in Nat
  BY DEF Span
-----------------------------------------------------------------------------
LEMMA StartIInv == Init => IInv
<1> SUFFICES ASSUME Init PROVE IInv
  OBVIOUS
<1> USE IngestAssumption DEF Init
<1>1. Types
  <2>1. canon \in Seq(Hash) /\ Len(canon) <= MaxChain /\ note \in Note /\ job \in Note
    BY DEF NoNote, Note
  <2>2. image \in Image /\ tip \in 1 .. MaxChain /\ floor \in 1 .. tip
    BY DEF Image, Entry
  <2>3. ended \in [BlockNum -> Image]
    BY <2>2
  <2>4. height \in Tip
    BY DEF NoTip, Tip
  <2>5. to_hot \in Seq(Note) /\ from_hot \in Seq(Tip) /\ left \in Seq(Hash)
    OBVIOUS
  <2>6. exex = "idle" /\ hot \in Rests /\ refusals \in Nat /\ stop \in BOOLEAN
    BY ZenonT(60), SMTT(60) DEF Rests
  <2> QED BY ZenonT(60), SMTT(60), <2>1, <2>2, <2>3, <2>4, <2>5, <2>6 DEF Types
<1>2. Versions
  BY DEF Versions
<1>3. NoteInv
  BY DEF NoteInv
<1>4. Where
  BY DEF Where, Waits, Commits
<1>5. Queued /\ Prefix /\ Folding
  BY DEF Queued, Prefix, Folding, Alive, Pending, Pushes, Rests, NoNote
<1>6. Heights /\ ExitHalts
  BY DEF Heights, ExitHalts
<1> QED BY <1>1, <1>2, <1>3, <1>4, <1>5, <1>6 DEF IInv

(* What the actions of the future leave alone. *)
LEMMA ThreadUnchanged ==
    ASSUME IInv, UNCHANGED <<thread, store>>, stop => stop'
    PROVE  Versions' /\ Heights' /\ ExitHalts'
<1>1. Versions'
  BY DEF IInv, Versions, thread, store
<1>2. Heights'
  BY DEF IInv, Heights, thread, store, committed_tip
<1>3. ExitHalts'
  BY DEF IInv, ExitHalts, thread
<1> QED BY <1>1, <1>2, <1>3

(* try_next: the new notification starts from the chain as the store will  *)
(* have it, whether reverts are still under way or not.                    *)
LEMMA NextNotificationStep == ASSUME IInv, NextNotification PROVE IInv'
<1>0. Types /\ Versions /\ NoteInv /\ Where /\ Queued /\ Prefix /\ Folding
  BY DEF IInv
<1>1. /\ exex = "idle" /\ exex' = "push"
      /\ UNCHANGED <<done, to_hot, from_hot, refusals, stop, thread, store>>
  BY DEF NextNotification, rings
<1>2. UNCHANGED <<hot, job, left, height, halts, image, tip, floor, ended>>
  BY <1>1 DEF thread, store
<1>3. PICK first \in {0} \cup (1 .. Len(canon)), new \in Span :
        LET kept == IF first = 0 THEN Len(canon) ELSE first - 1 IN
          /\ first # 0 \/ new # <<>>
          /\ kept + Len(new) <= MaxChain
          /\ canon' = SubSeq(canon, 1, kept) \o new
          /\ note' = [first |-> first, at |-> kept + 1, new |-> new]
  BY ZenonT(60), SMTT(60) DEF NextNotification
<1> DEFINE kept == IF first = 0 THEN Len(canon) ELSE first - 1
<1>4. canon \in Seq(Hash) /\ Len(canon) \in Nat /\ new \in Seq(Hash) /\ Len(new) \in Nat
  BY <1>0, SpanIsSeq DEF Types
<1>5. kept \in 0 .. Len(canon) /\ (first = 0 => kept = Len(canon))
      /\ (first # 0 => kept = first - 1 /\ kept < Len(canon))
  BY <1>4
<1>15. /\ canon' = SubSeq(canon, 1, kept) \o new /\ kept + Len(new) <= MaxChain
       /\ note' = [first |-> first, at |-> kept + 1, new |-> new]
  BY <1>3
<1> HIDE DEF kept
<1>6. /\ canon' \in Seq(Hash) /\ Len(canon') = kept + Len(new) /\ Len(canon') <= MaxChain
      /\ \A i \in 1 .. kept : canon'[i] = canon[i]
      /\ \A i \in 1 .. Len(new) : canon'[kept + i] = new[i]
  <2> DEFINE spliced == SubSeq(canon, 1, kept) \o new
  <2>1. kept \in 0 .. Len(canon)
    BY <1>5
  <2>2. /\ spliced \in Seq(Hash)
        /\ Len(spliced) = kept + Len(new)
        /\ \A i \in 1 .. kept : spliced[i] = canon[i]
        /\ \A i \in 1 .. Len(new) : spliced[kept + i] = new[i]
    BY SMTT(60), ZenonT(60), <1>4, <2>1, Spliced
  <2>3. canon' = spliced /\ kept + Len(new) <= MaxChain
    BY <1>15
  <2> HIDE DEF spliced
  <2> QED BY <2>2, <2>3
<1>7. /\ note' \in Note /\ note'.first = first /\ note'.at = kept + 1 /\ note'.new = new
      /\ (first # 0 \/ new # <<>>)
  BY <1>3, <1>15, <1>4, <1>5 DEF Note
<1>8. /\ from_hot = <<>> /\ refusals = 0 /\ stop = FALSE /\ hot \notin Commits
      /\ hot # "refused" /\ (hot = "revert" => WellFormed(job) /\ ~HasTip(job))
      /\ \A i \in 1 .. Len(to_hot) : WellFormed(to_hot[i]) /\ ~HasTip(to_hot[i])
  BY <1>0, <1>1 DEF Where, Types, Waits
<1>9. Types'
  BY <1>0, <1>1, <1>2, <1>6, <1>7 DEF Types, Pushes
<1>10. NoteInv'
  BY SMTT(60), ZenonT(60), <1>4, <1>5, <1>6, <1>7 DEF NoteInv, WellFormed, HasTip
<1>11. Where'
  BY <1>0, <1>1, <1>2, <1>8 DEF Where, WellFormed, HasTip, Waits
<1>12. Folding'
  BY SMTT(60), ZenonT(60), <1>0, <1>1, <1>2, <1>8 DEF Folding, Rest, Commits
<1>13. CASE ~Alive
  BY <1>1, <1>2, <1>9, <1>10, <1>11, <1>12, <1>13, ThreadUnchanged
     DEF IInv, Queued, Prefix, Alive
<1>14. CASE Alive
  <2>1. to_hot \in Seq(Note) /\ Len(to_hot) \in Nat /\ Len(image) \in Nat /\ note \in Note
        /\ note.at \in Nat /\ job.at \in Nat
    BY <1>0 DEF Types, Note, Image
  <2>2. /\ LenBefore(Len(to_hot) + 1) = Len(canon)
        /\ \A k \in 1 .. Len(to_hot) : Len(canon) < to_hot[k].at
        /\ (hot = "revert" => Len(canon) < job.at)
        /\ Len(canon) <= Len(image)
        /\ \A i \in 1 .. Len(canon) : canon[i] = image[i].hash
    <3>1. CASE Pending
      <4>1. to_hot # <<>> \/ hot = "revert"
        BY <3>1, <1>1 DEF Pending, Pushes
      <4>2. note.at >= 1 /\ note.at - 1 <= Len(image)
            /\ \A i \in 1 .. note.at - 1 : canon[i] = image[i].hash
        BY <1>0, <1>14, <3>1 DEF Prefix
      <4>3. ~HasTip(note)
        <5>1. CASE to_hot # <<>>
          BY <5>1, <1>0, <1>1, <1>8, <1>14, <2>1 DEF Queued, Pushes
        <5>2. CASE to_hot = <<>>
          BY <5>2, <4>1, <1>0, <1>1, <1>8, <1>14, <2>1 DEF Queued, Pushes
        <5> QED BY <5>1, <5>2
      <4>4. Len(canon) = note.at - 1
        BY <4>2, <4>3, <1>0, <2>1 DEF NoteInv, HasTip, NoNote
      <4>5. LenBefore(Len(to_hot) + 1) = note.at - 1
        BY <4>1, <1>0, <1>1, <1>14, <2>1 DEF Queued, Pushes, LenBefore
      <4>6. (\A k \in 1 .. Len(to_hot) : note.at <= to_hot[k].at)
            /\ (hot = "revert" => note.at <= job.at)
        BY <1>0, <1>14 DEF Queued
      <4>7. \A k \in 1 .. Len(to_hot) : to_hot[k].at \in Nat
        BY <2>1, Element, NoteFields
      <4> QED BY SMTT(60), ZenonT(60), <2>1, <4>2, <4>4, <4>5, <4>6, <4>7
    <3>2. CASE ~Pending
      <4>1. to_hot = <<>> /\ hot # "revert" /\ hot \in Rests
        BY <3>2, <1>0, <1>8, <1>14 DEF Pending, Types, Alive, Commits, Rests
      <4> QED BY <4>1, <3>2, <1>0, <1>14, <2>1 DEF Prefix, LenBefore
    <3> QED BY <3>1, <3>2
  <2>3. \A k \in 1 .. Len(to_hot) + 1 : LenBefore(k)' = LenBefore(k)
    BY <1>1, <1>2 DEF LenBefore
  <2>4. kept + 1 <= Len(canon) + 1 /\ (first = 0 => kept = Len(canon))
        /\ (first # 0 => kept + 1 <= Len(canon)) /\ kept \in Nat
    BY <1>4, <1>5
  <2>5. \A k \in 1 .. Len(to_hot) : to_hot[k].at \in Nat
    BY <2>1, Element, NoteFields
  <2>8. note'.at = kept + 1
    BY <1>7
  <2>9. Len(canon) <= Len(image) /\ (hot = "revert" => Len(canon) < job.at)
    BY <2>2
  <2>6. Queued'
    <3>1. Fits(note', LenBefore(Len(to_hot) + 1))
      BY <1>7, <2>1, <2>2, <2>4, <1>4 DEF Fits
    <3>2. \A k \in 1 .. Len(to_hot) : Fits(to_hot[k], LenBefore(k)) /\ note'.at <= to_hot[k].at
      BY <1>0, <1>7, <1>14, <1>4, <2>1, <2>2, <2>4, <2>5 DEF Queued
    <3>3. hot = "revert" => Fits(job, Len(image)) /\ note'.at <= job.at
      <4>1. hot = "revert" => Fits(job, Len(image))
        BY <1>0, <1>14 DEF Queued
      <4>2. hot = "revert" => note'.at <= job.at
        BY <1>4, <2>1, <2>4, <2>8, <2>9
      <4> QED BY <4>1, <4>2
    <3> QED BY <1>1, <1>2, <2>1, <2>3, <3>1, <3>2, <3>3 DEF Queued, Fits, Pushes
  <2>7. Prefix'
    <3>1. Pending'
      BY <1>1 DEF Pending, Pushes
    <3>2. note'.at >= 1 /\ note'.at - 1 = kept /\ kept <= Len(image) /\ kept <= Len(canon)
      BY <1>4, <2>1, <2>4, <2>8, <2>9
    <3>3. \A i \in 1 .. kept : canon'[i] = image[i].hash
      <4>1. \A i \in 1 .. kept : i \in 1 .. Len(canon)
        BY <1>4, <2>4, <3>2
      <4> QED BY SMTT(60), ZenonT(60), <4>1, <1>6, <2>2
    <3> QED BY <1>2, <3>1, <3>2, <3>3 DEF Prefix
  <2> QED BY <1>1, <1>9, <1>10, <1>11, <1>12, <2>6, <2>7, ThreadUnchanged DEF IInv
<1> QED BY <1>13, <1>14

(* The steps of the future that only change where it is: what is under way *)
(* stays under way.                                                        *)
LEMMA SameQueue ==
    ASSUME IInv, UNCHANGED <<canon, note, to_hot, thread, store>>,
           Alive' => Alive, exex' \in Pushes <=> exex \in Pushes
    PROVE  Queued' /\ Prefix' /\ Folding'
<1>1. UNCHANGED <<hot, job, left, height, halts, image, tip, floor, ended>>
  BY DEF thread, store
<1>2. Queued'
  BY <1>1 DEF IInv, Queued, LenBefore, Fits
<1>3. Prefix'
  BY <1>1 DEF IInv, Prefix, Pending
<1>4. Folding'
  BY ZenonT(60), SMTT(60), <1>1 DEF IInv, Folding, Rest
<1> QED BY <1>2, <1>3, <1>4

(* push_owned *)
LEMMA PushOwnedStep == ASSUME IInv, PushOwned PROVE IInv'
<1>0. Types /\ Versions /\ NoteInv /\ Where /\ Queued /\ Prefix /\ Folding
  BY DEF IInv
<1>1. UNCHANGED <<canon, note, done, from_hot, refusals, stop, thread, store>> /\ exex = "push"
  BY DEF PushOwned, reth
<1>2. UNCHANGED <<hot, job, left, height, halts, image, tip, floor, ended>>
  BY <1>1 DEF thread, store
<1>3. note \in Note /\ to_hot \in Seq(Note) /\ Len(to_hot) \in Nat
  BY <1>0 DEF Types
<1>4. WellFormed(note)
  BY <1>0, <1>1 DEF NoteInv
<1>5. /\ from_hot = <<>> /\ refusals = 0 /\ stop = FALSE /\ hot \notin Commits /\ hot # "refused"
      /\ \A i \in 1 .. Len(to_hot) : ~HasTip(to_hot[i])
  BY <1>0, <1>1 DEF Where, Types, Waits
<1>6. CASE to_hot' = to_hot /\ exex' = "push_gone"
  <2>1. Types'
    BY <1>0, <1>1, <1>2, <1>6 DEF Types, Pushes
  <2>2. NoteInv'
    BY ZenonT(60), SMTT(60), <1>0, <1>1, <1>2, <1>6 DEF NoteInv, WellFormed, HasTip
  <2>3. Where'
    BY <1>0, <1>1, <1>2, <1>6 DEF Where, WellFormed, HasTip, Waits, committed_tip
  <2>4. Queued' /\ Prefix' /\ Folding'
    BY <1>1, <1>2, <1>6, SameQueue DEF Alive, Pushes
  <2> QED BY <1>1, <2>1, <2>2, <2>3, <2>4, ThreadUnchanged DEF IInv
<1>7. CASE to_hot' = Append(to_hot, note) /\ exex' = IF HasTip(note) THEN "wait" ELSE "idle"
  <2>1. /\ to_hot' \in Seq(Note) /\ to_hot' # <<>> /\ Len(to_hot') = Len(to_hot) + 1
        /\ to_hot'[Len(to_hot) + 1] = note
        /\ \A i \in 1 .. Len(to_hot) : to_hot'[i] = to_hot[i]
    BY <1>3, <1>7, Appended
  <2>2. exex' \in {"idle", "wait"} /\ (exex' = "wait" <=> HasTip(note))
    BY <1>7
  <2>3. Types'
    BY SMTT(60), ZenonT(60), <1>0, <1>1, <1>2, <2>1, <2>2 DEF Types, Waits
  <2>4. NoteInv'
    BY SMTT(60), ZenonT(60), <1>0, <1>1, <1>2, <2>1, <2>2 DEF NoteInv, WellFormed, HasTip
  <2>5. Where'
    BY SMTT(60), ZenonT(60), <1>0, <1>1, <1>2, <1>3, <1>4, <1>5, <2>1, <2>2
       DEF Where, WellFormed, HasTip, Waits, committed_tip
  <2>6. Folding'
    BY SMTT(60), ZenonT(60), <1>0, <1>1, <1>2 DEF Folding, Rest
  <2>7. \A k \in 1 .. Len(to_hot) + 1 : LenBefore(k)' = LenBefore(k)
    BY <1>2, <1>3, <2>1 DEF LenBefore
  <2>8. Alive' <=> Alive
    BY <1>1, <1>2, <2>2 DEF Alive
  <2>9. CASE ~Alive
    BY <1>1, <2>3, <2>4, <2>5, <2>6, <2>8, <2>9, ThreadUnchanged DEF IInv, Queued, Prefix
  <2>10. CASE Alive
    <3>1. Fits(note, LenBefore(Len(to_hot) + 1))
      BY <1>0, <1>1, <2>10 DEF Queued, Pushes
    <3>2. \A k \in 1 .. Len(to_hot) : Fits(to_hot[k], LenBefore(k)) /\ note.at <= to_hot[k].at
      BY <1>0, <2>10 DEF Queued
    <3>3. hot = "revert" => Fits(job, Len(image)) /\ note.at <= job.at
      BY <1>0, <2>10 DEF Queued
    <3>4. note.at \in Nat
      BY <1>3, NoteFields
    <3>5. \A k \in 1 .. Len(to_hot') :
             Fits(to_hot'[k], LenBefore(k)') /\ note.at <= to_hot'[k].at
      BY SMTT(60), ZenonT(60), <1>3, <2>1, <2>7, <3>1, <3>2, <3>4
    <3>6. Queued'
      BY SMTT(60), ZenonT(60), <1>1, <1>2, <2>1, <2>2, <3>3, <3>5 DEF Queued, Fits, Pushes
    <3>7. Prefix'
      BY <1>0, <1>1, <1>2, <2>1, <2>10 DEF Prefix, Pending, Pushes
    <3> QED BY SMTT(60), ZenonT(60), <1>1, <2>3, <2>4, <2>5, <2>6, <3>6, <3>7, ThreadUnchanged
               DEF IInv
  <2> QED BY <2>9, <2>10
<1> QED BY <1>6, <1>7 DEF PushOwned

(* wait_consistent: the confirmation taken is the one of the notification  *)
(* that is waited for.                                                     *)
LEMMA TakeFinishedStep == ASSUME IInv, TakeFinished PROVE IInv'
<1>0. Types /\ Versions /\ NoteInv /\ Where /\ Queued /\ Prefix /\ Folding
  BY DEF IInv
<1>1. UNCHANGED <<canon, note, to_hot, refusals, stop, thread, store>> /\ exex = "wait"
  BY DEF TakeFinished, reth
<1>2. UNCHANGED <<hot, job, left, height, halts, image, tip, floor, ended>>
  BY <1>1 DEF thread, store
<1>3. \/ from_hot = <<>> /\ from_hot' = <<>> /\ exex' = "wait_refused" /\ done' = done
      \/ /\ from_hot # <<>> /\ exex' = "finish" /\ done' = committed_tip(note)
         /\ from_hot' = <<>>
  <2>1. CASE from_hot = <<>>
    BY <2>1 DEF TakeFinished
  <2>2. CASE from_hot # <<>>
    <3>1. from_hot \in Seq(Tip) /\ Len(from_hot) = 1 /\ from_hot[1] = committed_tip(note)
      BY <1>0, <2>2 DEF Types, Where
    <3>2. Head(from_hot) = from_hot[1] /\ Tail(from_hot) \in Seq(Tip) /\ Len(Tail(from_hot)) = 0
      BY <2>2, <3>1, Tailed
    <3>3. Tail(from_hot) = <<>>
      BY ZenonT(60), SMTT(60), <3>2, Emptied
    <3> QED BY SMTT(60), ZenonT(60), <2>2, <3>1, <3>2, <3>3 DEF TakeFinished
  <2> QED BY <2>1, <2>2
<1>4. Types'
  <2>1. from_hot' = <<>> /\ exex' \in Waits \cup {"finish"}
    BY <1>3 DEF Waits
  <2>2. from_hot' \in Seq(Tip)
    BY <2>1
  <2> QED BY <1>0, <1>1, <1>2, <2>1, <2>2 DEF Types
<1>5. NoteInv'
  BY SMTT(60), ZenonT(60), <1>0, <1>1, <1>2, <1>3 DEF NoteInv, WellFormed, HasTip
<1>6. Where'
  BY <1>0, <1>1, <1>2, <1>3 DEF Where, WellFormed, HasTip, Waits, committed_tip, Commits
<1>7. Queued' /\ Prefix' /\ Folding'
  BY <1>1, <1>2, <1>3, SameQueue DEF Alive, Pushes
<1> QED BY <1>1, <1>4, <1>5, <1>6, <1>7, ThreadUnchanged DEF IInv

LEMMA TakeRefusedStep == ASSUME IInv, TakeRefused PROVE IInv'
<1>0. Types /\ Versions /\ NoteInv /\ Where /\ Queued /\ Prefix /\ Folding
  BY DEF IInv
<1>1. /\ UNCHANGED <<canon, note, done, to_hot, from_hot, stop, thread, store>>
      /\ exex = "wait_refused"
  BY DEF TakeRefused, reth
<1>2. UNCHANGED <<hot, job, left, height, halts, image, tip, floor, ended>>
  BY SMTT(60), ZenonT(60), <1>1 DEF thread, store
<1>3. \/ refusals = 0 /\ refusals' = 0 /\ exex' = "wait_gone"
      \/ refusals = 1 /\ refusals' = 0 /\ exex' = "failed"
  BY <1>0, <1>1 DEF TakeRefused, Types, Where
<1>4. Types'
  BY SMTT(60), ZenonT(60), <1>0, <1>1, <1>2, <1>3 DEF Types, Waits
<1>5. NoteInv'
  BY ZenonT(60), SMTT(60), <1>0, <1>1, <1>2, <1>3 DEF NoteInv, WellFormed, HasTip
<1>6. Where'
  BY <1>0, <1>1, <1>2, <1>3 DEF Where, WellFormed, HasTip, Waits, committed_tip, Commits
<1>7. Queued' /\ Prefix' /\ Folding'
  BY <1>1, <1>2, <1>3, SameQueue DEF Alive, Pushes
<1> QED BY <1>1, <1>4, <1>5, <1>6, <1>7, ThreadUnchanged DEF IInv

LEMMA IsFinishedStep == ASSUME IInv, IsFinished PROVE IInv'
<1>0. Types /\ Versions /\ NoteInv /\ Where /\ Queued /\ Prefix /\ Folding
  BY DEF IInv
<1>1. /\ UNCHANGED <<canon, note, done, to_hot, from_hot, refusals, stop, thread, store>>
      /\ exex \in {"push_gone", "wait_gone"}
  BY DEF IsFinished, reth, rings
<1>2. UNCHANGED <<hot, job, left, height, halts, image, tip, floor, ended>>
  BY <1>1 DEF thread, store
<1>3. \/ hot = "exited" /\ exex' = "failed"
      \/ hot # "exited" /\ exex = "push_gone" /\ exex' = "push_await"
      \/ hot # "exited" /\ exex = "wait_gone" /\ exex' = "wait_await"
  BY <1>1 DEF IsFinished
<1>4. Types'
  BY SMTT(60), ZenonT(60), <1>0, <1>1, <1>2, <1>3 DEF Types, Pushes, Waits
<1>5. NoteInv'
  BY SMTT(60), ZenonT(60), <1>0, <1>1, <1>2, <1>3 DEF NoteInv, WellFormed, HasTip
<1>6. Where'
  BY SMTT(60), ZenonT(60), <1>0, <1>1, <1>2, <1>3
     DEF Where, WellFormed, HasTip, Waits, committed_tip, Commits
<1>7. CASE hot = "exited"
  BY ZenonT(60), SMTT(60), <1>0, <1>1, <1>2, <1>4, <1>5, <1>6, <1>7, ThreadUnchanged
     DEF IInv, Queued, Prefix, Folding, Rest, Alive, Dead
<1>8. CASE hot # "exited"
  <2>1. Queued' /\ Prefix' /\ Folding'
    BY <1>1, <1>2, <1>3, <1>8, SameQueue DEF Alive, Pushes
  <2> QED BY <1>1, <1>4, <1>5, <1>6, <2>1, ThreadUnchanged DEF IInv
<1> QED BY <1>7, <1>8

LEMMA NotifiedStep == ASSUME IInv, Notified PROVE IInv'
<1>0. Types /\ Versions /\ NoteInv /\ Where /\ Queued /\ Prefix /\ Folding
  BY DEF IInv
<1>1. /\ UNCHANGED <<canon, note, done, to_hot, from_hot, refusals, stop, thread, store>>
      /\ \/ exex = "push_await" /\ exex' = "push"
         \/ exex = "wait_await" /\ exex' = "wait"
  BY DEF Notified, reth
<1>2. UNCHANGED <<hot, job, left, height, halts, image, tip, floor, ended>>
  BY <1>1 DEF thread, store
<1>4. Types'
  BY SMTT(60), ZenonT(60), <1>0, <1>1, <1>2 DEF Types, Pushes, Waits
<1>5. NoteInv'
  BY SMTT(60), ZenonT(60), <1>0, <1>1, <1>2 DEF NoteInv, WellFormed, HasTip
<1>6. Where'
  BY <1>0, <1>1, <1>2 DEF Where, WellFormed, HasTip, Waits, committed_tip, Commits
<1>7. Queued' /\ Prefix' /\ Folding'
  BY <1>1, <1>2, SameQueue DEF Alive, Pushes
<1> QED BY <1>1, <1>4, <1>5, <1>6, <1>7, ThreadUnchanged DEF IInv

(* The future rests: a confirmation was passed on, or the stream ended. *)
LEMMA RestStep == ASSUME IInv, SendFinishedHeight \/ StreamEnded PROVE IInv'
<1>0. Types /\ Versions /\ NoteInv /\ Where /\ Queued /\ Prefix /\ Folding
  BY DEF IInv
<1>1. /\ UNCHANGED <<canon, note, done, to_hot, from_hot, refusals, thread, store>>
      /\ exex \in {"finish", "idle"}
  BY DEF SendFinishedHeight, StreamEnded, reth, rings
<1>2. UNCHANGED <<hot, job, left, height, halts, image, tip, floor, ended>>
  BY SMTT(60), ZenonT(60), <1>1 DEF thread, store
<1>3. \/ exex' = "idle" /\ stop' = stop
      \/ exex' = "parked" /\ stop' = TRUE
  BY <1>0 DEF SendFinishedHeight, StreamEnded, Where
<1>4. Types'
  BY ZenonT(60), SMTT(60), <1>0, <1>1, <1>2, <1>3 DEF Types, Pushes, Waits
<1>5. NoteInv'
  BY SMTT(60), ZenonT(60), <1>0, <1>1, <1>2, <1>3 DEF NoteInv, WellFormed, HasTip
<1>6. Where'
  BY <1>0, <1>1, <1>2, <1>3 DEF Where, WellFormed, HasTip, Waits, committed_tip, Commits
<1>7. Queued' /\ Prefix' /\ Folding'
  BY <1>1, <1>2, <1>3, SameQueue DEF Alive, Pushes
<1> QED BY <1>1, <1>3, <1>4, <1>5, <1>6, <1>7, ThreadUnchanged DEF IInv
=============================================================================
