----------------------------- MODULE HotIngest ------------------------------
(***************************************************************************)
(* Block ingestion: Reth's notifications cross from the ExEx future        *)
(* (liq-reth/forward.rs) to the hot thread (liq-node/hot.rs, reorg.rs,     *)
(* apply.rs) over a ring, are folded into the store, and are confirmed     *)
(* back over a second ring; only then is Reth told FinishedHeight.         *)
(*                                                                         *)
(* The store is the one VersionedStore specifies: its actions are conjoined*)
(* to the hot thread's.  A block is its hash, its number the index at which*)
(* it stands in a chain.  tokio's Notify is a single permit.  The adapters *)
(* are outside this module: folding a block's logs writes the block's      *)
(* entry, and may panic or fail half-way.                                  *)
(***************************************************************************)
EXTENDS Naturals, Sequences

CONSTANTS Hash,       \* block hashes
          Genesis,    \* hash of the snapshot's block, number 1
          UNDO_DEPTH, \* blocks of history the store keeps
          NOTIF_CAP,  \* capacity of the rings
          MaxChain,   \* bound: highest block number
          MaxSpan,    \* bound: blocks in one notification
          MaxNotes    \* bound: notifications

ASSUME IngestAssumption ==
    /\ UNDO_DEPTH \in Nat \ {0} /\ NOTIF_CAP \in Nat \ {0}
    /\ MaxChain \in Nat \ {0} /\ MaxSpan \in Nat \ {0} /\ MaxNotes \in Nat
    /\ Genesis \in Hash

VARIABLES
    canon,      \* Reth's chain, as of the last notification taken
    notes,      \* notifications taken so far
    exex,       \* where the ExEx future is
    note,       \* the notification it holds
    done,       \* the confirmation it has received
    finished,   \* last FinishedHeight sent
    lease,      \* SubmitLease: transactions may be sent
    to_hot,     \* ring of notifications
    from_hot,   \* ring of confirmations (FinishedUpTo)
    refusals,   \* ring of refusals: its length
    permit,     \* Notify's permit
    stop,       \* HotHandle::stop
    hot,        \* where the hot thread is
    job,        \* the notification it is handling
    left,       \* blocks of job not folded yet
    image, tip, floor, ended,   \* the store
    height,     \* ConsistentHeight
    last_block, \* block the after_block hook last saw
    halts       \* scopes halted at the risk gate

reth == <<canon, notes>>
future == <<exex, note, done, finished, lease>>
rings == <<to_hot, from_hot, refusals, permit>>
store == <<image, tip, floor, ended>>
thread == <<hot, job, left, height, last_block, halts>>
vars == <<reth, future, rings, stop, thread, store>>
-----------------------------------------------------------------------------
(* What is in the store: for each block, whose logs were folded, whether   *)
(* all of them were, and whether chain reads were added to it.             *)
Entry == [hash : Hash, whole : BOOLEAN, read : BOOLEAN]
Image == Seq(Entry)
BlockNum == 0 .. MaxChain

Store == INSTANCE VersionedStore WITH Depth <- UNDO_DEPTH, Block <- BlockNum

Folded == [i \in 1 .. Len(image) |-> image[i].hash]
Whole == \A i \in 1 .. Len(image) : image[i].whole

(* Notification: `first` is the first reverted block, 0 for Committed;     *)
(* `new`, empty for Reverted, are the new blocks, numbered from `at`.      *)
Span == UNION {[1 .. n -> Hash] : n \in 0 .. MaxSpan}
Notification == [first : BlockNum, at : BlockNum \cup {MaxChain + 1}, new : Span]
NoNote == [first |-> 0, at |-> 0, new |-> <<>>]

NumHash == [number : BlockNum, hash : Hash]
NoTip == [number |-> 0, hash |-> Genesis]
HasTip(n) == n.new # <<>>
committed_tip(n) == [number |-> n.at + Len(n.new) - 1, hash |-> n.new[Len(n.new)]]
-----------------------------------------------------------------------------
Init ==
    /\ canon = <<Genesis>> /\ notes = 0
    /\ exex = "idle" /\ note = NoNote /\ done = NoTip /\ finished = NoTip /\ lease = FALSE
    /\ to_hot = <<>> /\ from_hot = <<>> /\ refusals = 0 /\ permit = FALSE
    /\ stop = FALSE
    /\ hot = "spin" /\ job = NoNote /\ left = <<>>
    /\ image = <<[hash |-> Genesis, whole |-> TRUE, read |-> FALSE]>>
    /\ tip = 1 /\ floor = 1 /\ ended = [b \in BlockNum |-> image]
    /\ height = NoTip /\ last_block = 0 /\ halts = {}
-----------------------------------------------------------------------------
(* The ExEx future. *)

(* try_next: Reth commits, reverts or reorganises; the future converts the *)
(* notification to an owned one.                                           *)
NextNotification ==
    /\ exex = "idle"
    /\ notes < MaxNotes
    /\ \E first \in {0} \cup (1 .. Len(canon)), new \in Span :
          LET kept == IF first = 0 THEN Len(canon) ELSE first - 1 IN
          /\ first # 0 \/ new # <<>>
          /\ kept + Len(new) <= MaxChain
          /\ canon' = SubSeq(canon, 1, kept) \o new
          /\ note' = [first |-> first, at |-> kept + 1, new |-> new]
    /\ notes' = notes + 1
    /\ exex' = "push"
    /\ UNCHANGED <<done, finished, lease, rings, stop, thread, store>>

(* Mutant: a commit is not waited for. *)
PushOwned_no_wait ==
    /\ exex = "push"
    /\ IF Len(to_hot) < NOTIF_CAP
         THEN to_hot' = Append(to_hot, note) /\ exex' = "idle"
         ELSE exex' = "push_gone" /\ UNCHANGED to_hot
    /\ UNCHANGED <<reth, note, done, finished, lease, from_hot, refusals, permit, stop, thread, store>>

(* push_owned: push when the ring has room; else look whether the hot      *)
(* thread is gone; else wait for its wake.                                 *)
PushOwned ==
    /\ exex = "push"
    /\ IF Len(to_hot) < NOTIF_CAP
         THEN /\ to_hot' = Append(to_hot, note)
              /\ exex' = IF HasTip(note) THEN "wait" ELSE "idle"
         ELSE /\ exex' = "push_gone"
              /\ UNCHANGED to_hot
    /\ UNCHANGED <<reth, note, done, finished, lease, from_hot, refusals, permit, stop, thread, store>>

(* wait_consistent, a check at a time: the confirmation ring, the refusal  *)
(* ring, whether the thread is gone, then the wait.                        *)
TakeFinished ==
    /\ exex = "wait"
    /\ IF from_hot # <<>>
         THEN /\ done' = Head(from_hot)
              /\ from_hot' = Tail(from_hot)
              /\ exex' = "finish"
         ELSE /\ exex' = "wait_refused"
              /\ UNCHANGED <<done, from_hot>>
    /\ UNCHANGED <<reth, note, finished, lease, to_hot, refusals, permit, stop, thread, store>>

TakeRefused ==
    /\ exex = "wait_refused"
    /\ IF refusals > 0
         THEN /\ refusals' = refusals - 1
              /\ exex' = "failed"
         ELSE /\ exex' = "wait_gone"
              /\ UNCHANGED refusals
    /\ UNCHANGED <<reth, note, done, finished, lease, to_hot, from_hot, permit, stop, thread, store>>

(* HotHandle::is_finished, in either loop. *)
IsFinished ==
    /\ exex \in {"push_gone", "wait_gone"}
    /\ exex' = IF hot = "exited" THEN "failed"
               ELSE IF exex = "push_gone" THEN "push_await" ELSE "wait_await"
    /\ UNCHANGED <<reth, note, done, finished, lease, rings, stop, thread, store>>

(* notified.await *)
Notified ==
    /\ exex \in {"push_await", "wait_await"}
    /\ permit
    /\ permit' = FALSE
    /\ exex' = IF exex = "push_await" THEN "push" ELSE "wait"
    /\ UNCHANGED <<reth, note, done, finished, lease, to_hot, from_hot, refusals, stop, thread, store>>

(* The confirmation must be the notification's own tip.  FinishedHeight is *)
(* sent, or the event channel is closed and the future stops the thread and*)
(* parks.  The lease is granted once the node's head, when the RPC answers,*)
(* is not above the block.                                                 *)
SendFinishedHeight ==
    /\ exex = "finish"
    /\ IF done # committed_tip(note)
         THEN /\ exex' = "failed"
              /\ UNCHANGED <<finished, lease, stop>>
         ELSE \/ /\ exex' = "idle"
                 /\ finished' = done
                 /\ \E answered \in BOOLEAN, node_head \in {Len(canon), Len(canon) + 1} :
                       lease' = (lease \/ (answered /\ done.number >= node_head))
                 /\ UNCHANGED stop
              \/ /\ exex' = "parked"
                 /\ stop' = TRUE
                 /\ UNCHANGED <<finished, lease>>
    /\ UNCHANGED <<reth, note, done, rings, thread, store>>

(* The stream ended: ask the hot thread to stop, and park. *)
StreamEnded ==
    /\ exex = "idle"
    /\ stop' = TRUE
    /\ exex' = "parked"
    /\ UNCHANGED <<reth, note, done, finished, lease, rings, thread, store>>
-----------------------------------------------------------------------------
(* The hot thread: one turn of its loop is spin, drain*, amend. *)

Spin ==
    /\ hot = "spin"
    /\ hot' = IF stop THEN "exited" ELSE "drain"
    /\ UNCHANGED <<reth, future, rings, stop, job, left, height, last_block, halts, store>>

(* drain's loop takes the next notification, or is done. *)
Pop ==
    /\ hot = "drain"
    /\ IF to_hot = <<>>
         THEN /\ hot' = "amend"
              /\ UNCHANGED <<to_hot, job, left>>
         ELSE /\ job' = Head(to_hot)
              /\ to_hot' = Tail(to_hot)
              /\ left' = Head(to_hot).new
              /\ hot' = IF Head(to_hot).first = 0 THEN "chain" ELSE "revert"
    /\ UNCHANGED <<reth, future, from_hot, refusals, permit, stop, height, last_block, halts, store>>

(* Mutants: a failed unwind is taken for done; it ends the thread without a *)
(* halt.                                                                   *)
Revert_swallowed ==
    /\ hot = "revert"
    /\ IF job.first - 1 \in floor .. tip THEN Store!Unwind(job.first - 1) ELSE UNCHANGED store
    /\ hot' = IF HasTip(job) THEN "chain" ELSE "reverted"
    /\ UNCHANGED <<reth, future, rings, stop, job, left, height, last_block, halts>>

Revert_no_halt ==
    /\ hot = "revert"
    /\ IF job.first - 1 \in floor .. tip
         THEN /\ hot' = IF HasTip(job) THEN "chain" ELSE "reverted"
              /\ Store!Unwind(job.first - 1)
         ELSE hot' = "returning" /\ UNCHANGED store
    /\ UNCHANGED <<reth, future, rings, stop, job, left, height, last_block, halts>>

(* revert: unwind to the parent of the first reverted block, or halt. *)
Revert ==
    /\ hot = "revert"
    /\ IF job.first - 1 \in floor .. tip
         THEN /\ hot' = IF HasTip(job) THEN "chain" ELSE "reverted"
              /\ Store!Unwind(job.first - 1)
              /\ UNCHANGED halts
         ELSE /\ hot' = "err"
              /\ halts' = halts \cup {"Global"}
              /\ UNCHANGED store
    /\ UNCHANGED <<reth, future, rings, stop, job, left, height, last_block>>

(* apply_chain: open the next block, refusing one that does not follow the *)
(* tip; after the last, the store's tip must have the chain's number.      *)
NextNumber == job.at + Len(job.new) - Len(left)

ApplyChain ==
    /\ hot = "chain"
    /\ IF left = <<>>
         THEN /\ IF committed_tip(job).number = tip
                   THEN hot' = "publish" /\ UNCHANGED halts
                   ELSE hot' = "err" /\ halts' = halts \cup {"Global"}
              /\ UNCHANGED store
         ELSE IF NextNumber = tip + 1
         THEN /\ Store!Begin
              /\ hot' = "fold"
              /\ UNCHANGED halts
         ELSE /\ hot' = "refuse"
              /\ halts' = halts \cup {"Protocols"}
              /\ UNCHANGED store
    /\ UNCHANGED <<reth, future, rings, stop, job, left, height, last_block>>

(* apply_block's first log: the block is now partly in the store. *)
FoldLog ==
    /\ hot = "fold"
    /\ image' = Append(image, [hash |-> Head(left), whole |-> FALSE, read |-> FALSE])
    /\ Store!Write
    /\ hot' = "logs"
    /\ UNCHANGED <<reth, future, rings, stop, job, left, height, last_block, halts>>

(* ... and its last. *)
FoldRest ==
    /\ hot = "logs"
    /\ image' = [image EXCEPT ![Len(image)].whole = TRUE]
    /\ Store!Write
    /\ left' = Tail(left)
    /\ hot' = "chain"
    /\ UNCHANGED <<reth, future, rings, stop, job, height, last_block, halts>>

(* Mutants: the partial block stays; the failure is reported as success.   *)
Contained_no_unwind ==
    /\ hot \in {"fold", "logs"}
    /\ halts' = halts \cup {"Protocols"}
    /\ hot' = "refuse"
    /\ UNCHANGED <<reth, future, rings, stop, job, left, height, last_block, store>>

Contained_as_done ==
    /\ hot \in {"fold", "logs"}
    /\ Store!Unwind(tip - 1)
    /\ halts' = halts \cup {"Protocols"}
    /\ hot' = "publish"
    /\ UNCHANGED <<reth, future, rings, stop, job, left, height, last_block>>

(* A panic or an Err inside apply_block: recover_partial unwinds the open  *)
(* block and halts the protocols; the chain is refused.                    *)
Contained ==
    /\ hot \in {"fold", "logs"}
    /\ Store!Unwind(tip - 1)
    /\ halts' = halts \cup {"Protocols"}
    /\ hot' = "refuse"
    /\ UNCHANGED <<reth, future, rings, stop, job, left, height, last_block>>

(* drain, Ok(Some(done)): publish, then confirm.  A full ring halts and    *)
(* ends the thread.                                                        *)
Publish ==
    /\ hot = "publish"
    /\ height' = committed_tip(job)
    /\ hot' = "confirm"
    /\ UNCHANGED <<reth, future, rings, stop, job, left, last_block, halts, store>>

Confirm ==
    /\ hot = "confirm"
    /\ IF Len(from_hot) < NOTIF_CAP
         THEN /\ from_hot' = Append(from_hot, height)
              /\ hot' = "confirmed"
              /\ UNCHANGED halts
         ELSE /\ halts' = halts \cup {"Global"}
              /\ hot' = "returning"
              /\ UNCHANGED from_hot
    /\ UNCHANGED <<reth, future, to_hot, refusals, permit, stop, job, left, height, last_block, store>>

(* drain, Ok(None) of a commit: refuse. *)
Refuse ==
    /\ hot = "refuse"
    /\ IF refusals < NOTIF_CAP
         THEN /\ refusals' = refusals + 1
              /\ hot' = "refused"
              /\ UNCHANGED halts
         ELSE /\ halts' = halts \cup {"Global"}
              /\ hot' = "returning"
              /\ UNCHANGED refusals
    /\ UNCHANGED <<reth, future, to_hot, from_hot, permit, stop, job, left, height, last_block, store>>

(* Mutant: a confirmation is pushed without a wake. *)
Wake_not_on_confirm ==
    /\ hot \in {"confirmed", "refused", "reverted", "err"}
    /\ permit' = (permit \/ hot # "confirmed")
    /\ hot' = CASE hot = "confirmed" -> "hook"
                [] hot = "err"       -> "returning"
                [] OTHER             -> "amend"
    /\ halts' = IF hot = "err" THEN halts \cup {"Global"} ELSE halts
    /\ UNCHANGED <<reth, future, to_hot, from_hot, refusals, stop, job, left, height, last_block, store>>

(* notify_one: after a confirmation (the hook is next), a refusal or a     *)
(* revert (drain ends), or an error (the thread returns).                  *)
Wake ==
    /\ hot \in {"confirmed", "refused", "reverted", "err"}
    /\ permit' = TRUE
    /\ hot' = CASE hot = "confirmed" -> "hook"
                [] hot = "err"       -> "returning"
                [] OTHER             -> "amend"
    /\ halts' = IF hot = "err" THEN halts \cup {"Global"} ELSE halts
    /\ UNCHANGED <<reth, future, to_hot, from_hot, refusals, stop, job, left, height, last_block, store>>

(* AfterBlock::after_block; drain goes on. *)
AfterBlock ==
    /\ hot = "hook"
    /\ last_block' = tip
    /\ hot' = "drain"
    /\ UNCHANGED <<reth, future, rings, stop, job, left, height, halts, store>>

(* AfterBlock::amend: a batch of chain reads made for the block the hook   *)
(* saw is folded while that block is the tip, or there is none to fold.    *)
Amend ==
    /\ hot = "amend"
    /\ \/ /\ last_block = tip
          /\ image' = [image EXCEPT ![Len(image)].read = TRUE]
          /\ Store!Write
       \/ UNCHANGED store
    /\ hot' = "spin"
    /\ UNCHANGED <<reth, future, rings, stop, job, left, height, last_block, halts>>

(* The thread's closure has returned: is_finished becomes true. *)
Exit ==
    /\ hot = "returning"
    /\ hot' = "exited"
    /\ UNCHANGED <<reth, future, rings, stop, job, left, height, last_block, halts, store>>
-----------------------------------------------------------------------------
Future == PushOwned \/ TakeFinished \/ TakeRefused \/ IsFinished \/ Notified \/ SendFinishedHeight
Thread == \/ Spin \/ Pop \/ Revert \/ ApplyChain \/ FoldLog \/ FoldRest \/ Contained
          \/ Publish \/ Confirm \/ Refuse \/ Wake \/ AfterBlock \/ Amend \/ Exit
Next == NextNotification \/ StreamEnded \/ Future \/ Thread

Spec == Init /\ [][Next]_vars

(* The thread spins on its own core and the executor polls a woken future: *)
(* both keep taking steps.  Nothing makes Reth send, or the stream end.    *)
FairSpec == Spec /\ WF_vars(Future) /\ WF_vars(Thread)
-----------------------------------------------------------------------------
(* liq-node/reorg.rs "never folds the next block onto corrupt state": only *)
(* the open block can be partly in the store, and only while the hot thread*)
(* is inside apply_block; a contained panic leaves no trace of it.         *)
NeverOnPartial ==
    /\ \A i \in 1 .. Len(image) : ~image[i].whole => i = Len(image) /\ hot = "logs"
    /\ hot # "fold" => Len(image) = tip

(* FinishedHeight follows store consistency (liq-reth/forward.rs): when the*)
(* future holds a confirmation, the store is exactly Reth's chain, whole.  *)
FinishedIsFolded ==
    exex = "finish" => Whole /\ Folded = canon /\ done = committed_tip(note)

(* The after_block hook feeds the engine from the store with the confirmed *)
(* number and hash: when it runs, they are the store's whole tip block.    *)
HookSeesChain ==
    hot = "hook" => Whole /\ height = [number |-> tip, hash |-> image[tip].hash]

(* The store never drifts from Reth's chain unnoticed.  Whenever no        *)
(* notification is on its way and the future has not failed, the store is  *)
(* Reth's chain or all trading is halted.                                  *)
NoSilentDivergence ==
    (exex = "idle" /\ to_hot = <<>> /\ hot \in {"spin", "amend", "exited", "returning"})
        => Folded = canon \/ "Global" \in halts

(* A hot thread that returns without having been asked to has halted all   *)
(* trading first, so a lease it leaves behind sends nothing.               *)
ExitHalts ==
    hot \in {"returning", "exited"} /\ ~stop => "Global" \in halts

(* HotIngress::confirm and refuse "ring full" paths: with at most one      *)
(* commit unanswered, an answer always finds room.                         *)
OneAnswerPending ==
    Len(from_hot) + refusals
        + (IF hot \in {"confirm", "refuse"} THEN 1 ELSE 0) <= 1

(* Reth is told "finished" only of a chain the store holds whole: no block  *)
(* is confirmed over a partial fold, and no answer is taken for another's  *)
(* (reorg.rs apply_contained, forward.rs wait_consistent).                 *)
AnswersExact == NeverOnPartial /\ FinishedIsFolded /\ OneAnswerPending

(* A store that cannot follow Reth's chain stops trading, whether the hot  *)
(* thread goes on or returns (reorg.rs revert, hot.rs drain).              *)
DivergenceStops == NoSilentDivergence /\ ExitHalts

Waiting == exex \in {"push", "push_gone", "push_await", "wait", "wait_refused",
                     "wait_gone", "wait_await"}

(* A wait for the hot thread ends, or the thread has returned. *)
WaitEndsOrExited == Waiting ~> (~Waiting \/ hot = "exited")

(* liq-node/hot.rs HotHandle::is_finished: "The ExEx must not wait for a   *)
(* confirmation that will never arrive."                                   *)
NeverWaitsForever == Waiting ~> ~Waiting
=============================================================================
