--------------------------- MODULE ExecPathProofs ---------------------------
(***************************************************************************)
(* PostedFromFullSync for every number of keys, every inbox capacity, and  *)
(* every history of blocks, reorganisations, failed reads, denials and     *)
(* governance bundles.                                                     *)
(*                                                                         *)
(* The property speaks of the moment before signing.  What carries it from *)
(* one job to the next is Agree: outside a resync, a true nonce_resync     *)
(* vouches for the allocator.  A resync that starts breaks Agree's         *)
(* conclusion slot by slot; it ends by restoring it or by clearing the     *)
(* bit.  Shape gives the arithmetic its types: nonces come from the chain, *)
(* whose nonces grow by the number of landed transactions, so the sets of  *)
(* transactions must be finite.                                            *)
(***************************************************************************)
EXTENDS ExecPath, FunctionTheorems, FiniteSetTheorems, TLAPS

NonceOf == [Slot -> Nat]
JobRec == [kind : {"job"}, trace : Nat, target : Nat \ {0}, slot : Slot, max : Nat]
GovRec == [kind : {"gov"}, trace : Nat, target : Nat \ {0}, slot : {OPERATOR_SLOT}, max : Nat,
           txs : Nat]

Shape ==
    /\ chain \in Seq(NonceOf) /\ Len(chain) > 0
    /\ traces \in Nat
    /\ inbox \in Seq(JobRec) /\ gov_inbox \in Seq(GovRec)
    /\ pc # "recv" => job \in JobRec \cup GovRec
    /\ pc = "simulate" => job \in GovRec
    /\ slot \in Slot
    /\ next \in NonceOf /\ base \in NonceOf /\ taken \in NonceOf
    /\ IsFiniteSet(bundles) /\ IsFiniteSet(sent)

Agree == nonce_resync /\ pc # "read" => \A s \in Slot : next[s] = base[s] + taken[s]
OwnTarget == pc = "ready" => nonce_synced_for = job.target

IInv == Shape /\ Agree /\ OwnTarget

LEMMA InitShape == Init => IInv
<1> SUFFICES ASSUME Init PROVE IInv
  OBVIOUS
<1>1. IsFiniteSet(bundles) /\ IsFiniteSet(sent)
  BY FS_EmptySet DEF Init
<1>2. 0 \in Slot /\ [s \in Slot |-> 0] \in NonceOf
  BY ExecAssumption DEF Slot, NonceOf
<1>3. chain \in Seq(NonceOf) /\ Len(chain) > 0
  BY <1>2 DEF Init
<1> QED
  BY <1>1, <1>2, <1>3 DEF Init, IInv, Shape, Agree, OwnTarget

(* The chain's next nonces are naturals. *)
LEMMA BlockNonces ==
    ASSUME Shape, NewBlock
    PROVE  chain' \in Seq(NonceOf) /\ Len(chain') > 0
<1> DEFINE tip == chain[Len(chain)]
<1>1. tip \in NonceOf
  BY DEF Shape
<1>2. PICK txs \in SUBSET {t \in bundles : Len(chain) + 1 \in t.target .. t.max} :
        chain' = Append(chain, [s \in Slot |-> tip[s] + Cardinality({t \in txs : t.slot = s})])
  BY ZenonT(240), SMTT(120) DEF NewBlock
<1>3. ASSUME NEW s \in Slot PROVE Cardinality({t \in txs : t.slot = s}) \in Nat
  <2>1. {t \in txs : t.slot = s} \in SUBSET bundles
    OBVIOUS
  <2>2. IsFiniteSet({t \in txs : t.slot = s})
    BY <2>1, FS_Subset DEF Shape
  <2> QED
    BY <2>2, FS_CardinalityType
<1>4. [s \in Slot |-> tip[s] + Cardinality({t \in txs : t.slot = s})] \in NonceOf
  BY <1>1, <1>3 DEF NonceOf
<1> HIDE DEF tip
<1> QED
  BY <1>2, <1>4 DEF Shape

LEMMA EnvStep ==
    ASSUME IInv, NewBlock \/ Reorg \/ SetLive \/ (\E svr \in BOOLEAN : finish_job(svr))
                 \/ (\E n \in 1 .. MaxGovTxs : handle_gov(n))
    PROVE  IInv'
<1>1. CASE NewBlock
  BY ZenonT(240), SMTT(120), <1>1, BlockNonces DEF NewBlock, IInv, Shape, Agree, OwnTarget, hot, nonces, sync, out
<1>2. CASE Reorg
  <2>1. chain' \in Seq(NonceOf) /\ Len(chain') > 0
    BY <1>2 DEF Reorg, IInv, Shape
  <2> QED
    BY <1>2, <2>1 DEF Reorg, IInv, Shape, Agree, OwnTarget, hot, nonces, sync, out
<1>3. CASE SetLive
  BY <1>3 DEF SetLive, IInv, Shape, Agree, OwnTarget, hot, nonces, sync, out
<1>4. ASSUME NEW svr \in BOOLEAN, finish_job(svr) PROVE IInv'
  <2>1. inbox' \in Seq(JobRec) /\ traces' \in Nat
    <3> DEFINE j == [kind |-> "job", trace |-> traces + 1, target |-> Len(chain) + 1,
                     slot |-> IF svr THEN BACKRUN_SLOT ELSE OPERATOR_SLOT,
                     max |-> IF svr THEN Len(chain) + 1 + MEVSHARE_SPAN ELSE Len(chain) + 1]
    <3>1. BACKRUN_SLOT \in Slot /\ OPERATOR_SLOT \in Slot
      BY ExecAssumption DEF BACKRUN_SLOT, OPERATOR_SLOT, Slot
    <3>2. Len(chain) \in Nat /\ traces \in Nat /\ inbox \in Seq(JobRec)
      BY DEF IInv, Shape
    <3>3. j \in JobRec
      BY <3>1, <3>2 DEF JobRec, MEVSHARE_SPAN
    <3>4. inbox' = try_send(inbox, j) /\ traces' = traces + 1
      BY <1>4 DEF finish_job
    <3> HIDE DEF j
    <3> QED
      BY <3>2, <3>3, <3>4 DEF try_send
  <2> QED
    BY <1>4, <2>1 DEF finish_job, IInv, Shape, Agree, OwnTarget, nonces, sync, out
<1>5. ASSUME NEW n \in 1 .. MaxGovTxs, handle_gov(n) PROVE IInv'
  <2>1. gov_inbox' \in Seq(GovRec) /\ traces' \in Nat
    <3> DEFINE j == [kind |-> "gov", trace |-> traces + 1, target |-> Len(chain) + 1,
                     slot |-> OPERATOR_SLOT, max |-> Len(chain) + 1, txs |-> n]
    <3>1. n \in Nat /\ Len(chain) \in Nat /\ traces \in Nat /\ gov_inbox \in Seq(GovRec)
      BY ExecAssumption DEF IInv, Shape
    <3>2. j \in GovRec
      BY <3>1 DEF GovRec
    <3>3. gov_inbox' = try_send(gov_inbox, j) /\ traces' = traces + n
      BY <1>5 DEF handle_gov
    <3> HIDE DEF j
    <3> QED
      BY <3>1, <3>2, <3>3 DEF try_send
  <2> QED
    BY <1>5, <2>1 DEF handle_gov, IInv, Shape, Agree, OwnTarget, nonces, sync, out
<1> QED
  BY <1>1, <1>2, <1>3, <1>4, <1>5

(* Taking a job: sync_nonce either returns at once, for its own target, or *)
(* starts to read.                                                         *)
LEMMA TakeStep ==
    ASSUME IInv, RecvJob \/ RecvGov \/ Simulate
    PROVE  IInv'
<1>1. 0 \in Slot
  BY SMTT(240), ZenonT(120), ExecAssumption DEF Slot
<1>2. CASE RecvJob
  <2>1. Head(inbox) \in JobRec /\ Tail(inbox) \in Seq(JobRec)
    BY <1>2 DEF RecvJob, IInv, Shape
  <2>2. job' \in JobRec /\ pc' \in {"ready", "read"} /\ slot' \in Slot
        /\ inbox' \in Seq(JobRec)
    BY <1>1, <1>2, <2>1 DEF RecvJob, sync_nonce
  <2>3. OwnTarget'
    BY <1>2 DEF RecvJob, sync_nonce, OwnTarget, sync
  <2>4. Agree'
    BY <1>2 DEF RecvJob, sync_nonce, IInv, Agree, sync, nonces, out
  <2> QED
    BY SMTT(240), ZenonT(120), <1>2, <2>2, <2>3, <2>4 DEF RecvJob, IInv, Shape, nonces, sync, out
<1>3. CASE RecvGov
  <2>1. Head(gov_inbox) \in GovRec /\ Tail(gov_inbox) \in Seq(GovRec)
    BY <1>3 DEF RecvGov, IInv, Shape
  <2>2. job' \in GovRec /\ pc' = "simulate" /\ gov_inbox' \in Seq(GovRec)
    BY <1>3, <2>1 DEF RecvGov
  <2> QED
    BY <1>3, <2>2 DEF RecvGov, IInv, Shape, Agree, OwnTarget, nonces, sync, out
<1>4. CASE Simulate
  <2>1. job \in GovRec
    BY <1>4 DEF Simulate, IInv, Shape
  <2>2. CASE Done /\ UNCHANGED slot
    BY <1>4, <2>2 DEF Simulate, Done, IInv, Shape, Agree, OwnTarget, hot, nonces, sync, out
  <2>3. ASSUME NEW k \in 1 .. job.txs, job' = [job EXCEPT !.txs = k], sync_nonce(job.target)
        PROVE  IInv'
    <3>1. job' \in GovRec /\ job'.target = job.target
      BY <2>1, <2>3 DEF GovRec
    <3>2. OwnTarget'
      BY <1>4, <2>3, <3>1 DEF Simulate, sync_nonce, OwnTarget, sync
    <3>3. Agree'
      BY <1>4, <2>3 DEF Simulate, sync_nonce, IInv, Agree, sync, nonces, out
    <3> QED
      BY <1>1, <1>4, <2>3, <3>1, <3>2, <3>3
         DEF Simulate, sync_nonce, IInv, Shape, hot, nonces, sync, out
  <2> QED
    BY <1>4, <2>2, <2>3 DEF Simulate
<1> QED
  BY <1>2, <1>3, <1>4

(* A resync: it ends with the bit true and base taken from the allocator,  *)
(* or with the bit false.                                                  *)
LEMMA SyncStep ==
    ASSUME IInv, ReadNonce \/ ReadFailed
    PROVE  IInv'
<1>1. CASE ReadNonce
  <2>1. chain[job.target - 1] \in NonceOf /\ slot \in Slot
    BY <1>1 DEF ReadNonce, IInv, Shape
  <2>2. chain[job.target - 1][slot] \in Nat
    BY SMTT(240), ZenonT(120), <2>1 DEF NonceOf
  <2>3. next' \in NonceOf
    BY SMTT(240), ZenonT(120), <1>1, <2>2 DEF ReadNonce, set_next, IInv, Shape, NonceOf
  <2>4. CASE slot < BACKRUN_SLOT
    <3>1. slot' \in Slot /\ UNCHANGED <<pc, sync, taken>>
      BY SMTT(240), ZenonT(120), <1>1, <2>1, <2>4, ExecAssumption DEF ReadNonce, Slot, BACKRUN_SLOT
    <3> QED
      BY SMTT(240), ZenonT(120), <1>1, <2>3, <3>1 DEF ReadNonce, IInv, Shape, Agree, OwnTarget, hot, sync, out
  <2>5. CASE ~(slot < BACKRUN_SLOT)
    <3>1. /\ pc' = "ready" /\ nonce_synced_for' = job.target /\ UNCHANGED <<slot, job>>
          /\ base' = next' /\ taken' = [s \in Slot |-> 0]
      BY <1>1, <2>5 DEF ReadNonce
    <3>2. taken' \in NonceOf
      BY <3>1 DEF NonceOf
    <3>3. \A s \in Slot : next'[s] = base'[s] + taken'[s]
      BY SMTT(240), ZenonT(120), <2>3, <3>1 DEF NonceOf
    <3> QED
      BY SMTT(240), ZenonT(120), <1>1, <2>3, <3>1, <3>2, <3>3 DEF ReadNonce, IInv, Shape, Agree, OwnTarget, hot
  <2> QED
    BY <2>4, <2>5
<1>2. CASE ReadFailed
  BY <1>2 DEF ReadFailed, Done, IInv, Shape, Agree, OwnTarget, hot, nonces, out
<1> QED
  BY <1>1, <1>2

(* A job is signed: the allocator and taken move together. *)
LEMMA AllocateStep ==
    ASSUME IInv, pc = "ready", NEW s \in Slot, NEW n \in Nat,
           next' = [next EXCEPT ![s] = @ + n], taken' = [taken EXCEPT ![s] = @ + n],
           UNCHANGED <<base, nonce_resync>>
    PROVE  Agree' /\ next' \in NonceOf /\ taken' \in NonceOf
<1>1. next' \in NonceOf /\ taken' \in NonceOf
  <2>1. next[s] + n \in Nat /\ taken[s] + n \in Nat
    BY SMTT(240), ZenonT(120) DEF IInv, Shape, NonceOf
  <2>2. next \in [Slot -> Nat] /\ taken \in [Slot -> Nat]
    BY SMTT(240), ZenonT(120) DEF IInv, Shape, NonceOf
  <2> QED
    BY <2>1, <2>2 DEF NonceOf
<1>2. ASSUME nonce_resync, NEW u \in Slot PROVE next'[u] = base'[u] + taken'[u]
  BY SMTT(240), ZenonT(120), <1>2 DEF IInv, Shape, Agree, NonceOf
<1> QED
  BY <1>1, <1>2 DEF Agree

LEMMA JobStep ==
    ASSUME IInv, Refused \/ Dropped \/ Gated
    PROVE  IInv'
<1>1. CASE Refused
  BY SMTT(240), ZenonT(120), <1>1 DEF Refused, Done, IInv, Shape, Agree, OwnTarget, hot, nonces, sync, out
<1>2. ASSUME Dropped \/ Gated PROVE IInv'
  <2>1. job \in JobRec
    BY ZenonT(240), SMTT(120), <1>2 DEF Dropped, Gated, IInv, Shape, GovRec
  <2>2. job.slot \in Slot
    BY <2>1 DEF JobRec
  <2>3. Agree' /\ next' \in NonceOf /\ taken' \in NonceOf
    BY ZenonT(240), SMTT(120), <1>2, <2>2, AllocateStep DEF Dropped, Gated, allocate, sync
  <2>4. IsFiniteSet(sent')
    <3> DEFINE tx == Tx(job.slot, next[job.slot], job.trace)
    <3>1. sent' = sent \/ sent' = sent \cup {tx}
      BY ZenonT(240), SMTT(120), <1>2 DEF Dropped, Gated
    <3> HIDE DEF tx
    <3>2. IsFiniteSet(sent)
      BY DEF IInv, Shape
    <3>3. IsFiniteSet(sent \cup {tx})
      BY <3>2, FS_AddElement
    <3> QED
      BY <3>1, <3>2, <3>3
  <2> QED
    BY ZenonT(240), SMTT(120), <1>2, <2>3, <2>4 DEF Dropped, Gated, Done, IInv, Shape, OwnTarget, hot, sync
<1> QED
  BY <1>1, <1>2

LEMMA GovStep ==
    ASSUME IInv,
           GovRefused \/ SendReverting \/ (\E n \in 1 .. MaxGovTxs : n <= job.txs /\ SubmitGov(n))
    PROVE  IInv'
<1>1. CASE GovRefused
  BY SMTT(240), ZenonT(120), <1>1 DEF GovRefused, Done, IInv, Shape, Agree, OwnTarget, hot, nonces, sync, out
<1>2. CASE SendReverting
  <2> DEFINE mine == {t \in sent : t.trace \in job.trace .. job.trace + job.txs - 1}
  <2>1. mine \in SUBSET sent
    OBVIOUS
  <2>2. IsFiniteSet(mine)
    BY <2>1, FS_Subset DEF IInv, Shape
  <2>3. bundles' = bundles \/ bundles' = bundles \cup mine
    BY <1>2 DEF SendReverting
  <2> HIDE DEF mine
  <2>4. IsFiniteSet(bundles')
    BY ZenonT(240), SMTT(120), <2>2, <2>3, FS_Union DEF IInv, Shape
  <2> QED
    BY <1>2, <2>4 DEF SendReverting, Done, IInv, Shape, Agree, OwnTarget, hot, nonces, sync
<1>3. ASSUME NEW n \in 1 .. MaxGovTxs, SubmitGov(n) PROVE IInv'
  <2>1. n \in Nat /\ OPERATOR_SLOT \in Slot /\ job \in GovRec
    <3>1. n \in Nat /\ OPERATOR_SLOT \in Slot
      BY ExecAssumption DEF OPERATOR_SLOT, Slot
    <3>2. pc = "ready" /\ job.kind = "gov"
      BY <1>3 DEF SubmitGov
    <3>3. job \in JobRec \cup GovRec
      BY <3>2 DEF IInv, Shape
    <3> QED
      BY <3>1, <3>2, <3>3 DEF JobRec
  <2>2. Agree' /\ next' \in NonceOf /\ taken' \in NonceOf
    BY ZenonT(240), SMTT(120), <1>3, <2>1, AllocateStep DEF SubmitGov, allocate_run, sync
  <2>3. IsFiniteSet(sent')
    <3> DEFINE f == [i \in 0 .. n - 1 |-> Tx(OPERATOR_SLOT, next[OPERATOR_SLOT] + i, job.trace + i)]
    <3>1. IsFiniteSet(0 .. n - 1)
      BY <2>1, FS_Interval
    <3>2. f \in Surjection(0 .. n - 1, GovTxs(n))
      BY DEF GovTxs, Surjection
    <3> HIDE DEF f
    <3>3. IsFiniteSet(GovTxs(n))
      BY <3>1, <3>2, FS_Surjection
    <3>4. sent' = sent \/ sent' = sent \cup GovTxs(n)
      BY <1>3 DEF SubmitGov
    <3>5. IsFiniteSet(sent)
      BY DEF IInv, Shape
    <3>6. IsFiniteSet(sent \cup GovTxs(n))
      BY ZenonT(240), SMTT(120), <3>3, <3>5, FS_Union
    <3> QED
      BY <3>4, <3>5, <3>6
  <2>4. pc' # "recv" => job' \in GovRec /\ pc' = "post"
    BY SMTT(240), ZenonT(120), <1>3, <2>1 DEF SubmitGov, Done, GovRec
  <2> QED
    BY <1>3, <2>2, <2>3, <2>4 DEF SubmitGov, Done, IInv, Shape, OwnTarget, hot, sync
<1> QED
  BY SMTT(240), ZenonT(120), <1>1, <1>2, <1>3

LEMMA PostStep ==
    ASSUME IInv, NEW tx \in posting, VenueAck(tx) \/ SendFailed(tx)
    PROVE  IInv'
<1>1. IsFiniteSet(bundles')
  <2>1. bundles' = bundles \/ bundles' = bundles \cup {tx}
    BY DEF VenueAck, SendFailed
  <2>2. IsFiniteSet(bundles)
    BY DEF IInv, Shape
  <2>3. IsFiniteSet(bundles \cup {tx})
    BY <2>2, FS_AddElement
  <2> QED
    BY <2>1, <2>2, <2>3
<1> QED
  BY <1>1 DEF VenueAck, SendFailed, IInv, Shape, Agree, OwnTarget, hot, nonces, sync

(* The invariant is inductive: one lemma per group of actions.             *)
THEOREM SyncInvariance == Spec => []IInv
<1>1. IInv /\ [Next]_vars => IInv'
  <2> SUFFICES ASSUME IInv, [Next]_vars PROVE IInv'
    OBVIOUS
  <2>1. CASE UNCHANGED vars
    BY <2>1 DEF vars, IInv, Shape, Agree, OwnTarget, hot, nonces, sync, out
  <2>2. CASE Worker
    BY <2>2, TakeStep, SyncStep, JobStep, GovStep DEF Worker
  <2>3. CASE \E tx \in posting : VenueAck(tx) \/ SendFailed(tx)
    BY <2>3, PostStep
  <2> QED
    BY <2>1, <2>2, <2>3, EnvStep DEF Next
<1> QED
  BY <1>1, InitShape, PTL DEF Spec

(* Nothing is posted on the strength of a resync that failed half-way, for *)
(* any number of keys and any order of jobs (path.rs: sync_nonce).         *)
THEOREM FullSync == Spec => []PostedFromFullSync
<1>1. IInv => PostedFromFullSync
  BY DEF IInv, Agree, OwnTarget, PostedFromFullSync
<1> QED
  BY <1>1, SyncInvariance, PTL

-----------------------------------------------------------------------------
(* NonceInOrder.  It counts the transactions signed before one for the same *)
(* key and target; the count is the distance to the confirmed nonce because *)
(* those transactions hold every nonce in between, once each (Packed).      *)
(* What makes the next one fit is Standing: while the last resync is for    *)
(* the target in hand, the allocator is just above what was signed for that *)
(* target.  Ordered says why a resync that failed half-way, or one for an   *)
(* older target, can then no longer be what a job is signed with.           *)
Straight == reorgs = 0 /\ ~back

Known(t) == t - 1 \in 1 .. Len(chain)
Confirmed(u) == chain[u.target - 1][u.slot]

Signatures ==
    /\ reorgs \in Nat /\ latest \in Nat /\ nonce_synced_for \in Nat
    /\ \A u \in signed : u.slot \in Slot /\ u.nonce \in Nat /\ u.target \in Nat
    /\ sent \subseteq signed

Ordered ==
    /\ pc # "recv" => job.target = latest
    /\ pc = "read" => /\ nonce_synced_for # latest
                      /\ slot > 0 => Known(latest)
                      /\ \A s \in Slot : s < slot => next[s] = chain[latest - 1][s]
    /\ nonce_synced_for <= latest
    /\ nonce_synced_for # 0 => Known(nonce_synced_for)
    /\ \A u \in signed : u.target <= nonce_synced_for /\ Known(u.target)

Packed ==
    /\ \A u \in signed : Confirmed(u) <= u.nonce
    /\ \A u \in signed, n \in Nat : Confirmed(u) <= n /\ n < u.nonce =>
         \E v \in signed : SameBlock(u, v) /\ v.nonce = n
    /\ \A u, v \in signed : SameBlock(u, v) /\ u.nonce = v.nonce => u = v

Standing ==
    nonce_synced_for = latest /\ latest # 0 => \A s \in Slot :
        /\ chain[latest - 1][s] <= next[s]
        /\ \A u \in signed : u.slot = s /\ u.target = latest => u.nonce < next[s]
        /\ \A n \in Nat : chain[latest - 1][s] <= n /\ n < next[s] =>
             \E v \in signed : v.slot = s /\ v.target = latest /\ v.nonce = n

NInv == Signatures /\ (Straight => Ordered /\ Packed /\ Standing)

LEMMA ConfirmedIsNat ==
    ASSUME Shape, NEW t \in Nat, Known(t), NEW s \in Slot
    PROVE  chain[t - 1][s] \in Nat
<1>1. chain[t - 1] \in NonceOf
  BY DEF Shape, Known
<1> QED
  BY <1>1 DEF NonceOf

LEMMA InitNonces == Init => NInv
  BY ExecAssumption DEF Init, NInv, Signatures, Ordered, Packed, Standing

(* What neither takes a job, nor reads a nonce, nor signs: the chain may    *)
(* grow under the worker, and the worker may let go of its job.             *)
LEMMA FrameStep ==
    ASSUME NInv, Shape, Shape', UNCHANGED <<next, nonce_synced_for, latest, back, signed, sent>>,
           pc' = "recv" \/ UNCHANGED <<pc, job, slot>>, reorgs' \in Nat,
           reorgs' = 0 => /\ reorgs = 0 /\ Len(chain) <= Len(chain')
                          /\ \A b \in 1 .. Len(chain) : chain'[b] = chain[b]
    PROVE  NInv'
<1>1. Signatures'
  BY DEF NInv, Signatures
<1>2. SUFFICES ASSUME Straight' PROVE (Ordered /\ Packed /\ Standing)'
  BY <1>1 DEF NInv
<1>3. Straight /\ Ordered /\ Packed /\ Standing
  BY <1>2 DEF Straight, NInv
<1>4. \A t \in Nat : Known(t) => Known(t)' /\ chain'[t - 1] = chain[t - 1]
  BY <1>2 DEF Straight, Known, Shape
<1>5. \A u \in signed : Confirmed(u)' = Confirmed(u)
  BY <1>3, <1>4 DEF Ordered, Confirmed, NInv, Signatures
<1>6. Ordered'
  <2>1. slot \in Nat /\ \A s \in Slot : s \in Nat
    BY ExecAssumption DEF Slot, Shape
  <2>2. latest \in Nat /\ nonce_synced_for \in Nat /\ \A u \in signed : u.target \in Nat
    BY DEF NInv, Signatures
  <2>3. pc' # "recv" => UNCHANGED <<pc, job, slot>>
    OBVIOUS
  <2>4. pc' = "read" => /\ nonce_synced_for # latest
                        /\ slot > 0 => Known(latest)'
                        /\ \A s \in Slot : s < slot => next[s] = chain'[latest - 1][s]
    BY SMTT(60), ZenonT(60), <1>3, <1>4, <2>1, <2>2, <2>3 DEF Ordered
  <2>5. nonce_synced_for # 0 => Known(nonce_synced_for)'
    BY SMTT(60), ZenonT(60), <1>3, <1>4, <2>2 DEF Ordered
  <2>6. \A u \in signed : u.target <= nonce_synced_for /\ Known(u.target)'
    BY SMTT(60), ZenonT(60), <1>3, <1>4, <2>2 DEF Ordered
  <2> QED
    BY <1>3, <2>3, <2>4, <2>5, <2>6 DEF Ordered, Known
<1>7. Packed'
  BY SMTT(60), ZenonT(60), <1>3, <1>5 DEF Packed, SameBlock
<1>8. Standing'
  <2>1. nonce_synced_for = latest /\ latest # 0 => chain'[latest - 1] = chain[latest - 1]
    BY <1>3, <1>4 DEF Ordered, NInv, Signatures
  <2> QED
    BY <1>3, <2>1 DEF Standing
<1> QED
  BY <1>6, <1>7, <1>8

(* Taking a job that is not for an earlier target than the one before.      *)
LEMMA TakeNonces ==
    ASSUME NInv, Shape, Shape', pc = "recv", Take(job'.target), job'.target \in Nat \ {0},
           \/ pc' = "simulate"
           \/ slot' = 0 /\ pc' = (IF nonce_synced_for = job'.target THEN "ready" ELSE "read"),
           UNCHANGED <<chain, reorgs, next, nonce_synced_for, signed, sent>>
    PROVE  NInv'
<1>1. Signatures'
  BY DEF NInv, Signatures, Take
<1>2. SUFFICES ASSUME Straight' PROVE (Ordered /\ Packed /\ Standing)'
  BY <1>1 DEF NInv
<1>3. Straight /\ Ordered /\ Packed /\ Standing /\ latest' = job'.target /\ latest <= latest'
  <2>1. ~back /\ ~(job'.target < latest) /\ reorgs = 0
    BY Zenon, <1>2 DEF Straight, Take
  <2>2. Ordered /\ Packed /\ Standing
    BY Zenon, <2>1 DEF Straight, NInv
  <2>3. latest' = job'.target /\ latest <= latest'
    BY <2>1 DEF Take, NInv, Signatures
  <2> QED
    BY Zenon, <2>1, <2>2, <2>3 DEF Straight
<1>4. latest \in Nat /\ latest' \in Nat /\ nonce_synced_for \in Nat
  BY <1>1 DEF NInv, Signatures
<1>5. \A s \in Slot : s \in Nat
  BY ExecAssumption DEF Slot
<1>6. Ordered'
  BY <1>3, <1>4, <1>5 DEF Ordered, Known
<1>7. Packed'
  BY <1>3 DEF Packed, SameBlock, Confirmed
<1>8. Standing'
  BY <1>3, <1>4 DEF Standing, Ordered
<1> QED
  BY <1>6, <1>7, <1>8

(* A resync in progress, and one that completes: it is for a target nothing *)
(* was signed for yet.                                                      *)
LEMMA ReadNonces ==
    ASSUME NInv, IInv, IInv', ReadNonce
    PROVE  NInv'
<1>1. /\ job.target \in Nat \ {0} /\ latest \in Nat /\ nonce_synced_for \in Nat /\ slot \in Slot
      /\ pc = "read" /\ Known(job.target)
  BY SMTT(60), ZenonT(60) DEF ReadNonce, IInv, Shape, JobRec, GovRec, NInv, Signatures, Known
<1>2. UNCHANGED <<chain, reorgs, job, latest, back, signed, sent>>
  BY DEF ReadNonce, order
<1>3. nonce_synced_for' = nonce_synced_for \/ nonce_synced_for' = job.target
  BY DEF ReadNonce, sync
<1>4. Signatures'
  BY <1>1, <1>2, <1>3 DEF NInv, Signatures
<1>5. SUFFICES ASSUME Straight' PROVE (Ordered /\ Packed /\ Standing)'
  BY <1>4 DEF NInv
<1>6. Straight /\ Ordered /\ Packed /\ Standing
  BY <1>2, <1>5 DEF Straight, NInv
<1>7. job.target = latest /\ nonce_synced_for # latest /\ nonce_synced_for <= latest
  BY <1>1, <1>6 DEF Ordered
<1>8. next' = [next EXCEPT ![slot] = chain[latest - 1][slot]]
  BY <1>7 DEF ReadNonce, set_next
<1>9. \A s \in Slot : s < slot \/ s = slot => next'[s] = chain[latest - 1][s]
  BY ZenonT(60), SMTT(60), <1>1, <1>6, <1>8 DEF Ordered, IInv, Shape, NonceOf
<1>10. Packed'
  BY <1>2, <1>6 DEF Packed, SameBlock, Confirmed
<1>11. BACKRUN_SLOT \in Nat /\ \A s \in Slot : s \in Nat /\ s <= BACKRUN_SLOT
  BY ExecAssumption DEF Slot, BACKRUN_SLOT
<1>12. CASE slot < BACKRUN_SLOT
  <2>1. slot' = slot + 1 /\ UNCHANGED <<pc, nonce_synced_for>>
    BY <1>12 DEF ReadNonce, sync
  <2>2. \A s \in Slot : s < slot' => next'[s] = chain[latest - 1][s]
    BY SMTT(60), ZenonT(60), <1>1, <1>9, <1>11, <2>1
  <2>3. Ordered'
    BY SMTT(60), ZenonT(60), <1>1, <1>2, <1>6, <1>7, <2>1, <2>2 DEF Ordered, Known
  <2>4. Standing'
    BY SMTT(60), ZenonT(60), <1>2, <1>7, <2>1 DEF Standing
  <2> QED
    BY <1>10, <2>3, <2>4
<1>13. CASE ~(slot < BACKRUN_SLOT)
  <2>1. pc' = "ready" /\ nonce_synced_for' = latest
    BY <1>7, <1>13 DEF ReadNonce
  <2>2. \A s \in Slot : next'[s] = chain[latest - 1][s]
    BY SMTT(60), ZenonT(60), <1>1, <1>9, <1>11, <1>13
  <2>3. \A u \in signed : u.target <= latest /\ u.target # latest
    BY SMTT(60), ZenonT(60), <1>1, <1>6, <1>7 DEF Ordered, NInv, Signatures
  <2>4. Ordered'
    BY SMTT(60), ZenonT(60), <1>1, <1>2, <1>6, <1>7, <2>1, <2>3 DEF Ordered, Known
  <2>5. \A s \in Slot : chain[latest - 1][s] \in Nat
    BY SMTT(60), ZenonT(60), <1>1, <1>7, ConfirmedIsNat DEF IInv
  <2>6. Standing'
    BY SMTT(60), ZenonT(60), <1>2, <2>1, <2>2, <2>3, <2>5 DEF Standing
  <2> QED
    BY <1>10, <2>4, <2>6
<1> QED
  BY SMTT(60), ZenonT(60), <1>12, <1>13

(* Signing: the new transactions take the allocator's next n nonces, one   *)
(* each.                                                                   *)
LEMMA SignNonces ==
    ASSUME NInv, Shape, OwnTarget, pc = "ready",
           NEW s \in Slot, NEW n \in Nat \ {0}, NEW new,
           \A u \in new : /\ u.slot = s /\ u.target = job.target
                          /\ u.nonce \in next[s] .. next[s] + n - 1,
           \A m \in next[s] .. next[s] + n - 1 : \E u \in new : u.nonce = m,
           \A u, v \in new : u.nonce = v.nonce => u = v,
           signed' = signed \cup new, sent' \subseteq sent \cup new,
           next' = [next EXCEPT ![s] = @ + n],
           pc' = "recv" \/ (pc' = "post" /\ job'.target = job.target),
           UNCHANGED <<chain, reorgs, nonce_synced_for, latest, back>>
    PROVE  NInv'
<1>1. job.target \in Nat \ {0} /\ next[s] \in Nat /\ next \in NonceOf
  BY SMTT(60), ZenonT(60) DEF Shape, JobRec, GovRec, NonceOf
<1>2. \A u \in new : u.nonce \in Nat /\ next[s] <= u.nonce /\ u.nonce < next[s] + n
  BY <1>1
<1>3. Signatures'
  BY <1>1, <1>2 DEF NInv, Signatures
<1>4. SUFFICES ASSUME Straight' PROVE (Ordered /\ Packed /\ Standing)'
  BY SMTT(60), ZenonT(60), <1>3 DEF NInv
<1>5. Straight /\ Ordered /\ Packed /\ Standing
  BY SMTT(60), ZenonT(60), <1>4 DEF Straight, NInv
<1>6. job.target = latest /\ nonce_synced_for = latest /\ latest # 0 /\ Known(latest)
  BY SMTT(60), ZenonT(60), <1>1, <1>5 DEF Ordered, OwnTarget
<1> DEFINE c == chain[latest - 1][s]
<1>7. /\ c \in Nat /\ c <= next[s]
      /\ \A u \in signed : u.slot = s /\ u.target = latest => u.nonce < next[s]
      /\ \A m \in Nat : c <= m /\ m < next[s] =>
           \E v \in signed : v.slot = s /\ v.target = latest /\ v.nonce = m
  BY SMTT(60), ZenonT(60), <1>1, <1>5, <1>6, ConfirmedIsNat DEF Standing
<1>8. \A u \in new : Confirmed(u) = c /\ u.slot = s /\ u.target = latest
  BY SMTT(60), ZenonT(60), <1>6 DEF Confirmed
<1>9. \A u \in signed' : Confirmed(u)' = Confirmed(u)
  BY SMTT(60), ZenonT(60) DEF Confirmed
<1>10. \A u \in signed : u.nonce \in Nat /\ Confirmed(u) <= u.nonce
  BY SMTT(60), ZenonT(60), <1>5 DEF NInv, Signatures, Packed
<1> HIDE DEF c
<1>11. Ordered'
  BY SMTT(60), ZenonT(60), <1>1, <1>5, <1>6, <1>8 DEF Ordered, Known
<1>12. Packed'
  <2>1. \A u \in signed' : Confirmed(u)' <= u.nonce
    BY <1>1, <1>2, <1>7, <1>8, <1>9, <1>10
  <2>2. ASSUME NEW u \in signed', NEW m \in Nat, Confirmed(u)' <= m, m < u.nonce
        PROVE  \E v \in signed' : SameBlock(u, v) /\ v.nonce = m
    <3>1. CASE u \in signed
      BY <1>5, <1>9, <2>2, <3>1 DEF Packed
    <3>2. CASE u \in new /\ m < next[s]
      BY SMTT(60), ZenonT(60), <1>7, <1>8, <1>9, <2>2, <3>2 DEF SameBlock
    <3>3. CASE u \in new /\ ~(m < next[s])
      <4>1. m \in next[s] .. next[s] + n - 1
        BY SMTT(60), ZenonT(60), <1>1, <1>2, <2>2, <3>3
      <4>2. PICK v \in new : v.nonce = m
        BY SMTT(60), ZenonT(60), <4>1
      <4> QED
        BY SMTT(60), ZenonT(60), <1>8, <3>3, <4>2 DEF SameBlock
    <3> QED
      BY <3>1, <3>2, <3>3
  <2>3. ASSUME NEW u \in signed', NEW v \in signed', SameBlock(u, v), u.nonce = v.nonce
        PROVE  u = v
    <3>1. \A x \in signed, y \in new : SameBlock(x, y) => x.nonce # y.nonce
      BY SMTT(60), ZenonT(60), <1>1, <1>2, <1>7, <1>8, <1>10 DEF SameBlock
    <3>2. CASE u \in signed /\ v \in signed
      BY SMTT(60), ZenonT(60), <1>5, <2>3, <3>2 DEF Packed
    <3>3. CASE u \in new /\ v \in new
      BY SMTT(60), ZenonT(60), <2>3, <3>3
    <3>4. SameBlock(v, u)
      BY SMTT(60), ZenonT(60), <2>3 DEF SameBlock
    <3> QED
      BY SMTT(60), ZenonT(60), <2>3, <3>1, <3>2, <3>3, <3>4
  <2> QED
    BY SMTT(60), ZenonT(60), <2>1, <2>2, <2>3 DEF Packed, SameBlock
<1>13. Standing'
  <2>1. ASSUME NEW r \in Slot, r # s PROVE next'[r] = next[r]
    BY SMTT(60), ZenonT(60), <1>1, <2>1 DEF NonceOf
  <2>2. next'[s] = next[s] + n
    BY SMTT(60), ZenonT(60), <1>1 DEF NonceOf
  <2>3. ASSUME NEW r \in Slot, r # s
        PROVE  /\ chain[latest - 1][r] <= next'[r]
               /\ \A u \in signed' : u.slot = r /\ u.target = latest => u.nonce < next'[r]
               /\ \A m \in Nat : chain[latest - 1][r] <= m /\ m < next'[r] =>
                    \E v \in signed' : v.slot = r /\ v.target = latest /\ v.nonce = m
    BY SMTT(60), ZenonT(60), <1>5, <1>6, <1>8, <2>1, <2>3 DEF Standing
  <2>4. c <= next'[s]
    BY SMTT(60), ZenonT(60), <1>1, <1>7, <2>2
  <2>5. \A u \in signed' : u.slot = s /\ u.target = latest => u.nonce < next'[s]
    BY SMTT(60), ZenonT(60), <1>1, <1>2, <1>7, <1>10, <2>2
  <2>6. ASSUME NEW m \in Nat, c <= m, m < next'[s]
        PROVE  \E v \in signed' : v.slot = s /\ v.target = latest /\ v.nonce = m
    <3>1. CASE m < next[s]
      BY SMTT(60), ZenonT(60), <1>7, <2>6, <3>1
    <3>2. CASE ~(m < next[s])
      <4>1. m \in next[s] .. next[s] + n - 1
        BY SMTT(60), ZenonT(60), <1>1, <2>2, <2>6, <3>2
      <4> QED
        BY <1>8, <4>1
    <3> QED
      BY SMTT(60), ZenonT(60), <3>1, <3>2
  <2> QED
    BY SMTT(60), ZenonT(60), <1>6, <2>3, <2>4, <2>5, <2>6 DEF Standing, c
<1> QED
  BY SMTT(60), ZenonT(60), <1>11, <1>12, <1>13

(* A simulated governance job goes on to the resync of its own target.      *)
LEMMA SimulateNonces ==
    ASSUME NInv, Shape, pc = "simulate", job'.target = job.target, sync_nonce(job.target),
           UNCHANGED <<chain, reorgs, next, nonce_synced_for, latest, back, signed, sent>>
    PROVE  NInv'
<1>1. Signatures'
  BY DEF NInv, Signatures
<1>2. SUFFICES ASSUME Straight' PROVE (Ordered /\ Packed /\ Standing)'
  BY <1>1 DEF NInv
<1>3. Straight /\ Ordered /\ Packed /\ Standing /\ job.target = latest
  BY <1>2 DEF Straight, NInv, Ordered
<1>4. slot' = 0 /\ (pc' = "read" => nonce_synced_for # latest) /\ \A s \in Slot : ~(s < 0)
  BY SMTT(60), ZenonT(60), <1>3, ExecAssumption DEF sync_nonce, Slot
<1>5. Ordered'
  BY SMTT(60), ZenonT(60), <1>3, <1>4 DEF Ordered, Known
<1>6. Packed'
  BY SMTT(60), ZenonT(60), <1>3 DEF Packed, SameBlock, Confirmed
<1>7. Standing'
  BY <1>3 DEF Standing
<1> QED
  BY <1>5, <1>6, <1>7

(* The two ways to sign: one transaction, or a run of a governance bundle.  *)
LEMMA SignedNonces ==
    ASSUME NInv, IInv, Dropped \/ Gated \/ (\E n \in 1 .. MaxGovTxs : SubmitGov(n))
    PROVE  NInv'
<1>1. ASSUME Dropped \/ Gated PROVE NInv'
  <2> DEFINE tx == Tx(job.slot, next[job.slot], job.trace)
             one == 1
             new == {tx}
  <2>1. pc = "ready" /\ job.kind = "job"
    BY ZenonT(60), SMTT(60), <1>1 DEF Dropped, Gated
  <2>2. job \in JobRec
    BY <2>1 DEF IInv, Shape, GovRec
  <2>3. job.slot \in Slot /\ next[job.slot] \in Nat
    BY <2>2 DEF JobRec, IInv, Shape, NonceOf
  <2>4. /\ signed' = signed \cup new /\ next' = [next EXCEPT ![job.slot] = @ + one]
        /\ pc' = "recv" /\ UNCHANGED <<chain, reorgs, nonce_synced_for, latest, back>>
    BY ZenonT(60), SMTT(60), <1>1 DEF Dropped, Gated, allocate, Done, sync, order
  <2>5. sent' = sent \/ sent' = sent \cup new
    BY ZenonT(60), SMTT(60), <1>1 DEF Dropped, Gated
  <2>6. tx.slot = job.slot /\ tx.target = job.target /\ tx.nonce = next[job.slot]
    BY DEF Tx
  <2> HIDE DEF tx
  <2>7. \A u \in new : /\ u.slot = job.slot /\ u.target = job.target
                        /\ u.nonce \in next[job.slot] .. next[job.slot] + one - 1
    BY <2>3, <2>6
  <2>8. \A m \in next[job.slot] .. next[job.slot] + one - 1 : \E u \in new : u.nonce = m
    BY <2>3, <2>6
  <2>9. \A u, v \in new : u.nonce = v.nonce => u = v
    OBVIOUS
  <2>10. sent' \subseteq sent \cup new /\ one \in Nat \ {0}
    BY <2>5
  <2>11. Shape /\ OwnTarget
    BY DEF IInv
  <2> HIDE DEF one, new
  <2> QED
    BY <2>1, <2>3, <2>4, <2>7, <2>8, <2>9, <2>10, <2>11, SignNonces, SMTT(30), ZenonT(60)
<1>2. ASSUME NEW n \in 1 .. MaxGovTxs, SubmitGov(n) PROVE NInv'
  <2> DEFINE first == next[OPERATOR_SLOT]
  <2>1. n \in Nat \ {0} /\ OPERATOR_SLOT \in Slot /\ pc = "ready" /\ job.kind = "gov"
    BY <1>2, ExecAssumption DEF OPERATOR_SLOT, Slot, SubmitGov
  <2>2. first \in Nat
    BY <2>1 DEF IInv, Shape, NonceOf
  <2>3. /\ signed' = signed \cup GovTxs(n) /\ next' = [next EXCEPT ![OPERATOR_SLOT] = @ + n]
        /\ UNCHANGED <<chain, reorgs, nonce_synced_for, latest, back>>
    BY <1>2 DEF SubmitGov, allocate_run, sync, order
  <2>4. sent' \subseteq sent \cup GovTxs(n)
    BY <1>2 DEF SubmitGov
  <2>5. pc' = "recv" \/ (pc' = "post" /\ job'.target = job.target)
    <3>1. job \in GovRec
      BY <2>1 DEF IInv, Shape, JobRec
    <3> QED
      BY <1>2, <3>1 DEF SubmitGov, Done, GovRec
  <2>6. \A u \in GovTxs(n) : /\ u.slot = OPERATOR_SLOT /\ u.target = job.target
                             /\ u.nonce \in first .. first + n - 1
    BY <2>1, <2>2 DEF GovTxs, Tx
  <2>7. ASSUME NEW m \in first .. first + n - 1 PROVE \E u \in GovTxs(n) : u.nonce = m
    <3>1. m - first \in 0 .. n - 1 /\ first + (m - first) = m
      BY <2>1, <2>2
    <3>2. Tx(OPERATOR_SLOT, first + (m - first), job.trace + (m - first)) \in GovTxs(n)
      BY <3>1 DEF GovTxs
    <3> QED
      BY <3>1, <3>2 DEF Tx
  <2>8. ASSUME NEW u \in GovTxs(n), NEW v \in GovTxs(n), u.nonce = v.nonce PROVE u = v
    <3>1. PICK i \in 0 .. n - 1 : u = Tx(OPERATOR_SLOT, first + i, job.trace + i)
      BY DEF GovTxs
    <3>2. PICK j \in 0 .. n - 1 : v = Tx(OPERATOR_SLOT, first + j, job.trace + j)
      BY DEF GovTxs
    <3>3. u.nonce = first + i /\ v.nonce = first + j
      BY <3>1, <3>2 DEF Tx
    <3>4. i \in Nat /\ j \in Nat
      BY <2>1
    <3>5. first + i = first + j
      BY Zenon, <2>8, <3>3
    <3>6. i = j
      BY <2>2, <3>4, <3>5
    <3> QED
      BY <3>1, <3>2, <3>6
  <2> QED
    BY ZenonT(60), SMTT(60), <2>1, <2>3, <2>4, <2>5, <2>6, <2>7, <2>8, SignNonces DEF IInv
<1> QED
  BY SMTT(60), ZenonT(60), <1>1, <1>2

LEMMA NonceStep ==
    ASSUME NInv, IInv, IInv', [Next]_vars
    PROVE  NInv'
<1>1. reorgs \in Nat /\ chain \in Seq(NonceOf) /\ Len(chain) > 0 /\ Shape /\ Shape'
  BY SMTT(60), ZenonT(60) DEF NInv, Signatures, IInv, Shape
<1>2. CASE NewBlock
  <2>1. PICK x : chain' = Append(chain, x)
    BY <1>2 DEF NewBlock
  <2>2. Len(chain) <= Len(chain') /\ \A b \in 1 .. Len(chain) : chain'[b] = chain[b]
    BY <1>1, <2>1
  <2>3. UNCHANGED <<reorgs, next, nonce_synced_for, latest, back, signed, sent, pc, job, slot>>
    BY <1>2 DEF NewBlock, nonces, sync, order, out
  <2> QED
    BY ZenonT(60), SMTT(60), <1>1, <2>2, <2>3, FrameStep
<1>3. CASE Reorg
  <2>1. reorgs' = reorgs + 1
    BY <1>3 DEF Reorg
  <2>2. UNCHANGED <<next, nonce_synced_for, latest, back, signed, sent, pc, job, slot>>
    BY <1>3 DEF Reorg, nonces, sync, order, out
  <2>3. reorgs' \in Nat /\ reorgs' # 0
    BY <1>1, <2>1
  <2> QED
    BY <1>1, <2>2, <2>3, FrameStep
<1>4. ASSUME UNCHANGED <<chain, reorgs, next, nonce_synced_for, latest, back, signed, sent>>,
             pc' = "recv" \/ UNCHANGED <<pc, job, slot>>
      PROVE  NInv'
  <2>1. reorgs' \in Nat /\ Len(chain) <= Len(chain') /\ \A b \in 1 .. Len(chain) : chain'[b] = chain[b]
    BY SMTT(60), ZenonT(60), <1>1, <1>4
  <2> QED
    BY <1>1, <1>4, <2>1, FrameStep
<1>5. ASSUME SetLive \/ (\E svr \in BOOLEAN : finish_job(svr))
             \/ (\E n \in 1 .. MaxGovTxs : handle_gov(n)) \/ UNCHANGED vars
      PROVE  NInv'
  BY ZenonT(60), SMTT(60), <1>4, <1>5
     DEF SetLive, finish_job, handle_gov, vars, nonces, sync, order, out
<1>6. ASSUME ReadFailed \/ Refused \/ GovRefused \/ SendReverting
             \/ (\E tx \in posting : VenueAck(tx) \/ SendFailed(tx))
      PROVE  NInv'
  BY SMTT(60), ZenonT(60), <1>4, <1>6
     DEF ReadFailed, Refused, GovRefused, SendReverting, VenueAck, SendFailed, Done,
                    nonces, sync, order, out
<1>7. CASE RecvJob
  <2>1. Head(inbox) \in JobRec
    BY <1>7 DEF RecvJob, IInv, Shape
  <2>2. job'.target \in Nat \ {0} /\ Take(job'.target) /\ sync_nonce(job'.target) /\ pc = "recv"
    BY <1>7, <2>1 DEF RecvJob, JobRec
  <2>3. UNCHANGED <<chain, reorgs, next, nonce_synced_for, signed, sent>>
    BY <1>7 DEF RecvJob, nonces, sync, out
  <2> QED
    BY SMTT(60), ZenonT(60), <1>1, <2>2, <2>3, TakeNonces DEF sync_nonce
<1>8. CASE RecvGov
  <2>1. Head(gov_inbox) \in GovRec
    BY <1>8 DEF RecvGov, IInv, Shape
  <2>2. job'.target \in Nat \ {0} /\ Take(job'.target) /\ pc' = "simulate" /\ pc = "recv"
    BY <1>8, <2>1 DEF RecvGov, GovRec
  <2>3. UNCHANGED <<chain, reorgs, next, nonce_synced_for, signed, sent>>
    BY <1>8 DEF RecvGov, nonces, sync, out
  <2> QED
    BY SMTT(60), ZenonT(60), <1>1, <2>2, <2>3, TakeNonces
<1>9. CASE Simulate
  <2>1. /\ UNCHANGED <<chain, reorgs, next, nonce_synced_for, latest, back, signed, sent>>
        /\ pc = "simulate" /\ job \in GovRec
    BY <1>9 DEF Simulate, nonces, sync, order, out, IInv, Shape
  <2>2. CASE Done
    BY <1>4, <2>1, <2>2 DEF Done
  <2>3. ASSUME NEW k \in 1 .. job.txs, job' = [job EXCEPT !.txs = k], sync_nonce(job.target)
        PROVE  NInv'
    <3>1. job'.target = job.target
      BY SMTT(60), ZenonT(60), <2>1, <2>3 DEF GovRec
    <3> QED
      BY SMTT(60), ZenonT(60), <1>1, <2>1, <2>3, <3>1, SimulateNonces
  <2> QED
    BY <1>9, <2>2, <2>3 DEF Simulate
<1>10. CASE Worker
  BY SMTT(60), ZenonT(60), <1>6, <1>7, <1>8, <1>9, <1>10, ReadNonces, SignedNonces DEF Worker
<1> QED
  BY SMTT(60), ZenonT(60), <1>2, <1>3, <1>5, <1>6, <1>10 DEF Next

(* In a packed block, the transactions signed below one are as many as the  *)
(* nonces from the confirmed one up to its own.                             *)
LEMMA BelowCount ==
    ASSUME NInv, Shape, Straight, NEW t \in signed
    PROVE  t.nonce = Confirmed(t)
             + Cardinality({u \in signed : SameBlock(t, u) /\ u.nonce < t.nonce})
<1> DEFINE below == {u \in signed : SameBlock(t, u) /\ u.nonce < t.nonce}
           free == Confirmed(t) .. t.nonce - 1
           f == [u \in below |-> u.nonce]
<1>1. Ordered /\ Packed /\ \A u \in signed : u.nonce \in Nat /\ u.slot \in Slot
  BY SMTT(60), ZenonT(60) DEF NInv, Signatures
<1>2. Confirmed(t) \in Nat /\ t.nonce \in Nat /\ Confirmed(t) <= t.nonce
  <2>1. t.target \in Nat /\ t.slot \in Slot /\ Known(t.target)
    BY SMTT(60), ZenonT(60), <1>1 DEF NInv, Signatures, Ordered
  <2> QED
    BY SMTT(60), ZenonT(60), <1>1, <2>1, ConfirmedIsNat DEF Packed, Confirmed
<1>3. \A u \in below : Confirmed(u) = Confirmed(t) /\ Confirmed(u) <= u.nonce /\ u.nonce \in Nat
  BY <1>1 DEF Packed, SameBlock, Confirmed
<1>4. f \in [below -> free]
  BY SMTT(60), ZenonT(60), <1>2, <1>3
<1>5. \A u, v \in below : f[u] = f[v] => u = v
  BY SMTT(60), ZenonT(60), <1>1 DEF Packed, SameBlock
<1>6. \A n \in free : \E u \in below : f[u] = n
  BY SMTT(60), ZenonT(60), <1>1, <1>2 DEF Packed
<1> HIDE DEF f
<1>7. f \in Injection(below, free) /\ f \in Surjection(below, free)
  BY ZenonT(60), SMTT(60), <1>4, <1>5, <1>6, Fun_IsInj, Fun_IsSurj
<1>8. IsFiniteSet(free) /\ Cardinality(free) = t.nonce - Confirmed(t)
  <2>1. Confirmed(t) \in Int /\ t.nonce - 1 \in Int
    BY <1>2
  <2>2. /\ IsFiniteSet(free)
        /\ Cardinality(free)
             = IF Confirmed(t) > t.nonce - 1 THEN 0 ELSE t.nonce - 1 - Confirmed(t) + 1
    BY ZenonT(30), <2>1, FS_Interval
  <2> HIDE DEF free
  <2> QED
    BY <1>2, <2>2
<1> HIDE DEF below, free
<1>9. Cardinality(below) = Cardinality(free)
  BY <1>7, <1>8, FS_Injection
<1> QED
  BY <1>2, <1>8, <1>9 DEF below

(* On a chain that only grows, and while no job is taken for an earlier     *)
(* block than one before it, every transaction posted carries the confirmed *)
(* nonce plus the number signed before it for its key and target: for any   *)
(* number of keys, jobs and blocks, and any placement of failed resyncs     *)
(* (path.rs: sync_nonce, sign_and_gate; gov.rs: submit_gov).                *)
THEOREM NoncesInOrder == Spec => []NonceInOrder
<1>1. NInv /\ IInv => NonceInOrder
  BY BelowCount DEF NonceInOrder, Straight, Confirmed, NInv, Signatures, IInv
<1>2. NInv /\ IInv /\ IInv' /\ [Next]_vars => NInv'
  BY NonceStep
<1> QED
  BY <1>1, <1>2, InitNonces, SyncInvariance, PTL DEF Spec
=============================================================================
