----------------------------- MODULE ExecPath -------------------------------
(***************************************************************************)
(* The submit path: the hot thread puts jobs and governance jobs in two    *)
(* bounded inboxes; the exec worker (liq-bot/exec_worker.rs) takes them,   *)
(* resyncs the operators' nonces from the chain once per target block,     *)
(* allocates, signs, gates, and spawns the POST, whose answer comes back   *)
(* on a task of its own (liq-exec/path.rs, nonce.rs, gov.rs).              *)
(*                                                                         *)
(* A transaction is its key, its nonce and the blocks it may land in.  The *)
(* live-send bits other than nonce_resync, and a deployed Executor, are    *)
(* one bit.  The node answers for the blocks it has, or fails.  A builder  *)
(* may hold a bundle whose POST failed here.                               *)
(***************************************************************************)
EXTENDS Naturals, Sequences, FiniteSets

CONSTANTS NumKeys,    \* operator keys, one nonce slot each
          INBOX_CAP,  \* capacity of the inboxes
          MaxBlock,   \* bound: highest block number
          MaxTrace,   \* bound: jobs
          MaxGovTxs,  \* bound: transactions in a governance job; 0: no inbox
          MaxReorgs   \* bound: reorganisations of the tip

ASSUME ExecAssumption ==
    /\ NumKeys \in Nat \ {0} /\ INBOX_CAP \in Nat \ {0} /\ MaxBlock \in Nat \ {0}
    /\ MaxTrace \in Nat /\ MaxGovTxs \in Nat /\ MaxReorgs \in Nat

VARIABLES
    chain,            \* confirmed nonce of each slot after each block
    reorgs,           \* reorganisations so far
    traces,           \* jobs made so far
    inbox, gov_inbox, \* hot -> exec
    pc,               \* where the worker is
    job,              \* the job it holds
    slot,             \* the slot whose chain nonce it reads next
    next, in_flight,  \* NonceAllocator: per slot, in_flight[s][n] = dropped
    nonce_synced_for, \* target block the nonces were last resynced for
    nonce_resync,     \* third live-send bit
    live,             \* submit_enabled, lease_held, Executor deployed
    posting,          \* transactions whose POST is under way
    bundles,          \* transactions some builder holds
    signed, sent,     \* history: transactions signed / handed to a POST
    base, taken,      \* history: nonces read by the last resync that completed,
                      \* and how many were allocated since
    latest, back      \* history: latest target a job was taken for, and whether
                      \* one was ever taken for an earlier target

hot == <<traces, inbox, gov_inbox>>
nonces == <<next, in_flight>>
sync == <<nonce_synced_for, nonce_resync, base>>
order == <<latest, back>>
out == <<posting, bundles, signed, taken, sent>>
vars == <<chain, reorgs, hot, pc, job, slot, nonces, sync, order, live, out>>

Slot == 0 .. NumKeys - 1
OPERATOR_SLOT == 0
BACKRUN_SLOT == NumKeys - 1
MEVSHARE_SPAN == 2

NoJob == [kind |-> "none"]
Init ==
    /\ chain = << [s \in Slot |-> 0] >> /\ reorgs = 0
    /\ traces = 0 /\ inbox = <<>> /\ gov_inbox = <<>>
    /\ pc = "recv" /\ job = NoJob /\ slot = 0
    /\ next = [s \in Slot |-> 0] /\ in_flight = [s \in Slot |-> <<>>]
    /\ nonce_synced_for = 0 /\ nonce_resync = FALSE
    /\ base = [s \in Slot |-> 0] /\ taken = [s \in Slot |-> 0]
    /\ latest = 0 /\ back = FALSE
    /\ live = FALSE
    /\ posting = {} /\ bundles = {} /\ signed = {} /\ sent = {}
-----------------------------------------------------------------------------
(* The chain.  A block takes, per slot, bundled transactions whose window  *)
(* it is in and whose nonces run on from the confirmed one.                *)
Runs(txs, from) ==
    \A s \in Slot : LET ns == {t.nonce : t \in {t \in txs : t.slot = s}}
                    IN /\ Cardinality(ns) = Cardinality({t \in txs : t.slot = s})
                       /\ ns = from[s] .. from[s] + Cardinality(ns) - 1

NewBlock ==
    LET n == Len(chain) + 1 IN
    /\ n <= MaxBlock
    /\ \E txs \in SUBSET {t \in bundles : n \in t.target .. t.max} :
         /\ Runs(txs, chain[Len(chain)])
         /\ chain' = Append(chain, [s \in Slot |-> chain[Len(chain)][s]
                                      + Cardinality({t \in txs : t.slot = s})])
    /\ UNCHANGED <<reorgs, hot, pc, job, slot, nonces, sync, order, live, out>>

Reorg ==
    /\ Len(chain) > 1 /\ reorgs < MaxReorgs
    /\ chain' = SubSeq(chain, 1, Len(chain) - 1) /\ reorgs' = reorgs + 1
    /\ UNCHANGED <<hot, pc, job, slot, nonces, sync, order, live, out>>

(* The operator's toggle and the lease. *)
SetLive == live' = ~live /\ UNCHANGED <<chain, reorgs, hot, pc, job, slot, nonces, sync, order, out>>
-----------------------------------------------------------------------------
(* The hot thread.  try_send never blocks: a full inbox loses the job.     *)
try_send(queue, j) == IF Len(queue) < INBOX_CAP THEN Append(queue, j) ELSE queue

finish_job(svr) ==
    LET target == Len(chain) + 1 IN
    /\ traces < MaxTrace
    /\ traces' = traces + 1
    /\ inbox' = try_send(inbox,
         [kind |-> "job", trace |-> traces + 1, target |-> target,
          slot |-> IF svr THEN BACKRUN_SLOT ELSE OPERATOR_SLOT,
          max |-> IF svr THEN target + MEVSHARE_SPAN ELSE target])
    /\ UNCHANGED <<chain, reorgs, gov_inbox, pc, job, slot, nonces, sync, order, live, out>>

handle_gov(n) ==
    LET target == Len(chain) + 1 IN
    /\ traces + n <= MaxTrace
    /\ traces' = traces + n
    /\ gov_inbox' = try_send(gov_inbox,
         [kind |-> "gov", trace |-> traces + 1, target |-> target, slot |-> OPERATOR_SLOT,
          max |-> target, txs |-> n])
    /\ UNCHANGED <<chain, reorgs, inbox, pc, job, slot, nonces, sync, order, live, out>>
-----------------------------------------------------------------------------
(* The worker.  sync_nonce returns at once when it was last completed for  *)
(* this target, and otherwise reads every slot's nonce after target - 1.   *)
sync_nonce(target) ==
    /\ pc' = IF nonce_synced_for = target THEN "ready" ELSE "read"
    /\ slot' = 0

Take(target) ==
    /\ latest' = IF target > latest THEN target ELSE latest
    /\ back' = (back \/ target < latest)

RecvJob ==
    /\ pc = "recv" /\ inbox # <<>>
    /\ job' = Head(inbox) /\ inbox' = Tail(inbox)
    /\ Take(Head(inbox).target) /\ sync_nonce(Head(inbox).target)
    /\ UNCHANGED <<chain, reorgs, traces, gov_inbox, nonces, sync, live, out>>

RecvGov ==
    /\ pc = "recv" /\ gov_inbox # <<>>
    /\ job' = Head(gov_inbox) /\ gov_inbox' = Tail(gov_inbox) /\ pc' = "simulate"
    /\ Take(Head(gov_inbox).target)
    /\ UNCHANGED <<chain, reorgs, traces, inbox, slot, nonces, sync, live, out>>

Done == pc' = "recv" /\ job' = NoJob

(* submit_gov keeps the transactions that succeed in simulation; the node  *)
(* may refuse, and none may survive.                                       *)
Simulate ==
    /\ pc = "simulate"
    /\ \/ Done /\ UNCHANGED slot
       \/ \E k \in 1 .. job.txs : job' = [job EXCEPT !.txs = k] /\ sync_nonce(job.target)
    /\ UNCHANGED <<chain, reorgs, hot, nonces, sync, order, live, out>>

set_next(s, n) ==
    next' = [next EXCEPT ![s] = n] /\ in_flight' = [in_flight EXCEPT ![s] = <<>>]

ReadNonce_wrong_block ==
    LET parent == job.target IN
    /\ pc = "read" /\ parent \in 1 .. Len(chain)
    /\ set_next(slot, chain[parent][slot])
    /\ IF slot < BACKRUN_SLOT
       THEN slot' = slot + 1 /\ UNCHANGED <<pc, sync, taken>>
       ELSE /\ pc' = "ready" /\ nonce_synced_for' = job.target /\ nonce_resync' = TRUE
            /\ base' = next' /\ taken' = [s \in Slot |-> 0] /\ UNCHANGED slot
    /\ UNCHANGED <<chain, reorgs, hot, job, order, live, posting, bundles, signed, sent>>

ReadNonce ==
    LET parent == job.target - 1 IN
    /\ pc = "read" /\ parent \in 1 .. Len(chain)
    /\ set_next(slot, chain[parent][slot])
    /\ IF slot < BACKRUN_SLOT
       THEN slot' = slot + 1 /\ UNCHANGED <<pc, sync, taken>>
       ELSE /\ pc' = "ready" /\ nonce_synced_for' = job.target /\ nonce_resync' = TRUE
            /\ base' = next' /\ taken' = [s \in Slot |-> 0] /\ UNCHANGED slot
    /\ UNCHANGED <<chain, reorgs, hot, job, order, live, posting, bundles, signed, sent>>

ReadFailed_keeps_bit ==
    /\ pc = "read" /\ Done
    /\ UNCHANGED <<chain, reorgs, hot, slot, nonces, sync, order, live, out>>

(* One slot's read fails: the slots before it keep what they were set to.  *)
ReadFailed ==
    /\ pc = "read" /\ Done
    /\ nonce_resync' = FALSE
    /\ UNCHANGED <<chain, reorgs, hot, slot, nonces, nonce_synced_for, base, order, live, out>>

(* The simulation of a single job reverts, or a check before the           *)
(* allocation refuses it: no nonce is taken.                               *)
Refused ==
    /\ pc = "ready" /\ job.kind = "job" /\ Done
    /\ UNCHANGED <<chain, reorgs, hot, slot, nonces, sync, order, live, out>>

Put(f, n, dropped) == [m \in DOMAIN f \cup {n} |-> IF m = n THEN dropped ELSE f[m]]
Tx(s, n, t) == [trace |-> t, slot |-> s, nonce |-> n, target |-> job.target, max |-> job.max]

allocate(dropped) ==
    LET s == job.slot IN
    /\ next' = [next EXCEPT ![s] = @ + 1]
    /\ in_flight' = [in_flight EXCEPT ![s] = Put(@, next[s], dropped)]
    /\ signed' = signed \cup {Tx(s, next[s], job.trace)}
    /\ taken' = [taken EXCEPT ![s] = @ + 1]

(* sign_and_gate: a nonce is taken, and signing or the recorder fails or   *)
(* the risk gate denies: mark_nonce_dropped.                               *)
Dropped ==
    /\ pc = "ready" /\ job.kind = "job"
    /\ allocate(TRUE) /\ Done
    /\ UNCHANGED <<chain, reorgs, hot, slot, sync, order, live, posting, bundles, sent>>

(* sign_and_gate lets the job through: the POST is spawned, or the job is  *)
(* only recorded when a live-send bit is off.                              *)
Gated ==
    /\ pc = "ready" /\ job.kind = "job"
    /\ allocate(FALSE) /\ Done
    /\ LET tx == Tx(job.slot, next[job.slot], job.trace) IN
       IF live /\ nonce_resync
       THEN posting' = posting \cup {tx} /\ sent' = sent \cup {tx}
       ELSE UNCHANGED <<posting, sent>>
    /\ UNCHANGED <<chain, reorgs, hot, slot, sync, order, live, bundles>>

(* submit_gov after the resync: the first n survivors the gate allows are  *)
(* signed with consecutive nonces, which are consumed once all are signed. *)
allocate_run(n) ==
    LET s == OPERATOR_SLOT
        run == next[s] .. next[s] + n - 1
    IN /\ next' = [next EXCEPT ![s] = @ + n]
       /\ in_flight' = [in_flight EXCEPT ![s] =
            [m \in DOMAIN @ \cup run |-> IF m \in run THEN FALSE ELSE @[m]]]

GovTxs(n) == {Tx(OPERATOR_SLOT, next[OPERATOR_SLOT] + i, job.trace + i) : i \in 0 .. n - 1}

SubmitGov(n) ==
    /\ pc = "ready" /\ job.kind = "gov"
    /\ allocate_run(n)
    /\ signed' = signed \cup GovTxs(n) /\ taken' = [taken EXCEPT ![OPERATOR_SLOT] = @ + n]
    /\ IF live /\ nonce_resync
       THEN sent' = sent \cup GovTxs(n) /\ job' = [job EXCEPT !.txs = n] /\ pc' = "post"
       ELSE Done /\ UNCHANGED sent
    /\ UNCHANGED <<chain, reorgs, hot, slot, sync, order, live, posting, bundles>>

(* Every survivor is denied, or signing or the recorder fails part-way.    *)
GovRefused ==
    /\ pc = "ready" /\ job.kind = "gov" /\ Done
    /\ UNCHANGED <<chain, reorgs, hot, slot, nonces, sync, order, live, out>>

(* The worker waits for the bundle's answer; a failure leaves the nonces.  *)
SendReverting ==
    /\ pc = "post" /\ Done
    /\ \/ UNCHANGED bundles
       \/ bundles' = bundles \cup {t \in sent : t.trace \in job.trace .. job.trace + job.txs - 1}
    /\ UNCHANGED <<chain, reorgs, hot, slot, nonces, sync, order, live, posting, signed, taken, sent>>
-----------------------------------------------------------------------------
(* The spawned POST of a job: send_ready.                                  *)
VenueAck(tx) ==
    /\ posting' = posting \ {tx} /\ bundles' = bundles \cup {tx}
    /\ UNCHANGED <<chain, reorgs, hot, pc, job, slot, nonces, sync, order, live, signed, taken, sent>>

mark_nonce_dropped(tx) ==
    in_flight' = IF tx.nonce \in DOMAIN in_flight[tx.slot]
                 THEN [in_flight EXCEPT ![tx.slot][tx.nonce] = TRUE] ELSE in_flight

SendFailed(tx) ==
    /\ posting' = posting \ {tx}
    /\ UNCHANGED bundles \/ bundles' = bundles \cup {tx}
    /\ mark_nonce_dropped(tx)
    /\ UNCHANGED <<chain, reorgs, hot, pc, job, slot, next, sync, order, live, signed, taken, sent>>

Worker ==
    \/ RecvJob \/ RecvGov \/ Simulate \/ ReadNonce \/ ReadFailed \/ Refused \/ Dropped \/ Gated
    \/ \E n \in 1 .. MaxGovTxs : pc = "ready" /\ job.kind = "gov" /\ n <= job.txs /\ SubmitGov(n)
    \/ GovRefused \/ SendReverting

Next ==
    \/ NewBlock \/ Reorg \/ SetLive
    \/ \E svr \in BOOLEAN : finish_job(svr)
    \/ \E n \in 1 .. MaxGovTxs : handle_gov(n)
    \/ Worker
    \/ \E tx \in posting : VenueAck(tx) \/ SendFailed(tx)

Spec == Init /\ [][Next]_vars
-----------------------------------------------------------------------------
Target == 2 .. MaxBlock + 1
Nonce == 0 .. MaxTrace
Txs == [trace : 1 .. MaxTrace, slot : Slot, nonce : Nonce, target : Target,
        max : 2 .. MaxBlock + 1 + MEVSHARE_SPAN]
Jobs == [kind : {"job"}, trace : 1 .. MaxTrace, target : Target, slot : Slot,
         max : 2 .. MaxBlock + 1 + MEVSHARE_SPAN]
GovJobs == [kind : {"gov"}, trace : 1 .. MaxTrace, target : Target, slot : {OPERATOR_SLOT},
            max : Target, txs : 1 .. MaxGovTxs]

(* The state's shape; every allocated nonce lies below the next one, and   *)
(* only transactions on their way are being posted.                        *)
TypeOK ==
    /\ Len(chain) \in 1 .. MaxBlock /\ \A b \in 1 .. Len(chain) : chain[b] \in [Slot -> Nonce]
    /\ reorgs \in 0 .. MaxReorgs /\ traces \in 0 .. MaxTrace
    /\ Len(inbox) <= INBOX_CAP /\ \A i \in 1 .. Len(inbox) : inbox[i] \in Jobs
    /\ Len(gov_inbox) <= INBOX_CAP /\ \A i \in 1 .. Len(gov_inbox) : gov_inbox[i] \in GovJobs
    /\ pc \in {"recv", "simulate", "read", "ready", "post"} /\ slot \in Slot
    /\ IF pc = "recv" THEN job = NoJob ELSE job \in Jobs \cup GovJobs
    /\ next \in [Slot -> Nonce] /\ base \in [Slot -> Nonce] /\ taken \in [Slot -> Nonce]
    /\ \A s \in Slot : DOMAIN in_flight[s] \subseteq 0 .. next[s] - 1
    /\ nonce_synced_for \in {0} \cup Target
    /\ latest \in {0} \cup Target
    /\ nonce_resync \in BOOLEAN /\ live \in BOOLEAN /\ back \in BOOLEAN
    /\ signed \subseteq Txs /\ sent \subseteq signed /\ posting \subseteq sent /\ bundles \subseteq sent

SameBlock(t, u) == t.slot = u.slot /\ t.target = u.target

(* On a chain that only grows, and as long as the worker never took a job  *)
(* for an earlier block than one before it: every transaction posted, in a *)
(* bundle or alone, carries the confirmed nonce after the block before its *)
(* target plus the number of transactions signed before it with that key   *)
(* for that target, whatever resyncs failed, bundles landed or jobs were   *)
(* refused before (path.rs: sync_nonce, sign_and_gate; gov.rs).            *)
NonceInOrder ==
    reorgs = 0 /\ ~back =>
        \A t \in sent : t.nonce = chain[t.target - 1][t.slot]
            + Cardinality({u \in signed : SameBlock(t, u) /\ u.nonce < t.nonce})

(* Nothing is posted on the strength of a resync that failed half-way.     *)
(* When a job is about to be signed and the live-send conjunction could    *)
(* let it out, the allocator stands, in every slot, exactly where the last *)
(* completed resync and the allocations since have left it, and that       *)
(* resync was for the job's own target, whichever inbox the jobs came from *)
(* and whatever happened to the chain (path.rs: nonce_resync).             *)
PostedFromFullSync ==
    pc = "ready" /\ nonce_resync =>
        /\ nonce_synced_for = job.target
        /\ \A s \in Slot : next[s] = base[s] + taken[s]

(* sync_nonce: jobs and bundles for one target block never reuse a nonce.  *)
NeverReuseNonce ==
    \A t, u \in sent : SameBlock(t, u) /\ t.nonce = u.nonce => t = u
=============================================================================
