---------------------------- MODULE StateReads ------------------------------
(***************************************************************************)
(* Protocol state read from chain and folded into the store: the hot       *)
(* thread publishes the set of reads (liq-bot/drain.rs), the reader thread *)
(* runs it at each new head and publishes the answers, latest wins         *)
(* (liq-bot/state_reads.rs), and the hot thread folds a batch into the     *)
(* block it was read at.  The drift check's resyncs share the set.         *)
(*                                                                         *)
(* A block is its identity and what its logs do to one account: mark it    *)
(* stale (a Gearbox multicall), close it, or nothing.  All an account's    *)
(* reads, follow-ups included, are one read named by the position; vault   *)
(* stands for the adapter-wide reads.  The store keeps one version per     *)
(* block (VersionedStore) with the stale accounts in it.                   *)
(***************************************************************************)
EXTENDS Naturals, Sequences, FiniteSets, SequencesExt

CONSTANTS Pos, vault,
          RESYNC_TTL_BLOCKS, SWEEP_READS_PER_BLOCK, READS_REFRESH_BLOCKS,
          MaxHeight,  \* bound: block number
          MaxBlocks,  \* bound: blocks made, on all forks
          MaxSpan,    \* bound: blocks a notification brings, or takes back
          MaxEvents   \* bound: reorganisations, failed reads and drift actions

ASSUME ReadsAssumption ==
    /\ vault \notin Pos /\ IsFiniteSet(Pos)
    /\ {RESYNC_TTL_BLOCKS, SWEEP_READS_PER_BLOCK, READS_REFRESH_BLOCKS, MaxHeight} \subseteq Nat \ {0}
    /\ {MaxBlocks, MaxSpan, MaxEvents} \subseteq Nat

VARIABLES
    chain, made, reorgs, \* the canonical blocks, blocks made, reorganisations
    notes,               \* ExEx -> hot: [keep, new]
    \* hot thread
    pc,                  \* "loop", or "advance": after_block between its two publications
    store,               \* one version per block: [id, stale, from]
    last_block,          \* 0: no block seen
    position_reads,      \* positions whose reads are wanted
    position_reads_block,
    state_reads_at,
    resync,              \* position -> block its resync was asked at; 0: none
    sweep,               \* positions of a protocol-wide resync not asked yet
    state_applied,       \* seq of the last batch folded
    reads,               \* StateReaderShared.reads
    latest,              \* StateReaderShared.latest
    \* reader thread
    rpc,                 \* "poll", "head", "read"
    loaded, last, last_reads, seq,
    at, todo, batch,     \* block being read, reads left, answers <<read, block id>>
    fails, drifts,
    missed               \* history: since the last scan of all positions, a
                         \* notification changed more than touched() reported

world == <<chain, made, reorgs>>
asked == <<position_reads, position_reads_block, state_reads_at>>
hot == <<pc, store, last_block, asked, resync, sweep, state_applied, reads, missed>>
reader == <<latest, rpc, loaded, last, last_reads, seq, at, todo, batch, fails>>
vars == <<world, notes, hot, reader, drifts>>

None == [block |-> 0, seq |-> 0, answers |-> {}]
Genesis == [id |-> 0, stale |-> {}, from |-> {}]

Init ==
    /\ chain = << [id |-> 0, does |-> "nothing", pos |-> vault, hidden |-> FALSE] >>
    /\ made = 0 /\ reorgs = 0 /\ notes = <<>>
    /\ pc = "loop" /\ store = <<Genesis>> /\ last_block = 0
    /\ position_reads = {} /\ position_reads_block = 0 /\ state_reads_at = 0
    /\ resync = [p \in Pos |-> 0] /\ sweep = <<>> /\ state_applied = 0
    /\ reads = {} /\ latest = None
    /\ rpc = "poll" /\ loaded = {} /\ last = 0 /\ last_reads = {} /\ seq = 0
    /\ at = 0 /\ todo = {} /\ batch = {} /\ fails = 0 /\ drifts = 0
    /\ missed = FALSE
-----------------------------------------------------------------------------
(* The node commits, or replaces the tip by, new blocks and notifies.  A   *)
(* protocol-wide log can hide the position from touched().                 *)
events == reorgs + fails + drifts

Block(id) ==
    [id : {id}, does : {"mark"}, pos : Pos, hidden : BOOLEAN]
        \cup [id : {id}, does : {"close"}, pos : Pos, hidden : {FALSE}]
        \cup [id : {id}, does : {"nothing"}, pos : {vault}, hidden : {FALSE}]

NewChain(back, n) ==
    /\ back < Len(chain)
    /\ IF back = 0 THEN n > 0 ELSE events < MaxEvents
    /\ made + n <= MaxBlocks /\ Len(chain) - back + n <= MaxHeight
    /\ \E new \in {s \in [1 .. n -> UNION {Block(made + i) : i \in 1 .. n}] :
                     \A i \in 1 .. n : s[i].id = made + i} :
         /\ chain' = SubSeq(chain, 1, Len(chain) - back) \o new
         /\ notes' = Append(notes, [keep |-> Len(chain) - back, new |-> new])
    /\ made' = made + n /\ reorgs' = IF back > 0 THEN reorgs + 1 ELSE reorgs
    /\ UNCHANGED <<hot, reader, drifts>>
-----------------------------------------------------------------------------
Tip == store[Len(store)]

(* apply_block: a new version from the one before. *)
apply_block(versions, b) ==
    LET before == versions[Len(versions)].stale
    IN Append(versions, [id |-> b.id, from |-> {},
         stale |-> CASE b.does = "mark" -> before \cup {b.pos}
                     [] b.does = "close" -> before \ {b.pos}
                     [] OTHER -> before])

touched(b) == IF b.does = "nothing" \/ b.hidden THEN {} ELSE {b.pos}

(* The positions of ids that want reads now. *)
position_reads_for(version, ids) == ids \cap version.stale

reask_positions(version, ids) == (position_reads \ ids) \cup position_reads_for(version, ids)

merged_reads(positions, asks) == {vault} \cup positions \cup {p \in Pos : asks[p] # 0}

Rebuilds(block) ==
    state_reads_at = 0 \/ (block > state_reads_at /\ block - state_reads_at >= READS_REFRESH_BLOCKS)

Scans_no_gap(block) == Rebuilds(block)

(* Every position is asked at startup, when a rebuild is due, and when the *)
(* block is not the one after the last.                                    *)
Scans(block) ==
    Rebuilds(block) \/ (position_reads_block # 0 /\ block # position_reads_block + 1)

refresh_state_reads(version, block, ids) ==
    LET wanted == IF Scans(block) THEN position_reads_for(version, Pos)
                  ELSE reask_positions(version, ids)
    IN /\ position_reads' = wanted /\ position_reads_block' = block
       /\ state_reads_at' = IF Rebuilds(block) THEN block ELSE state_reads_at
       /\ reads' = IF Scans(block) \/ wanted # position_reads
                   THEN merged_reads(wanted, resync) ELSE reads

(* One notification: unwind, fold the new blocks, and after_block for the  *)
(* last of them up to its first publication.                               *)
Notified ==
    /\ pc = "loop" /\ notes # <<>>
    /\ LET note == Head(notes)
           versions == FoldLeft(apply_block, SubSeq(store, 1, note.keep), note.new)
           block == Len(versions)
       IN /\ store' = versions
          /\ IF note.new = <<>> THEN UNCHANGED <<pc, last_block, asked, reads, missed>>
             ELSE /\ pc' = "advance" /\ last_block' = block
                  /\ refresh_state_reads(versions[block], block, touched(Last(note.new)))
                  /\ missed' = ( /\ ~Rebuilds(block) /\ block = position_reads_block + 1
                                 /\ missed \/ note.keep # position_reads_block
                                    \/ Len(note.new) > 1 \/ Last(note.new).hidden)
    /\ notes' = Tail(notes)
    /\ UNCHANGED <<world, resync, sweep, state_applied, reader, drifts>>

(* Resyncs that never settled are dropped; the next slice of a sweep is    *)
(* asked.                                                                  *)
advance_resync ==
    /\ pc = "advance" /\ pc' = "loop"
    /\ LET n == IF Len(sweep) < SWEEP_READS_PER_BLOCK THEN Len(sweep) ELSE SWEEP_READS_PER_BLOCK
           slice == ToSet(SubSeq(sweep, 1, n))
           kept == [p \in Pos |-> IF resync[p] = 0 \/ last_block >= resync[p] + RESYNC_TTL_BLOCKS
                                  THEN 0 ELSE resync[p]]
           asks == [p \in Pos |-> IF p \in slice THEN last_block ELSE kept[p]]
       IN /\ resync' = asks /\ sweep' = SubSeq(sweep, n + 1, Len(sweep))
          /\ reads' = IF kept # resync \/ slice # {} THEN merged_reads(position_reads, asks) ELSE reads
    /\ UNCHANGED <<world, notes, store, last_block, asked, state_applied, missed, reader, drifts>>

FitsTip_any_block == last_block = Len(store)

(* A batch fits while its block is the one the hook saw last and the tip.  *)
FitsTip == latest.block = last_block /\ last_block = Len(store)

Republishes_positions_only(wanted, asks) == wanted # position_reads

Republishes(wanted, asks) == wanted # position_reads \/ asks # resync

(* amend: a batch is folded once; what it settled is asked for no longer.  *)
fold_state ==
    /\ pc = "loop" /\ latest.seq > state_applied /\ last_block # 0 /\ FitsTip
    /\ LET settled == {a[1] : a \in latest.answers} \cap Pos
           version == [Tip EXCEPT !.stale = @ \ settled,
                                  !.from = @ \cup {a[2] : a \in latest.answers}]
           asks == [p \in Pos |-> IF p \in settled THEN 0 ELSE resync[p]]
           wanted == reask_positions(version, settled)
       IN /\ store' = [store EXCEPT ![Len(store)] = version]
          /\ resync' = asks /\ position_reads' = wanted
          /\ reads' = IF Republishes(wanted, asks) THEN merged_reads(wanted, asks) ELSE reads
    /\ state_applied' = latest.seq
    /\ UNCHANGED <<world, notes, pc, last_block, position_reads_block, state_reads_at, sweep, missed, reader, drifts>>

(* poll_drift: one position's resync, or a sweep of the protocol in the    *)
(* order of the bands.                                                     *)
request_resync(p) ==
    /\ pc = "loop" /\ events < MaxEvents
    /\ resync' = [resync EXCEPT ![p] = Len(store)]
    /\ reads' = merged_reads(position_reads, resync') /\ drifts' = drifts + 1
    /\ UNCHANGED <<world, notes, pc, store, last_block, asked, sweep, state_applied, missed, reader>>

ResyncProtocol ==
    /\ pc = "loop" /\ events < MaxEvents
    /\ \E order \in SetToSeqs(Pos \ ToSet(sweep)) : sweep' = sweep \o order
    /\ drifts' = drifts + 1
    /\ UNCHANGED <<world, notes, pc, store, last_block, asked, resync, state_applied, reads, missed, reader>>
-----------------------------------------------------------------------------
(* The reader thread. *)
LoadReads ==
    /\ rpc = "poll" /\ reads # {}
    /\ loaded' = reads /\ rpc' = "head"
    /\ UNCHANGED <<world, notes, hot, latest, last, last_reads, seq, at, todo, batch, fails, drifts>>

added_reads_none(before, now) == {}

added_reads(before, now) == now \ before

(* All reads at a new head; at an old one those the set gained since.  The *)
(* head may be unavailable.                                                *)
block_number ==
    /\ rpc = "head"
    /\ LET added == added_reads(last_reads, loaded)
       IN \/ /\ Len(chain) > last
             /\ rpc' = "read" /\ at' = Len(chain) /\ todo' = loaded /\ UNCHANGED last_reads
          \/ /\ Len(chain) <= last /\ last_reads' = loaded
             /\ IF added = {} THEN rpc' = "poll" /\ UNCHANGED <<at, todo>>
                ELSE rpc' = "read" /\ at' = last /\ todo' = added
          \/ rpc' = "poll" /\ UNCHANGED <<last_reads, at, todo>>
    /\ batch' = {}
    /\ UNCHANGED <<world, notes, hot, latest, loaded, last, seq, fails, drifts>>

(* One multicall of the batch, pinned to a block number; it can fail.  The *)
(* adapter-wide reads go first.                                            *)
run_stage(r) ==
    /\ rpc = "read" /\ r \in todo /\ (vault \in todo => r = vault)
    /\ todo' = todo \ {r}
    /\ \/ at <= Len(chain) /\ batch' = batch \cup {<<r, chain[at].id>>} /\ UNCHANGED fails
       \/ events < MaxEvents /\ fails' = fails + 1 /\ UNCHANGED batch
       \/ at > Len(chain) /\ UNCHANGED <<batch, fails>>
    /\ UNCHANGED <<world, notes, hot, latest, rpc, loaded, last, last_reads, seq, at, drifts>>

(* A second batch of a head carries the first one's answers too.           *)
publish ==
    /\ rpc = "read" /\ todo = {} /\ rpc' = "poll"
    /\ latest' = [block |-> at, seq |-> seq + 1,
                  answers |-> batch \cup IF at = last /\ latest.block = last THEN latest.answers ELSE {}]
    /\ seq' = seq + 1 /\ last' = at /\ last_reads' = loaded
    /\ UNCHANGED <<world, notes, hot, loaded, at, todo, batch, fails, drifts>>
-----------------------------------------------------------------------------
Reader == LoadReads \/ block_number \/ (\E r \in Pos \cup {vault} : run_stage(r)) \/ publish

Next ==
    \/ \E back, n \in 0 .. MaxSpan : NewChain(back, n)
    \/ Notified \/ advance_resync \/ fold_state
    \/ (\E p \in Pos : request_resync(p)) \/ ResyncProtocol
    \/ Reader

Spec == Init /\ [][Next]_vars
-----------------------------------------------------------------------------
(* Between two steps of the hot thread the published set is exactly what   *)
(* the adapters, the stale accounts and the open resyncs ask for, although *)
(* each of its four writers publishes only when it saw a change            *)
(* (drain.rs: publish_state_reads).                                        *)
PublishedIsCurrent ==
    pc = "loop" /\ last_block # 0 => reads = merged_reads(position_reads, resync)

(* The accounts asked for are exactly the stale ones, as long as each      *)
(* notification's after_block re-asked what it changed                     *)
(* (state_reads.rs: every position a block touched and every one its batch *)
(* changed; a full scan after a gap).                                      *)
ReadsCover ==
    pc = "loop" /\ position_reads_block = Len(store) /\ ~missed => position_reads = Tip.stale

(* The reader is always given exactly the reads that are wanted            *)
(* (drain.rs: refresh_state_reads, reask_positions, publish_state_reads).  *)
ReadSetExact == PublishedIsCurrent /\ ReadsCover

(* On a chain that only grows, every answer in a block's version was read  *)
(* at that block, however late the reader or the hot thread is             *)
(* (drain.rs: fold_state takes a batch of the tip only).                   *)
FoldedAtTip ==
    reorgs = 0 => \A i \in 1 .. Len(store) : store[i].from \subseteq {store[i].id}

(* When the threads have come to rest on the head and no read failed, no   *)
(* account is left stale: it settles in its block, not the next            *)
(* (state_reads.rs: the reader adds a head's new reads to its batch).      *)
AtRest ==
    /\ pc = "loop" /\ rpc = "poll" /\ notes = <<>>
    /\ last = Len(chain) /\ last_reads = reads /\ state_applied = seq

SettledAtRest ==
    AtRest /\ fails = 0 /\ reorgs = 0 /\ ~missed => Tip.stale = {}
=============================================================================
