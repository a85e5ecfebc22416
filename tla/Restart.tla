------------------------------ MODULE Restart ------------------------------
(* The bot's state on disk across restarts (liq-bot state_build.rs,         *)
(* lease.rs, startup.rs; liq-node backfill.rs; liq-reth forward.rs).        *)
(*                                                                          *)
(* A first start replays the node's receipts up to the finalized block and  *)
(* writes snapshot.bin and snapshot.head.  A running process folds what     *)
(* Reth delivers, and a writer thread replaces the two files now and then.  *)
(* Every later start loads the pair, checks it, and hands the head record   *)
(* to Reth, which delivers the blocks after it.                             *)
(*                                                                          *)
(* A block is a number, unique over the behaviour; a hash determines its    *)
(* ancestry, so the head record's hash is modelled by the path it ends.     *)
EXTENDS Naturals, Sequences, SequencesExt

CONSTANTS
  Binding,         \* fingerprints of the bound subscriptions
  UNDO_DEPTH,      \* blocks the store can unwind
  SNAPSHOT_EVERY,  \* BotConfig::snapshot_every_blocks
  Quiet,           \* blocks without any position in them
  None, Torn,      \* a missing file, a file with a torn tail
  MaxHeight, MaxBlocks, MaxCrashes, MaxRebinds  \* bounds of the instance

VARIABLES
  chain,     \* the node's canonical blocks, oldest first
  final,     \* how many of them are finalized
  blocks,    \* blocks mined so far, to name the next one
  proc,      \* "down", "boot", "build" or "run"
  bound,     \* bindings_fingerprint of the adapters this process bound
  store,     \* folded blocks, the bindings that folded them, the undo depth
  seen,      \* the path Reth has delivered to this process
  held,      \* SubmitLease::held
  last,      \* SnapshotWriter::last
  queue,     \* the one-place channel to the writer thread
  writer,    \* the write in progress: which file is next, and what is written
  snap,      \* snapshot.bin
  head,      \* snapshot.head
  unsynced,  \* snapshot.head is not yet on stable storage
  crashes, rebinds

disk   == <<snap, head, unsynced>>
node   == <<chain, final, blocks>>
inproc == <<store, seen, held, last, queue, writer>>
vars   == <<node, proc, bound, inproc, disk, crashes, rebinds>>

Block    == 1 .. MaxBlocks
Path     == UNION {[1 .. n -> Block] : n \in 0 .. MaxHeight}
SnapFile == [blocks : Path, bound : Binding]
HeadFile == [path : Path, bindings : Binding]
Job      == [snap : SnapFile, head : HeadFile]
Idle     == [next |-> "idle", job |-> None]

NoStore == [blocks |-> <<>>, bound |-> None, depth |-> 0]

TypeOK ==
  /\ chain \in Path /\ final \in 0 .. Len(chain) /\ blocks \in Nat
  /\ proc \in {"down", "boot", "build", "run"}
  /\ bound \in Binding \union {None}
  /\ store \in [blocks : Path, bound : Binding \union {None}, depth : 0 .. UNDO_DEPTH]
  /\ seen \in Path /\ held \in BOOLEAN /\ last \in 0 .. MaxHeight
  /\ queue \in Job \union {None}
  /\ writer \in [next : {"idle", "bin", "head"}, job : Job \union {None}]
  /\ snap \in SnapFile \union {None}
  /\ head \in HeadFile \union {None, Torn}
  /\ unsynced \in BOOLEAN /\ crashes \in 0 .. MaxCrashes /\ rebinds \in 0 .. MaxRebinds

Init ==
  /\ chain = <<1>> /\ final = 1 /\ blocks = 1
  /\ proc = "down" /\ bound = None
  /\ store = NoStore /\ seen = <<>> /\ held = FALSE /\ last = 0
  /\ queue = None /\ writer = Idle
  /\ snap = None /\ head = None /\ unsynced = FALSE
  /\ crashes = 0 /\ rebinds = 0

-----------------------------------------------------------------------------
(* The node. *)

Mine ==
  /\ blocks < MaxBlocks /\ Len(chain) < MaxHeight
  /\ blocks' = blocks + 1
  /\ chain' = Append(chain, blocks + 1)
  /\ UNCHANGED <<final, proc, bound, inproc, disk, crashes, rebinds>>

(* A reorg replaces the blocks above one that is at least finalized. *)
Reorg ==
  /\ blocks < MaxBlocks
  /\ \E n \in final .. Len(chain) - 1 :
       /\ blocks' = blocks + 1
       /\ chain' = Append(SubSeq(chain, 1, n), blocks + 1)
  /\ UNCHANGED <<final, proc, bound, inproc, disk, crashes, rebinds>>

Finalize ==
  /\ final < Len(chain)
  /\ final' = final + 1
  /\ UNCHANGED <<chain, blocks, proc, bound, inproc, disk, crashes, rebinds>>

-----------------------------------------------------------------------------
(* Writing the pair of files. *)

JobOf(st, path) == [snap |-> [blocks |-> st.blocks, bound |-> st.bound],
                    head |-> [path |-> path, bindings |-> st.bound]]

(* write_snapshot renames snapshot.bin into place, fsynced before ... *)
WriteBin ==
  /\ writer.next = "bin"
  /\ snap' = writer.job.snap
  /\ writer' = [writer EXCEPT !.next = "head"]
  /\ UNCHANGED <<node, proc, bound, store, seen, held, last, queue, head, unsynced, crashes, rebinds>>

(* ... and then snapshot.head, which is not.  The build's write ends it. *)
WriteHead ==
  /\ writer.next = "head"
  /\ head' = writer.job.head
  /\ unsynced' = TRUE
  /\ writer' = Idle
  /\ proc' = IF proc = "build" THEN "boot" ELSE proc
  /\ UNCHANGED <<node, bound, store, seen, held, last, queue, snap, crashes, rebinds>>

(* The operating system writes the head record out in its own time. *)
OsFlush ==
  /\ unsynced
  /\ unsynced' = FALSE
  /\ UNCHANGED <<node, proc, bound, inproc, snap, head, crashes, rebinds>>

(* The writer thread takes the queued job. *)
TakeJob ==
  /\ proc = "run" /\ writer = Idle /\ queue # None
  /\ writer' = [next |-> "bin", job |-> queue]
  /\ queue' = None
  /\ UNCHANGED <<node, proc, bound, store, seen, held, last, disk, crashes, rebinds>>

(* SnapshotWriter::after_block with the store at st, path its block: the    *)
(* queue and the last height afterwards.  A full channel skips the job and  *)
(* leaves `last`, so the next block tries again.                            *)
DueAlways(path)        == TRUE
Due(path)              == last = 0 \/ Len(path) >= last + SNAPSHOT_EVERY
Taken(path)            == Due(path) /\ queue = None
after_block(st, path)  == /\ queue' = IF Taken(path) THEN JobOf(st, path) ELSE queue
                          /\ last'  = IF Taken(path) THEN Len(path) ELSE last

-----------------------------------------------------------------------------
(* Starting. *)

(* A start binds the adapters; their contracts may have changed. *)
Start ==
  /\ proc = "down"
  /\ proc' = "boot"
  /\ \E b \in Binding :
       /\ bound' = b
       /\ \/ b = bound /\ rebinds' = rebinds
          \/ bound = None /\ rebinds' = rebinds
          \/ b # bound /\ rebinds < MaxRebinds /\ rebinds' = rebinds + 1
  /\ UNCHANGED <<node, inproc, disk, crashes>>

(* run_on_built_state, no head record: replay to the finalized block. *)
build_first_snapshot ==
  /\ proc = "boot" /\ head = None
  /\ proc' = "build"
  /\ writer' = [next |-> "bin",
                job  |-> JobOf([blocks |-> SubSeq(chain, 1, final), bound |-> bound],
                               SubSeq(chain, 1, final))]
  /\ UNCHANGED <<node, bound, store, seen, held, last, queue, disk, crashes, rebinds>>

(* StaleSnapshot: the head was written under other bindings; discard it.    *)
DiscardKeepsHead ==
  /\ proc = "boot" /\ head \in HeadFile /\ head.bindings # bound
  /\ proc' = "down"
  /\ UNCHANGED <<node, bound, inproc, disk, crashes, rebinds>>
discard_head ==
  /\ proc = "boot" /\ head \in HeadFile /\ head.bindings # bound
  /\ head' = None /\ unsynced' = FALSE
  /\ UNCHANGED <<node, proc, bound, inproc, snap, crashes, rebinds>>

IsEmpty(blks) == \A i \in 1 .. Len(blks) : blks[i] \in Quiet

(* lease::acquire: the restored store must be at the head record's number,  *)
(* unless it holds no position.                                             *)
HeadProbe == IsEmpty(snap.blocks) \/ Len(snap.blocks) = Len(head.path)

AcquireAnyBindings ==
  /\ proc = "boot" /\ head \in HeadFile /\ snap # None /\ HeadProbe
  /\ proc' = "run"
  /\ store' = [blocks |-> snap.blocks, bound |-> snap.bound, depth |-> 0]
  /\ seen' = head.path
  /\ held' = FALSE /\ last' = 0
  /\ UNCHANGED <<node, bound, queue, writer, disk, crashes, rebinds>>
acquire ==
  /\ proc = "boot" /\ head \in HeadFile /\ head.bindings = bound
  /\ snap # None /\ HeadProbe
  /\ proc' = "run"
  /\ store' = [blocks |-> snap.blocks, bound |-> snap.bound, depth |-> 0]
  /\ seen' = head.path
  /\ held' = FALSE /\ last' = 0
  /\ UNCHANGED <<node, bound, queue, writer, disk, crashes, rebinds>>

Exit == /\ proc' = "down"
        /\ store' = NoStore /\ seen' = <<>> /\ held' = FALSE /\ last' = 0
        /\ queue' = None /\ writer' = Idle

(* A torn head record, or a snapshot that is not the head's: the start      *)
(* fails, and nothing on disk has changed for the next one.                 *)
Refused ==
  /\ proc = "boot"
  /\ \/ head = Torn
     \/ head \in HeadFile /\ head.bindings = bound /\ (snap = None \/ ~HeadProbe)
  /\ Exit
  /\ UNCHANGED <<node, bound, disk, crashes, rebinds>>

-----------------------------------------------------------------------------
(* Running: liquidator_exex and the hot thread behind it. *)

(* ChainCommitted: the block after the delivered path.  The fold refuses a  *)
(* block that is not the store's next, and the process ends.                *)
Committed ==
  /\ proc = "run" /\ IsPrefix(seen, chain) /\ Len(seen) < Len(chain)
  /\ LET n    == Len(seen) + 1
         path == SubSeq(chain, 1, n)
         st   == [blocks |-> Append(store.blocks, chain[n]), bound |-> store.bound,
                  depth  |-> IF store.depth < UNDO_DEPTH THEN store.depth + 1 ELSE UNDO_DEPTH]
     IN  IF Len(store.blocks) + 1 # n THEN Exit
         ELSE /\ store' = st /\ seen' = path
              /\ after_block(st, path)
              /\ held' \in {held, held \/ n >= Len(chain)}
              /\ UNCHANGED <<proc, writer>>
  /\ UNCHANGED <<node, bound, disk, crashes, rebinds>>

(* ChainReverted: back to the last common block.  Deeper than the undo ring *)
(* is refused, and the process ends.                                        *)
Reverted ==
  /\ proc = "run" /\ ~IsPrefix(seen, chain)
  /\ LET keep == CHOOSE n \in 0 .. Len(seen) :
                   /\ IsPrefix(SubSeq(seen, 1, n), chain)
                   /\ ~IsPrefix(SubSeq(seen, 1, n + 1), chain)
         gone == Len(store.blocks) - keep
     IN  IF Len(store.blocks) < keep \/ gone > store.depth THEN Exit
         ELSE /\ store' = [store EXCEPT !.blocks = SubSeq(store.blocks, 1, keep),
                                        !.depth  = @ - gone]
              /\ seen' = SubSeq(seen, 1, keep)
              /\ UNCHANGED <<proc, held, last, queue, writer>>
  /\ UNCHANGED <<node, bound, disk, crashes, rebinds>>

(* The process dies anywhere, a start that could not reach its RPC or bind  *)
(* an adapter included.  Losing power may tear a head record that was       *)
(* renamed but never synced.                                                *)
Crash ==
  /\ proc # "down" /\ crashes < MaxCrashes
  /\ crashes' = crashes + 1
  /\ Exit
  /\ \/ UNCHANGED disk
     \/ unsynced /\ head' = Torn /\ unsynced' = FALSE /\ UNCHANGED snap
  /\ UNCHANGED <<node, bound, rebinds>>

Next ==
  \/ Mine \/ Reorg \/ Finalize
  \/ WriteBin \/ WriteHead \/ OsFlush \/ TakeJob
  \/ Start \/ build_first_snapshot \/ discard_head \/ acquire \/ Refused
  \/ Committed \/ Reverted \/ Crash

Spec == Init /\ [][Next]_vars

(* The supervisor restarts the process; threads and the node's stream run. *)
Fairness ==
  /\ WF_vars(Start) /\ WF_vars(build_first_snapshot) /\ WF_vars(discard_head)
  /\ WF_vars(acquire) /\ WF_vars(Refused)
  /\ WF_vars(WriteBin) /\ WF_vars(WriteHead) /\ WF_vars(TakeJob)
  /\ WF_vars(Committed) /\ WF_vars(Reverted)

FairSpec == Spec /\ Fairness

-----------------------------------------------------------------------------
(* Live sending starts only on a store that folded exactly the path Reth    *)
(* delivered, once each, under the bindings of this process: neither a      *)
(* mismatched pair of files nor a reorg during the downtime gets past the   *)
(* head probe, the strict fold and the undo depth (lease.rs, forward.rs).   *)
HeldIsFaithful ==
  held => store.blocks = seen /\ store.bound = bound

(* While the adapters' bindings stand, a restart never resumes from an      *)
(* older block than the one before it: a head record is replaced only by    *)
(* one of a greater height (SnapshotWriter::after_block's spacing).         *)
HeadStep ==
  (head \in HeadFile /\ head' \in HeadFile /\ head' # head) => Len(head'.path) > Len(head.path)
HeadAdvances == [][HeadStep]_vars

(* The pair is usable: one write made both files, under these bindings, of  *)
(* a block still on the chain - or there is no head, and a build follows.   *)
Usable ==
  \/ head = None
  \/ head \in HeadFile /\ head.bindings # bound
  \/ /\ head \in HeadFile /\ snap # None
     /\ snap.blocks = head.path /\ IsPrefix(head.path, chain)

CaughtUp == proc = "run" /\ store.blocks = chain /\ seen = chain

(* A start on a usable pair of files ends up at the node's head, unless the *)
(* pair stops being usable on the way (run_on_built_state, liquidator_exex).*)
UsableDown    == proc = "down" /\ Usable
UsableResumes == UsableDown ~> (CaughtUp \/ ~Usable)

(* state_build.rs: "Any start: the snapshot's block is handed to Reth as    *)
(* the ExEx head; Reth re-executes the blocks after it and delivers them    *)
(* before live ones."                                                       *)
AnyStartResumes == (proc = "down") ~> CaughtUp
=============================================================================
