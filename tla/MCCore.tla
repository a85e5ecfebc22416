------------------------------- MODULE MCCore -------------------------------
(* The project's small components, each over an instance of its own:    *)
(* one run of TLC explores them all.                                    *)
EXTENDS Integers, FiniteSets, TLC

CONSTANTS
  Protocol, Market, Flash, Key, SimChainThreshold, CallbackThreshold,
  GAsset, Unattested, CMD_CAP, OUT_CAP, MaxHead, MaxFaults, direct, backrun,
  BPos, NO_SLOT, NoBand, TPrice, MERGE_DIV, merge_min, MaxGen, MaxEntries,
  TAsset, TPos, HPos, Time, NONE, SLACK, MaxHGen, QPos, Follows, Canonical,
  Predicted, Value, NoCand, Capacity, MaxSeq, Pos, APrice, BPrice, Coll,
  Params, Closed, Rates, CORRELATED_ASSETS, HOT_BELOW, WARM_BELOW,
  COOL_BELOW, MARGIN, MaxBlock, MaxBorn, MaxChanges, MaxPending, BOUND,
  UNDO_DEPTH, MaxOps, MaxCrashes, idle

VARIABLES
  global, halted, keys, action_required, sim_streak, callback_streak, world,
  head, reorgs, fails, landed, rival, job, cmds, map, pc, cursor, unread,
  obs, rows, outcomes, ledger, terminal, seen_from, band, slot, sets, base,
  delta, sorted, gen, live, heap, hgen, at, sched, fired, due, slots, free,
  ranks, seq, pushed, out, eng, book, opx, moves, owns, lt, rate, tip,
  flash, routes, seen, did, changes, db, chan, frames, synced, file, marker,
  atEnd, down, past, crashes, part

vars == <<global, halted, keys, action_required, sim_streak,
          callback_streak, world, head, reorgs, fails, landed, rival, job,
          cmds, map, pc, cursor, unread, obs, rows, outcomes, ledger,
          terminal, seen_from, band, slot, sets, base, delta, sorted, gen,
          live, heap, hgen, at, sched, fired, due, slots, free, ranks, seq,
          pushed, out, eng, book, opx, moves, owns, lt, rate, tip, flash,
          routes, seen, did, changes, db, chan, frames, synced, file,
          marker, atEnd, down, past, crashes, part>>

Gate == INSTANCE RiskGate WITH
    Asset <- GAsset
Watch == INSTANCE InclusionWatch WITH
    Trace <- {direct, backrun}, MinBlock <- (direct :> 2 @@ backrun :> 2),
    MaxBlock <- (direct :> 2 @@ backrun :> 2)
Band == INSTANCE BandManager
Index == INSTANCE ThresholdIndex WITH
    Asset <- TAsset, Pos <- TPos
Heap == INSTANCE TimeCrossHeap
Queue == INSTANCE CandidateQueue
Eng == INSTANCE Engine
Wal == INSTANCE WalLog

(* A behaviour exercises one part; the variables of the others are      *)
(* idle.                                                                *)
OthersGate == <<head, reorgs, fails, landed, rival, job, cmds, map, pc, cursor, unread,
    obs, rows, outcomes, ledger, terminal, seen_from, band, slot, sets,
    base, delta, sorted, gen, live, heap, hgen, at, sched, fired, due,
    slots, free, ranks, seq, pushed, out, eng, book, opx, moves, owns, lt,
    rate, tip, flash, routes, seen, did, changes, db, chan, frames, synced,
    file, marker, atEnd, down, past, crashes>>
OthersWatch == <<global, halted, keys, action_required, sim_streak, callback_streak,
    world, band, slot, sets, base, delta, sorted, gen, live, heap, hgen, at,
    sched, fired, due, slots, free, ranks, seq, pushed, out, eng, book, opx,
    moves, owns, lt, rate, tip, flash, routes, seen, did, changes, db, chan,
    frames, synced, file, marker, atEnd, down, past, crashes>>
OthersBand == <<global, halted, keys, action_required, sim_streak, callback_streak,
    world, head, reorgs, fails, landed, rival, job, cmds, map, pc, cursor,
    unread, obs, rows, outcomes, ledger, terminal, seen_from, base, delta,
    sorted, gen, live, heap, hgen, at, sched, fired, due, slots, free,
    ranks, seq, pushed, out, eng, book, opx, moves, owns, lt, rate, tip,
    flash, routes, seen, did, changes, db, chan, frames, synced, file,
    marker, atEnd, down, past, crashes>>
OthersIndex == <<global, halted, keys, action_required, sim_streak, callback_streak,
    world, head, reorgs, fails, landed, rival, job, cmds, map, pc, cursor,
    unread, obs, rows, outcomes, ledger, terminal, seen_from, band, slot,
    sets, heap, hgen, at, sched, fired, due, slots, free, ranks, seq,
    pushed, out, eng, book, opx, moves, owns, lt, rate, tip, flash, routes,
    seen, did, changes, db, chan, frames, synced, file, marker, atEnd, down,
    past, crashes>>
OthersHeap == <<global, halted, keys, action_required, sim_streak, callback_streak,
    world, head, reorgs, fails, landed, rival, job, cmds, map, pc, cursor,
    unread, obs, rows, outcomes, ledger, terminal, seen_from, band, slot,
    sets, base, delta, sorted, gen, live, slots, free, ranks, seq, pushed,
    out, eng, book, opx, moves, owns, lt, rate, tip, flash, routes, seen,
    did, changes, db, chan, frames, synced, file, marker, atEnd, down, past,
    crashes>>
OthersQueue == <<global, halted, keys, action_required, sim_streak, callback_streak,
    world, head, reorgs, fails, landed, rival, job, cmds, map, pc, cursor,
    unread, obs, rows, outcomes, ledger, terminal, seen_from, band, slot,
    sets, base, delta, sorted, gen, live, heap, hgen, at, sched, fired, due,
    eng, book, opx, moves, owns, lt, rate, tip, flash, routes, seen, did,
    changes, db, chan, frames, synced, file, marker, atEnd, down, past,
    crashes>>
OthersEng == <<global, halted, keys, action_required, sim_streak, callback_streak,
    world, head, reorgs, fails, landed, rival, job, cmds, map, pc, cursor,
    unread, obs, rows, outcomes, ledger, terminal, seen_from, band, slot,
    sets, base, delta, sorted, gen, live, heap, hgen, at, sched, fired, due,
    slots, free, ranks, seq, pushed, out, db, chan, frames, synced, file,
    marker, atEnd, down, past, crashes>>
OthersWal == <<global, halted, keys, action_required, sim_streak, callback_streak,
    world, head, reorgs, fails, landed, rival, job, cmds, map, pc, cursor,
    unread, obs, rows, outcomes, ledger, terminal, seen_from, band, slot,
    sets, base, delta, sorted, gen, live, heap, hgen, at, sched, fired, due,
    slots, free, ranks, seq, pushed, out, eng, book, opx, moves, owns, lt,
    rate, tip, flash, routes, seen, did, changes>>

Init ==
  \/ /\ part = "Gate" /\ Gate!Init
     /\ head = idle /\ reorgs = idle /\ fails = idle /\ landed = idle
     /\ rival = idle /\ job = idle /\ cmds = idle /\ map = idle
     /\ pc = idle /\ cursor = idle /\ unread = idle /\ obs = idle
     /\ rows = idle /\ outcomes = idle /\ ledger = idle /\ terminal = idle
     /\ seen_from = idle /\ band = idle /\ slot = idle /\ sets = idle
     /\ base = idle /\ delta = idle /\ sorted = idle /\ gen = idle
     /\ live = idle /\ heap = idle /\ hgen = idle /\ at = idle
     /\ sched = idle /\ fired = idle /\ due = idle /\ slots = idle
     /\ free = idle /\ ranks = idle /\ seq = idle /\ pushed = idle
     /\ out = idle /\ eng = idle /\ book = idle /\ opx = idle
     /\ moves = idle /\ owns = idle /\ lt = idle /\ rate = idle
     /\ tip = idle /\ flash = idle /\ routes = idle /\ seen = idle
     /\ did = idle /\ changes = idle /\ db = idle /\ chan = idle
     /\ frames = idle /\ synced = idle /\ file = idle /\ marker = idle
     /\ atEnd = idle /\ down = idle /\ past = idle /\ crashes = idle
  \/ /\ part = "Watch" /\ Watch!Init
     /\ global = idle /\ halted = idle /\ keys = idle /\ action_required = idle
     /\ sim_streak = idle /\ callback_streak = idle /\ world = idle /\ band = idle
     /\ slot = idle /\ sets = idle /\ base = idle /\ delta = idle
     /\ sorted = idle /\ gen = idle /\ live = idle /\ heap = idle
     /\ hgen = idle /\ at = idle /\ sched = idle /\ fired = idle
     /\ due = idle /\ slots = idle /\ free = idle /\ ranks = idle
     /\ seq = idle /\ pushed = idle /\ out = idle /\ eng = idle
     /\ book = idle /\ opx = idle /\ moves = idle /\ owns = idle
     /\ lt = idle /\ rate = idle /\ tip = idle /\ flash = idle
     /\ routes = idle /\ seen = idle /\ did = idle /\ changes = idle
     /\ db = idle /\ chan = idle /\ frames = idle /\ synced = idle
     /\ file = idle /\ marker = idle /\ atEnd = idle /\ down = idle
     /\ past = idle /\ crashes = idle
  \/ /\ part = "Band" /\ Band!Init
     /\ global = idle /\ halted = idle /\ keys = idle /\ action_required = idle
     /\ sim_streak = idle /\ callback_streak = idle /\ world = idle /\ head = idle
     /\ reorgs = idle /\ fails = idle /\ landed = idle /\ rival = idle
     /\ job = idle /\ cmds = idle /\ map = idle /\ pc = idle
     /\ cursor = idle /\ unread = idle /\ obs = idle /\ rows = idle
     /\ outcomes = idle /\ ledger = idle /\ terminal = idle /\ seen_from = idle
     /\ base = idle /\ delta = idle /\ sorted = idle /\ gen = idle
     /\ live = idle /\ heap = idle /\ hgen = idle /\ at = idle
     /\ sched = idle /\ fired = idle /\ due = idle /\ slots = idle
     /\ free = idle /\ ranks = idle /\ seq = idle /\ pushed = idle
     /\ out = idle /\ eng = idle /\ book = idle /\ opx = idle
     /\ moves = idle /\ owns = idle /\ lt = idle /\ rate = idle
     /\ tip = idle /\ flash = idle /\ routes = idle /\ seen = idle
     /\ did = idle /\ changes = idle /\ db = idle /\ chan = idle
     /\ frames = idle /\ synced = idle /\ file = idle /\ marker = idle
     /\ atEnd = idle /\ down = idle /\ past = idle /\ crashes = idle
  \/ /\ part = "Index" /\ Index!Init
     /\ global = idle /\ halted = idle /\ keys = idle /\ action_required = idle
     /\ sim_streak = idle /\ callback_streak = idle /\ world = idle /\ head = idle
     /\ reorgs = idle /\ fails = idle /\ landed = idle /\ rival = idle
     /\ job = idle /\ cmds = idle /\ map = idle /\ pc = idle
     /\ cursor = idle /\ unread = idle /\ obs = idle /\ rows = idle
     /\ outcomes = idle /\ ledger = idle /\ terminal = idle /\ seen_from = idle
     /\ band = idle /\ slot = idle /\ sets = idle /\ heap = idle
     /\ hgen = idle /\ at = idle /\ sched = idle /\ fired = idle
     /\ due = idle /\ slots = idle /\ free = idle /\ ranks = idle
     /\ seq = idle /\ pushed = idle /\ out = idle /\ eng = idle
     /\ book = idle /\ opx = idle /\ moves = idle /\ owns = idle
     /\ lt = idle /\ rate = idle /\ tip = idle /\ flash = idle
     /\ routes = idle /\ seen = idle /\ did = idle /\ changes = idle
     /\ db = idle /\ chan = idle /\ frames = idle /\ synced = idle
     /\ file = idle /\ marker = idle /\ atEnd = idle /\ down = idle
     /\ past = idle /\ crashes = idle
  \/ /\ part = "Heap" /\ Heap!Init
     /\ global = idle /\ halted = idle /\ keys = idle /\ action_required = idle
     /\ sim_streak = idle /\ callback_streak = idle /\ world = idle /\ head = idle
     /\ reorgs = idle /\ fails = idle /\ landed = idle /\ rival = idle
     /\ job = idle /\ cmds = idle /\ map = idle /\ pc = idle
     /\ cursor = idle /\ unread = idle /\ obs = idle /\ rows = idle
     /\ outcomes = idle /\ ledger = idle /\ terminal = idle /\ seen_from = idle
     /\ band = idle /\ slot = idle /\ sets = idle /\ base = idle
     /\ delta = idle /\ sorted = idle /\ gen = idle /\ live = idle
     /\ slots = idle /\ free = idle /\ ranks = idle /\ seq = idle
     /\ pushed = idle /\ out = idle /\ eng = idle /\ book = idle
     /\ opx = idle /\ moves = idle /\ owns = idle /\ lt = idle
     /\ rate = idle /\ tip = idle /\ flash = idle /\ routes = idle
     /\ seen = idle /\ did = idle /\ changes = idle /\ db = idle
     /\ chan = idle /\ frames = idle /\ synced = idle /\ file = idle
     /\ marker = idle /\ atEnd = idle /\ down = idle /\ past = idle
     /\ crashes = idle
  \/ /\ part = "Queue" /\ Queue!Init
     /\ global = idle /\ halted = idle /\ keys = idle /\ action_required = idle
     /\ sim_streak = idle /\ callback_streak = idle /\ world = idle /\ head = idle
     /\ reorgs = idle /\ fails = idle /\ landed = idle /\ rival = idle
     /\ job = idle /\ cmds = idle /\ map = idle /\ pc = idle
     /\ cursor = idle /\ unread = idle /\ obs = idle /\ rows = idle
     /\ outcomes = idle /\ ledger = idle /\ terminal = idle /\ seen_from = idle
     /\ band = idle /\ slot = idle /\ sets = idle /\ base = idle
     /\ delta = idle /\ sorted = idle /\ gen = idle /\ live = idle
     /\ heap = idle /\ hgen = idle /\ at = idle /\ sched = idle
     /\ fired = idle /\ due = idle /\ eng = idle /\ book = idle
     /\ opx = idle /\ moves = idle /\ owns = idle /\ lt = idle
     /\ rate = idle /\ tip = idle /\ flash = idle /\ routes = idle
     /\ seen = idle /\ did = idle /\ changes = idle /\ db = idle
     /\ chan = idle /\ frames = idle /\ synced = idle /\ file = idle
     /\ marker = idle /\ atEnd = idle /\ down = idle /\ past = idle
     /\ crashes = idle
  \/ /\ part = "Eng" /\ Eng!Init
     /\ global = idle /\ halted = idle /\ keys = idle /\ action_required = idle
     /\ sim_streak = idle /\ callback_streak = idle /\ world = idle /\ head = idle
     /\ reorgs = idle /\ fails = idle /\ landed = idle /\ rival = idle
     /\ job = idle /\ cmds = idle /\ map = idle /\ pc = idle
     /\ cursor = idle /\ unread = idle /\ obs = idle /\ rows = idle
     /\ outcomes = idle /\ ledger = idle /\ terminal = idle /\ seen_from = idle
     /\ band = idle /\ slot = idle /\ sets = idle /\ base = idle
     /\ delta = idle /\ sorted = idle /\ gen = idle /\ live = idle
     /\ heap = idle /\ hgen = idle /\ at = idle /\ sched = idle
     /\ fired = idle /\ due = idle /\ slots = idle /\ free = idle
     /\ ranks = idle /\ seq = idle /\ pushed = idle /\ out = idle
     /\ db = idle /\ chan = idle /\ frames = idle /\ synced = idle
     /\ file = idle /\ marker = idle /\ atEnd = idle /\ down = idle
     /\ past = idle /\ crashes = idle
  \/ /\ part = "Wal" /\ Wal!Init
     /\ global = idle /\ halted = idle /\ keys = idle /\ action_required = idle
     /\ sim_streak = idle /\ callback_streak = idle /\ world = idle /\ head = idle
     /\ reorgs = idle /\ fails = idle /\ landed = idle /\ rival = idle
     /\ job = idle /\ cmds = idle /\ map = idle /\ pc = idle
     /\ cursor = idle /\ unread = idle /\ obs = idle /\ rows = idle
     /\ outcomes = idle /\ ledger = idle /\ terminal = idle /\ seen_from = idle
     /\ band = idle /\ slot = idle /\ sets = idle /\ base = idle
     /\ delta = idle /\ sorted = idle /\ gen = idle /\ live = idle
     /\ heap = idle /\ hgen = idle /\ at = idle /\ sched = idle
     /\ fired = idle /\ due = idle /\ slots = idle /\ free = idle
     /\ ranks = idle /\ seq = idle /\ pushed = idle /\ out = idle
     /\ eng = idle /\ book = idle /\ opx = idle /\ moves = idle
     /\ owns = idle /\ lt = idle /\ rate = idle /\ tip = idle
     /\ flash = idle /\ routes = idle /\ seen = idle /\ did = idle
     /\ changes = idle

StepGate == part = "Gate" /\ Gate!Next /\ UNCHANGED <<OthersGate, part>>
StepWatch == part = "Watch" /\ Watch!Next /\ UNCHANGED <<OthersWatch, part>>
StepBand == part = "Band" /\ Band!Next /\ UNCHANGED <<OthersBand, part>>
StepIndex == part = "Index" /\ Index!Next /\ UNCHANGED <<OthersIndex, part>>
StepHeap == part = "Heap" /\ Heap!Next /\ UNCHANGED <<OthersHeap, part>>
StepQueue == part = "Queue" /\ Queue!Next /\ UNCHANGED <<OthersQueue, part>>
StepEng == part = "Eng" /\ Eng!Next /\ UNCHANGED <<OthersEng, part>>
StepWal == part = "Wal" /\ Wal!Next /\ UNCHANGED <<OthersWal, part>>

Next ==
  \/ StepGate
  \/ StepWatch
  \/ StepBand
  \/ StepIndex
  \/ StepHeap
  \/ StepQueue
  \/ StepEng
  \/ StepWal

Spec == Init /\ [][Next]_vars

Bounded ==
  /\ part = "Gate" => Cardinality(world) <= 2

-----------------------------------------------------------------------------
(* What the gate holds is what is wrong: no bit, halt or Class B line   *)
(* more or less than the conditions in force (gate.rs apply_halt,       *)
(* remove, clear_after_ship).                                           *)
GateExact == part = "Gate" => Gate!GateExact

(* No job that touches a halted scope, or any job under a Global        *)
(* condition, is allowed (gate.rs allow).                               *)
AllowFailsClosed == part = "Gate" => Gate!AllowFailsClosed

(* Each component's variables keep their shape, its bounded channels    *)
(* and counters their limits.                                           *)
TypesOK ==
  /\ part = "Gate" => Gate!TypeOK
  /\ part = "Watch" => Watch!TypeOK

(* With two traces tracked each is recorded once, as what it became,    *)
(* through withheld receipts and blocks mined during a poll             *)
(* (inclusion.rs observe, ledger.rs insert_outcome).                    *)
OutcomesExact == part = "Watch" => Watch!OutcomesExact

(* The engine's tables answer exactly: a band's list holds its members  *)
(* once (band.rs set), a price move finds the thresholds in force that  *)
(* it crosses in whichever tier they lie (threshold.rs crossed, merge), *)
(* and the time heap fires what is scheduled and nothing superseded,    *)
(* within its size (heap.rs crossed, compact).                          *)
TablesExact ==
  /\ part = "Band" => Band!ListsExact
  /\ part = "Index" => Index!CrossedExact /\ Index!RegisteredExact
  /\ part = "Heap" => Heap!FiresExactly /\ Heap!HeapBounded

(* The candidate queue holds the best of what was offered, yields each  *)
(* job once, and loses no slot (candidate.rs push, drain).              *)
QueueExact == part = "Queue" => Queue!QueueExact

(* A fundable position that one changed input made liquidatable has     *)
(* been found by the end of the block (engine.rs, feed_engine).         *)
CrossingFound == part = "Eng" => Eng!CrossingFound

(* A hint's price finds what it would make liquidatable, and leaves no  *)
(* trace once its block has come without it (engine.rs announce,        *)
(* on_block).                                                           *)
AnnouncedExact == part = "Eng" => Eng!AnnouncedExact

(* A position without a closed form is folded every block, and an       *)
(* unfundable one again once it can be funded (engine.rs fold, drain.rs *)
(* feed_engine).                                                        *)
NoneForgotten == part = "Eng" => Eng!NoneForgotten

(* With the snapshot's marker in the log, recovery gives the store as   *)
(* it was at the last frame that survived, and is refused only for a    *)
(* corrupt frame inside the log or a reorg below the snapshot (wal.rs   *)
(* recover, replay_into).                                               *)
RecoveryExact == part = "Wal" => Wal!RecoveryExact
=============================================================================
