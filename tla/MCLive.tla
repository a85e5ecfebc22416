------------------------------- MODULE MCLive -------------------------------
(* The components with a liveness property, each over an instance of    *)
(* its own.                                                             *)
EXTENDS Integers, FiniteSets, TLC

CONSTANTS
  Unattested, CMD_CAP, OUT_CAP, backrun, WatchFaults, Binding, UNDO_DEPTH,
  SNAPSHOT_EVERY, Quiet, None, Torn, MaxHeight, MaxBlocks, MaxRebinds,
  RestartCrashes, idle

VARIABLES
  head, reorgs, fails, landed, rival, job, cmds, map, pc, cursor, unread,
  obs, rows, outcomes, ledger, terminal, seen_from, chain, final, blocks,
  proc, bound, store, seen, held, last, queue, writer, snap, unsynced,
  crashes, rebinds, part

vars == <<head, reorgs, fails, landed, rival, job, cmds, map, pc, cursor,
          unread, obs, rows, outcomes, ledger, terminal, seen_from, chain,
          final, blocks, proc, bound, store, seen, held, last, queue,
          writer, snap, unsynced, crashes, rebinds, part>>

Watch == INSTANCE InclusionWatch WITH
    Trace <- {backrun}, MinBlock <- (backrun :> 2),
    MaxBlock <- (backrun :> 3), MaxHead <- 4, MaxFaults <- WatchFaults
Restart == INSTANCE Restart WITH
    MaxCrashes <- RestartCrashes

(* A behaviour exercises one part; the variables of the others are      *)
(* idle.                                                                *)
OthersWatch == <<chain, final, blocks, proc, bound, store, seen, held, last, queue,
    writer, snap, unsynced, crashes, rebinds>>
OthersRestart == <<reorgs, fails, landed, rival, job, cmds, map, pc, cursor, unread, obs,
    rows, outcomes, ledger, terminal, seen_from>>

Init ==
  \/ /\ part = "Watch" /\ Watch!Init
     /\ chain = idle /\ final = idle /\ blocks = idle /\ proc = idle
     /\ bound = idle /\ store = idle /\ seen = idle /\ held = idle
     /\ last = idle /\ queue = idle /\ writer = idle /\ snap = idle
     /\ unsynced = idle /\ crashes = idle /\ rebinds = idle
  \/ /\ part = "Restart" /\ Restart!Init
     /\ reorgs = idle /\ fails = idle /\ landed = idle /\ rival = idle
     /\ job = idle /\ cmds = idle /\ map = idle /\ pc = idle
     /\ cursor = idle /\ unread = idle /\ obs = idle /\ rows = idle
     /\ outcomes = idle /\ ledger = idle /\ terminal = idle /\ seen_from = idle

StepWatch == part = "Watch" /\ Watch!Next /\ UNCHANGED <<OthersWatch, part>>
StepRestart == part = "Restart" /\ Restart!Next /\ UNCHANGED <<OthersRestart, part>>

Next == StepWatch \/ StepRestart

Spec == /\ Init /\ [][Next]_vars
        /\ WF_vars(part = "Watch" /\ Watch!NewBlock /\ UNCHANGED <<OthersWatch, part>>)
        /\ WF_vars(part = "Watch" /\ Watch!Watcher /\ UNCHANGED <<OthersWatch, part>>)
        /\ WF_vars(part = "Watch" /\ Watch!log_outcomes /\ UNCHANGED <<OthersWatch, part>>)
        /\ WF_vars(part = "Restart" /\ Restart!Start /\ UNCHANGED <<OthersRestart, part>>)
        /\ WF_vars(part = "Restart" /\ Restart!build_first_snapshot /\ UNCHANGED <<OthersRestart, part>>)
        /\ WF_vars(part = "Restart" /\ Restart!discard_head /\ UNCHANGED <<OthersRestart, part>>)
        /\ WF_vars(part = "Restart" /\ Restart!acquire /\ UNCHANGED <<OthersRestart, part>>)
        /\ WF_vars(part = "Restart" /\ Restart!Refused /\ UNCHANGED <<OthersRestart, part>>)
        /\ WF_vars(part = "Restart" /\ Restart!WriteBin /\ UNCHANGED <<OthersRestart, part>>)
        /\ WF_vars(part = "Restart" /\ Restart!WriteHead /\ UNCHANGED <<OthersRestart, part>>)
        /\ WF_vars(part = "Restart" /\ Restart!TakeJob /\ UNCHANGED <<OthersRestart, part>>)
        /\ WF_vars(part = "Restart" /\ Restart!Committed /\ UNCHANGED <<OthersRestart, part>>)
        /\ WF_vars(part = "Restart" /\ Restart!Reverted /\ UNCHANGED <<OthersRestart, part>>)

-----------------------------------------------------------------------------
(* On a growing chain no rival's liquidation inside a trace's window is *)
(* skipped, failed reads included (inclusion_feed.rs poll_async).       *)
RivalNotMissed == part = "Watch" => Watch!RivalNotMissed

(* Live sending starts only on a store that folded exactly the          *)
(* delivered path under this process's bindings (lease.rs acquire,      *)
(* forward.rs).                                                         *)
HeldIsFaithful == part = "Restart" => Restart!HeldIsFaithful

(* Once its window has passed a tracked trace leaves the map, unless a  *)
(* success without an attested profit is on the chain (inclusion.rs     *)
(* observe).                                                            *)
TrackedResolves == part = "Watch" /\ Watch!Overdue(backrun) ~> part # "Watch" \/ Watch!Resolves(backrun)

(* While the bindings stand, a head record is replaced only by one of a *)
(* greater height (SnapshotWriter::after_block).                        *)
HeadAdvances == [][part = "Restart" => Restart!HeadStep]_vars

(* A start on a usable pair of files ends up at the node's head, unless *)
(* the pair stops being usable on the way (startup.rs                   *)
(* run_on_built_state).                                                 *)
UsableResumes == part = "Restart" /\ Restart!UsableDown ~> part # "Restart" \/ Restart!CaughtUp \/ ~Restart!Usable
=============================================================================
