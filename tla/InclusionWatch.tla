-------------------------- MODULE InclusionWatch ----------------------------
(***************************************************************************)
(* The inclusion watcher: one thread owns the map of tracked submissions   *)
(* (liq-exec/inclusion.rs), takes Track commands from the exec path, polls *)
(* the node for the head, the receipts of what it tracks and the           *)
(* liquidation logs of the new blocks (liq-bot/inclusion_feed.rs), and     *)
(* sends each trace's terminal state to the ledger thread.                 *)
(*                                                                         *)
(* Every trace is about a position of its own.  A receipt is a success     *)
(* with an attested profit (ok), without one (unattested) or a revert; a   *)
(* rival's liquidation is known by the block it is in.  The node may fail  *)
(* any read.                                                               *)
(***************************************************************************)
EXTENDS Naturals, Sequences

CONSTANTS Trace,
          MinBlock, MaxBlock, \* trace -> first and last block it may land in
          Unattested,         \* can a success carry no attested profit
          CMD_CAP, OUT_CAP,   \* capacities of the two channels
          MaxHead,            \* bound: highest block number
          MaxFaults           \* bound: blocks taken back plus reads that fail

VARIABLES
    head, reorgs, fails,
    landed,     \* trace -> [block, status]; block 0: not on the chain
    rival,      \* trace -> block of a competitor's liquidation; 0: none
    job,        \* trace -> "new", "posted" (a venue holds it), "tracked" (sent or lost)
    cmds,       \* exec -> watcher
    map,        \* traces the watcher tracks
    pc,         \* where the watcher is
    cursor,     \* next block to read; 0: not started
    unread,     \* traces whose receipt this poll has not read
    obs,        \* BlockObs under construction
    rows,       \* resolved traces not emitted yet: <<trace, terminal>>
    outcomes,   \* watcher -> ledger thread
    ledger,     \* rows <<trace, terminal>>
    terminal,   \* history: trace -> terminal state it left the map with
    seen_from   \* history: trace -> first block read after it was tracked

world == <<head, reorgs, landed, rival>>
feed == <<pc, cursor, unread, obs, rows>>
vars == <<world, fails, job, cmds, map, feed, outcomes, ledger, terminal, seen_from>>

NotMined == [block |-> 0, status |-> "none"]
Status == {"ok", "reverted"} \cup (IF Unattested THEN {"unattested"} ELSE {})
NoObs == [block |-> 0, inclusions |-> {}, liquidations |-> {}, incomplete |-> FALSE]

Init ==
    /\ head = 1 /\ reorgs = 0 /\ fails = 0
    /\ landed = [t \in Trace |-> NotMined] /\ rival = [t \in Trace |-> 0]
    /\ job = [t \in Trace |-> "new"] /\ cmds = <<>> /\ map = {}
    /\ pc = "recv" /\ cursor = 0 /\ unread = {} /\ obs = NoObs /\ rows = {}
    /\ outcomes = <<>> /\ ledger = <<>>
    /\ terminal = [t \in Trace |-> "open"] /\ seen_from = [t \in Trace |-> 0]
-----------------------------------------------------------------------------
(* The chain.  A block may carry what a venue holds and what rivals send.  *)
NewBlock ==
    LET n == head + 1 IN
    /\ n <= MaxHead /\ head' = n
    /\ \E ours \in SUBSET {t \in Trace : /\ job[t] # "new" /\ landed[t] = NotMined
                                         /\ n \in MinBlock[t] .. MaxBlock[t]},
          theirs \in SUBSET {t \in Trace : rival[t] = 0} :
         /\ \E st \in [ours -> Status] :
              landed' = [t \in Trace |-> IF t \in ours THEN [block |-> n, status |-> st[t]]
                                         ELSE landed[t]]
         /\ rival' = [t \in Trace |-> IF t \in theirs THEN n ELSE rival[t]]
    /\ UNCHANGED <<reorgs, fails, job, cmds, map, feed, outcomes, ledger, terminal, seen_from>>

Reorg ==
    /\ head > 1 /\ reorgs + fails < MaxFaults
    /\ reorgs' = reorgs + 1 /\ head' = head - 1
    /\ landed' = [t \in Trace |-> IF landed[t].block = head THEN NotMined ELSE landed[t]]
    /\ rival' = [t \in Trace |-> IF rival[t] = head THEN 0 ELSE rival[t]]
    /\ UNCHANGED <<fails, job, cmds, map, feed, outcomes, ledger, terminal, seen_from>>

(* The exec path: a venue holds the bundle before its ack is back here;    *)
(* then track() try_sends, and a full channel loses the command.           *)
Post(t) ==
    /\ job[t] = "new" /\ job' = [job EXCEPT ![t] = "posted"]
    /\ UNCHANGED <<world, fails, cmds, map, feed, outcomes, ledger, terminal, seen_from>>

track_no_capacity(t) ==
    /\ job[t] = "posted" /\ job' = [job EXCEPT ![t] = "tracked"]
    /\ cmds' = Append(cmds, t)
    /\ UNCHANGED <<world, fails, map, feed, outcomes, ledger, terminal, seen_from>>

track(t) ==
    /\ job[t] = "posted" /\ job' = [job EXCEPT ![t] = "tracked"]
    /\ cmds' = IF Len(cmds) < CMD_CAP THEN Append(cmds, t) ELSE cmds
    /\ UNCHANGED <<world, fails, map, feed, outcomes, ledger, terminal, seen_from>>
-----------------------------------------------------------------------------
(* The watcher.  One command or a timeout, then one poll.                  *)
RecvTrack ==
    /\ pc = "recv" /\ cmds # <<>>
    /\ map' = map \cup {Head(cmds)} /\ cmds' = Tail(cmds) /\ pc' = "head"
    /\ seen_from' = [seen_from EXCEPT ![Head(cmds)] = cursor]
    /\ UNCHANGED <<world, fails, job, cursor, unread, obs, rows, outcomes, ledger, terminal>>

RecvTimeout ==
    /\ pc = "recv" /\ pc' = "head"
    /\ UNCHANGED <<world, fails, job, cmds, map, cursor, unread, obs, rows, outcomes, ledger, terminal, seen_from>>

from == IF cursor = 0 THEN obs.block ELSE cursor

(* poll_async: the head first; a head behind the cursor restarts the reads *)
(* there and ends this poll.                                               *)
ReadHead ==
    /\ pc = "head"
    /\ IF cursor > 1 /\ head < cursor - 1
       THEN cursor' = head /\ pc' = "recv" /\ UNCHANGED <<unread, obs>>
       ELSE /\ obs' = [NoObs EXCEPT !.block = head]
            /\ unread' = map /\ pc' = "receipts" /\ UNCHANGED cursor
    /\ UNCHANGED <<world, fails, job, cmds, map, rows, outcomes, ledger, terminal, seen_from>>

receipt_obs_any_status(t) ==
    /\ pc = "receipts" /\ t \in unread
    /\ unread' = unread \ {t}
    /\ obs' = IF landed[t] = NotMined THEN obs
              ELSE [obs EXCEPT !.inclusions = @ \cup {<<t, "ok">>}]
    /\ UNCHANGED <<world, fails, job, cmds, map, pc, cursor, rows, outcomes, ledger, terminal, seen_from>>

receipt_obs(t) ==
    /\ pc = "receipts" /\ t \in unread
    /\ unread' = unread \ {t}
    /\ obs' = IF landed[t] = NotMined THEN obs
              ELSE IF landed[t].status = "unattested" THEN [obs EXCEPT !.incomplete = TRUE]
              ELSE [obs EXCEPT !.inclusions = @ \cup {<<t, landed[t].status>>}]
    /\ UNCHANGED <<world, fails, job, cmds, map, pc, cursor, rows, outcomes, ledger, terminal, seen_from>>

(* The pages of logs from the cursor to the head that was read; nothing to *)
(* read when the head has not moved.                                       *)
FetchPages ==
    /\ pc = "receipts" /\ unread = {}
    /\ obs' = [obs EXCEPT !.liquidations =
                {<<t, rival[t]>> : t \in {t \in Trace : rival[t] # 0 /\ rival[t] \in from .. obs.block}}]
    /\ cursor' = IF obs.block >= from THEN obs.block + 1 ELSE cursor
    /\ pc' = "observe"
    /\ seen_from' = [t \in Trace |-> IF t \in map /\ seen_from[t] = 0 THEN from ELSE seen_from[t]]
    /\ UNCHANGED <<world, fails, job, cmds, map, unread, rows, outcomes, ledger, terminal>>

ReadFailed_past_logs ==
    /\ pc \in {"head", "receipts"} /\ reorgs + fails < MaxFaults
    /\ fails' = fails + 1 /\ pc' = "recv"
    /\ cursor' = IF pc = "receipts" /\ unread = {} THEN obs.block + 1 ELSE cursor
    /\ UNCHANGED <<world, job, cmds, map, unread, obs, rows, outcomes, ledger, terminal, seen_from>>

(* A read that fails ends the poll with no observation.                    *)
ReadFailed ==
    /\ pc \in {"head", "receipts"} /\ reorgs + fails < MaxFaults
    /\ fails' = fails + 1 /\ pc' = "recv"
    /\ UNCHANGED <<world, job, cmds, map, cursor, unread, obs, rows, outcomes, ledger, terminal, seen_from>>

(* resolve_one: our receipt, else a rival's event in the window.           *)
resolve_one(t) ==
    IF obs.block < MinBlock[t] THEN "open"
    ELSE IF <<t, "reverted">> \in obs.inclusions THEN "Reverted"
    ELSE IF <<t, "ok">> \in obs.inclusions THEN "Included"
    ELSE IF \E b \in MinBlock[t] .. MaxBlock[t] : <<t, b>> \in obs.liquidations THEN "LostToCompetitor"
    ELSE "open"

outcome_no_drop(t) == resolve_one(t)

(* observe, for one trace: else its window has passed, in an observation   *)
(* that withheld nothing.                                                  *)
outcome(t) ==
    LET term == resolve_one(t)
    IN IF term = "open" /\ ~obs.incomplete /\ obs.block > MaxBlock[t] THEN "Dropped" ELSE term

Resolved == {t \in map : outcome(t) # "open"}

observe_keeps ==
    /\ pc = "observe" /\ pc' = "emit"
    /\ rows' = {<<t, outcome(t)>> : t \in Resolved} /\ obs' = NoObs
    /\ terminal' = [t \in Trace |-> IF t \in Resolved THEN outcome(t) ELSE terminal[t]]
    /\ UNCHANGED <<world, fails, job, cmds, map, cursor, unread, outcomes, ledger, seen_from>>

observe ==
    /\ pc = "observe" /\ pc' = "emit"
    /\ rows' = {<<t, outcome(t)>> : t \in Resolved} /\ map' = map \ Resolved /\ obs' = NoObs
    /\ terminal' = [t \in Trace |-> IF t \in Resolved THEN outcome(t) ELSE terminal[t]]
    /\ UNCHANGED <<world, fails, job, cmds, cursor, unread, outcomes, ledger, seen_from>>

(* emit: the rows leave in the order of a HashMap; a full channel loses    *)
(* its row.                                                                *)
emit ==
    /\ pc = "emit"
    /\ IF rows = {} THEN pc' = "recv" /\ UNCHANGED <<rows, outcomes>>
       ELSE \E row \in rows :
              /\ rows' = rows \ {row} /\ UNCHANGED pc
              /\ outcomes' = IF Len(outcomes) < OUT_CAP THEN Append(outcomes, row) ELSE outcomes
    /\ UNCHANGED <<world, fails, job, cmds, map, cursor, unread, obs, ledger, terminal, seen_from>>

(* The ledger thread. *)
log_outcomes ==
    /\ outcomes # <<>>
    /\ ledger' = Append(ledger, Head(outcomes)) /\ outcomes' = Tail(outcomes)
    /\ UNCHANGED <<world, fails, job, cmds, map, feed, terminal, seen_from>>
-----------------------------------------------------------------------------
Watcher ==
    \/ RecvTrack \/ (cmds = <<>> /\ RecvTimeout)
    \/ ReadHead \/ (\E t \in Trace : receipt_obs(t)) \/ FetchPages \/ ReadFailed \/ observe \/ emit

Next ==
    \/ NewBlock \/ Reorg \/ (\E t \in Trace : Post(t) \/ track(t))
    \/ Watcher \/ log_outcomes

Spec == Init /\ [][Next]_vars

(* The chain grows, the threads run; faults happen finitely often.         *)
FairSpec == Spec /\ WF_vars(NewBlock) /\ WF_vars(Watcher) /\ WF_vars(log_outcomes)
-----------------------------------------------------------------------------
Terminal == {"Included", "Dropped", "Reverted", "LostToCompetitor"}
Mined == [block : 0 .. MaxHead, status : {"none", "ok", "reverted", "unattested"}]

(* The state's shape: channels within their capacity, and only what was    *)
(* sent by the exec path is tracked.                                       *)
TypeOK ==
    /\ head \in 1 .. MaxHead /\ {reorgs, fails} \subseteq 0 .. MaxFaults
    /\ landed \in [Trace -> Mined] /\ rival \in [Trace -> 0 .. MaxHead]
    /\ job \in [Trace -> {"new", "posted", "tracked"}]
    /\ Len(cmds) <= CMD_CAP /\ \A i \in 1 .. Len(cmds) : cmds[i] \in Trace
    /\ map \subseteq Trace /\ unread \subseteq map
    /\ pc \in {"recv", "head", "receipts", "observe", "emit"} /\ cursor \in 0 .. MaxHead + 1
    /\ rows \subseteq Trace \X Terminal
    /\ Len(outcomes) <= OUT_CAP /\ \A i \in 1 .. Len(outcomes) : outcomes[i] \in Trace \X Terminal
    /\ terminal \in [Trace -> Terminal \cup {"open"}]
    /\ \A t \in map : job[t] = "tracked"

(* On a chain that only grows, a trace is never recorded as something it   *)
(* is not: Dropped means our transaction is on no block, Included and      *)
(* Reverted that it is, with that status, and LostToCompetitor that a      *)
(* rival liquidated the position inside the trace's window; failed reads,  *)
(* withheld receipts and blocks mined during a poll included               *)
(* (inclusion_feed.rs: a missed block is not recorded as Dropped).         *)
TerminalTrue ==
    reorgs = 0 => \A t \in Trace :
        /\ terminal[t] = "Dropped" => landed[t] = NotMined
        /\ terminal[t] = "Included" => landed[t].status = "ok"
        /\ terminal[t] = "Reverted" => landed[t].status = "reverted"
        /\ terminal[t] = "LostToCompetitor" => rival[t] \in MinBlock[t] .. MaxBlock[t]

(* On a chain that only grows, no rival's liquidation is skipped: a trace  *)
(* is Dropped, with a rival in its window, only when that block's logs had *)
(* been read before the trace was tracked (poll_async: the cursor moves    *)
(* only past blocks whose logs were applied).                              *)
RivalNotMissed ==
    reorgs = 0 => \A t \in Trace :
        terminal[t] = "Dropped" /\ rival[t] \in MinBlock[t] .. MaxBlock[t] => rival[t] < seen_from[t]

(* The ledger has at most one row per trace, and it is the terminal state  *)
(* the trace left the watcher with, reorganisations and full channels      *)
(* included (ledger.rs: insert_outcome is a plain INSERT).                 *)
LedgerOnce ==
    /\ \A i, j \in 1 .. Len(ledger) : ledger[i][1] = ledger[j][1] => i = j
    /\ \A i \in 1 .. Len(ledger) : ledger[i][2] = terminal[ledger[i][1]]

(* Every trace is accounted for once, as what it became (inclusion.rs      *)
(* observe, ledger.rs insert_outcome).                                     *)
OutcomesExact == TerminalTrue /\ LedgerOnce

(* Once its window has passed, every tracked trace leaves the map, unless  *)
(* a success without an attested profit is on the chain                    *)
(* (ledger.rs: the watcher resolves each trace exactly once).              *)
Overdue(t)  == t \in map /\ head > MaxBlock[t]
Resolves(t) == t \notin map \/ \E u \in Trace : landed[u].status = "unattested"
TrackedResolves == \A t \in Trace : Overdue(t) ~> Resolves(t)
=============================================================================
