------------------------------ MODULE RiskGate ------------------------------
(***************************************************************************)
(* liq-risk's RiskGate: the halts any thread may raise, how they end, and  *)
(* the question the exec worker asks before every send.  A scope other than*)
(* Global holds one halt, the last raised; Global is two independent bits; *)
(* an operator key below its gas floor is a set of its own.                *)
(***************************************************************************)
EXTENDS Naturals

CONSTANTS Protocol, Market, Asset, Flash, Key,
          SimChainThreshold, CallbackThreshold

ClassA == {"NodeLag", "OracleStale", "MevShareDisconnected", "FlashLiquidityCollapse",
           "FlashCallbackRevertStreak", "ReorgTooDeep", "GasWalletBelowFloor", "AdapterPanic"}
ClassB == {"ProxyUpgrade", "DriftMismatch", "SimChainDivergence"}
Reason == ClassA \cup ClassB

Global == <<"Global", "-">>
SvrAuction == <<"Trigger", "SvrAuction">>
Scope == ({"Protocol"} \X Protocol) \cup ({"Market"} \X Market) \cup ({"Asset"} \X Asset)
         \cup ({"Flash"} \X Flash) \cup {SvrAuction}
NoHalt == "none"

VARIABLES
    global,             \* bits of the Global halt
    halted,             \* scope -> reason of its halt
    keys,               \* operator keys below their gas floor
    action_required,    \* Class B lines: <<scope, reason>>
    sim_streak,         \* sim-pass/chain-revert in a row, per protocol
    callback_streak,    \* callback reverts in a row, per flash provider
    world               \* history: <<scope, reason>> raised and not over

vars == <<global, halted, keys, action_required, sim_streak, callback_streak, world>>

Init ==
    /\ global = {}
    /\ halted = [s \in Scope |-> NoHalt]
    /\ keys = {}
    /\ action_required = {}
    /\ sim_streak = [p \in Protocol |-> 0]
    /\ callback_streak = [f \in Flash |-> 0]
    /\ world = {}
-----------------------------------------------------------------------------
(* normalize_scope: where a halt of this reason lands; {} when refused. *)
normalize_scope(s, r) ==
    IF r \in {"NodeLag", "ReorgTooDeep"} THEN {Global}
    ELSE IF r = "MevShareDisconnected" THEN {SvrAuction}
    ELSE IF r = "GasWalletBelowFloor" \/ (r \in ClassB /\ s = Global) THEN {}
    ELSE {s}

(* HaltSink::halt; apply_halt refuses any other reason at Global. *)
halt(scope, r) ==
    /\ world' = world \cup {<<s, r>> : s \in normalize_scope(scope, r)}
    /\ global' = IF Global \in normalize_scope(scope, r)
                   THEN global \cup ({r} \cap {"NodeLag", "ReorgTooDeep"}) ELSE global
    /\ halted' = [s \in Scope |-> IF s \in normalize_scope(scope, r) THEN r ELSE halted[s]]
    /\ action_required' = IF r \in ClassB
                            THEN action_required \cup (normalize_scope(scope, r) \X {r})
                            ELSE action_required
    /\ UNCHANGED keys

(* Mutants: every bit of Global is cleared; a scope's halt stays. *)
remove_all_bits(s, r) ==
    /\ global' = IF s = Global THEN {} ELSE global
    /\ halted' = [t \in Scope |-> IF t = s /\ halted[t] = r THEN NoHalt ELSE halted[t]]

remove_nothing(s, r) ==
    /\ global' = IF s = Global THEN global \ {r} ELSE global
    /\ UNCHANGED halted

(* remove: the bit of Global, or the scope's halt if it is for this reason. *)
remove(s, r) ==
    /\ global' = IF s = Global THEN global \ {r} ELSE global
    /\ halted' = [t \in Scope |-> IF t = s /\ halted[t] = r THEN NoHalt ELSE halted[t]]

clear_auto(s, r) ==
    IF r \in ClassA
      THEN /\ remove(s, r)
           /\ world' = world \ {<<s, r>>}
           /\ UNCHANGED <<keys, action_required>>
      ELSE UNCHANGED <<global, halted, world, keys, action_required>>

NoClear == UNCHANGED <<global, halted, keys, action_required, world>>
streaks == <<sim_streak, callback_streak>>
-----------------------------------------------------------------------------
(* Who raises and ends halts. *)

(* liq-bot's stall thread and the header hook; more than two blocks is lag. *)
observe_node_lag(lag_blocks) ==
    /\ IF lag_blocks > 2 THEN halt(Global, "NodeLag") ELSE clear_auto(Global, "NodeLag")
    /\ UNCHANGED streaks

(* The hot thread: unwind failed; a block's fold panicked. *)
halt_reorg_too_deep == halt(Global, "ReorgTooDeep") /\ UNCHANGED streaks
AdapterPanic(p) == halt(<<"Protocol", p>>, "AdapterPanic") /\ UNCHANGED streaks

(* liq-bot's rebuild: the store is back at the head. *)
observe_reorg_rebuild_done == clear_auto(Global, "ReorgTooDeep") /\ UNCHANGED streaks

(* liq-oracle: an asset's feed is late; a fresh answer; a source replaced. *)
check_staleness(a) == halt(<<"Asset", a>>, "OracleStale") /\ UNCHANGED streaks
apply_answer(a) == clear_auto(<<"Asset", a>>, "OracleStale") /\ UNCHANGED streaks
SourceSwap(s) == halt(s, "ProxyUpgrade") /\ UNCHANGED streaks

(* liq-oracle's MEV-Share stream, raised at Global and moved to its trigger. *)
observe_mevshare(connected) ==
    /\ IF connected THEN clear_auto(SvrAuction, "MevShareDisconnected")
                    ELSE halt(Global, "MevShareDisconnected")
    /\ UNCHANGED streaks

(* The drift checker, and the operator's manual stop. *)
operator_halt(p) == halt(<<"Protocol", p>>, "DriftMismatch") /\ UNCHANGED streaks

observe_gas_key(k, below) ==
    /\ keys' = IF below THEN keys \cup {k} ELSE keys \ {k}
    /\ UNCHANGED <<global, halted, action_required, world, streaks>>

(* Streaks: the threshold's hit halts, one miss starts over. *)
observe_sim_chain(p, diverged) ==
    /\ sim_streak' = [sim_streak EXCEPT ![p] =
           IF ~diverged THEN 0 ELSE IF @ = SimChainThreshold THEN @ ELSE @ + 1]
    /\ IF diverged /\ sim_streak[p] + 1 >= SimChainThreshold
         THEN halt(<<"Protocol", p>>, "SimChainDivergence") ELSE NoClear
    /\ UNCHANGED callback_streak

observe_callback_revert(f, reverted) ==
    /\ callback_streak' = [callback_streak EXCEPT ![f] =
           IF ~reverted THEN 0 ELSE IF @ = CallbackThreshold THEN @ ELSE @ + 1]
    /\ IF ~reverted THEN clear_auto(<<"Flash", f>>, "FlashCallbackRevertStreak")
       ELSE IF callback_streak[f] + 1 >= CallbackThreshold
         THEN halt(<<"Flash", f>>, "FlashCallbackRevertStreak") ELSE NoClear
    /\ UNCHANGED sim_streak

observe_liquidity_collapse(a, collapsed) ==
    /\ IF collapsed THEN halt(<<"Asset", a>>, "FlashLiquidityCollapse")
                    ELSE clear_auto(<<"Asset", a>>, "FlashLiquidityCollapse")
    /\ UNCHANGED streaks

(* Mutant: the line stays, the halt goes. *)
clear_after_ship_keeps_line(s, r) ==
    /\ r \in ClassB
    /\ remove(s, r)
    /\ world' = world \ {<<s, r>>}
    /\ UNCHANGED <<keys, action_required, streaks>>

(* A Class B halt ends with a shipped change. *)
clear_after_ship(s, r) ==
    /\ r \in ClassB
    /\ remove(s, r)
    /\ world' = world \ {<<s, r>>}
    /\ action_required' = action_required \ {<<s, r>>}
    /\ UNCHANGED <<keys, streaks>>
-----------------------------------------------------------------------------
Next ==
    \/ \E lag \in {2, 3} : observe_node_lag(lag)
    \/ halt_reorg_too_deep
    \/ observe_reorg_rebuild_done
    \/ \E p \in Protocol : AdapterPanic(p) \/ operator_halt(p) \/ SourceSwap(<<"Protocol", p>>)
    \/ \E p \in Protocol, d \in BOOLEAN : observe_sim_chain(p, d)
    \/ \E a \in Asset : check_staleness(a) \/ apply_answer(a) \/ SourceSwap(<<"Asset", a>>)
    \/ \E a \in Asset, c \in BOOLEAN : observe_liquidity_collapse(a, c)
    \/ \E f \in Flash, r \in BOOLEAN : observe_callback_revert(f, r)
    \/ \E c \in BOOLEAN : observe_mevshare(c)
    \/ \E k \in Key, b \in BOOLEAN : observe_gas_key(k, b)
    \/ \E s \in Scope, r \in ClassB : clear_after_ship(s, r)

Spec == Init /\ [][Next]_vars
-----------------------------------------------------------------------------
(* The question. *)
AllowQuery == [protocol : Protocol, market : Market, collateral : Asset, debt : Asset,
               flash : Flash, trigger : {"SvrAuction", "Other"}, operator_key : Key]

(* Mutant: the collateral's halt is not looked at. *)
allow_debt_only(q) ==
    /\ global = {}
    /\ \A s \in {<<"Protocol", q.protocol>>, <<"Market", q.market>>, <<"Asset", q.debt>>,
                 <<"Flash", q.flash>>, <<"Trigger", q.trigger>>} \cap Scope : halted[s] = NoHalt
    /\ q.operator_key \notin keys

(* RiskGate::allow answers Yes. *)
allow(q) ==
    /\ global = {}
    /\ \A s \in {<<"Protocol", q.protocol>>, <<"Market", q.market>>, <<"Asset", q.debt>>,
                 <<"Asset", q.collateral>>, <<"Flash", q.flash>>, <<"Trigger", q.trigger>>}
                \cap Scope : halted[s] = NoHalt
    /\ q.operator_key \notin keys

Touched(q) == {Global, <<"Protocol", q.protocol>>, <<"Market", q.market>>, <<"Asset", q.debt>>,
               <<"Asset", q.collateral>>, <<"Flash", q.flash>>, <<"Trigger", q.trigger>>}

Conditions(s) == {r \in Reason : <<s, r>> \in world}
-----------------------------------------------------------------------------
(* The gate's shape: only lag and reorg at Global, streaks up to their     *)
(* thresholds.                                                             *)
TypeOK ==
    /\ global \subseteq {"NodeLag", "ReorgTooDeep"}
    /\ halted \in [Scope -> Reason \cup {NoHalt}]
    /\ keys \subseteq Key
    /\ action_required \subseteq (Scope \X ClassB)
    /\ sim_streak \in [Protocol -> 0 .. SimChainThreshold]
    /\ callback_streak \in [Flash -> 0 .. CallbackThreshold]
    /\ world \subseteq ((Scope \cup {Global}) \X Reason)

(* The Global bits are exactly the Global conditions that hold: catching up *)
(* with the head does not end the halt of a reorg too deep to unwind.      *)
GlobalBitsExact == global = Conditions(Global)

(* allow fails closed: it says Yes only to a query none of whose protocol, *)
(* market, debt, collateral, flash provider, trigger and key is halted, and *)
(* never while the node lags or a reorg could not be unwound.              *)
AllowFailsClosed ==
    \A q \in AllowQuery : allow(q) =>
        /\ Conditions(Global) = {}
        /\ \A s \in Touched(q) \cap Scope : halted[s] = NoHalt
        /\ q.operator_key \notin keys

(* A halt is never left behind by the condition that raised it. *)
NoOrphanHalt == \A s \in Scope : halted[s] # NoHalt => <<s, halted[s]>> \in world

(* clear_after_ship takes the line and the condition together: the Class B *)
(* lines are the Class B conditions no shipped change has ended.           *)
LinesAreConditions == action_required = {c \in world : c[2] \in ClassB}

(* What the gate holds is what is wrong: no bit, halt or line more or less  *)
(* than the conditions in force (gate.rs apply_halt, remove).              *)
GateExact == GlobalBitsExact /\ NoOrphanHalt /\ LinesAreConditions

(* liq-risk/matrix.rs, Class B: "clearing requires a code change"; gate.rs: *)
(* "Never auto-cleared".  A scope with an open Class B line goes on denying *)
(* through every step that ships nothing.                                  *)
ClassBNeverAutoCleared ==
    [][\A s \in Scope :
        (\E r \in ClassB : <<s, r>> \in action_required \cap action_required')
            /\ halted[s] # NoHalt /\ action_required \subseteq action_required'
        => halted'[s] # NoHalt]_vars
=============================================================================
