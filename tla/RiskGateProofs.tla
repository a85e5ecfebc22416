--------------------------- MODULE RiskGateProofs ---------------------------
(***************************************************************************)
(* What the gate holds is what is wrong, for any set of protocols,         *)
(* markets, assets, flash providers and keys and any thresholds.           *)
(***************************************************************************)
EXTENDS RiskGate, TLAPS

Bits == {"NodeLag", "ReorgTooDeep"}

(* The shape GateExact needs.  Only the two bits are ever conditions at    *)
(* Global, and no scope is halted for a reason that is none.               *)
Shape ==
    /\ halted \in [Scope -> Reason \cup {NoHalt}]
    /\ world \subseteq ((Scope \cup {Global}) \X Reason)
    /\ \A r \in Reason : <<Global, r>> \in world => r \in Bits

IInv == Shape /\ GateExact

(* Global is no scope: its tag is no other's. *)
LEMMA GlobalNoScope == Global \notin Scope
  BY DEF Global, Scope, SvrAuction

(* A reason is of one class, and the absence of a halt is no reason. *)
LEMMA Classes == ClassA \cap ClassB = {} /\ NoHalt \notin Reason /\ Bits \subseteq ClassA
  BY DEF ClassA, ClassB, Reason, NoHalt, Bits

LEMMA InitExact == Init => IInv
  BY DEF Init, IInv, Shape, GateExact, GlobalBitsExact, NoOrphanHalt, LinesAreConditions, Conditions

(* A halt lands on one scope or nowhere, at Global only for its two bits,  *)
(* and never for another reason than the one raised.                       *)
LEMMA LandsOnce ==
    ASSUME NEW s \in Scope \cup {Global}, NEW r \in Reason
    PROVE  /\ normalize_scope(s, r) \subseteq Scope \cup {Global}
           /\ Global \in normalize_scope(s, r) => r \in Bits \/ s = Global
           /\ r \in ClassB => Global \notin normalize_scope(s, r)
  BY DEF normalize_scope, Scope, SvrAuction, Global, ClassA, ClassB, Reason, Bits

(* Raising a halt keeps the gate exact: where it lands, the condition, the *)
(* halt or bit, and for Class B the line, appear together.                 *)
LEMMA HaltExact ==
    ASSUME IInv, NEW s \in Scope \cup {Global}, NEW r \in Reason,
           s = Global => r \in Bits \cup {"MevShareDisconnected"},
           halt(s, r)
    PROVE  IInv'
<1> DEFINE to == normalize_scope(s, r)
<1>1. to \subseteq Scope \cup {Global}
  BY LandsOnce
<1>2. Global \in to => r \in Bits
  BY DEF normalize_scope, Scope, SvrAuction, Global, ClassA, ClassB, Reason, Bits
<1>3. r \in ClassB => Global \notin to
  BY LandsOnce
<1> HIDE DEF to
<1>4. /\ world' = world \cup {<<t, r>> : t \in to}
      /\ global' = IF Global \in to THEN global \cup ({r} \cap Bits) ELSE global
      /\ halted' = [t \in Scope |-> IF t \in to THEN r ELSE halted[t]]
      /\ action_required' = IF r \in ClassB THEN action_required \cup (to \X {r})
                            ELSE action_required
  BY DEF halt, to, Bits
<1>5. Shape'
  BY <1>1, <1>2, <1>4 DEF IInv, Shape
<1>6. GlobalBitsExact'
  BY <1>1, <1>2, <1>4 DEF IInv, Shape, GateExact, GlobalBitsExact, Conditions
<1>7. NoOrphanHalt'
  BY <1>1, <1>4 DEF IInv, Shape, GateExact, NoOrphanHalt
<1>8. LinesAreConditions'
  BY <1>1, <1>3, <1>4 DEF IInv, Shape, GateExact, LinesAreConditions
<1> QED BY <1>5, <1>6, <1>7, <1>8 DEF IInv, GateExact

(* Ending a condition takes its bit or halt with it, and nothing else: a   *)
(* halt for another reason on the same scope stays.                        *)
LEMMA RemoveExact ==
    ASSUME IInv, NEW s \in Scope \cup {Global}, NEW r \in Reason,
           remove(s, r), world' = world \ {<<s, r>>}
    PROVE  Shape' /\ GlobalBitsExact' /\ NoOrphanHalt'
<1>1. /\ global' = IF s = Global THEN global \ {r} ELSE global
      /\ halted' = [t \in Scope |-> IF t = s /\ halted[t] = r THEN NoHalt ELSE halted[t]]
  BY DEF remove
<1>2. Shape'
  BY <1>1 DEF IInv, Shape
<1>3. GlobalBitsExact'
  BY <1>1 DEF IInv, Shape, GateExact, GlobalBitsExact, Conditions
<1>4. NoOrphanHalt'
  BY <1>1 DEF IInv, Shape, GateExact, NoOrphanHalt
<1> QED BY <1>2, <1>3, <1>4

(* clear_auto: only Class A ends by itself, so no line is owed for it. *)
LEMMA ClearAutoExact ==
    ASSUME IInv, NEW s \in Scope \cup {Global}, NEW r \in ClassA, clear_auto(s, r)
    PROVE  IInv'
<1>1. r \in Reason /\ r \notin ClassB
  BY Classes DEF Reason
<1>2. /\ remove(s, r) /\ world' = world \ {<<s, r>>}
      /\ action_required' = action_required
  BY DEF clear_auto
<1>3. Shape' /\ GlobalBitsExact' /\ NoOrphanHalt'
  BY <1>1, <1>2, RemoveExact
<1>4. LinesAreConditions'
  BY <1>1, <1>2 DEF IInv, GateExact, LinesAreConditions
<1> QED BY <1>3, <1>4 DEF IInv, GateExact

(* clear_after_ship: the line goes with the condition. *)
LEMMA ShipExact ==
    ASSUME IInv, NEW s \in Scope, NEW r \in ClassB, clear_after_ship(s, r)
    PROVE  IInv'
<1>1. r \in Reason
  BY DEF Reason
<1>2. /\ remove(s, r) /\ world' = world \ {<<s, r>>}
      /\ action_required' = action_required \ {<<s, r>>}
  BY DEF clear_after_ship
<1>3. Shape' /\ GlobalBitsExact' /\ NoOrphanHalt'
  BY <1>1, <1>2, RemoveExact
<1>4. LinesAreConditions'
  BY <1>1, <1>2 DEF IInv, GateExact, LinesAreConditions
<1> QED BY <1>3, <1>4 DEF IInv, GateExact

(* A step that neither raises nor ends a condition. *)
LEMMA QuietExact ==
    ASSUME IInv, UNCHANGED <<global, halted, action_required, world>>
    PROVE  IInv'
  BY DEF IInv, Shape, GateExact, GlobalBitsExact, NoOrphanHalt, LinesAreConditions, Conditions

(* Every caller raises at a scope the gate knows, or at Global for a bit   *)
(* or the MEV-Share stream, and ends only Class A conditions by itself.    *)
LEMMA NextExact == IInv /\ [Next]_vars => IInv'
<1> SUFFICES ASSUME IInv, [Next]_vars PROVE IInv'
  OBVIOUS
<1> DEFINE S == Scope \cup {Global}
<1>1. Global \in S /\ SvrAuction \in S
  BY DEF Scope
<1>2. ASSUME NEW lag \in {2, 3}, observe_node_lag(lag) PROVE IInv'
  <2>1. halt(Global, "NodeLag") \/ clear_auto(Global, "NodeLag")
    BY <1>2 DEF observe_node_lag
  <2>2. "NodeLag" \in ClassA /\ "NodeLag" \in Reason /\ "NodeLag" \in Bits
    BY DEF ClassA, Reason, Bits
  <2> QED BY <1>1, <2>1, <2>2, HaltExact, ClearAutoExact
<1>3. ASSUME halt_reorg_too_deep \/ observe_reorg_rebuild_done PROVE IInv'
  <2>1. halt(Global, "ReorgTooDeep") \/ clear_auto(Global, "ReorgTooDeep")
    BY <1>3 DEF halt_reorg_too_deep, observe_reorg_rebuild_done
  <2>2. "ReorgTooDeep" \in ClassA /\ "ReorgTooDeep" \in Reason /\ "ReorgTooDeep" \in Bits
    BY DEF ClassA, Reason, Bits
  <2> QED BY <1>1, <2>1, <2>2, HaltExact, ClearAutoExact
<1>4. ASSUME NEW p \in Protocol, AdapterPanic(p) \/ operator_halt(p) \/ SourceSwap(<<"Protocol", p>>)
      PROVE  IInv'
  <2>1. \E r \in {"AdapterPanic", "DriftMismatch", "ProxyUpgrade"} : halt(<<"Protocol", p>>, r)
    BY <1>4 DEF AdapterPanic, operator_halt, SourceSwap
  <2>2. {"AdapterPanic", "DriftMismatch", "ProxyUpgrade"} \subseteq Reason
    BY DEF ClassA, ClassB, Reason
  <2>3. <<"Protocol", p>> \in Scope
    BY DEF Scope
  <2> QED BY <2>1, <2>2, <2>3, GlobalNoScope, HaltExact
<1>5. ASSUME NEW p \in Protocol, NEW d \in BOOLEAN, observe_sim_chain(p, d) PROVE IInv'
  <2>1. halt(<<"Protocol", p>>, "SimChainDivergence") \/ NoClear
    BY <1>5 DEF observe_sim_chain
  <2>2. "SimChainDivergence" \in Reason /\ <<"Protocol", p>> \in Scope
    BY DEF ClassB, Reason, Scope
  <2> QED BY <2>1, <2>2, GlobalNoScope, HaltExact, QuietExact DEF NoClear
<1>6. ASSUME NEW a \in Asset, check_staleness(a) \/ apply_answer(a) \/ SourceSwap(<<"Asset", a>>)
      PROVE  IInv'
  <2>1. \/ halt(<<"Asset", a>>, "OracleStale") \/ halt(<<"Asset", a>>, "ProxyUpgrade")
        \/ clear_auto(<<"Asset", a>>, "OracleStale")
    BY <1>6 DEF check_staleness, apply_answer, SourceSwap
  <2>2. /\ "OracleStale" \in ClassA /\ "OracleStale" \in Reason /\ "ProxyUpgrade" \in Reason
        /\ <<"Asset", a>> \in Scope
    BY DEF ClassA, ClassB, Reason, Scope
  <2> QED BY <2>1, <2>2, GlobalNoScope, HaltExact, ClearAutoExact
<1>7. ASSUME NEW a \in Asset, NEW c \in BOOLEAN, observe_liquidity_collapse(a, c) PROVE IInv'
  <2>1. \/ halt(<<"Asset", a>>, "FlashLiquidityCollapse")
        \/ clear_auto(<<"Asset", a>>, "FlashLiquidityCollapse")
    BY <1>7 DEF observe_liquidity_collapse
  <2>2. /\ "FlashLiquidityCollapse" \in ClassA /\ "FlashLiquidityCollapse" \in Reason
        /\ <<"Asset", a>> \in Scope
    BY DEF ClassA, Reason, Scope
  <2> QED BY <2>1, <2>2, GlobalNoScope, HaltExact, ClearAutoExact
<1>8. ASSUME NEW f \in Flash, NEW r \in BOOLEAN, observe_callback_revert(f, r) PROVE IInv'
  <2>1. \/ halt(<<"Flash", f>>, "FlashCallbackRevertStreak")
        \/ clear_auto(<<"Flash", f>>, "FlashCallbackRevertStreak")
        \/ NoClear
    BY <1>8 DEF observe_callback_revert
  <2>2. /\ "FlashCallbackRevertStreak" \in ClassA /\ "FlashCallbackRevertStreak" \in Reason
        /\ <<"Flash", f>> \in Scope
    BY DEF ClassA, Reason, Scope
  <2> QED BY <2>1, <2>2, GlobalNoScope, HaltExact, ClearAutoExact, QuietExact DEF NoClear
<1>9. ASSUME NEW c \in BOOLEAN, observe_mevshare(c) PROVE IInv'
  <2>1. halt(Global, "MevShareDisconnected") \/ clear_auto(SvrAuction, "MevShareDisconnected")
    BY <1>9 DEF observe_mevshare
  <2>2. "MevShareDisconnected" \in ClassA /\ "MevShareDisconnected" \in Reason
    BY DEF ClassA, Reason
  <2> QED BY <1>1, <2>1, <2>2, HaltExact, ClearAutoExact
<1>10. ASSUME NEW k \in Key, NEW b \in BOOLEAN, observe_gas_key(k, b) PROVE IInv'
  BY <1>10, QuietExact DEF observe_gas_key
<1>11. ASSUME NEW s \in Scope, NEW r \in ClassB, clear_after_ship(s, r) PROVE IInv'
  BY <1>11, ShipExact
<1>12. CASE UNCHANGED vars
  BY <1>12, QuietExact DEF vars
<1> QED
  BY ZenonT(60), SMTT(60), <1>2, <1>3, <1>4, <1>5, <1>6, <1>7, <1>8, <1>9, <1>10, <1>11, <1>12
     DEF Next

(* The bits, halts and Class B lines of the gate are those of the          *)
(* conditions in force, through every order in which the threads raise and *)
(* end them (gate.rs apply_halt, remove, clear_after_ship).                *)
THEOREM GateIsExact == Spec => []GateExact
<1>1. IInv => GateExact
  BY DEF IInv
<1> QED BY <1>1, InitExact, NextExact, PTL DEF Spec

(* allow answers Yes only when nothing the job touches is halted and no    *)
(* Global condition holds: each of the scopes it looks at one by one is    *)
(* looked at, and the Global bits say what holds (gate.rs allow).          *)
THEOREM AllowIsClosed == Spec => []AllowFailsClosed
<1>1. IInv => AllowFailsClosed
  <2> SUFFICES ASSUME IInv, NEW q \in AllowQuery, allow(q)
               PROVE  /\ Conditions(Global) = {}
                      /\ \A s \in Touched(q) \cap Scope : halted[s] = NoHalt
                      /\ q.operator_key \notin keys
    BY DEF AllowFailsClosed
  <2>1. Conditions(Global) = {}
    BY DEF IInv, GateExact, GlobalBitsExact, allow
  <2>2. \A s \in Touched(q) \cap Scope : halted[s] = NoHalt
    BY GlobalNoScope DEF allow, Touched
  <2>3. q.operator_key \notin keys
    BY DEF allow
  <2> QED BY <2>1, <2>2, <2>3
<1> QED BY <1>1, InitExact, NextExact, PTL DEF Spec
=============================================================================
