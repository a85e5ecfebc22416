------------------------------- MODULE AaveV4 -------------------------------
(***************************************************************************)
(* The Aave V4 adapter's copy of a hub and its spokes, folded from their   *)
(* logs (apply.rs) and read back for one account (resync.rs).  A hub asset *)
(* is copied into every spoke reserve that points at it; a user's risk     *)
(* parameters are a snapshot of the reserve's current dynamic config,      *)
(* taken by key.  The hub and the spokes themselves are external.          *)
(***************************************************************************)
EXTENDS Integers, DirtySets, Sequences, FiniteSets, SequencesExt

CONSTANTS
    Spoke,      \* the spokes the config tracks
    User,
    Mapped,     \* hub assets the registry names
    MaxAssets,  \* assets the hub lists at most
    MaxAmount,  \* bound on every share count and total
    MaxKey,     \* dynamic configs of a reserve
    MaxOps      \* transactions in a behaviour

VARIABLES inst, pool, store, logs, dirty, drifted, failed, ops

vars == <<inst, pool, store, logs, dirty, drifted, failed, ops>>
None == 0
Total == {"liq", "swept", "drawn", "prem", "def", "add", "idx", "fees"}
Bit == {"active", "halted"}
Error == [err |-> TRUE]
Err(st) == "err" \in DOMAIN st

Zero == [t \in Total |-> 0]
NoUse == [s |-> 0, d |-> 0, prem |-> 0, using |-> FALSE, key |-> 0, cf |-> 0]

(***************************************************************************)
(* The hub and the spokes.  A reserve is the asset it draws from, the      *)
(* configurator's flags, its price source (TRUE for the pinned one), its   *)
(* dynamic configs by key (the last is current).                           *)
(***************************************************************************)
Fresh == [hub |-> <<Zero>>, bits |-> <<[s \in Spoke |-> {}]>>,
          spoke |-> [s \in Spoke |-> <<>>], source |-> [s \in Spoke |-> {}],
          liq |-> [s \in Spoke |-> 0],
          risk |-> [u \in User |-> [s \in Spoke |-> 0]],
          user |-> [u \in User |-> [s \in Spoke |-> <<>>]]]
NewReserve(a) == [asset |-> a, paused |-> FALSE, dyn |-> <<1>>]

Lived(s, d, using) ==
    LET r == NewReserve(1)
        of(u) == IF u = CHOOSE v \in User : TRUE
                 THEN [NoUse EXCEPT !.s = s, !.d = d, !.prem = d, !.using = using,
                                    !.key = IF using THEN 1 ELSE 0, !.cf = IF using THEN 1 ELSE 0]
                 ELSE NoUse
    IN [Fresh EXCEPT !.hub = <<[Zero EXCEPT !["add"] = s + 1, !["liq"] = 2, !["drawn"] = d,
                                            !["prem"] = d, !["fees"] = 1]>>,
                     !.bits = <<[x \in Spoke |-> {"active"}]>>,
                     !.spoke = [x \in Spoke |-> <<r>>],
                     !.source = [x \in Spoke |-> {1}],
                     !.user = [u \in User |-> [x \in Spoke |->
                                  IF x = CHOOSE y \in Spoke : TRUE THEN <<of(u)>> ELSE <<NoUse>>]]]

\* The adapter's rows for a chain state: what the fold must arrive at.
Row(p, s, i) ==
    LET r == p.spoke[s][i]
        known == r.asset # None
    IN [hub |-> IF known THEN p.hub[r.asset] ELSE Zero,
        bits |-> IF known THEN p.bits[r.asset][s] ELSE {},
        paused |-> r.paused,
        priced |-> i \in p.source[s] /\ r.asset \in Mapped,
        dyn |-> Last(r.dyn), key |-> Len(r.dyn), asset |-> r.asset]
Rows(p, s) == [i \in 1..Len(p.spoke[s]) |-> Row(p, s, i)]
Copy(p) == [hub |-> p.hub, bits |-> p.bits, rows |-> [s \in Spoke |-> Rows(p, s)],
            meta |-> p.source, liq |-> p.liq, risk |-> p.risk, user |-> p.user]

Init ==
    /\ \/ /\ inst = "fresh" /\ pool = Fresh /\ ops = 0
       \/ /\ inst = "lived" /\ ops = 1
          /\ \E s, d \in 0..1, on \in BOOLEAN : (on => s > 0) /\ pool = Lived(s, d, on)
    /\ store = Copy(pool)
    /\ logs = <<>> /\ dirty = Nothing /\ drifted = {} /\ failed = FALSE

subscriptions ==
    [hub |-> {"Add", "Remove", "Draw", "Restore", "RefreshPremium", "ReportDeficit", "Sweep",
              "Reclaim", "EliminateDeficit", "MintFeeShares", "AddAsset", "UpdateAsset",
              "UpdateSpokeConfig"},
     spoke |-> {"Supply", "Withdraw", "Borrow", "Repay", "LiquidationCall", "ReportDeficit",
                "SetUsingAsCollateral", "UpdateUserRiskPremium", "RefreshPremiumDebt", "RefreshAll",
                "RefreshSingle", "UpdateLiquidationConfig", "AddReserve", "UpdateReserveConfig",
                "AddDynamicReserveConfig", "UpdateDynamicReserveConfig", "UpdateReserveSource"}]

\* A transaction: the chain's new state and, of its logs, those subscribed to.
Emit(p, ls) ==
    /\ ops < MaxOps /\ logs = <<>> /\ ~failed
    /\ \A a \in DOMAIN p.hub : \A t \in Total : p.hub[a][t] \in 0..MaxAmount
    /\ pool' = p /\ ops' = ops + 1
    /\ logs' = SelectSeq(ls, LAMBDA l : l.ev \in subscriptions[l.at])
    /\ UNCHANGED <<inst, store, dirty, drifted, failed>>
HubLog(ev, a, x) == [at |-> "hub", ev |-> ev, a |-> a, x |-> x]
SpokeLog(ev, s, r, u, x) == [at |-> "spoke", ev |-> ev, s |-> s, r |-> r, u |-> u, x |-> x]
Plus(total, d) == [t \in Total |-> IF t \in DOMAIN d THEN total[t] + d[t] ELSE total[t]]

\* What each hub call does to the totals of its asset.
Call == [Add |-> [liq |-> 1, add |-> 1], Remove |-> [liq |-> -1, add |-> -1],
         Draw |-> [drawn |-> 1, liq |-> -1],
         Restore |-> [drawn |-> -1, prem |-> -1, liq |-> 1],
         RefreshPremium |-> [prem |-> 1],
         ReportDeficit |-> [drawn |-> -1, prem |-> -1, def |-> 1],
         EliminateDeficit |-> [add |-> -1, def |-> -1],
         Sweep |-> [liq |-> -1, swept |-> 1], Reclaim |-> [liq |-> 1, swept |-> -1],
         MintFeeShares |-> [add |-> 1], UpdateAsset |-> [idx |-> 0]]

\* A hub call accrues first; its log and UpdateAsset come in either order.
HubCall(ev, a, p, more) ==
    \E grow \in 0..1, first \in BOOLEAN :
        LET accrued == [Plus(p.hub[a], Call[ev]) EXCEPT !["idx"] = @ + grow,
                            !["fees"] = IF ev = "MintFeeShares" THEN 0 ELSE @ + grow]
            upd == HubLog("UpdateAsset", a, [idx |-> accrued["idx"], fees |-> accrued["fees"]])
            own == HubLog(ev, a, 0)
        IN Emit([p EXCEPT !.hub[a] = accrued],
                (IF ev = "UpdateAsset" THEN <<upd>>
                 ELSE IF first THEN <<own, upd>> ELSE <<upd, own>>) \o more)
Accrue(a, ev) == /\ ev \in {"UpdateAsset", "EliminateDeficit", "Sweep", "Reclaim", "MintFeeShares"}
                 /\ HubCall(ev, a, pool, <<>>)

\* A user's call on a spoke: shares of the user, and the hub call it makes.
UserCall == [Supply |-> <<"Add", 1, 0, 0>>, Withdraw |-> <<"Remove", -1, 0, 0>>,
             Borrow |-> <<"Draw", 0, 1, 0>>, Repay |-> <<"Restore", 0, -1, -1>>,
             ReportDeficit |-> <<"ReportDeficit", 0, -1, -1>>,
             RefreshPremiumDebt |-> <<"RefreshPremium", 0, 0, 1>>]
Moved(usr, c) == [usr EXCEPT !.s = @ + c[2], !.d = @ + c[3], !.prem = @ + c[4]]
Act(ev, u, s, r) ==
    LET c == UserCall[ev]
        to == Moved(pool.user[u][s][r], c)
    IN /\ r \in DOMAIN pool.spoke[s] /\ pool.spoke[s][r].asset # None
       /\ to.s >= 0 /\ to.d >= 0 /\ to.prem >= 0
       /\ HubCall(c[1], pool.spoke[s][r].asset, [pool EXCEPT !.user[u][s][r] = to],
                  <<SpokeLog(ev, s, r, u, 0)>>)

LiquidationCall(u, v, s, c, d, keep) ==
    LET taken == [pool EXCEPT !.user[u][s][c].s = @ - 1]
        paid == [taken EXCEPT !.user[u][s][d].d = @ - 1, !.user[u][s][d].prem = @ - 1]
        given == IF keep THEN [paid EXCEPT !.user[v][s][c].s = @ + 1] ELSE paid
    IN /\ {c, d} \subseteq DOMAIN pool.spoke[s] /\ u # v
       /\ pool.user[u][s][c].s > 0 /\ pool.user[u][s][d].d > 0 /\ pool.user[u][s][d].prem > 0
       /\ pool.spoke[s][c].asset # None /\ pool.spoke[s][d].asset # None
       /\ \E hub \in {IF keep THEN given
                      ELSE [given EXCEPT !.hub[pool.spoke[s][c].asset] = Plus(@, Call.Remove)]} :
             HubCall("Restore", pool.spoke[s][d].asset, hub,
                     (IF keep THEN <<>> ELSE <<HubLog("Remove", pool.spoke[s][c].asset, 0)>>)
                       \o <<SpokeLog("LiquidationCall", s, c, u, [d |-> d, to |-> v, keep |-> keep])>>)

\* Enabling takes the current dynamic config; so does a refresh.
Snap(p, u, s, r) ==
    [p EXCEPT !.user[u][s][r].key = Len(p.spoke[s][r].dyn),
              !.user[u][s][r].cf = Last(p.spoke[s][r].dyn)]
SetUsing(u, s, r) ==
    LET on == ~pool.user[u][s][r].using
        p == [pool EXCEPT !.user[u][s][r].using = on]
    IN /\ r \in DOMAIN pool.spoke[s]
       /\ IF on THEN Emit(Snap(p, u, s, r), <<SpokeLog("SetUsingAsCollateral", s, r, u, TRUE),
                                              SpokeLog("RefreshSingle", s, r, u, 0)>>)
          ELSE Emit(p, <<SpokeLog("SetUsingAsCollateral", s, r, u, FALSE)>>)
RefreshAll(u, s) ==
    LET held == {r \in DOMAIN pool.spoke[s] : pool.user[u][s][r].using}
    IN Emit([pool EXCEPT !.user[u][s] = [r \in DOMAIN pool.spoke[s] |->
                  IF r \in held THEN Snap(pool, u, s, r).user[u][s][r] ELSE @[r]],
                         !.risk[u][s] = 1],
            <<SpokeLog("RefreshAll", s, 0, u, 0), SpokeLog("UpdateUserRiskPremium", s, 0, u, 1)>>)

AddDynamic(s, r) ==
    /\ r \in DOMAIN pool.spoke[s] /\ Len(pool.spoke[s][r].dyn) < MaxKey
    /\ Emit([pool EXCEPT !.spoke[s][r].dyn = Append(@, 2)],
            <<SpokeLog("AddDynamicReserveConfig", s, r, None, 2)>>)
\* The values behind a key change, for every user whose collateral has it.
UpdateDynamic(s, r, k) ==
    /\ r \in DOMAIN pool.spoke[s] /\ k \in DOMAIN pool.spoke[s][r].dyn
    /\ Emit([pool EXCEPT !.spoke[s][r].dyn[k] = 3,
                         !.user = [u \in User |-> [@[u] EXCEPT ![s][r].cf =
                             IF pool.user[u][s][r].using /\ pool.user[u][s][r].key = k THEN 3 ELSE @]]],
            <<SpokeLog("UpdateDynamicReserveConfig", s, r, None, [key |-> k, cf |-> 3])>>)

AddAsset == /\ Len(pool.hub) < MaxAssets
            /\ Emit([pool EXCEPT !.hub = Append(@, Zero), !.bits = Append(@, [s \in Spoke |-> {}])],
                    <<HubLog("AddAsset", Len(pool.hub) + 1, 0)>>)
AddReserve(s, a) ==
    /\ a = None \/ a \in DOMAIN pool.hub
    /\ Len(pool.spoke[s]) < MaxAssets
    /\ Emit([pool EXCEPT !.spoke[s] = Append(@, NewReserve(a)),
                         !.user = [u \in User |-> [@[u] EXCEPT ![s] = Append(@, NoUse)]]],
            <<SpokeLog("AddReserve", s, Len(pool.spoke[s]) + 1, None, a),
              SpokeLog("AddDynamicReserveConfig", s, Len(pool.spoke[s]) + 1, None, 1)>>)
UpdateSpokeConfig(a, s, bits) ==
    /\ a \in DOMAIN pool.hub
    /\ Emit([pool EXCEPT !.bits[a][s] = bits], <<HubLog("UpdateSpokeConfig", a, <<s, bits>>)>>)
\* The oracle may take a source before the reserve is listed.
UpdateSource(s, r, pinned) ==
    /\ r \in 1..MaxAssets
    /\ Emit([pool EXCEPT !.source[s] = IF pinned THEN @ \cup {r} ELSE @ \ {r}],
            <<SpokeLog("UpdateReserveSource", s, r, None, pinned)>>)
UpdateReserveConfig(s, r) ==
    /\ r \in DOMAIN pool.spoke[s]
    /\ Emit([pool EXCEPT !.spoke[s][r].paused = ~@],
            <<SpokeLog("UpdateReserveConfig", s, r, None, ~pool.spoke[s][r].paused)>>)
UpdateLiquidationConfig(s) ==
    Emit([pool EXCEPT !.liq[s] = 1 - @],
         <<SpokeLog("UpdateLiquidationConfig", s, 0, None, 1 - pool.liq[s])>>)

(***************************************************************************)
(* apply.rs                                                                *)
(***************************************************************************)
Negative(total) == \E t \in Total : total[t] < 0

fan_out(st, a, F(_)) ==
    [st EXCEPT !.rows = [s \in Spoke |-> [i \in DOMAIN @[s] |->
        IF @[s][i].asset = a THEN F(@[s][i]) ELSE @[s][i]]]]
hub_update(st, a, total) ==
    IF a \notin DOMAIN st.hub \/ Negative(total) THEN Error
    ELSE fan_out([st EXCEPT !.hub[a] = total], a, LAMBDA row : [row EXCEPT !.hub = total])

\* UpdateAsset carries absolute values, every other hub log its own deltas;
\* the fee balance a mint resets comes with the call's UpdateAsset.
apply_hub(st, l) ==
    CASE l.ev = "AddAsset" ->
           IF Len(st.hub) + 1 # l.a THEN Error
           ELSE [st EXCEPT !.hub = Append(@, Zero), !.bits = Append(@, [s \in Spoke |-> {}])]
      [] l.ev = "UpdateSpokeConfig" ->
           LET s == l.x[1]
               set == [st EXCEPT !.bits[l.a][s] = l.x[2]]
           IN [set EXCEPT !.rows[s] = [i \in DOMAIN @ |->
                  IF @[i].asset = l.a THEN [@[i] EXCEPT !.bits = l.x[2]] ELSE @[i]]]
      [] l.ev = "UpdateAsset" -> hub_update(st, l.a, [st.hub[l.a] EXCEPT !["idx"] = l.x.idx,
                                                                          !["fees"] = l.x.fees])
      [] OTHER -> hub_update(st, l.a, Plus(st.hub[l.a], Call[l.ev]))

snapshot(st, u, s, r) ==
    [st EXCEPT !.user[u][s][r].key = st.rows[s][r].key, !.user[u][s][r].cf = st.rows[s][r].dyn]
user_update(st, l) ==
    LET to == Moved(st.user[l.u][l.s][l.r], UserCall[l.ev])
    IN IF to.s < 0 \/ to.d < 0 \/ to.prem < 0 THEN Error ELSE [st EXCEPT !.user[l.u][l.s][l.r] = to]
apply_liquidation(st, l) ==
    LET taken == [st EXCEPT !.user[l.u][l.s][l.r].s = @ - 1]
        paid == [taken EXCEPT !.user[l.u][l.s][l.x.d].d = @ - 1,
                              !.user[l.u][l.s][l.x.d].prem = @ - 1]
    IN IF st.user[l.u][l.s][l.r].s = 0 \/ st.user[l.u][l.s][l.x.d].d = 0 THEN Error
       ELSE IF l.x.keep THEN [paid EXCEPT !.user[l.x.to][l.s][l.r].s = @ + 1] ELSE paid

\* The source's verdict is kept in the spoke's meta row, so that a reserve
\* listed later reads it; a listed one is flagged at once.
set_source(st, l) ==
    LET noted == [st EXCEPT !.meta[l.s] = IF l.x THEN @ \cup {l.r} ELSE @ \ {l.r}]
    IN IF l.r \notin DOMAIN st.rows[l.s] THEN noted
       ELSE [noted EXCEPT !.rows[l.s][l.r].priced = l.x /\ st.rows[l.s][l.r].asset \in Mapped]
add_reserve(st, l) ==
    LET known == l.x # None
        row == [hub |-> IF known THEN st.hub[l.x] ELSE Zero,
                bits |-> IF known THEN st.bits[l.x][l.s] ELSE {},
                paused |-> FALSE, priced |-> l.r \in st.meta[l.s] /\ l.x \in Mapped,
                dyn |-> 0, key |-> 0, asset |-> l.x]
    IN IF Len(st.rows[l.s]) + 1 # l.r \/ (known /\ l.x \notin DOMAIN st.hub) THEN Error
       ELSE [st EXCEPT !.rows[l.s] = Append(@, row),
                       !.user = [u \in User |-> [@[u] EXCEPT ![l.s] = Append(@, NoUse)]]]
update_dynamic(st, l) ==
    LET row == IF st.rows[l.s][l.r].key = l.x.key
               THEN [st EXCEPT !.rows[l.s][l.r].dyn = l.x.cf] ELSE st
    IN [row EXCEPT !.user = [u \in User |-> [@[u] EXCEPT ![l.s][l.r].cf =
           IF st.user[u][l.s][l.r].using /\ st.user[u][l.s][l.r].key = l.x.key
           THEN l.x.cf ELSE @]]]

apply_spoke(st, l) ==
    CASE l.ev \in DOMAIN UserCall -> user_update(st, l)
      [] l.ev = "LiquidationCall" -> apply_liquidation(st, l)
      [] l.ev = "SetUsingAsCollateral" -> [st EXCEPT !.user[l.u][l.s][l.r].using = l.x]
      [] l.ev = "UpdateUserRiskPremium" -> [st EXCEPT !.risk[l.u][l.s] = l.x]
      [] l.ev = "RefreshSingle" -> snapshot(st, l.u, l.s, l.r)
      [] l.ev = "RefreshAll" ->
           [st EXCEPT !.user[l.u][l.s] = [r \in DOMAIN st.rows[l.s] |->
               IF @[r].using THEN snapshot(st, l.u, l.s, r).user[l.u][l.s][r] ELSE @[r]]]
      [] l.ev = "UpdateLiquidationConfig" -> [st EXCEPT !.liq[l.s] = l.x]
      [] l.ev = "AddReserve" -> add_reserve(st, l)
      [] l.ev = "UpdateReserveConfig" -> [st EXCEPT !.rows[l.s][l.r].paused = l.x]
      [] l.ev = "UpdateReserveSource" -> set_source(st, l)
      [] l.ev = "AddDynamicReserveConfig" ->
           [st EXCEPT !.rows[l.s][l.r].dyn = l.x, !.rows[l.s][l.r].key = @ + 1]
      [] l.ev = "UpdateDynamicReserveConfig" -> update_dynamic(st, l)

\* What the handler of each log reports: rows are <<spoke, slot>>, positions
\* <<spoke, user>>.
reported(st, l) ==
    LET PointingAt(a, S) == {<<s, i>> \in S \X (1..MaxAssets) :
                                 i \in DOMAIN st.rows[s] /\ st.rows[s][i].asset = a}
    IN CASE l.at = "hub" /\ l.ev = "AddAsset" -> Nothing
         [] l.at = "hub" /\ l.ev = "UpdateSpokeConfig" -> MarketReprice(PointingAt(l.a, {l.x[1]}))
         [] l.at = "hub" /\ l.ev \notin {"AddAsset", "UpdateSpokeConfig"} ->
                MarketAccrual(PointingAt(l.a, Spoke))
         [] l.ev = "LiquidationCall" ->
                Positions({<<l.s, l.u>>} \cup IF l.x.keep THEN {<<l.s, l.x.to>>} ELSE {})
         [] l.ev = "UpdateLiquidationConfig" ->
                MarketReprice({<<l.s, i>> : i \in DOMAIN st.rows[l.s]})
         [] l.ev \in {"AddReserve", "AddDynamicReserveConfig"} -> Nothing
         [] l.ev = "UpdateReserveSource" ->
                IF l.r \in DOMAIN st.rows[l.s] THEN MarketReprice({<<l.s, l.r>>}) ELSE Nothing
         [] l.ev \in {"UpdateReserveConfig", "UpdateDynamicReserveConfig"} ->
                MarketReprice({<<l.s, l.r>>})
         [] OTHER -> Positions({<<l.s, l.u>>})

apply_log ==
    /\ logs # <<>> /\ ~failed
    /\ \E st \in {IF Head(logs).at = "hub" THEN apply_hub(store, Head(logs))
                  ELSE apply_spoke(store, Head(logs))} :
           IF Err(st) THEN failed' = TRUE /\ UNCHANGED <<store, dirty>>
           ELSE store' = st /\ dirty' = reported(st, Head(logs)) /\ UNCHANGED failed
    /\ logs' = Tail(logs)
    /\ UNCHANGED <<inst, pool, drifted, ops>>

(***************************************************************************)
(* resync.rs: positions, statuses and the risk premium are read; the       *)
(* dynamic config is a follow-up on the key the position answered with.    *)
(***************************************************************************)
Drift(u, s) == /\ logs = <<>> /\ drifted = {} /\ ops < MaxOps /\ DOMAIN pool.spoke[s] # {}
               /\ drifted' = {<<u, s>>}
               /\ store' = [store EXCEPT !.user[u][s] = [r \in DOMAIN @ |-> [Moved(@[r], <<"", 1, 1, 1>>)
                                             EXCEPT !.using = ~@, !.cf = 9]],
                                         !.risk[u][s] = 2]
               /\ ops' = ops + 1
               /\ UNCHANGED <<inst, pool, logs, dirty, failed>>
settle(u, s, answered) ==
    [r \in DOMAIN pool.spoke[s] |->
        IF <<u, s, r>> \in answered
        THEN [pool.user[u][s][r] EXCEPT !.cf = IF @ = 0 /\ ~pool.user[u][s][r].using THEN 0
                                               ELSE pool.spoke[s][r].dyn[pool.user[u][s][r].key]]
        ELSE NoUse]
Resync(u, s, answered) ==
    /\ <<u, s>> \in drifted /\ logs = <<>> /\ ~failed
    /\ \A r \in DOMAIN pool.spoke[s] : <<u, s, r>> \in answered
    /\ store' = [store EXCEPT !.user[u][s] = settle(u, s, answered), !.risk[u][s] = pool.risk[u][s]]
    /\ drifted' = drifted \ {<<u, s>>} /\ dirty' = Positions({<<s, u>>})
    /\ UNCHANGED <<inst, pool, logs, failed, ops>>

Next ==
    \/ apply_log
    \/ \E a \in DOMAIN pool.hub, ev \in DOMAIN Call : Accrue(a, ev)
    \/ \E u \in User, s \in Spoke, r \in 1..MaxAssets :
          \/ \E ev \in DOMAIN UserCall : Act(ev, u, s, r)
          \/ SetUsing(u, s, r)
    \/ \E u, v \in User, s \in Spoke, c, d \in 1..MaxAssets, keep \in BOOLEAN :
          LiquidationCall(u, v, s, c, d, keep)
    \/ \E u \in User, s \in Spoke : RefreshAll(u, s) \/ Drift(u, s)
    \/ \E s \in Spoke, r \in 1..MaxAssets :
          \/ AddDynamic(s, r) \/ UpdateReserveConfig(s, r)
          \/ \E k \in 1..MaxKey : UpdateDynamic(s, r, k)
          \/ \E b \in BOOLEAN : UpdateSource(s, r, b)
    \/ AddAsset
    \/ \E s \in Spoke, a \in 0..MaxAssets : AddReserve(s, a)
    \/ \E a \in 1..MaxAssets, s \in Spoke, b \in SUBSET Bit : UpdateSpokeConfig(a, s, b)
    \/ \E s \in Spoke : UpdateLiquidationConfig(s)
    \/ \E u \in User, s \in Spoke, n \in 0..MaxAssets :
          Resync(u, s, {<<u, s, r>> : r \in 1..n})

Spec == Init /\ [][Next]_vars

-----------------------------------------------------------------------------
\* No log of the hub or a spoke stops the fold, and the copy is exact once a
\* transaction's logs are folded: every reserve row
\* has its hub asset's totals, its spoke's bits, its configuration and whether
\* its source is the pinned one, in whatever order they were set and listed;
\* every account its shares, flags and, where it counts as collateral, the
\* factor behind its key.
FoldExact ==
    logs = <<>> =>
        /\ ~failed
        /\ store.hub = pool.hub /\ store.bits = pool.bits /\ store.liq = pool.liq
        /\ \A s \in Spoke : store.rows[s] = Rows(pool, s)
        /\ \A u \in User, s \in Spoke : <<u, s>> \notin drifted =>
              /\ store.risk[u][s] = pool.risk[u][s]
              /\ \A r \in DOMAIN pool.spoke[s] :
                    LET c == pool.user[u][s][r]
                        m == store.user[u][s][r]
                    IN /\ c.s = m.s /\ c.d = m.d /\ c.prem = m.prem /\ c.using = m.using
                       /\ c.using => m.cf = c.cf /\ m.key = c.key

\* A fold reports every account whose health it may have changed: one of its
\* slots, the row of a slot it holds (a hub asset moves the rows of every
\* spoke), or the spoke's liquidation parameters.
Held(st, u, s) == {r \in DOMAIN st.rows[s] : st.user[u][s][r].s > 0 \/ st.user[u][s][r].d > 0}
Inputs(st, u, s) ==
    <<[r \in Held(st, u, s) |->
          LET m == st.user[u][s][r]
          IN <<m.s, m.d, m.prem, m.using, IF m.using THEN m.cf ELSE 0,
               [st.rows[s][r] EXCEPT !.dyn = 0, !.key = 0]>>],
      st.risk[u][s], IF Held(st, u, s) = {} THEN 0 ELSE st.liq[s]>>
DirtyCovers ==
    logs # <<>> =>
        \A u \in User, s \in Spoke :
            Inputs(store, u, s) # Inputs(store', u, s)
            => Covers(dirty', <<s, u>>, {<<s, r>> : r \in Held(store', u, s)})
====
