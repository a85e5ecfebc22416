---------------------------- MODULE FluidVaults ----------------------------
(***************************************************************************)
(* The Fluid adapter's copy (apply.rs, config.rs of                        *)
(* crates/liq-adapters/fluid): one position per vault, holding what the    *)
(* vault itself says, every block, that a liquidation would take and cost. *)
(* Two simulations are asked for per vault, with and without absorbing; on *)
(* a side held as shares of a pool, follow-ups ask for the shares' worth   *)
(* in each of its two tokens.  Vaults, pools and the node are external.    *)
(***************************************************************************)
EXTENDS LendingMath, DirtySets, Sequences, FiniteSets

CONSTANTS
    Vault,               \* vault ids; those the bind does not read may be deployed later
    LAST_VAULT_MARKET,   \* the largest id with a market of its own
    SmartCol, SmartDebt, \* vaults whose side is a pool's shares (T2 and T4, T3 and T4)
    Unmapped,            \* <<vault, side, token>> the registry does not know
    MaxAmount, MaxOps

VARIABLES
    inst,      \* the vaults bound
    pool,      \* what each vault would liquidate, by whether it absorbs
    store, logs, dirty, drifted, failed, ops

vars == <<inst, pool, store, logs, dirty, drifted, failed, ops>>

Token == {0, 1}
Sides == {"col", "debt"}
Tokens(v, side) == IF v \in (IF side = "col" THEN SmartCol ELSE SmartDebt) THEN Token ELSE {0}
NoExtra == [units |-> [col |-> 0, debt |-> 0], read_ts |-> 0, absorb |-> FALSE]
NoCells == [side \in Sides |-> [t \in Token |-> 0]]

(***************************************************************************)
(* The vaults and their pools                                              *)
(***************************************************************************)
Simulated == {[col |-> c, debt |-> d] : c, d \in 1..MaxAmount} \cup {[col |-> 0, debt |-> 0]}
\* What n units of a side are in token t: themselves, or a pool's estimate.
InToken(v, side, n, t) == IF Tokens(v, side) = {0} THEN n ELSE n + t
Emit(p, ls) ==
    /\ ops < MaxOps /\ logs = <<>> /\ ~failed
    /\ pool' = p /\ logs' = ls /\ ops' = ops + 1
    /\ UNCHANGED <<inst, store, dirty, failed>>

Block(v, plain, absorbing) ==
    /\ Emit([pool EXCEPT !.now = @ + 1,
                         !.sim[v] = [a \in BOOLEAN |-> IF a THEN absorbing ELSE plain]], <<>>)
    /\ UNCHANGED drifted
VaultDeployed(v) ==
    /\ Emit(pool, <<[ev |-> "VaultDeployed", v |-> v]>>)
    /\ UNCHANGED drifted

(***************************************************************************)
(* config.rs: a vault whose reads fail, or whose id is past the markets,   *)
(* is left out of the bind.                                                *)
(***************************************************************************)
bind_live(unread) == {v \in Vault \ unread : v <= LAST_VAULT_MARKET}

Init ==
    /\ \E unread \in SUBSET Vault : inst = bind_live(unread) /\ inst # {}
    /\ pool = [now |-> 1, sim |-> [v \in Vault |-> [a \in BOOLEAN |-> [col |-> 0, debt |-> 0]]]]
    /\ store = [rows |-> {}, catalog |-> <<>>, pos |-> {},
                cells |-> [v \in Vault |-> NoCells], extra |-> [v \in Vault |-> NoExtra]]
    /\ logs = <<>> /\ dirty = Nothing /\ drifted = {} /\ failed = FALSE /\ ops = 0

(***************************************************************************)
(* apply.rs: logs                                                          *)
(***************************************************************************)
ensure_vault(st, v) ==
    IF v \in st.rows THEN st
    ELSE [st EXCEPT !.rows = @ \cup {v}, !.catalog = Append(@, v)]

(***************************************************************************)
(* apply.rs: reads                                                         *)
(***************************************************************************)
quotable(v) == \A side \in Sides : \E t \in Tokens(v, side) : <<v, side, t>> \notin Unmapped
state_reads == {v \in inst : quotable(v)}

\* What a block's reads answer for a vault: a simulation reverts with its
\* amounts, anything else is no answer; a pool is asked only for what a
\* simulation said.
Lossy == {"plain", "absorbing", "payback", "withdraw"}
sim_result(v, lost) == [a \in BOOLEAN |->
    IF (IF a THEN "absorbing" ELSE "plain") \in lost THEN {} ELSE {pool.sim[v][a]}]
state_follow_ups(v, side, lost) == [a \in BOOLEAN |-> [t \in Token |->
    LET s == sim_result(v, lost)[a]
    IN IF \/ Tokens(v, side) = {0} \/ (IF side = "col" THEN "withdraw" ELSE "payback") \in lost
          \/ \A x \in s : x.col = 0 \/ x.debt = 0 THEN {}
       ELSE {InToken(v, side, x[side], t) : x \in s}]]
Answer(v, lost) == [sim |-> sim_result(v, lost),
                    in |-> [side \in Sides |-> state_follow_ups(v, side, lost)]]

\* One vault may lose an answer, others all of theirs.
Read(v, lost, silent) ==
    /\ v \in state_reads \ silent
    /\ drifted' = (drifted \cap silent) \cup {w \in {v} : lost \cap {"plain", "absorbing"} # {}}
    /\ Emit(pool, <<[ev |-> "answers", ts |-> pool.now,
                     by |-> [w \in state_reads \ silent |->
                                Answer(w, IF w = v THEN lost ELSE {})]]>>)

choose_absorb(sim) ==
    LET some(a) == \E x \in sim[a] : x.col > 0 /\ x.debt > 0
        x(a) == CHOOSE s \in sim[a] : TRUE
    IN CASE ~some(FALSE) /\ ~some(TRUE) -> {}
         [] some(FALSE) /\ ~some(TRUE) -> {FALSE}
         [] ~some(FALSE) /\ some(TRUE) -> {TRUE}
         [] OTHER -> {/\ x(TRUE).debt > x(FALSE).debt
                      /\ x(TRUE).col * x(FALSE).debt >= x(FALSE).col * x(TRUE).debt}

\* The cells and the extra one vault's answers make.
said(v, r, ts) ==
    LET chosen == choose_absorb(r.sim)
        a == CHOOSE x \in chosen : TRUE
        units == CHOOSE x \in r.sim[a] : TRUE
        one(s) == IF s = {} THEN 0 ELSE CHOOSE n \in s : TRUE
    IN IF chosen = {} THEN [cells |-> NoCells, extra |-> [NoExtra EXCEPT !.read_ts = ts]]
       ELSE [cells |-> [side \in Sides |-> [t \in Token |->
                 IF Tokens(v, side) = Token THEN one(r.in[side][a][t])
                 ELSE IF t = 0 THEN units[side] ELSE 0]],
             extra |-> [units |-> units, read_ts |-> ts, absorb |-> a]]
live(cells) == \A side \in Sides : \E t \in Token : cells[side][t] > 0

fold_vault(st, v, r, ts) ==
    LET s == said(v, r, ts)
        e == [ensure_vault(st, v) EXCEPT !.pos = @ \cup {v}]
        extra == IF live(s.cells) THEN s.extra ELSE [s.extra EXCEPT !.read_ts = st.extra[v].read_ts]
    IN IF v \notin st.pos /\ ~live(s.cells) THEN st
       ELSE [e EXCEPT !.cells[v] = s.cells, !.extra[v] = extra]
changed(st, nx, v) ==
    \/ nx.cells[v] # st.cells[v]
    \/ nx.extra[v] # st.extra[v] /\ (live(nx.cells[v]) \/ st.extra[v].units.debt # 0)

apply_log ==
    /\ logs # <<>> /\ Head(logs).ev = "VaultDeployed"
    /\ store' = IF Head(logs).v \in inst THEN ensure_vault(store, Head(logs).v) ELSE store
    /\ dirty' = Nothing /\ logs' = Tail(logs)
    /\ UNCHANGED <<inst, pool, drifted, failed, ops>>

\* The vaults fold one by one; each touches only its own rows and position.
apply_state_reads ==
    /\ logs # <<>> /\ Head(logs).ev = "answers"
    /\ \E by \in {Head(logs).by} :
         LET folded(v) == fold_vault(store, v, by[v], Head(logs).ts)
             new == {v \in DOMAIN by : v \in folded(v).rows} \ store.rows
             order == CHOOSE q \in [1..Cardinality(new) -> new] :
                          \A i, j \in 1..Cardinality(new) : i < j => q[i] < q[j]
         IN store' = [rows |-> store.rows \cup new,
                      catalog |-> store.catalog \o order,
                      pos |-> store.pos \cup {v \in DOMAIN by : v \in folded(v).pos},
                      cells |-> [v \in Vault |-> IF v \in DOMAIN by THEN folded(v).cells[v]
                                                 ELSE store.cells[v]],
                      extra |-> [v \in Vault |-> IF v \in DOMAIN by THEN folded(v).extra[v]
                                                 ELSE store.extra[v]]]
    /\ LET moved == {v \in Vault : changed(store, store', v)}
       IN dirty' = IF moved = {} THEN Nothing ELSE Positions(moved)
    /\ logs' = Tail(logs)
    /\ UNCHANGED <<inst, pool, drifted, failed, ops>>

Next ==
    \/ apply_log \/ apply_state_reads
    \/ \E v \in inst, plain, absorbing \in Simulated : Block(v, plain, absorbing)
    \/ \E v \in Vault : VaultDeployed(v)
    \/ \E v \in Vault, lost \in {{}} \cup {{x} : x \in Lossy},
           silent \in {{}} \cup {{w} : w \in Vault} : Read(v, lost, silent)

Spec == Init /\ [][Next]_vars

-----------------------------------------------------------------------------
Chosen(v) == pool.sim[v][store.extra[v].absorb]
Better(x, y) == x.debt > y.debt /\ x.col * y.debt >= y.col * x.debt
Current(v) == store.extra[v].read_ts = pool.now /\ live(store.cells[v])
\* A vault's position read at the block in force is a liquidation the vault
\* offers there: of the kind the resolver would take (with both answered, one
\* the other does not better, and absorbing only at no worse a price), each
\* cell its worth in that one token or unknown; only bound vaults that can be
\* quoted have one, and each has its rows and its catalog entry once.
FoldExact ==
    logs = <<>> =>
        /\ \A v \in store.pos : Current(v) =>
             /\ store.extra[v].units = Chosen(v) /\ Chosen(v).col > 0 /\ Chosen(v).debt > 0
             /\ \A side \in Sides, t \in Token :
                  store.cells[v][side][t] # 0 =>
                      /\ t \in Tokens(v, side)
                      /\ store.cells[v][side][t] = InToken(v, side, Chosen(v)[side], t)
             /\ v \in drifted \/ \E other \in {pool.sim[v][~store.extra[v].absorb]} :
                  /\ ~Better(other, Chosen(v))
                  /\ store.extra[v].absorb =>
                         Chosen(v).col * other.debt >= other.col * Chosen(v).debt
        /\ store.pos \subseteq {v \in inst : quotable(v)} /\ store.pos \subseteq store.rows
        /\ store.rows = {store.catalog[i] : i \in DOMAIN store.catalog}
        /\ Cardinality(store.rows) = Len(store.catalog)
        /\ store.rows \subseteq bind_live({})

\* A block's reads report every vault whose cells they changed, and every one
\* they found liquidatable again, so that its age is looked at anew.
DirtyCovers ==
    logs # <<>> => \A v \in Vault :
        \/ Covers(dirty', v, {})
        \/ /\ store'.cells[v] = store.cells[v]
           /\ live(store.cells[v]) => store'.extra[v] = store.extra[v]
====
