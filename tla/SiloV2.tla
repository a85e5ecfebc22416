------------------------------- MODULE SiloV2 -------------------------------
(***************************************************************************)
(* The Silo V2 adapter's copy of a pair of silos (apply.rs of              *)
(* crates/liq-adapters/silo-v2).  Shares of three kinds move by events;    *)
(* what they are worth is in each silo's totals, which logs carry only in  *)
(* part: the copy grows them at a rate measured from the totals each block *)
(* reads from the node.  The silos and their hook are external.            *)
(***************************************************************************)
EXTENDS LendingMath, DirtySets, Sequences, FiniteSets

CONSTANTS
    User,
    Hook,            \* the hook receiver, one of the users: what it seizes passes through it
    RESOLVED_GROWTH, AVERAGE_WINDOW, Ray,
    MaxAmount, MaxOps

VARIABLES
    inst,      \* "backfill" up to pinned_through, "live" after it
    pool, store, logs, dirty,
    drifted,   \* accounts some event of which the fold does not carry over
    failed, ops

vars == <<inst, pool, store, logs, dirty, drifted, failed, ops>>

Slot == {0, 1}
UNSET == 255
Kind == {"coll", "prot", "debt"}
NoPosition == [sh |-> [k \in Kind |-> [s \in Slot |-> 0]], slot |-> UNSET]
NewTotals == [a |-> [k \in Kind |-> 0], sh |-> [k \in Kind |-> 0], last |-> 0]

(***************************************************************************)
(* The silos.  A unit of debt earns a unit of interest per unit of time;   *)
(* half of the interest goes to fees.                                      *)
(***************************************************************************)
Log(ev, s, u, x) == [ev |-> ev, s |-> s, u |-> u, x |-> x]
Interest(t, now) == t.a["debt"] * (now - t.last)
\* getDebtAssets and getCollateralAssets: with the interest not yet accrued.
Viewed(t, now) ==
    [t EXCEPT !.a["debt"] = @ + Interest(t, now), !.a["coll"] = @ + (Interest(t, now) + 1) \div 2,
              !.last = now]
Holds(p, u, k, s) == p.pos[u].sh[k][s]
Owes(p, u) == \E s \in Slot : Holds(p, u, "debt", s) > 0

Emit(p, ls) ==
    /\ ops < MaxOps /\ logs = <<>> /\ ~failed
    /\ pool' = [p EXCEPT !.read = {}] /\ logs' = ls /\ ops' = ops + 1
    /\ UNCHANGED <<inst, store, dirty, failed>>

\* accrueInterest of one silo, run first by every operation on it.
Accrued(p, s, dt) ==
    LET q == [p EXCEPT !.now = @ + dt]
    IN [p |-> [q EXCEPT !.silo[s] = Viewed(@, q.now)],
        ls |-> IF Interest(q.silo[s], q.now) = 0 THEN <<>>
               ELSE <<Log("AccruedInterest", s, Hook, Interest(q.silo[s], q.now))>>]
Move(p, u, k, s, assets, shares) ==
    [p EXCEPT !.pos[u].sh[k][s] = @ + shares,
              !.silo[s].a[k] = @ + assets, !.silo[s].sh[k] = @ + shares]

createSilo ==
    /\ ~pool.created
    /\ Emit([pool EXCEPT !.created = TRUE], <<Log("NewSilo", 0, Hook, 0)>>)
    /\ UNCHANGED drifted
accrueInterest(s, dt) ==
    LET a == Accrued(pool, s, dt)
    IN /\ pool.created /\ dt > 0
       /\ Emit(a.p, a.ls)
       /\ UNCHANGED drifted
\* Shares are worth what the totals say; the first are one for one.
Worth(t, k, shares) == IF t.sh[k] = 0 THEN shares
                       ELSE IF k = "debt" THEN Up(shares, t.a[k], t.sh[k])
                       ELSE Down(shares, t.a[k], t.sh[k])
deposit(u, k, s, dt, shares) ==
    LET a == Accrued(pool, s, dt)
        assets == Worth(a.p.silo[s], k, shares)
    IN /\ pool.created /\ k # "debt"
       /\ Emit(Move(a.p, u, k, s, assets, shares),
               a.ls \o <<Log("Deposit", s, u, [k |-> k, assets |-> assets, shares |-> shares])>>)
       /\ UNCHANGED drifted
withdraw(u, k, s, dt, shares) ==
    LET a == Accrued(pool, s, dt)
        assets == Worth(a.p.silo[s], k, shares)
    IN /\ k # "debt" /\ shares <= Holds(pool, u, k, s)
       /\ k = "coll" => a.p.silo[s].a["coll"] - assets >= a.p.silo[s].a["debt"]
       /\ Emit(Move(a.p, u, k, s, -assets, -shares),
               a.ls \o <<Log("Withdraw", s, u, [k |-> k, assets |-> assets, shares |-> shares])>>)
       /\ UNCHANGED drifted
\* A loan from silo s is backed by the other one, whatever backed an earlier.
borrow(u, s, dt, shares) ==
    LET a == Accrued(pool, s, dt)
        assets == Worth(a.p.silo[s], "debt", shares)
    IN /\ Holds(pool, u, "debt", 1 - s) = 0
       /\ a.p.silo[s].a["debt"] + assets <= a.p.silo[s].a["coll"]
       /\ Emit([Move(a.p, u, "debt", s, assets, shares) EXCEPT !.pos[u].slot = 1 - s],
               a.ls \o <<Log("Borrow", s, u, [assets |-> assets, shares |-> shares])>>)
       /\ drifted' = IF pool.pos[u].slot \in {UNSET, 1 - s} THEN drifted ELSE drifted \cup {u}
repay(u, s, dt, shares) ==
    LET a == Accrued(pool, s, dt)
        assets == Worth(a.p.silo[s], "debt", shares)
    IN /\ shares <= Holds(pool, u, "debt", s)
       /\ Emit(Move(a.p, u, "debt", s, -assets, -shares),
               a.ls \o <<Log("Repay", s, u, [assets |-> assets, shares |-> shares])>>)
       /\ UNCHANGED drifted
switchCollateralToThisSilo(u, s) ==
    /\ Owes(pool, u) /\ pool.pos[u].slot # s
    /\ Emit([pool EXCEPT !.pos[u].slot = s], <<Log("CollateralTypeChanged", s, u, 0)>>)
    /\ UNCHANGED drifted
\* A debt comes with what backs it, unless something already backs the receiver.
transfer(u, v, k, s, shares) ==
    LET kept == pool.pos[v].slot # UNSET
    IN /\ shares <= Holds(pool, u, k, s)
       /\ k = "debt" => u # v /\ Holds(pool, v, "debt", 1 - s) = 0
       /\ Emit([pool EXCEPT !.pos = [w \in User |->
                    LET m == [pool.pos[w] EXCEPT !.sh[k][s] = @ - (IF w = u THEN shares ELSE 0)
                                                         + (IF w = v THEN shares ELSE 0)]
                    IN IF k = "debt" /\ w = v /\ ~kept
                       THEN [m EXCEPT !.slot = pool.pos[u].slot] ELSE m]],
               <<Log("Transfer", s, u, [k |-> k, to |-> v, shares |-> shares])>>)
       \* a transfer to oneself; a debt moved whole, or to an account that had one
       /\ drifted' = IF u = v THEN drifted \cup {u}
                     ELSE IF k = "debt" /\ (shares = Holds(pool, u, k, s) \/ kept \/ u \in drifted)
                          THEN drifted \cup {v} ELSE drifted
\* The hook takes collateral shares, redeems them and repays.
liquidationCall(u, s, dt, taken, shares) ==
    LET c == pool.pos[u].slot
        a == Accrued(pool, s, dt)
        b == IF c = s THEN [a EXCEPT !.ls = <<>>] ELSE Accrued(a.p, c, 0)
        out == Worth(b.p.silo[c], "coll", taken)
        paid == Worth(b.p.silo[s], "debt", shares)
        took == Move(b.p, u, "coll", c, -out, -taken)
    IN /\ u # Hook /\ c # UNSET
       /\ shares <= Holds(pool, u, "debt", s) /\ taken <= Holds(pool, u, "coll", c)
       /\ b.p.silo[c].a["coll"] - out >= b.p.silo[c].a["debt"]
       /\ Emit(Move(took, u, "debt", s, -paid, -shares),
               a.ls \o (IF c = s THEN <<>> ELSE b.ls)
                 \o <<Log("Repay", s, u, [assets |-> paid, shares |-> shares]),
                      Log("Transfer", c, u, [k |-> "coll", to |-> Hook, shares |-> taken]),
                      Log("Withdraw", c, Hook, [k |-> "coll", assets |-> out, shares |-> taken]),
                      Log("LiquidationCall", s, u, 0)>>)
       /\ UNCHANGED drifted
\* Upgrades of the factory, of one of the pair's contracts or of another
\* pair's; a new hook for the pair; flash loans, fees, listings of shares.
Notice(ev) ==
    /\ pool.created
    /\ Emit([pool EXCEPT !.replaced = @ \/ (ev \in {"Upgraded", "NewSiloHook"} /\ inst = "live")],
            <<Log(ev, 0, Hook, 0)>>)
    /\ UNCHANGED drifted

(***************************************************************************)
(* apply.rs                                                                *)
(***************************************************************************)
NewRow == [a |-> NewTotals.a, sh |-> NewTotals.sh, last |-> 0, rate |-> 0, known |-> FALSE,
           read |-> FALSE, base |-> 0, base_at |-> 0, accrued_at |-> 0]

\* A pair not created yet, or one folded up to now: u owes to silo 0.
Init ==
    /\ inst \in {"backfill", "live"}
    /\ \E u \in User \ {Hook}, lived \in BOOLEAN, debt \in 1..MaxAmount :
         LET empty == [created |-> lived, replaced |-> FALSE, read |-> {}, now |-> 1,
                       silo |-> [s \in Slot |-> NewTotals], pos |-> [w \in User |-> NoPosition]]
             backed == Move(empty, u, "coll", 1, MaxAmount, MaxAmount)
             lent == Move(backed, Hook, "coll", 0, MaxAmount, MaxAmount)
             owed == [Move(lent, u, "debt", 0, debt, debt) EXCEPT !.pos[u].slot = 1]
         IN /\ pool = IF lived THEN owed ELSE empty
            /\ store = [listed |-> lived, halted |-> FALSE, pos |-> pool.pos,
                        row |-> [s \in Slot |-> [NewRow EXCEPT !.a = pool.silo[s].a,
                                                               !.sh = pool.silo[s].sh]]]
    /\ logs = <<>> /\ dirty = Nothing /\ drifted = {} /\ failed = FALSE /\ ops = 0

Error == [err |-> TRUE]
rows == {<<1, s>> : s \in Slot}

\* A zeroed extra reads as collateral in silo 0: told from a real one by
\* having neither debt nor protected shares.
intern(st, u) ==
    IF /\ st.pos[u].slot = 0
       /\ \A s \in Slot : st.pos[u].sh["prot"][s] = 0 /\ st.pos[u].sh["debt"][s] = 0
    THEN [st EXCEPT !.pos[u].slot = UNSET] ELSE st

\* math.rs grown and rate_ray
grown(total, rate, dt) == total + Down(total, rate * dt, Ray)
rate_ray(from, to, dt) == IF from = 0 \/ to <= from THEN 0 ELSE Down(to - from, Ray, from * dt)
accrue(b, dt) ==
    LET debt == grown(b.a["debt"], b.rate, dt)
        interest == debt - b.a["debt"]
    IN IF ~b.known THEN b
       ELSE [b EXCEPT !.a["debt"] = debt, !.a["coll"] = @ + interest - interest \div 2]
patch_row(st, s, assets, shares, k) ==
    [st EXCEPT !.row[s] = [accrue(@, Monus(pool.now, @.last)) EXCEPT
                               !.a[k] = @ + assets, !.sh[k] = @ + shares, !.last = pool.now]]

\* add_u128: checked; the log is refused when one underflows.
Checked(st) ==
    IF \A k \in Kind, s \in Slot : /\ st.row[s].a[k] >= 0 /\ st.row[s].sh[k] >= 0
                                   /\ \A u \in User : st.pos[u].sh[k][s] >= 0
    THEN st ELSE Error

new_silo(st) ==
    IF st.listed THEN Error
    ELSE [st EXCEPT !.listed = TRUE, !.row = [s \in Slot |-> [NewRow EXCEPT !.last = pool.now]]]
halt_pair(st) == IF st.listed THEN [st EXCEPT !.halted = TRUE] ELSE st

coll_delta(st, l, sign) ==
    Checked(patch_row([intern(st, l.u) EXCEPT !.pos[l.u].sh[l.x.k][l.s] = @ + sign * l.x.shares],
                      l.s, sign * l.x.assets, sign * l.x.shares, l.x.k))
borrow_log(st, l) ==
    LET i == [intern(st, l.u) EXCEPT !.pos[l.u].sh["debt"][l.s] = @ + l.x.shares]
        e == IF i.pos[l.u].slot = UNSET THEN [i EXCEPT !.pos[l.u].slot = 1 - l.s] ELSE i
    IN patch_row(e, l.s, l.x.assets, l.x.shares, "debt")
repay_log(st, l) ==
    Checked(patch_row([intern(st, l.u) EXCEPT !.pos[l.u].sh["debt"][l.s] = @ - l.x.shares],
                      l.s, -l.x.assets, -l.x.shares, "debt"))
\* Counted by the growth already, once it is known.
accrued_interest(st, l) == patch_row(st, l.s, IF st.row[l.s].known THEN 0 ELSE l.x, 0, "debt")

\* First the sender, then the receiver; each by whether it is the receiver.
share_transfer(st, l) ==
    LET signed(u) == IF u = l.x.to THEN l.x.shares ELSE -l.x.shares
        a == [intern(st, l.u) EXCEPT !.pos[l.u].sh[l.x.k][l.s] = @ + signed(l.u)]
        b == [intern(a, l.x.to) EXCEPT !.pos[l.x.to].sh[l.x.k][l.s] = @ + signed(l.x.to)]
        c == intern(b, l.u)
    IN Checked(IF l.x.k = "debt" /\ b.pos[l.x.to].slot = UNSET
               THEN [c EXCEPT !.pos[l.x.to].slot = c.pos[l.u].slot] ELSE b)

fold(st, l) ==
    CASE l.ev \in {"Upgraded", "NewSiloHook"} -> IF inst = "live" THEN halt_pair(st) ELSE st
      [] l.ev = "FactoryUpgraded" -> IF inst = "live" THEN Error ELSE st
      [] l.ev = "NewSilo" -> new_silo(st)
      [] l.ev = "Deposit" -> coll_delta(st, l, 1)
      [] l.ev = "Withdraw" -> coll_delta(st, l, -1)
      [] l.ev = "Borrow" -> borrow_log(st, l)
      [] l.ev = "Repay" -> repay_log(st, l)
      [] l.ev = "CollateralTypeChanged" -> [intern(st, l.u) EXCEPT !.pos[l.u].slot = l.s]
      [] l.ev = "AccruedInterest" -> accrued_interest(st, l)
      [] l.ev = "Transfer" -> share_transfer(st, l)
      [] l.ev = "LiquidationCall" -> intern(st, l.u)
      [] l.ev = "Other" -> st

reported(st, l) ==
    CASE l.ev \in {"Upgraded", "NewSiloHook"} ->
             MarketReprice(IF inst = "live" /\ st.listed THEN rows ELSE {})
      [] l.ev \in {"FactoryUpgraded", "Other"} -> Nothing
      [] l.ev = "NewSilo" -> MarketReprice(rows)
      [] l.ev = "AccruedInterest" -> MarketAccrual(rows)
      [] l.ev = "Transfer" -> Positions({l.u, l.x.to})
      [] OTHER -> Positions({l.u})

apply_log ==
    /\ logs # <<>> /\ ~failed
    /\ \E st \in {fold(store, Head(logs))} :
           IF "err" \in DOMAIN st THEN failed' = TRUE /\ UNCHANGED <<store, dirty>>
           ELSE store' = st /\ dirty' = reported(st, Head(logs)) /\ UNCHANGED failed
    /\ logs' = Tail(logs)
    /\ UNCHANGED <<inst, pool, drifted, ops>>

\* state_reads asks for the silos with debt; a silo whose four answers are not
\* all there is left as it was.
apply_totals_row(b, s) ==
    LET t == pool.silo[s]
        now == pool.now
        v == Viewed(t, now)
        age == now - t.last
        c == IF b.read /\ b.accrued_at = t.last THEN b
             ELSE IF age \in 1..AVERAGE_WINDOW
             THEN [b EXCEPT !.base = t.a["debt"], !.base_at = t.last]
             ELSE [b EXCEPT !.base = v.a["debt"], !.base_at = now]
        m == IF now > c.base_at /\ v.a["debt"] >= c.base + RESOLVED_GROWTH
             THEN [c EXCEPT !.rate = rate_ray(c.base, v.a["debt"], now - c.base_at), !.known = TRUE,
                            !.base = v.a["debt"], !.base_at = now]
             ELSE c
    IN [m EXCEPT !.a["debt"] = v.a["debt"], !.a["coll"] = v.a["coll"],
                 !.accrued_at = t.last, !.read = TRUE, !.last = now]
state_reads == {s \in Slot : store.listed /\ store.row[s].a["debt"] > 0}
apply_totals(answered) ==
    /\ ops < MaxOps /\ logs = <<>> /\ ~failed /\ inst = "live"
    /\ answered # {} /\ answered \subseteq state_reads
    /\ store' = [store EXCEPT !.row = [s \in Slot |->
                     IF s \in answered THEN apply_totals_row(store.row[s], s) ELSE store.row[s]]]
    /\ dirty' = MarketAccrual({<<1, s>> : s \in {s \in Slot : store'.row[s] # store.row[s]}})
    /\ pool' = [pool EXCEPT !.read = answered, !.now = @ + 1]   \* the next block
    /\ ops' = ops + 1
    /\ UNCHANGED <<inst, logs, drifted, failed>>

Amount == 1..MaxAmount
Next ==
    \/ apply_log
    \/ \E answered \in SUBSET Slot : apply_totals(answered)
    \/ createSilo
    \/ \E s \in Slot, dt \in 0..1 : accrueInterest(s, dt)
    \/ \E ev \in {"Upgraded", "NewSiloHook", "FactoryUpgraded", "Other"} : Notice(ev)
    \/ \E u \in User, s \in Slot, dt \in 0..1, n \in Amount, k \in Kind :
           deposit(u, k, s, dt, n) \/ withdraw(u, k, s, dt, n)
    \/ \E u \in User, s \in Slot, dt \in 0..1, n \in Amount :
           borrow(u, s, dt, n) \/ repay(u, s, dt, n)
    \/ \E u \in User, s \in Slot : switchCollateralToThisSilo(u, s)
    \/ \E u, v \in User, s \in Slot, n \in Amount, k \in Kind : transfer(u, v, k, s, n)
    \/ \E u \in User, s \in Slot, dt \in 0..1, n, m \in Amount : liquidationCall(u, s, dt, n, m)

Spec == Init /\ [][Next]_vars

-----------------------------------------------------------------------------
Unread(s) == ~store.row[s].read
\* Once a transaction's logs are folded the copy has every account's shares of
\* the three kinds and, for borrowers, the silo that backs them, except where
\* an event is not carried over; the share totals and protected assets of both
\* silos; and the halt.  Before the first read the debt is the stored one and
\* the collateral no more than it; a read makes both the chain's at that block;
\* and no measured rate is above the one the silo charges.
FoldExact ==
    logs = <<>> /\ ~failed =>
        /\ store.listed = pool.created /\ store.halted = pool.replaced
        /\ \A u \in User \ drifted : /\ store.pos[u].sh = pool.pos[u].sh
                                     /\ Owes(pool, u) => store.pos[u].slot = pool.pos[u].slot
        /\ \A s \in Slot :
             /\ store.row[s].sh = pool.silo[s].sh /\ store.row[s].a["prot"] = pool.silo[s].a["prot"]
             /\ Unread(s) => /\ store.row[s].a["debt"] = pool.silo[s].a["debt"]
                             /\ store.row[s].a["coll"] <= pool.silo[s].a["coll"]
             /\ s \in pool.read => store.row[s].a = Viewed(pool.silo[s], store.row[s].last).a
             /\ store.row[s].rate <= Ray

\* docs/coverage/silo-v2.md has a borrow set collateral_slot to the other silo
\* and a debt transfer copy it: every borrower's copy names the silo that backs
\* the loan.
BackingExact ==
    logs = <<>> /\ ~failed =>
        \A u \in User : Owes(pool, u) => store.pos[u].slot = pool.pos[u].slot

HeldSlots(st, u) == {<<1, s>> : s \in {s \in Slot : \E k \in Kind : st.pos[u].sh[k][s] > 0}}
Owed(st, u, s) ==
    LET b == accrue(st.row[s], Monus(pool.now, st.row[s].last))
    IN IF b.sh["debt"] = 0 THEN 0 ELSE Up(st.pos[u].sh["debt"][s], b.a["debt"], b.sh["debt"])
\* A fold reports every position whose shares or backing silo it changed, and
\* every holder of a silo it halted; an unreported position owes no more after
\* it, both valued at the block's time.
DirtyCovers ==
    logs # <<>> => \A u \in User :
        \/ Covers(dirty', u, HeldSlots(store', u))
        \/ /\ store'.pos[u].sh = store.pos[u].sh
           /\ Owes(store, u) => store'.pos[u].slot = store.pos[u].slot
           /\ HeldSlots(store, u) # {} => store'.halted = store.halted
           /\ \A s \in Slot : Owed(store', u, s) <= Owed(store, u, s)
====
