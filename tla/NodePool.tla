------------------------------- MODULE NodePool -------------------------------
(***************************************************************************)
(* The nodes that one multi-segment transfer leases: the system resolver's *)
(* choice, Sys, and edges of the CDN pinned by address.  A pinned node     *)
(* that fails is kicked; when most of them are, the host is marked as unfit *)
(* for aggregation; the automatic proxy replaces all of them by its client. *)
(*                                                                         *)
(* Which of the nodes below the cap is leased depends on measured speeds   *)
(* and is left open.  Every operation runs under the lock of the pool.     *)
(***************************************************************************)
EXTENDS Naturals, FiniteSets, FiniteSetsExt

CONSTANTS
    Pinned,     \* the pinned nodes a pool may be built with
    Sys,        \* slot 0
    KickStreak  \* KICK_STREAK

ASSUME PoolAssumption ==
    IsFiniteSet(Pinned) /\ Sys \notin Pinned /\ KickStreak \in Nat \ {0}

Nodes == Pinned \cup {Sys}

\* `marked' is the no-aggregate mark of the host in the health table, which
\* outlives the pool; `failed' is history: the nodes kicked for a failure.
NewPool(slots, marked) ==
    [slots |-> slots, kicked |-> {}, built |-> {}, failed |-> {},
     streak |-> [n \in Nodes |-> 0], leased |-> [n \in Nodes |-> 0],
     recorded |-> FALSE, marked |-> marked, client |-> "direct"]

Pools ==
    [slots : SUBSET Pinned, kicked : SUBSET Pinned, built : SUBSET Pinned,
     failed : SUBSET Pinned, streak : [Nodes -> Nat], leased : [Nodes -> Nat],
     recorded : BOOLEAN, marked : BOOLEAN, client : {"direct", "proxy"}]

Alive(pool) == {Sys} \cup (pool.slots \ pool.kicked)

\* ceil((outstanding + 1) / alive)
Cap(pool) ==
    LET out == MapThenSumSet(LAMBDA n : pool.leased[n], Nodes)
    IN  (out + Cardinality(Alive(pool))) \div Cardinality(Alive(pool))

BelowCap(pool) == {n \in Alive(pool) : pool.leased[n] < Cap(pool)}

\* check_breaker.
Breaker(pool) ==
    IF ~pool.recorded
       /\ Cardinality(pool.kicked) > Cardinality(pool.slots \ pool.kicked)
    THEN [pool EXCEPT !.recorded = TRUE, !.marked = TRUE]
    ELSE pool

Kick(pool, ns) ==
    Breaker([pool EXCEPT !.kicked = @ \cup ns, !.failed = @ \cup ns])

\* Nodes whose client cannot be built on first use.
MayNotBuild(pool) == SUBSET (pool.slots \ (pool.kicked \cup pool.built))

Leased(pool, n) ==
    [pool EXCEPT !.leased = [pool.leased EXCEPT ![n] = pool.leased[n] + 1],
                 !.built = @ \cup ({n} \ {Sys})]

LeasesOf(pool) == {[node |-> n, pool |-> Leased(pool, n)] : n \in BelowCap(pool)}

\* The outcomes of a lease: those of `broken' were picked first and kicked.
Leases(pool) ==
    UNION {LeasesOf(IF broken = {} THEN pool ELSE Kick(pool, broken)) :
           broken \in MayNotBuild(pool)}

GiveBack(pool, n) ==
    LET k == pool.leased[n]
    IN  [pool EXCEPT !.leased = [pool.leased EXCEPT ![n] = IF k = 0 THEN 0 ELSE k - 1]]

ReportOk(pool, n) == [pool EXCEPT !.streak = [pool.streak EXCEPT ![n] = 0]]

ReportErr(pool, n, immediate) ==
    LET s == IF pool.streak[n] < KickStreak THEN pool.streak[n] + 1 ELSE KickStreak
        q == [pool EXCEPT !.streak = [pool.streak EXCEPT ![n] = s]]
    IN  IF n \in Pinned /\ (immediate \/ s = KickStreak) THEN Kick(q, {n}) ELSE q

\* Mutants of Switch: the breaker stays armed; the pinned nodes stay in use.
SwitchLeavesBreaker(pool) == [pool EXCEPT !.kicked = @ \cup pool.slots, !.client = "proxy"]
SwitchKeepsPinned(pool) == [pool EXCEPT !.recorded = TRUE, !.client = "proxy"]

\* switch_to_client.
Switch(pool) ==
    [pool EXCEPT !.recorded = TRUE, !.kicked = @ \cup pool.slots, !.client = "proxy"]
=============================================================================
