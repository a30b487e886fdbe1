------------------------- MODULE HttpDownload_proofs -------------------------
(***************************************************************************)
(* Proofs about HttpDownload for any set of nodes, any number of versions  *)
(* and any bounds.  TransferInv, which holds for every kind of task and    *)
(* server, places the bytes, the rows and the leases of the pool;          *)
(* VersionInv adds what the validators guarantee about the versions of the *)
(* bytes, and ChangeInv about the versions the edges serve, for the kinds  *)
(* of task that TellsVersions and Attributes describe.                     *)
(***************************************************************************)
EXTENDS HttpDownload, FiniteSetTheorems, SequenceTheorems, TLAPS

USE PoolAssumption, HttpAssumption DEF Nodes, Edges, Versions, Segs, Size

-----------------------------------------------------------------------------
(* The pool. *)

PoolOK(p) ==
    /\ p.kicked \subseteq p.slots
    /\ ~p.recorded => p.kicked = p.failed
    /\ p.client = "proxy" => p.slots \subseteq p.kicked

\* The pool after an operation other than a switch of the client.
Follows(p, q) ==
    /\ q \in Pools /\ PoolOK(q)
    /\ q.slots = p.slots /\ q.client = p.client
    /\ q.marked /\ ~p.marked => 2 * Cardinality(q.failed) > Cardinality(q.slots)

LEMMA MostNodes ==
    ASSUME NEW A, NEW B, IsFiniteSet(B), A \subseteq B,
           Cardinality(A) > Cardinality(B \ A)
    PROVE  2 * Cardinality(A) > Cardinality(B)
<1> DEFINE D == B \ A
<1>0. A \cup D = B /\ A \cap D = {} /\ D \subseteq B
    OBVIOUS
<1>1. IsFiniteSet(A) /\ IsFiniteSet(D)
    BY <1>0, FS_Subset
<1>2. Cardinality(A) \in Nat /\ Cardinality(D) \in Nat
    BY <1>1, FS_CardinalityType
<1>3. Cardinality({}) = 0
    BY FS_EmptySet
<1>4. Cardinality(A) > Cardinality(D)
    OBVIOUS
<1> HIDE DEF D
<1>5. Cardinality(A \cup D) = Cardinality(A) + Cardinality(D) - Cardinality(A \cap D)
    BY <1>1, FS_Union
<1>6. Cardinality(B) = Cardinality(A) + Cardinality(D) - Cardinality({})
    BY <1>0, <1>5
<1> QED
    BY <1>2, <1>3, <1>4, <1>6

LEMMA KickFollows ==
    ASSUME NEW p \in Pools, PoolOK(p), NEW ns \in SUBSET p.slots
    PROVE  Follows(p, Kick(p, ns)) /\ Kick(p, ns).leased = p.leased
                                   /\ Kick(p, ns).built = p.built
<1> DEFINE q == [p EXCEPT !.kicked = @ \cup ns, !.failed = @ \cup ns]
<1>0. p.slots \in SUBSET Pinned /\ p.failed \in SUBSET Pinned /\ p.kicked \in SUBSET Pinned
    BY DEF Pools
<1>1. /\ q \in Pools
      /\ q.slots = p.slots /\ q.client = p.client /\ q.marked = p.marked
      /\ q.leased = p.leased /\ q.built = p.built /\ q.recorded = p.recorded
      /\ q.kicked = p.kicked \cup ns /\ q.failed = p.failed \cup ns
    BY DEF Pools
<1>2. PoolOK(q)
    BY <1>1 DEF PoolOK
<1>3. Kick(p, ns) = Breaker(q)
    BY DEF Kick
<1> HIDE DEF q
<1>4. CASE ~(~q.recorded /\ Cardinality(q.kicked) > Cardinality(q.slots \ q.kicked))
    <2>1. Breaker(q) = q
        BY <1>4 DEF Breaker
    <2> QED
        BY <1>1, <1>2, <1>3, <2>1 DEF Follows
<1>5. CASE ~q.recorded /\ Cardinality(q.kicked) > Cardinality(q.slots \ q.kicked)
    <2> DEFINE r == [q EXCEPT !.recorded = TRUE, !.marked = TRUE]
    <2>1. Breaker(q) = r
        BY <1>5 DEF Breaker
    <2>2. /\ r \in Pools
          /\ r.slots = q.slots /\ r.client = q.client /\ r.leased = q.leased
          /\ r.built = q.built /\ r.recorded = TRUE
          /\ r.kicked = q.kicked /\ r.failed = q.failed
        BY <1>1 DEF Pools
    <2> HIDE DEF r
    <2>3. PoolOK(r)
        BY <1>2, <2>2 DEF PoolOK
    <2>4. IsFiniteSet(q.slots) /\ q.kicked \subseteq q.slots /\ q.failed = q.kicked
        BY <1>0, <1>1, <1>2, <1>5, FS_Subset DEF PoolOK
    <2>5. 2 * Cardinality(q.failed) > Cardinality(q.slots)
        BY <1>5, <2>4, MostNodes
    <2> QED
        BY <1>1, <1>3, <2>1, <2>2, <2>3, <2>5 DEF Follows
<1> QED
    BY <1>4, <1>5

LEMMA LeasedFacts ==
    ASSUME NEW q \in Pools, NEW n \in Nodes
    PROVE  /\ Leased(q, n) \in Pools
           /\ Leased(q, n).slots = q.slots /\ Leased(q, n).client = q.client
           /\ Leased(q, n).marked = q.marked /\ Leased(q, n).recorded = q.recorded
           /\ Leased(q, n).kicked = q.kicked /\ Leased(q, n).failed = q.failed
           /\ Leased(q, n).leased = [q.leased EXCEPT ![n] = @ + 1]
<1> DEFINE le == [q.leased EXCEPT ![n] = q.leased[n] + 1]
           bu == q.built \cup ({n} \ {Sys})
<1>1. q.leased \in [Nodes -> Nat] /\ q.built \in SUBSET Pinned
    BY DEF Pools
<1>2. le \in [Nodes -> Nat]
    BY <1>1
<1>3. bu \in SUBSET Pinned
    BY <1>1
<1>4. Leased(q, n) = [q EXCEPT !.leased = le, !.built = bu]
    BY DEF Leased
<1>5. le = [q.leased EXCEPT ![n] = @ + 1]
    OBVIOUS
<1> HIDE DEF le, bu
<1> QED
    BY <1>2, <1>3, <1>4, <1>5 DEF Pools

\* What a lease may be: a node of the pool, counted.
LEMMA LeaseFollows ==
    ASSUME NEW p \in Pools, PoolOK(p), NEW l \in Leases(p)
    PROVE  /\ l.node \in p.slots \cup {Sys}
           /\ p.client = "proxy" => l.node = Sys
           /\ Follows(p, l.pool)
           /\ l.pool.leased = [p.leased EXCEPT ![l.node] = @ + 1]
<1>1. PICK broken \in MayNotBuild(p) :
         l \in LeasesOf(IF broken = {} THEN p ELSE Kick(p, broken))
    BY DEF Leases
<1> DEFINE q == IF broken = {} THEN p ELSE Kick(p, broken)
<1>2. PICK n \in BelowCap(q) : l = [node |-> n, pool |-> Leased(q, n)]
    BY <1>1 DEF LeasesOf
<1>3. Follows(p, q) /\ q.leased = p.leased
    <2>1. broken \in SUBSET p.slots
        BY DEF MayNotBuild
    <2>2. CASE broken = {}
        BY <2>2 DEF Follows
    <2>3. CASE broken # {}
        BY <2>1, <2>3, KickFollows
    <2> QED
        BY <2>2, <2>3
<1> HIDE DEF q
<1>4. n \in {Sys} \cup (q.slots \ q.kicked)
    BY DEF BelowCap, Alive
<1>5. q.slots \subseteq Pinned /\ q.slots = p.slots /\ q.client = p.client
    BY <1>3 DEF Follows, Pools
<1>6. p.client = "proxy" => n = Sys
    BY <1>3, <1>4 DEF Follows, PoolOK
<1> DEFINE r == Leased(q, n)
<1>7. q.leased \in [Nodes -> Nat] /\ q.built \in SUBSET Pinned /\ q \in Pools
    BY <1>3 DEF Follows, Pools
<1>8. /\ r \in Pools
      /\ r.slots = q.slots /\ r.client = q.client /\ r.marked = q.marked
      /\ r.recorded = q.recorded
      /\ r.kicked = q.kicked /\ r.failed = q.failed
      /\ r.leased = [q.leased EXCEPT ![n] = @ + 1]
    BY <1>4, <1>5, <1>7, LeasedFacts
<1>9. l.node = n /\ l.pool = r
    BY <1>2
<1> HIDE DEF r
<1> QED
    BY <1>3, <1>4, <1>5, <1>6, <1>8, <1>9 DEF Follows, PoolOK

LEMMA ReportErrFollows ==
    ASSUME NEW p \in Pools, PoolOK(p), NEW n \in p.slots \cup {Sys}, NEW immediate \in BOOLEAN
    PROVE  Follows(p, ReportErr(p, n, immediate)) /\ ReportErr(p, n, immediate).leased = p.leased
<1> DEFINE s == IF p.streak[n] < KickStreak THEN p.streak[n] + 1 ELSE KickStreak
           st == [p.streak EXCEPT ![n] = s]
           q == [p EXCEPT !.streak = st]
<1>1. p.streak \in [Nodes -> Nat] /\ n \in Nodes /\ KickStreak \in Nat
    BY DEF Pools
<1>2. s \in Nat /\ st \in [Nodes -> Nat]
    BY <1>1
<1>3. ReportErr(p, n, immediate) =
         IF n \in Pinned /\ (immediate \/ s = KickStreak) THEN Kick(q, {n}) ELSE q
    BY DEF ReportErr
<1> HIDE DEF s, st
<1>4. /\ q \in Pools
      /\ q.slots = p.slots /\ q.client = p.client /\ q.marked = p.marked
      /\ q.leased = p.leased /\ q.recorded = p.recorded
      /\ q.kicked = p.kicked /\ q.failed = p.failed
    BY <1>2 DEF Pools
<1> HIDE DEF q
<1>5. PoolOK(q)
    BY <1>4 DEF PoolOK
<1>6. CASE n \in Pinned /\ (immediate \/ s = KickStreak)
    <2>1. {n} \in SUBSET q.slots
        BY <1>4, <1>6
    <2>2. Follows(q, Kick(q, {n})) /\ Kick(q, {n}).leased = q.leased
        BY <1>4, <1>5, <2>1, KickFollows
    <2> QED
        BY <1>3, <1>4, <1>6, <2>2 DEF Follows
<1>7. CASE ~(n \in Pinned /\ (immediate \/ s = KickStreak))
    BY <1>3, <1>4, <1>5, <1>7 DEF Follows
<1> QED
    BY <1>6, <1>7

LEMMA GiveBackFollows ==
    ASSUME NEW p \in Pools, PoolOK(p), NEW n \in Nodes
    PROVE  /\ Follows(p, GiveBack(p, n))
           /\ GiveBack(p, n).marked = p.marked /\ GiveBack(p, n).failed = p.failed
           /\ GiveBack(p, n).leased
                = [p.leased EXCEPT ![n] = IF @ = 0 THEN 0 ELSE @ - 1]
<1> DEFINE le == [p.leased EXCEPT ![n] = IF p.leased[n] = 0 THEN 0 ELSE p.leased[n] - 1]
<1>1. p.leased \in [Nodes -> Nat]
    BY DEF Pools
<1>2. le \in [Nodes -> Nat]
    BY <1>1
<1>3. GiveBack(p, n) = [p EXCEPT !.leased = le]
    BY DEF GiveBack
<1>4. le = [p.leased EXCEPT ![n] = IF @ = 0 THEN 0 ELSE @ - 1]
    OBVIOUS
<1> HIDE DEF le
<1>5. /\ [p EXCEPT !.leased = le] \in Pools
      /\ [p EXCEPT !.leased = le].leased = le
      /\ [p EXCEPT !.leased = le].slots = p.slots
      /\ [p EXCEPT !.leased = le].client = p.client
      /\ [p EXCEPT !.leased = le].marked = p.marked
      /\ [p EXCEPT !.leased = le].recorded = p.recorded
      /\ [p EXCEPT !.leased = le].kicked = p.kicked
      /\ [p EXCEPT !.leased = le].failed = p.failed
    BY <1>2 DEF Pools
<1> QED
    BY <1>3, <1>4, <1>5 DEF Follows, PoolOK

LEMMA ReportOkFollows ==
    ASSUME NEW p \in Pools, PoolOK(p), NEW n \in Nodes
    PROVE  Follows(p, ReportOk(p, n)) /\ ReportOk(p, n).leased = p.leased
<1> DEFINE st == [p.streak EXCEPT ![n] = 0]
<1>1. st \in [Nodes -> Nat]
    BY DEF Pools
<1>2. ReportOk(p, n) = [p EXCEPT !.streak = st]
    BY DEF ReportOk
<1> HIDE DEF st
<1>3. /\ [p EXCEPT !.streak = st] \in Pools
      /\ [p EXCEPT !.streak = st].leased = p.leased
      /\ [p EXCEPT !.streak = st].slots = p.slots
      /\ [p EXCEPT !.streak = st].client = p.client
      /\ [p EXCEPT !.streak = st].marked = p.marked
      /\ [p EXCEPT !.streak = st].recorded = p.recorded
      /\ [p EXCEPT !.streak = st].kicked = p.kicked
      /\ [p EXCEPT !.streak = st].failed = p.failed
    BY <1>1 DEF Pools
<1> QED
    BY <1>2, <1>3 DEF Follows, PoolOK

\* A node is reported and given back.
LEMMA ReturnFollows ==
    ASSUME NEW p \in Pools, PoolOK(p), NEW n \in p.slots \cup {Sys}, NEW q,
           \/ \E immediate \in BOOLEAN : q = GiveBack(ReportErr(p, n, immediate), n)
           \/ q = GiveBack(ReportOk(p, n), n)
    PROVE  /\ Follows(p, q)
           /\ q.leased = [p.leased EXCEPT ![n] = IF @ = 0 THEN 0 ELSE @ - 1]
<1>1. n \in Nodes
    BY DEF Pools
<1>2. PICK r : q = GiveBack(r, n) /\ Follows(p, r) /\ r.leased = p.leased
    BY <1>1, ReportErrFollows, ReportOkFollows
<1>3. r \in Pools /\ PoolOK(r)
    BY <1>2 DEF Follows
<1>4. /\ Follows(r, q)
      /\ q.marked = r.marked /\ q.failed = r.failed
      /\ q.leased = [r.leased EXCEPT ![n] = IF @ = 0 THEN 0 ELSE @ - 1]
    BY <1>1, <1>2, <1>3, GiveBackFollows
<1> QED
    BY <1>2, <1>4 DEF Follows

LEMMA SwitchFacts ==
    ASSUME NEW p \in Pools, PoolOK(p)
    PROVE  /\ Switch(p) \in Pools /\ PoolOK(Switch(p))
           /\ Switch(p).slots = p.slots /\ Switch(p).leased = p.leased
           /\ Switch(p).marked = p.marked /\ Switch(p).client = "proxy"
<1> DEFINE q == Switch(p)
<1>1. p.slots \in SUBSET Pinned /\ p.kicked \in SUBSET Pinned
    BY DEF Pools
<1>2. /\ q \in Pools
      /\ q.slots = p.slots /\ q.leased = p.leased
      /\ q.marked = p.marked /\ q.client = "proxy"
      /\ q.recorded = TRUE /\ q.kicked = p.kicked \cup p.slots
    BY <1>1 DEF Pools, Switch
<1> QED
    BY <1>2 DEF PoolOK

LEMMA NewPoolFacts ==
    ASSUME NEW S \in SUBSET Pinned, NEW m \in BOOLEAN
    PROVE  /\ NewPool(S, m) \in Pools /\ PoolOK(NewPool(S, m))
           /\ NewPool(S, m).slots = S /\ NewPool(S, m).marked = m
           /\ NewPool(S, m).client = "direct"
           /\ \A n \in Nodes : NewPool(S, m).leased[n] = 0
    BY DEF NewPool, Pools, PoolOK

-----------------------------------------------------------------------------
(* The bytes, the rows and the leases. *)

Dbs == [tag : 0..MaxVersion, verified : BOOLEAN, sized : BOOLEAN, rows : Rows]
Statuses == {"new", "running", "stopped", "mismatch", "done"}

TypeInv ==
    /\ kind \in Starts /\ served \in [Edges -> Versions]
    /\ db \in Dbs
    /\ disk \in Seq(0..MaxVersion) /\ Len(disk) <= Size
    /\ run = Idle \/ run \in Runs
    /\ pool \in Pools /\ conn \in [Segs -> Conns]
    /\ status \in Statuses /\ changed \in BOOLEAN

\* Where a task can stand: connections only while segments are transferred,
\* rows only over a file of full length, and never more than was written.
PlacesInv ==
    /\ status # "running" => run = Idle
    /\ status = "running" => run \in Runs
    /\ ~Multi => conn = NoneOpen
    /\ db.rows # NoRows =>
          Len(disk) = Size /\ \A s \in Segs : db.rows[s] <= Length(s)
    /\ Multi =>
          /\ db.rows # NoRows
          /\ \A s \in Segs :
                /\ db.rows[s] <= run.dl[s] /\ run.dl[s] <= Length(s)
                /\ conn[s].st # "none" => run.dl[s] < Length(s)
    /\ status = "running" /\ ~Multi => db.rows = NoRows
    /\ status = "new" => disk = <<>> /\ db.tag = 0 /\ db.verified /\ db.rows = NoRows

NodesInv ==
    /\ PoolOK(pool)
    /\ \A s \in Segs : conn[s].st # "none" => conn[s].node \in pool.slots \cup {Sys}

Holds(c, n) == IF c.st # "none" /\ c.node = n THEN 1 ELSE 0

LeasesInv ==
    Multi => \A n \in Nodes : pool.leased[n] = Holds(conn[1], n) + Holds(conn[2], n)

TransferInv == TypeInv /\ PlacesInv /\ NodesInv /\ LeasesInv

LEMMA BoundedDisk ==
    ASSUME NEW d
    PROVE  d \in BoundedSeq(0..MaxVersion, Size) <=> d \in Seq(0..MaxVersion) /\ Len(d) <= Size
<1>1. ASSUME d \in BoundedSeq(0..MaxVersion, Size)
      PROVE  d \in Seq(0..MaxVersion) /\ Len(d) <= Size
    <2>1. PICK m \in 0..Size : d \in [1..m -> 0..MaxVersion]
        BY <1>1 DEF BoundedSeq, SeqOf
    <2> QED
        BY <2>1
<1>2. ASSUME d \in Seq(0..MaxVersion), Len(d) <= Size
      PROVE  d \in BoundedSeq(0..MaxVersion, Size)
    <2> DEFINE S == 0..MaxVersion
               m == Len(d)
    <2>1. d \in Seq(S) /\ m <= Size
        BY <1>2
    <2> HIDE DEF S
    <2>4. m \in Nat /\ d \in [1..m -> S]
        BY <2>1, LenProperties, Zenon
    <2>2. m \in 0..Size /\ d \in [1..m -> S]
        BY <2>1, <2>4
    <2> HIDE DEF m
    <2>3. d \in BoundedSeq(S, Size)
        BY <2>2 DEF BoundedSeq, SeqOf
    <2> QED
        BY <2>3 DEF S
<1> QED
    BY <1>1, <1>2

LEMMA HeldIsSum ==
    ASSUME NEW c \in [Segs -> Conns], NEW n \in Nodes
    PROVE  Cardinality({s \in Segs : c[s].st # "none" /\ c[s].node = n})
             = Holds(c[1], n) + Holds(c[2], n)
<1> DEFINE H == {s \in Segs : c[s].st # "none" /\ c[s].node = n}
           h(s) == c[s].st # "none" /\ c[s].node = n
<1>1. Cardinality({}) = 0 /\ Cardinality({1}) = 1 /\ Cardinality({2}) = 1
    BY FS_EmptySet, FS_Singleton
<1>2. Cardinality({1, 2}) = 2
    <2> DEFINE A == {1}
               B == {2}
    <2>1. A \cup B = {1, 2} /\ A \cap B = {}
        OBVIOUS
    <2>2. IsFiniteSet(A) /\ IsFiniteSet(B) /\ Cardinality(A) = 1 /\ Cardinality(B) = 1
        BY FS_Singleton
    <2> HIDE DEF A, B
    <2>3. Cardinality(A \cup B) = Cardinality(A) + Cardinality(B) - Cardinality(A \cap B)
        BY <2>2, FS_Union
    <2>4. Cardinality({1, 2}) = 1 + 1 - Cardinality({})
        BY <2>1, <2>2, <2>3
    <2> QED
        BY <1>1, <2>4
<1>3. CASE h(1) /\ h(2)
    <2>1. H = {1, 2}
        BY <1>3
    <2> QED
        BY <1>2, <1>3, <2>1 DEF Holds
<1>4. CASE h(1) /\ ~h(2)
    <2>1. H = {1}
        BY <1>4
    <2> QED
        BY <1>1, <1>4, <2>1 DEF Holds
<1>5. CASE ~h(1) /\ h(2)
    <2>1. H = {2}
        BY <1>5
    <2> QED
        BY <1>1, <1>5, <2>1 DEF Holds
<1>6. CASE ~h(1) /\ ~h(2)
    <2>1. H = {}
        BY <1>6
    <2> QED
        BY <1>1, <1>6, <2>1 DEF Holds
<1> QED
    BY <1>3, <1>4, <1>5, <1>6

LEMMA TransferTypes == TransferInv => HttpTypeOK
<1> SUFFICES ASSUME TransferInv PROVE HttpTypeOK
    OBVIOUS
<1>1. disk \in BoundedSeq(0..MaxVersion, Size)
    BY BoundedDisk DEF TransferInv, TypeInv
<1>2. Multi => \A n \in Nodes :
           pool.leased[n] = Cardinality({s \in Segs : conn[s].st # "none" /\ conn[s].node = n})
    <2>1. \A n \in Nodes :
             Cardinality({s \in Segs : conn[s].st # "none" /\ conn[s].node = n})
               = Holds(conn[1], n) + Holds(conn[2], n)
        BY HeldIsSum DEF TransferInv, TypeInv
    <2> QED
        BY <2>1 DEF TransferInv, LeasesInv
<1> QED
    BY <1>1, <1>2 DEF TransferInv, TypeInv, HttpTypeOK, Dbs, Statuses

LEMMA ShapesDiffer ==
    /\ \A f \in [Segs -> 0..2] : f # NoRows
    /\ ZeroRows \in [Segs -> 0..2]
    /\ \A r \in Runs : r # Idle
    /\ NoneOpen \in [Segs -> Conns] /\ \A s \in Segs : NoneOpen[s].st = "none"
<1>1. ASSUME NEW f \in [Segs -> 0..2] PROVE f # NoRows
    <2>1. DOMAIN f = {1, 2} /\ DOMAIN NoRows = 1..0
        BY DEF NoRows
    <2> QED
        BY <2>1
<1>2. ASSUME NEW r \in Runs PROVE r # Idle
    <2>1. r.mode \in {"multi", "single", "fallback"} /\ Idle.mode = "idle"
        BY DEF Runs, Idle
    <2> QED
        BY <2>1
<1>3. NoneOpen \in [Segs -> Conns] /\ \A s \in Segs : NoneOpen[s].st = "none"
    BY DEF NoneOpen, NoConn, Conns
<1> QED
    BY <1>1, <1>2, <1>3 DEF ZeroRows

LEMMA TransferInit == HttpInit => TransferInv
<1> SUFFICES ASSUME HttpInit PROVE TransferInv
    OBVIOUS
<1> USE DEF HttpInit
<1>1. NewPool({}, FALSE) \in Pools /\ PoolOK(NewPool({}, FALSE))
    <2> DEFINE b == FALSE
    <2>1. {} \in SUBSET Pinned /\ b \in BOOLEAN
        OBVIOUS
    <2> HIDE DEF b
    <2>2. NewPool({}, b) \in Pools /\ PoolOK(NewPool({}, b))
        BY <2>1, NewPoolFacts
    <2> QED
        BY <2>2 DEF b
<1>2. ~Multi
    BY DEF Multi
<1>3. served \in [Edges -> Versions]
    OBVIOUS
<1>4. TypeInv
    <2>1. db \in Dbs
        BY DEF Dbs, Rows
    <2>2. disk \in Seq(0..MaxVersion) /\ Len(disk) <= Size
        OBVIOUS
    <2> QED
        BY <1>1, <1>3, <2>1, <2>2, ShapesDiffer DEF TypeInv, Statuses
<1>5. PlacesInv
    BY <1>2 DEF PlacesInv
<1>6. NodesInv
    BY <1>1, ShapesDiffer DEF NodesInv
<1> QED
    BY <1>2, <1>4, <1>5, <1>6 DEF TransferInv, LeasesInv

LEMMA PadFacts ==
    ASSUME NEW d \in Seq(0..MaxVersion), Len(d) <= Size
    PROVE  /\ d \o [i \in 1..(Size - Len(d)) |-> 0] \in Seq(0..MaxVersion)
           /\ Len(d \o [i \in 1..(Size - Len(d)) |-> 0]) = Size
           /\ \A j \in 1..Len(d) : (d \o [i \in 1..(Size - Len(d)) |-> 0])[j] = d[j]
<1> DEFINE z == [i \in 1..(Size - Len(d)) |-> 0]
<1>1. Len(d) \in Nat
    BY LenProperties, Zenon
<1>2. z \in Seq(0..MaxVersion) /\ Len(z) = Size - Len(d)
    BY <1>1
<1> HIDE DEF z
<1>3. d \o z \in Seq(0..MaxVersion) /\ Len(d \o z) = Len(d) + Len(z)
    BY <1>2
<1>4. \A j \in 1..Len(d) : (d \o z)[j] = d[j]
    BY <1>1, <1>2
<1> QED
    BY <1>1, <1>2, <1>3, <1>4 DEF z

\* What a transfer begins with.
LEMMA BeginShape ==
    ASSUME TransferInv, status # "running", NEW resume \in BOOLEAN, Begin(resume)
    PROVE  /\ status' = "running" /\ UNCHANGED <<kind, served, conn, changed>>
           /\ conn = NoneOpen
           /\ db' \in Dbs /\ run' \in Runs
           /\ db'.verified = (IF resume THEN db.verified ELSE kind.probe)
           /\ db'.tag = (IF resume THEN db.tag ELSE IF kind.probe THEN served[Sys] ELSE 0)
           /\ run'.expected = (IF resume /\ db.tag # 0 THEN db.tag
                               ELSE IF db'.verified THEN served[Sys] ELSE 0)
           /\ run'.estimate = ~db'.verified
           /\ ~run'.latch.known /\ run'.latch.tag = 0 /\ run'.stream = 0 /\ ~run'.sampled
           /\ \/ /\ run'.mode = "single" /\ db'.rows = NoRows
                 /\ run'.ranges => kind.plans # {TRUE}
                 /\ disk' = (IF db.rows # NoRows THEN <<>> ELSE disk)
              \/ /\ run'.mode = "multi" /\ run'.dl = db'.rows
                 /\ db'.rows \in [Segs -> 0..2]
                 /\ db'.rows = ZeroRows \/ db'.rows = db.rows
                 /\ disk' \in Seq(0..MaxVersion) /\ Len(disk') = Size
                 /\ \A i \in 1..Len(disk) : disk'[i] = disk[i]
           /\ pool' \in Pools /\ PoolOK(pool')
           /\ pool'.marked = pool.marked /\ pool'.client = "direct"
           /\ \A n \in Nodes : pool'.leased[n] = 0
           /\ pool'.slots # {} => kind.pool /\ db'.verified
<1> DEFINE hinted == IF resume THEN ~db.verified ELSE ~kind.probe
           verified == IF resume THEN db.verified ELSE kind.probe
           sized == ~hinted \/ ~resume \/ db.sized
           probed == IF hinted THEN 0 ELSE served[Sys]
           tag == IF ~resume THEN probed ELSE db.tag
           multi(plan) == sized /\ (plan \/ db.rows # NoRows)
           rows(plan) == IF ~multi(plan) THEN NoRows
                         ELSE IF db.rows = NoRows \/ disk = <<>> THEN ZeroRows ELSE db.rows
<1>1. PICK plan \in kind.plans :
        /\ db' = [tag |-> tag, verified |-> verified, sized |-> sized, rows |-> rows(plan)]
        /\ disk' = IF multi(plan) THEN disk \o [i \in 1..(Size - Len(disk)) |-> 0]
                   ELSE IF db.rows # NoRows THEN <<>> ELSE disk
        /\ run' = [mode |-> IF multi(plan) THEN "multi" ELSE "single",
                   expected |-> Expected(resume, db.tag, probed),
                   estimate |-> hinted /\ ~verified, ranges |-> sized,
                   latch |-> [known |-> FALSE, tag |-> 0],
                   dl |-> IF multi(plan) THEN rows(plan) ELSE ZeroRows,
                   stream |-> 0, sampled |-> FALSE]
        /\ pool' = NewPool(IF multi(plan) /\ kind.pool /\ verified /\ ~pool.marked
                           THEN Pinned ELSE {}, pool.marked)
        /\ status' = "running"
        /\ UNCHANGED <<kind, served, conn, changed, faults, stops>>
    BY DEF Begin
<1>2. /\ kind \in StartKinds /\ served[Sys] \in Versions
      /\ db.tag \in 0..MaxVersion /\ db.verified \in BOOLEAN /\ db.sized \in BOOLEAN
      /\ db.rows \in Rows
    BY DEF TransferInv, TypeInv, Dbs
<1>3. kind.probe \in BOOLEAN /\ kind.pool \in BOOLEAN /\ plan \in BOOLEAN
      /\ kind.plans \in SUBSET BOOLEAN
    BY <1>2 DEF StartKinds
<1>4. /\ hinted \in BOOLEAN /\ verified \in BOOLEAN /\ sized \in BOOLEAN
      /\ probed \in 0..MaxVersion /\ tag \in 0..MaxVersion
      /\ hinted = ~verified /\ multi(plan) \in BOOLEAN
    <2>1. hinted \in BOOLEAN /\ verified \in BOOLEAN /\ hinted = ~verified
        BY <1>2, <1>3
    <2> HIDE DEF hinted, verified
    <2>2. sized \in BOOLEAN /\ multi(plan) \in BOOLEAN
        BY <2>1, <1>2
    <2>3. probed \in 0..MaxVersion
        BY <1>2
    <2>4. tag \in 0..MaxVersion
        BY <1>2, <2>3
    <2> QED
        BY <2>1, <2>2, <2>3, <2>4
<1>5. rows(plan) \in Rows /\ (multi(plan) => rows(plan) \in [Segs -> 0..2])
    BY <1>2, <1>4, ShapesDiffer DEF Rows
<1>6. Expected(resume, db.tag, probed)
        = (IF resume /\ db.tag # 0 THEN db.tag ELSE IF verified THEN served[Sys] ELSE 0)
    BY <1>4 DEF Expected
<1>7. pool.marked \in BOOLEAN
    BY DEF TransferInv, TypeInv, Pools
<1>8. conn = NoneOpen
    BY DEF TransferInv, PlacesInv, Multi
<1>9. ~multi(plan) /\ sized => kind.plans # {TRUE}
    BY <1>3
<1>10. /\ disk \in Seq(0..MaxVersion) /\ Len(disk) <= Size
    BY DEF TransferInv, TypeInv
<1>11. multi(plan) => /\ disk' \in Seq(0..MaxVersion) /\ Len(disk') = Size
                      /\ \A i \in 1..Len(disk) : disk'[i] = disk[i]
    BY <1>1, <1>10, PadFacts
<1>12. db' \in Dbs
    BY <1>1, <1>4, <1>5 DEF Dbs
<1>13. run' \in Runs
    <2>1. Expected(resume, db.tag, probed) \in 0..MaxVersion
        BY <1>2, <1>4 DEF Expected
    <2>2. (IF multi(plan) THEN rows(plan) ELSE ZeroRows) \in [Segs -> 0..2]
        BY <1>5, ShapesDiffer
    <2> HIDE DEF hinted, verified, sized, probed, tag, multi, rows
    <2>3. 0 \in 0..MaxVersion
        OBVIOUS
    <2> QED
        BY <1>1, <1>4, <2>1, <2>2, <2>3 DEF Runs
<1> DEFINE S == IF multi(plan) /\ kind.pool /\ verified /\ ~pool.marked THEN Pinned ELSE {}
<1>14. S \in SUBSET Pinned /\ pool' = NewPool(S, pool.marked)
    BY <1>1
<1>15. S # {} => kind.pool /\ verified
    OBVIOUS
<1> HIDE DEF S
<1>16. /\ pool' \in Pools /\ PoolOK(pool')
       /\ pool'.marked = pool.marked /\ pool'.client = "direct"
       /\ \A n \in Nodes : pool'.leased[n] = 0
       /\ pool'.slots = S
    BY <1>7, <1>14, NewPoolFacts
<1> HIDE DEF hinted, sized, probed, multi, rows
<1>17. /\ run'.mode = (IF multi(plan) THEN "multi" ELSE "single")
       /\ run'.expected = Expected(resume, db.tag, probed)
       /\ run'.estimate = (hinted /\ ~verified) /\ run'.ranges = sized
       /\ run'.latch.known = FALSE /\ run'.latch.tag = 0
       /\ run'.dl = (IF multi(plan) THEN rows(plan) ELSE ZeroRows)
       /\ run'.stream = 0 /\ run'.sampled = FALSE
    BY <1>1
<1>18. db'.verified = verified /\ db'.tag = tag /\ db'.rows = rows(plan)
    BY <1>1
<1>19. run'.estimate = ~db'.verified
    BY <1>4, <1>17, <1>18
<1>20. db'.tag = (IF resume THEN db.tag ELSE IF kind.probe THEN served[Sys] ELSE 0)
    BY <1>18 DEF probed, hinted
<1>21. CASE multi(plan)
    <2>1. db'.rows = ZeroRows \/ db'.rows = db.rows
        BY <1>18, <1>21 DEF rows
    <2>2. run'.mode = "multi" /\ run'.dl = db'.rows /\ db'.rows \in [Segs -> 0..2]
        BY <1>5, <1>17, <1>18, <1>21
    <2> HIDE DEF verified, tag
    <2> QED
        BY <1>1, <1>6, <1>8, <1>11, <1>12, <1>13, <1>15, <1>16, <1>17, <1>18, <1>19, <1>20,
           <1>21, <2>1, <2>2 DEF verified
<1>22. CASE ~multi(plan)
    <2>1. run'.mode = "single" /\ db'.rows = NoRows
        BY <1>17, <1>18, <1>22 DEF rows
    <2>2. run'.ranges => kind.plans # {TRUE}
        BY <1>9, <1>17, <1>22
    <2>3. disk' = (IF db.rows # NoRows THEN <<>> ELSE disk)
        BY <1>1, <1>22
    <2> HIDE DEF verified, tag
    <2> QED
        BY <1>1, <1>6, <1>8, <1>12, <1>13, <1>15, <1>16, <1>17, <1>18, <1>19, <1>20,
           <2>1, <2>2, <2>3 DEF verified
<1> QED
    BY <1>4, <1>21, <1>22

LEMMA BeginKeeps ==
    ASSUME TransferInv, status # "running", NEW resume \in BOOLEAN, Begin(resume)
    PROVE  TransferInv'
<1> DEFINE Shape ==
        /\ status' = "running" /\ UNCHANGED <<kind, served, conn, changed>>
        /\ conn = NoneOpen
        /\ db' \in Dbs /\ run' \in Runs
        /\ \/ /\ run'.mode = "single" /\ db'.rows = NoRows
              /\ disk' = (IF db.rows # NoRows THEN <<>> ELSE disk)
           \/ /\ run'.mode = "multi" /\ run'.dl = db'.rows
              /\ db'.rows \in [Segs -> 0..2]
              /\ db'.rows = ZeroRows \/ db'.rows = db.rows
              /\ disk' \in Seq(0..MaxVersion) /\ Len(disk') = Size
        /\ pool' \in Pools /\ PoolOK(pool')
        /\ \A n \in Nodes : pool'.leased[n] = 0
<1>1. Shape
    BY BeginShape, Zenon
<1>2. /\ kind \in Starts /\ served \in [Edges -> Versions]
      /\ disk \in Seq(0..MaxVersion) /\ Len(disk) <= Size
      /\ conn \in [Segs -> Conns] /\ changed \in BOOLEAN
      /\ db.rows # NoRows => \A s \in Segs : db.rows[s] <= Length(s)
    BY DEF TransferInv, TypeInv, PlacesInv
<1>3. TypeInv'
    <2>1. disk' \in Seq(0..MaxVersion) /\ Len(disk') <= Size
        <3>1. CASE run'.mode = "multi"
            <4>1. disk' \in Seq(0..MaxVersion) /\ Len(disk') = Size
                BY <1>1, <3>1, Zenon
            <4> QED
                BY <4>1
        <3>2. CASE run'.mode = "single" /\ db.rows # NoRows
            BY <1>1, <3>2
        <3>3. CASE run'.mode = "single" /\ db.rows = NoRows
            BY <1>1, <1>2, <3>3
        <3> QED
            BY <1>1, <3>1, <3>2, <3>3
    <2> QED
        BY <1>1, <1>2, <2>1 DEF TypeInv, Statuses
<1>4. \A s \in Segs : conn'[s].st = "none"
    BY <1>1, ShapesDiffer
<1>5. PlacesInv'
    <2>1. CASE run'.mode = "single"
        <3>1. ~Multi' /\ db'.rows = NoRows
            BY <1>1, <2>1 DEF Multi
        <3> QED
            BY <1>1, <3>1 DEF PlacesInv
    <2>2. CASE run'.mode = "multi"
        <3>1. /\ run'.dl = db'.rows /\ db'.rows \in [Segs -> 0..2]
              /\ db'.rows = ZeroRows \/ db'.rows = db.rows
              /\ Len(disk') = Size
            BY <1>1, <2>2
        <3>2. db'.rows # NoRows
            BY <3>1, ShapesDiffer
        <3>3. \A s \in Segs : db'.rows[s] <= Length(s)
            BY <1>2, <3>1, <3>2 DEF ZeroRows, Length
        <3>4. Multi'
            BY <1>1, <2>2 DEF Multi
        <3>5. \A s \in Segs : db'.rows[s] <= run'.dl[s] /\ run'.dl[s] <= Length(s)
            BY <3>1, <3>3
        <3> QED
            BY <1>1, <1>4, <3>1, <3>2, <3>3, <3>4, <3>5 DEF PlacesInv
    <2> QED
        BY <1>1, <2>1, <2>2
<1>6. NodesInv'
    BY <1>1, <1>4 DEF NodesInv
<1>7. LeasesInv'
    <2>1. \A n \in Nodes : Holds(conn'[1], n) = 0 /\ Holds(conn'[2], n) = 0
        BY <1>4 DEF Holds
    <2> QED
        BY <1>1, <2>1 DEF LeasesInv
<1> QED
    BY <1>3, <1>5, <1>6, <1>7 DEF TransferInv

\* What holds while segments are transferred.
LEMMA MultiFacts ==
    ASSUME TransferInv, Multi
    PROVE  /\ status = "running" /\ run \in Runs /\ run.mode = "multi"
           /\ db \in Dbs /\ db.rows \in [Segs -> 0..2]
           /\ disk \in [1..Size -> 0..MaxVersion] /\ disk \in Seq(0..MaxVersion)
           /\ Len(disk) = Size
           /\ \A s \in Segs : db.rows[s] <= Length(s)
           /\ pool \in Pools /\ conn \in [Segs -> Conns]
           /\ PoolOK(pool)
<1>1. /\ status = "running" /\ run \in Runs /\ run.mode = "multi" /\ db \in Dbs
      /\ db.rows # NoRows /\ Len(disk) = Size /\ disk \in Seq(0..MaxVersion)
      /\ \A s \in Segs : db.rows[s] <= Length(s)
      /\ pool \in Pools /\ conn \in [Segs -> Conns] /\ PoolOK(pool)
    BY DEF TransferInv, TypeInv, PlacesInv, NodesInv, Multi
<1>2. db.rows \in [Segs -> 0..2]
    BY <1>1 DEF Dbs, Rows, NoRows
<1>3. disk \in [1..Size -> 0..MaxVersion]
    <2> DEFINE S == 0..MaxVersion
    <2>1. disk \in Seq(S) /\ Len(disk) = Size
        BY <1>1
    <2> HIDE DEF S
    <2>2. disk \in [1..Len(disk) -> S]
        BY <2>1, LenProperties, Zenon
    <2> QED
        BY <2>1, <2>2 DEF S
<1> QED
    BY <1>1, <1>2, <1>3

\* The settled row of a task.
LEMMA SettledFacts ==
    ASSUME db \in Dbs
    PROVE  /\ Settled \in Dbs
           /\ Settled.tag = db.tag /\ Settled.rows = db.rows /\ Settled.sized = db.sized
           /\ Settled.verified \in BOOLEAN
           /\ db.verified => Settled.verified
           /\ Settled.verified => db.verified \/ run.estimate
           /\ run.estimate => Settled.verified
    BY DEF Settled, Dbs

\* A connection as it may be at a segment.
LEMMA ConnTypes ==
    /\ NoConn \in Conns
    /\ \A n \in Nodes, v \in 0..MaxVersion, via \in {"direct", "proxy"} :
          [st |-> "leased", node |-> n, ver |-> v, via |-> via] \in Conns
    /\ \A c \in Conns : c.st \in {"none", "leased", "body"}
    /\ \A c \in Conns : c.st # "none" =>
          /\ c \in [st : {"leased", "body"}, node : Nodes, ver : 0..MaxVersion,
                    via : {"direct", "proxy"}]
          /\ c.node \in Nodes /\ c.ver \in 0..MaxVersion /\ c.via \in {"direct", "proxy"}
          /\ \A st \in {"leased", "body"}, v \in 0..MaxVersion :
                /\ Turned(c, st, v) \in Conns
                /\ Turned(c, st, v).st = st /\ Turned(c, st, v).ver = v
                /\ Turned(c, st, v).node = c.node /\ Turned(c, st, v).via = c.via
<1> DEFINE R == [st : {"leased", "body"}, node : Nodes, ver : 0..MaxVersion,
                 via : {"direct", "proxy"}]
<1>1. NoConn \in Conns /\ NoConn.st = "none"
    BY DEF NoConn, Conns
<1>2. \A n \in Nodes, v \in 0..MaxVersion, via \in {"direct", "proxy"} :
          [st |-> "leased", node |-> n, ver |-> v, via |-> via] \in Conns
    BY DEF Conns
<1>3. \A c \in R : c.st \in {"leased", "body"}
    OBVIOUS
<1>4. \A c \in Conns : c.st \in {"none", "leased", "body"}
    BY <1>1, <1>3 DEF Conns
<1>5. \A c \in Conns : c.st # "none" => c \in R
    BY <1>1 DEF Conns
<1>6. ASSUME NEW c \in R, NEW st \in {"leased", "body"}, NEW v \in 0..MaxVersion
      PROVE  /\ Turned(c, st, v) \in R
             /\ Turned(c, st, v).st = st /\ Turned(c, st, v).ver = v
             /\ Turned(c, st, v).node = c.node /\ Turned(c, st, v).via = c.via
    BY <1>6 DEF Turned
<1>7. R \subseteq Conns
    BY DEF Conns
<1>8. \A c \in R : c.node \in Nodes /\ c.ver \in 0..MaxVersion /\ c.via \in {"direct", "proxy"}
    OBVIOUS
<1> HIDE DEF R
<1>9. ASSUME NEW c \in Conns, c.st # "none"
      PROVE  /\ c \in R
             /\ c.node \in Nodes /\ c.ver \in 0..MaxVersion /\ c.via \in {"direct", "proxy"}
             /\ \A st \in {"leased", "body"}, v \in 0..MaxVersion :
                   /\ Turned(c, st, v) \in Conns
                   /\ Turned(c, st, v).st = st /\ Turned(c, st, v).ver = v
                   /\ Turned(c, st, v).node = c.node /\ Turned(c, st, v).via = c.via
    <2>1. c \in R
        BY <1>5, <1>9
    <2>2. \A st \in {"leased", "body"}, v \in 0..MaxVersion :
                   /\ Turned(c, st, v) \in Conns
                   /\ Turned(c, st, v).st = st /\ Turned(c, st, v).ver = v
                   /\ Turned(c, st, v).node = c.node /\ Turned(c, st, v).via = c.via
        BY <1>6, <1>7, <2>1
    <2> QED
        BY <1>8, <2>1, <2>2
<1> QED
    BY <1>1, <1>2, <1>4, <1>9 DEF R

\* The connection of a segment is given back to the pool.
LEMMA Returned ==
    ASSUME TransferInv, Multi, NEW s \in Segs, conn[s].st # "none",
           \/ \E immediate \in BOOLEAN :
                 pool' = GiveBack(ReportErr(pool, conn[s].node, immediate), conn[s].node)
           \/ pool' = GiveBack(ReportOk(pool, conn[s].node), conn[s].node),
           conn' = [conn EXCEPT ![s] = NoConn]
    PROVE  /\ Follows(pool, pool') /\ conn' \in [Segs -> Conns]
           /\ \A x \in Segs : conn'[x].st # "none" => conn'[x] = conn[x]
           /\ NodesInv' /\ LeasesInv'
<1> DEFINE n == conn[s].node
<1>1. /\ conn \in [Segs -> Conns] /\ pool \in Pools /\ PoolOK(pool)
      /\ \A x \in Segs : conn[x].st # "none" => conn[x].node \in pool.slots \cup {Sys}
      /\ \A k \in Nodes : pool.leased[k] = Holds(conn[1], k) + Holds(conn[2], k)
      /\ pool.leased \in [Nodes -> Nat]
    BY DEF TransferInv, TypeInv, NodesInv, LeasesInv, Pools
<1>2. n \in Nodes /\ n \in pool.slots \cup {Sys}
    BY <1>1 DEF Pools
<1>3. Follows(pool, pool') /\ pool'.leased
        = [pool.leased EXCEPT ![n] = IF @ = 0 THEN 0 ELSE @ - 1]
    BY <1>1, <1>2, ReturnFollows
<1>4. conn' \in [Segs -> Conns] /\ conn'[s] = NoConn /\ NoConn.st = "none"
      /\ \A x \in Segs \ {s} : conn'[x] = conn[x]
    BY <1>1, ConnTypes DEF NoConn
<1>5. \A x \in Segs : conn'[x].st # "none" => conn'[x] = conn[x]
    BY <1>4
<1>6. NodesInv'
    <2>1. PoolOK(pool') /\ pool'.slots = pool.slots
        BY <1>3 DEF Follows
    <2> QED
        BY <1>1, <1>5, <2>1 DEF NodesInv
<1>7. ASSUME NEW k \in Nodes
      PROVE  pool'.leased[k] = Holds(conn'[1], k) + Holds(conn'[2], k)
    <2>1. Holds(conn'[s], k) = 0
        BY <1>4 DEF Holds
    <2>2. Holds(conn[s], k) = IF k = n THEN 1 ELSE 0
        BY DEF Holds
    <2>3. \A x \in Segs \ {s} : Holds(conn'[x], k) = Holds(conn[x], k)
        BY <1>4
    <2>4. \A x \in Segs : Holds(conn[x], k) \in {0, 1}
        BY DEF Holds
    <2>5. pool'.leased[k] = IF k = n THEN (IF pool.leased[k] = 0 THEN 0 ELSE pool.leased[k] - 1)
                            ELSE pool.leased[k]
        BY <1>1, <1>2, <1>3
    <2>6. CASE s = 1
        BY <1>1, <2>1, <2>2, <2>3, <2>4, <2>5, <2>6
    <2>7. CASE s = 2
        BY <1>1, <2>1, <2>2, <2>3, <2>4, <2>5, <2>7
    <2> QED
        BY <2>6, <2>7
<1>8. LeasesInv'
    BY <1>7 DEF LeasesInv
<1> QED
    BY <1>3, <1>4, <1>5, <1>6, <1>8

\* A transfer goes on: nothing that places the bytes changes.
LEMMA PlacesGoOn ==
    ASSUME TransferInv, Multi, status' = "running", run' \in Runs, run'.mode = "multi",
           run'.dl = run.dl, db'.rows = db.rows, Len(disk') = Len(disk),
           \A x \in Segs : conn'[x].st # "none" => run.dl[x] < Length(x)
    PROVE  PlacesInv'
<1>1. Multi'
    BY DEF Multi
<1> QED
    BY <1>1 DEF TransferInv, PlacesInv

LEMMA StartFailsKeeps == TransferInv /\ StartFails => TransferInv'
<1> SUFFICES ASSUME TransferInv, StartFails PROVE TransferInv'
    OBVIOUS
<1>1. /\ status = "new" /\ status' = "stopped"
      /\ UNCHANGED <<kind, served, db, disk, run, pool, conn, changed>>
    BY DEF StartFails
<1>2. ~Multi /\ ~Multi'
    BY <1>1 DEF Multi
<1>3. TypeInv'
    BY <1>1 DEF TransferInv, TypeInv, Statuses
<1>4. PlacesInv'
    BY <1>1, <1>2 DEF TransferInv, PlacesInv
<1>5. NodesInv'
    BY <1>1 DEF TransferInv, NodesInv
<1> QED
    BY <1>2, <1>3, <1>4, <1>5 DEF TransferInv, LeasesInv

LEMMA RestartKeeps == TransferInv /\ Restart => TransferInv'
<1> SUFFICES ASSUME TransferInv, Restart PROVE TransferInv'
    OBVIOUS
<1>1. /\ status \in {"stopped", "mismatch", "done"} /\ status' = "stopped"
      /\ db' = [db EXCEPT !.rows = NoRows, !.sized = FALSE] /\ disk' = <<>>
      /\ UNCHANGED <<kind, served, run, pool, conn, changed>>
    BY DEF Restart
<1>2. ~Multi /\ ~Multi'
    BY <1>1 DEF Multi
<1>3. db' \in Dbs /\ db'.rows = NoRows
    BY <1>1 DEF TransferInv, TypeInv, Dbs, Rows
<1>4. TypeInv'
    <2>1. disk' \in Seq(0..MaxVersion) /\ Len(disk') <= Size
        BY <1>1
    <2> QED
        BY <1>1, <1>3, <2>1 DEF TransferInv, TypeInv, Statuses
<1>5. PlacesInv'
    BY <1>1, <1>2, <1>3 DEF TransferInv, PlacesInv
<1>6. NodesInv'
    BY <1>1 DEF TransferInv, NodesInv
<1> QED
    BY <1>2, <1>4, <1>5, <1>6 DEF TransferInv, LeasesInv

\* What a transfer that ends early leaves.
LEMMA StopShape ==
    ASSUME TransferInv, status = "running", NEW why, Stop(why)
    PROVE  /\ status' = why /\ run' = Idle /\ conn' = NoneOpen
           /\ UNCHANGED <<kind, served, pool, changed>>
           /\ db' \in Dbs /\ db'.tag = db.tag /\ db'.verified = db.verified
           /\ disk' \in Seq(0..MaxVersion) /\ Len(disk') <= Size
           /\ Len(disk') <= Len(disk)
           /\ \A i \in 1..Len(disk') : disk'[i] = disk[i]
           /\ \/ /\ run.mode = "multi" /\ disk' = disk
                 /\ db'.rows \in [Segs -> 0..2]
                 /\ \A s \in Segs : db'.rows[s] <= run.dl[s]
              \/ /\ run.mode # "multi" /\ db' = db
<1>1. /\ status' = why /\ run' = Idle /\ conn' = NoneOpen
      /\ UNCHANGED <<kind, served, pool, changed>>
    BY DEF Stop
<1>2. db \in Dbs /\ disk \in Seq(0..MaxVersion) /\ Len(disk) <= Size
    BY DEF TransferInv, TypeInv
<1>3. CASE run.mode = "multi"
    <2>1. PICK rows \in [Segs -> 0..2] :
             /\ \A s \in Segs : db.rows[s] <= rows[s] /\ rows[s] <= run.dl[s]
             /\ db' = [db EXCEPT !.rows = rows] /\ UNCHANGED disk
        BY <1>3 DEF Stop
    <2>2. db' \in Dbs /\ db'.rows = rows /\ db'.tag = db.tag /\ db'.verified = db.verified
        BY <1>2, <2>1 DEF Dbs, Rows
    <2> QED
        BY <1>1, <1>2, <1>3, <2>1, <2>2
<1>4. CASE run.mode # "multi"
    <2>1. PICK k \in 0..Len(disk) : disk' = SubSeq(disk, 1, k) /\ UNCHANGED db
        BY <1>4 DEF Stop
    <2>2. Len(disk) \in Nat
        BY <1>2, LenProperties, Zenon
    <2>3. /\ disk' \in Seq(0..MaxVersion) /\ Len(disk') = k
          /\ \A i \in 1..k : disk'[i] = disk[i]
        BY <1>2, <2>1, <2>2
    <2> QED
        BY <1>1, <1>2, <1>4, <2>1, <2>2, <2>3
<1> QED
    BY <1>3, <1>4

LEMMA StopKeeps ==
    ASSUME TransferInv, status = "running", NEW why \in {"stopped", "mismatch"}, Stop(why)
    PROVE  TransferInv'
<1>1. /\ status' = why /\ run' = Idle /\ conn' = NoneOpen
      /\ UNCHANGED <<kind, served, pool, changed>>
      /\ db' \in Dbs
      /\ disk' \in Seq(0..MaxVersion) /\ Len(disk') <= Size
      /\ \/ /\ run.mode = "multi" /\ disk' = disk
            /\ db'.rows \in [Segs -> 0..2]
            /\ \A s \in Segs : db'.rows[s] <= run.dl[s]
         \/ /\ run.mode # "multi" /\ db' = db
    BY StopShape, Zenon
<1>2. ~Multi'
    BY <1>1 DEF Multi
<1>3. TypeInv'
    BY <1>1, ShapesDiffer DEF TransferInv, TypeInv, Statuses
<1>4. PlacesInv'
    <2>1. CASE run.mode = "multi"
        <3>1. Multi
            BY <2>1 DEF Multi
        <3>2. /\ run.dl \in [Segs -> 0..2] /\ Len(disk) = Size
              /\ \A s \in Segs : run.dl[s] <= Length(s)
            BY <3>1 DEF TransferInv, PlacesInv, Runs
        <3>3. \A s \in Segs : db'.rows[s] <= Length(s)
            BY <1>1, <2>1, <3>2 DEF Length
        <3> QED
            BY <1>1, <1>2, <2>1, <3>2, <3>3 DEF PlacesInv
    <2>2. CASE run.mode # "multi"
        <3>1. db.rows = NoRows
            BY <2>2 DEF TransferInv, PlacesInv, Multi
        <3> QED
            BY <1>1, <1>2, <2>2, <3>1 DEF PlacesInv
    <2> QED
        BY <2>1, <2>2
<1>5. NodesInv'
    BY <1>1, ShapesDiffer DEF TransferInv, NodesInv
<1> QED
    BY <1>2, <1>3, <1>4, <1>5 DEF TransferInv, LeasesInv

LEMMA LeaseShape ==
    ASSUME TransferInv, NEW s \in Segs, Lease(s)
    PROVE  /\ MayLease(s)
           /\ UNCHANGED <<kind, served, db, disk, run, status, changed>>
           /\ Follows(pool, pool')
           /\ conn'[s] \in Conns /\ conn'[s].st = "leased"
           /\ conn'[s].node \in pool.slots \cup {Sys}
           /\ conn'[s].via = (IF conn'[s].node = Sys THEN pool.client ELSE "direct")
           /\ pool.client = "proxy" => conn'[s].node = Sys
           /\ pool'.leased = [pool.leased EXCEPT ![conn'[s].node] = @ + 1]
           /\ conn' \in [Segs -> Conns] /\ \A x \in Segs \ {s} : conn'[x] = conn[x]
<1>1. MayLease(s) /\ UNCHANGED <<kind, served, db, disk, run, status, changed>>
    BY DEF Lease
<1>2. PICK l \in Leases(pool) :
        /\ pool' = l.pool
        /\ conn' = [conn EXCEPT ![s] =
              [st |-> "leased", node |-> l.node, ver |-> 0,
               via |-> IF l.node = Sys THEN pool.client ELSE "direct"]]
    BY DEF Lease
<1>3. pool \in Pools /\ PoolOK(pool) /\ conn \in [Segs -> Conns]
    BY DEF TransferInv, TypeInv, NodesInv
<1>4. /\ l.node \in pool.slots \cup {Sys}
      /\ pool.client = "proxy" => l.node = Sys
      /\ Follows(pool, l.pool)
      /\ l.pool.leased = [pool.leased EXCEPT ![l.node] = @ + 1]
    BY <1>3, LeaseFollows
<1> DEFINE via == IF l.node = Sys THEN pool.client ELSE "direct"
           c == [st |-> "leased", node |-> l.node, ver |-> 0, via |-> via]
<1>5. l.node \in Nodes /\ via \in {"direct", "proxy"} /\ 0 \in 0..MaxVersion
    BY <1>3, <1>4 DEF Pools
<1>6. c \in Conns
    BY <1>5, ConnTypes
<1>7. c.st = "leased" /\ c.node = l.node /\ c.via = via
    OBVIOUS
<1> HIDE DEF c
<1>8. conn' = [conn EXCEPT ![s] = c]
    BY <1>2 DEF c
<1>9. conn'[s] = c /\ conn' \in [Segs -> Conns] /\ \A x \in Segs \ {s} : conn'[x] = conn[x]
    BY <1>3, <1>6, <1>8
<1> QED
    BY <1>1, <1>2, <1>4, <1>6, <1>7, <1>9

LEMMA LeaseKeeps == \A s \in Segs : TransferInv /\ Lease(s) => TransferInv'
<1> SUFFICES ASSUME TransferInv, NEW s \in Segs, Lease(s) PROVE TransferInv'
    OBVIOUS
<1>1. /\ MayLease(s)
      /\ UNCHANGED <<kind, served, db, disk, run, status, changed>>
      /\ Follows(pool, pool')
      /\ conn'[s] \in Conns /\ conn'[s].st = "leased"
      /\ conn'[s].node \in pool.slots \cup {Sys}
      /\ pool'.leased = [pool.leased EXCEPT ![conn'[s].node] = @ + 1]
      /\ conn' \in [Segs -> Conns] /\ \A x \in Segs \ {s} : conn'[x] = conn[x]
    BY LeaseShape, Zenon
<1>2. Multi /\ conn[s].st = "none" /\ run.dl[s] < Length(s)
    BY <1>1 DEF MayLease
<1>3. /\ pool' \in Pools /\ PoolOK(pool') /\ pool'.slots = pool.slots
    BY <1>1 DEF Follows
<1>4. TypeInv'
    BY <1>1, <1>3 DEF TransferInv, TypeInv
<1>5. PlacesInv'
    <2>1. \A x \in Segs : conn'[x].st # "none" => run.dl[x] < Length(x)
        BY <1>1, <1>2 DEF TransferInv, PlacesInv
    <2>2. status' = "running" /\ run' \in Runs /\ run'.mode = "multi"
        BY <1>1, <1>2, MultiFacts
    <2> QED
        BY <1>1, <1>2, <2>1, <2>2, PlacesGoOn
<1>6. NodesInv'
    BY <1>1, <1>3 DEF TransferInv, NodesInv
<1>7. LeasesInv'
    <2> SUFFICES ASSUME NEW k \in Nodes
                 PROVE  pool'.leased[k] = Holds(conn'[1], k) + Holds(conn'[2], k)
        BY DEF LeasesInv
    <2>1. pool.leased \in [Nodes -> Nat] /\ pool.leased[k] = Holds(conn[1], k) + Holds(conn[2], k)
        BY <1>2 DEF TransferInv, TypeInv, LeasesInv, Pools
    <2>2. pool'.leased[k] = IF k = conn'[s].node THEN pool.leased[k] + 1 ELSE pool.leased[k]
        BY <1>1, <2>1
    <2>3. /\ Holds(conn[s], k) = 0
          /\ Holds(conn'[s], k) = IF k = conn'[s].node THEN 1 ELSE 0
          /\ \A x \in Segs \ {s} : Holds(conn'[x], k) = Holds(conn[x], k)
          /\ \A x \in Segs : Holds(conn[x], k) \in {0, 1}
        BY <1>1, <1>2 DEF Holds
    <2>4. CASE s = 1
        BY <2>1, <2>2, <2>3, <2>4
    <2>5. CASE s = 2
        BY <2>1, <2>2, <2>3, <2>5
    <2> QED
        BY <2>4, <2>5
<1> QED
    BY <1>4, <1>5, <1>6, <1>7 DEF TransferInv

LEMMA AnswerCases ==
    ASSUME TransferInv, NEW s \in Segs, Answer(s)
    PROVE  /\ Multi /\ conn[s].st = "leased" /\ conn[s] \in Conns
           /\ EdgeOf(conn[s]) \in Edges
           /\ \E v \in Versions, tag \in 0..MaxVersion :
                 /\ v = served[EdgeOf(conn[s])]
                 /\ tag \in {0, v} /\ tag \in ReplyTags(s, v)
                 /\ \/ Judge(s, v, tag) = "accepted" /\ Accept(s, v, tag)
                    \/ Judge(s, v, tag) = "changed" /\ VersionChanged(s)
                    \/ Judge(s, v, tag) = "mismatch" /\ Stop("mismatch")
<1>1. Multi /\ conn[s].st = "leased"
    BY DEF Answer
<1>2. conn[s] \in Conns /\ served \in [Edges -> Versions]
    BY DEF TransferInv, TypeInv
<1>3. EdgeOf(conn[s]) \in Edges
    BY <1>1, <1>2, ConnTypes DEF EdgeOf
<1> DEFINE v == served[EdgeOf(conn[s])]
<1>4. v \in Versions
    BY <1>2, <1>3
<1>5. PICK tag \in ReplyTags(s, v) :
         \/ Judge(s, v, tag) = "accepted" /\ Accept(s, v, tag)
         \/ Judge(s, v, tag) = "changed" /\ VersionChanged(s)
         \/ Judge(s, v, tag) = "mismatch" /\ Stop("mismatch")
    BY DEF Answer
<1>6. tag \in {0, v}
    BY DEF ReplyTags
<1>7. tag \in 0..MaxVersion
    BY <1>4, <1>6
<1> HIDE DEF v
<1> QED
    BY <1>1, <1>2, <1>3, <1>4, <1>5, <1>6, <1>7 DEF v

\* The validators recorded after an accepted reply.
TagAfter(tag) == IF run.expected = 0 /\ tag # 0 THEN tag ELSE db.tag
LatchAfter(tag) ==
    IF run.expected = 0 /\ ~run.latch.known THEN [known |-> TRUE, tag |-> tag] ELSE run.latch

\* What an accepted reply changes.
LEMMA AcceptShape ==
    ASSUME TransferInv, Multi, NEW s \in Segs, conn[s].st = "leased",
           NEW v \in Versions, NEW tag \in 0..MaxVersion, Accept(s, v, tag)
    PROVE  /\ UNCHANGED <<kind, served, disk, pool, status, changed>>
           /\ conn' \in [Segs -> Conns]
           /\ conn'[s].st = "body" /\ conn'[s].ver = v /\ conn'[s].node = conn[s].node
           /\ conn'[s].via = conn[s].via
           /\ \A x \in Segs \ {s} : conn'[x] = conn[x]
           /\ run' \in Runs /\ run'.mode = "multi" /\ run'.dl = run.dl
           /\ run'.expected = run.expected /\ run'.estimate = run.estimate
           /\ run'.sampled = run.sampled /\ run'.stream = run.stream
           /\ run'.ranges = run.ranges
           /\ run'.latch = LatchAfter(tag)
           /\ db' \in Dbs /\ db'.rows = db.rows
           /\ db'.tag = TagAfter(tag)
           /\ db'.verified \in BOOLEAN /\ (db.verified => db'.verified)
           /\ (db'.verified => db.verified \/ run.estimate)
           /\ (run.estimate => db'.verified)
<1>1. /\ run \in Runs /\ run.mode = "multi" /\ db \in Dbs /\ conn \in [Segs -> Conns]
    BY MultiFacts, Zenon
<1>2. /\ conn' = [conn EXCEPT ![s] = Turned(conn[s], "body", v)]
      /\ UNCHANGED <<kind, served, disk, pool, status, changed>>
    BY DEF Accept
<1> DEFINE c == Turned(conn[s], "body", v)
<1>3. /\ c \in Conns /\ c.st = "body" /\ c.ver = v
      /\ c.node = conn[s].node /\ c.via = conn[s].via
    BY <1>1, ConnTypes
<1> HIDE DEF c
<1>4. conn' = [conn EXCEPT ![s] = c]
    BY <1>2 DEF c
<1>5. conn' \in [Segs -> Conns] /\ conn'[s] = c /\ \A x \in Segs \ {s} : conn'[x] = conn[x]
    BY <1>1, <1>3, <1>4
<1> DEFINE la == [known |-> TRUE, tag |-> tag]
<1>6. la \in [known : BOOLEAN, tag : 0..MaxVersion]
    OBVIOUS
<1> HIDE DEF la
<1>7. /\ run' \in Runs /\ run'.mode = "multi" /\ run'.dl = run.dl
      /\ run'.expected = run.expected /\ run'.estimate = run.estimate
      /\ run'.sampled = run.sampled /\ run'.stream = run.stream /\ run'.ranges = run.ranges
      /\ run'.latch = (IF run.expected = 0 /\ ~run.latch.known THEN la ELSE run.latch)
    <2>1. CASE run.expected = 0 /\ ~run.latch.known
        <3>1. run' = [run EXCEPT !.latch = la]
            BY <2>1 DEF Accept, la
        <3> QED
            BY <1>1, <1>6, <2>1, <3>1 DEF Runs
    <2>2. CASE ~(run.expected = 0 /\ ~run.latch.known)
        <3>1. run' = run
            BY <2>2 DEF Accept
        <3> QED
            BY <1>1, <2>2, <3>1
    <2> QED
        BY <2>1, <2>2
<1>8. /\ Settled \in Dbs /\ Settled.tag = db.tag /\ Settled.rows = db.rows
      /\ Settled.verified \in BOOLEAN /\ (db.verified => Settled.verified)
      /\ (Settled.verified => db.verified \/ run.estimate)
      /\ (run.estimate => Settled.verified)
    BY <1>1, SettledFacts
<1>9. /\ db' \in Dbs /\ db'.rows = db.rows /\ db'.verified = Settled.verified
      /\ db'.tag = (IF run.expected = 0 /\ tag # 0 THEN tag ELSE db.tag)
    <2> DEFINE se == Settled
    <2>0. se \in Dbs /\ se.tag = db.tag /\ se.rows = db.rows
        BY <1>8
    <2>1. CASE run.expected = 0 /\ tag # 0
        <3>1. db' = [se EXCEPT !.tag = tag]
            BY <2>1 DEF Accept
        <3> HIDE DEF se
        <3>2. db' \in Dbs /\ db'.rows = se.rows /\ db'.tag = tag /\ db'.verified = se.verified
            BY <2>0, <3>1 DEF Dbs
        <3> QED
            BY <2>0, <2>1, <3>2 DEF se
    <2>2. CASE ~(run.expected = 0 /\ tag # 0)
        <3>1. db' = se
            BY <2>2 DEF Accept
        <3> HIDE DEF se
        <3> QED
            BY <2>0, <2>2, <3>1 DEF se
    <2> QED
        BY <2>1, <2>2
<1>10. run'.latch = LatchAfter(tag) /\ db'.tag = TagAfter(tag)
    BY <1>7, <1>9 DEF la, LatchAfter, TagAfter
<1> HIDE DEF Settled
<1> QED
    BY <1>2, <1>3, <1>5, <1>7, <1>8, <1>9, <1>10

LEMMA AcceptKeeps ==
    ASSUME TransferInv, Multi, NEW s \in Segs, conn[s].st = "leased",
           NEW v \in Versions, NEW tag \in 0..MaxVersion, Accept(s, v, tag)
    PROVE  TransferInv'
<1>1. /\ UNCHANGED <<kind, served, disk, pool, status, changed>>
      /\ conn' \in [Segs -> Conns]
      /\ conn'[s].st = "body" /\ conn'[s].node = conn[s].node
      /\ \A x \in Segs \ {s} : conn'[x] = conn[x]
      /\ run' \in Runs /\ run'.mode = "multi" /\ run'.dl = run.dl
      /\ db' \in Dbs /\ db'.rows = db.rows
    BY AcceptShape, Zenon
<1>2. TypeInv'
    BY <1>1 DEF TransferInv, TypeInv
<1>3. \A x \in Segs : conn'[x].st # "none" <=> conn[x].st # "none"
    BY <1>1
<1>4. PlacesInv'
    <2>1. \A x \in Segs : conn'[x].st # "none" => run.dl[x] < Length(x)
        BY <1>3 DEF TransferInv, PlacesInv
    <2> QED
        BY <1>1, <2>1, PlacesGoOn DEF Multi
<1>5. \A x \in Segs : conn'[x].node = conn[x].node
    BY <1>1
<1>6. NodesInv'
    BY <1>1, <1>3, <1>5 DEF TransferInv, NodesInv
<1>7. LeasesInv'
    BY <1>1, <1>3, <1>5 DEF TransferInv, LeasesInv, Holds
<1> QED
    BY <1>2, <1>4, <1>6, <1>7 DEF TransferInv

\* The transfer falls back to a single stream.
LEMMA FallBackShape ==
    ASSUME TransferInv, Multi, FallBack
    PROVE  /\ UNCHANGED <<kind, served, pool, status, changed>>
           /\ conn' = NoneOpen /\ disk' = <<>>
           /\ db' \in Dbs /\ db'.rows = NoRows /\ db'.tag = db.tag
           /\ db'.verified \in BOOLEAN /\ (db.verified => db'.verified)
           /\ (db'.verified => db.verified \/ run.estimate)
           /\ run' \in Runs /\ run'.mode = "fallback"
           /\ run'.expected = run.expected /\ run'.sampled = run.sampled
           /\ run'.latch = run.latch /\ run'.stream = run.stream /\ run'.dl = run.dl
           /\ run'.ranges = run.ranges /\ run'.estimate = run.estimate
<1>1. run \in Runs /\ db \in Dbs
    BY MultiFacts, Zenon
<1>2. /\ UNCHANGED <<kind, served, pool, status, changed>>
      /\ conn' = NoneOpen /\ disk' = <<>>
      /\ db' = [Settled EXCEPT !.rows = NoRows]
      /\ run' = [run EXCEPT !.mode = "fallback"]
    BY DEF FallBack
<1> DEFINE se == Settled
<1>3. /\ se \in Dbs /\ se.tag = db.tag
      /\ se.verified \in BOOLEAN /\ (db.verified => se.verified)
      /\ (se.verified => db.verified \/ run.estimate)
    BY <1>1, SettledFacts
<1>4. db' = [se EXCEPT !.rows = NoRows]
    BY <1>2
<1> HIDE DEF se
<1>5. /\ db' \in Dbs /\ db'.rows = NoRows /\ db'.tag = se.tag /\ db'.verified = se.verified
    BY <1>3, <1>4 DEF Dbs, Rows
<1>6. /\ run' \in Runs /\ run'.mode = "fallback"
      /\ run'.expected = run.expected /\ run'.sampled = run.sampled
      /\ run'.latch = run.latch /\ run'.stream = run.stream /\ run'.dl = run.dl
      /\ run'.ranges = run.ranges /\ run'.estimate = run.estimate
    BY <1>1, <1>2 DEF Runs
<1> QED
    BY <1>2, <1>3, <1>5, <1>6

LEMMA FallBackKeeps == TransferInv /\ Multi /\ FallBack => TransferInv'
<1> SUFFICES ASSUME TransferInv, Multi, FallBack PROVE TransferInv'
    OBVIOUS
<1>1. /\ UNCHANGED <<kind, served, pool, status, changed>>
      /\ conn' = NoneOpen /\ disk' = <<>>
      /\ db' \in Dbs /\ db'.rows = NoRows
      /\ run' \in Runs /\ run'.mode = "fallback"
    BY FallBackShape, Zenon
<1>2. ~Multi' /\ status = "running"
    BY <1>1 DEF Multi
<1>3. TypeInv'
    <2>1. disk' \in Seq(0..MaxVersion) /\ Len(disk') <= Size
        BY <1>1
    <2> QED
        BY <1>1, <2>1, ShapesDiffer DEF TransferInv, TypeInv
<1>4. PlacesInv'
    BY <1>1, <1>2 DEF PlacesInv
<1>5. NodesInv'
    BY <1>1, ShapesDiffer DEF TransferInv, NodesInv
<1> QED
    BY <1>2, <1>3, <1>4, <1>5 DEF TransferInv, LeasesInv

\* A node is given back and its segment waits for another.
LEMMA ReclaimKeeps ==
    ASSUME TransferInv, Multi, NEW s \in Segs, conn[s].st # "none",
           NEW immediate \in BOOLEAN, Reclaim(s, immediate),
           UNCHANGED <<kind, served, disk, run, status, changed>>,
           db' \in Dbs, db'.rows = db.rows
    PROVE  TransferInv'
<1>1. /\ Follows(pool, pool') /\ conn' \in [Segs -> Conns]
      /\ \A x \in Segs : conn'[x].st # "none" => conn'[x] = conn[x]
      /\ NodesInv' /\ LeasesInv'
    BY Returned DEF Reclaim
<1>2. TypeInv'
    BY <1>1 DEF TransferInv, TypeInv, Follows
<1>3. PlacesInv'
    <2>1. \A x \in Segs : conn'[x].st # "none" => run.dl[x] < Length(x)
        BY <1>1 DEF TransferInv, PlacesInv
    <2>2. run \in Runs
        BY MultiFacts, Zenon
    <2> QED
        BY <2>1, <2>2, PlacesGoOn DEF Multi
<1> QED
    BY <1>1, <1>2, <1>3 DEF TransferInv

LEMMA AnswerKeeps == \A s \in Segs : TransferInv /\ Answer(s) => TransferInv'
<1> SUFFICES ASSUME TransferInv, NEW s \in Segs, Answer(s) PROVE TransferInv'
    OBVIOUS
<1>1. PICK v \in Versions, tag \in 0..MaxVersion :
         /\ Multi /\ conn[s].st = "leased"
         /\ \/ Accept(s, v, tag)
            \/ VersionChanged(s)
            \/ Stop("mismatch")
    BY AnswerCases, Zenon
<1>2. CASE Accept(s, v, tag)
    BY <1>1, <1>2, AcceptKeeps
<1>3. CASE VersionChanged(s)
    <2>1. CASE FallBack
        BY <1>1, <2>1, FallBackKeeps
    <2>2. CASE /\ Reclaim(s, TRUE) /\ db' = Settled
               /\ UNCHANGED <<kind, served, disk, run, status, changed, faults, stops>>
        <3>1. db' \in Dbs /\ db'.rows = db.rows
            BY <1>1, <2>2, MultiFacts, SettledFacts
        <3> QED
            BY <1>1, <2>2, <3>1, ReclaimKeeps
    <2> QED
        BY <1>3, <2>1, <2>2 DEF VersionChanged
<1>4. CASE Stop("mismatch")
    <2> DEFINE why == "mismatch"
    <2>1. status = "running" /\ why \in {"stopped", "mismatch"} /\ Stop(why)
        BY <1>1, <1>4 DEF Multi
    <2> HIDE DEF why
    <2> QED
        BY <2>1, StopKeeps
<1> QED
    BY <1>1, <1>2, <1>3, <1>4

\* What a chunk changes.
LEMMA ReceiveShape ==
    ASSUME TransferInv, NEW s \in Segs, Receive(s)
    PROVE  /\ Multi /\ conn[s].st = "body" /\ conn[s] \in Conns
           /\ UNCHANGED <<kind, served, db, status, changed>>
           /\ run.dl[s] + 1 \in 1..Length(s)
           /\ run' \in Runs /\ run'.mode = "multi"
           /\ run'.dl = [run.dl EXCEPT ![s] = run.dl[s] + 1]
           /\ run'.expected = run.expected /\ run'.estimate = run.estimate
           /\ run'.sampled = run.sampled /\ run'.stream = run.stream
           /\ run'.ranges = run.ranges /\ run'.latch = run.latch
           /\ disk' = [disk EXCEPT ![First(s) + run.dl[s]] = conn[s].ver]
           /\ disk' \in [1..Size -> 0..MaxVersion] /\ disk' \in Seq(0..MaxVersion)
           /\ Len(disk') = Size
           /\ Follows(pool, pool') /\ conn' \in [Segs -> Conns]
           /\ \A x \in Segs : conn'[x].st # "none" => conn'[x] = conn[x]
           /\ run.dl[s] + 1 = Length(s) => conn'[s].st = "none"
           /\ NodesInv' /\ LeasesInv'
<1> DEFINE n == run.dl[s] + 1
<1>1. /\ Multi /\ conn[s].st = "body"
      /\ run' = [run EXCEPT !.dl = [run.dl EXCEPT ![s] = n]]
      /\ disk' = [disk EXCEPT ![First(s) + n - 1] = conn[s].ver]
      /\ UNCHANGED <<kind, served, db, status, changed>>
    BY DEF Receive
<1>2. /\ run \in Runs /\ run.mode = "multi"
      /\ disk \in [1..Size -> 0..MaxVersion] /\ conn \in [Segs -> Conns] /\ pool \in Pools
      /\ PoolOK(pool)
    BY <1>1, MultiFacts, Zenon
<1>3. run.dl \in [Segs -> 0..2] /\ run.dl[s] < Length(s)
    BY <1>1, <1>2 DEF TransferInv, PlacesInv, Runs
<1>4. n \in 1..Length(s) /\ n \in 0..2 /\ First(s) + n - 1 = First(s) + run.dl[s]
      /\ First(s) + run.dl[s] \in 1..Size
    BY <1>3 DEF Length, First
<1>5. conn[s] \in Conns /\ conn[s].ver \in 0..MaxVersion
    BY <1>1, <1>2, ConnTypes
<1>6. disk' \in [1..Size -> 0..MaxVersion]
    BY <1>1, <1>2, <1>4, <1>5
<1>7. disk' \in Seq(0..MaxVersion) /\ Len(disk') = Size
    <2> DEFINE S == 0..MaxVersion
               i == First(s) + n - 1
               v == conn[s].ver
    <2>1. disk \in Seq(S) /\ Len(disk) = Size
        BY <1>1, MultiFacts, Zenon
    <2>2. i \in 1..Len(disk) /\ v \in S /\ disk' = [disk EXCEPT ![i] = v]
        BY <1>1, <1>4, <1>5, <2>1
    <2> HIDE DEF S, i, v
    <2>3. disk' \in Seq(S) /\ Len(disk') = Len(disk)
        BY <2>1, <2>2, ExceptSeq
    <2> QED
        BY <2>1, <2>3 DEF S
<1> DEFINE d == [run.dl EXCEPT ![s] = n]
<1>8. d \in [Segs -> 0..2]
    BY <1>3, <1>4
<1>9. run' = [run EXCEPT !.dl = d]
    BY <1>1
<1> HIDE DEF d
<1>10. /\ run' \in Runs /\ run'.mode = "multi" /\ run'.dl = d
       /\ run'.expected = run.expected /\ run'.estimate = run.estimate
       /\ run'.sampled = run.sampled /\ run'.stream = run.stream
       /\ run'.ranges = run.ranges /\ run'.latch = run.latch
    BY <1>2, <1>8, <1>9 DEF Runs
<1>11. /\ Follows(pool, pool') /\ conn' \in [Segs -> Conns]
       /\ \A x \in Segs : conn'[x].st # "none" => conn'[x] = conn[x]
       /\ n = Length(s) => conn'[s].st = "none"
       /\ NodesInv' /\ LeasesInv'
    <2>1. CASE n = Length(s)
        <3>1. /\ pool' = GiveBack(ReportOk(pool, conn[s].node), conn[s].node)
              /\ conn' = [conn EXCEPT ![s] = NoConn]
            BY <2>1 DEF Receive
        <3>2. /\ Follows(pool, pool') /\ conn' \in [Segs -> Conns]
              /\ \A x \in Segs : conn'[x].st # "none" => conn'[x] = conn[x]
              /\ NodesInv' /\ LeasesInv'
            BY <1>1, <3>1, Returned
        <3>3. conn'[s].st = "none"
            BY <1>2, <3>1 DEF NoConn
        <3> QED
            BY <3>2, <3>3
    <2>2. CASE n # Length(s)
        <3>1. UNCHANGED <<pool, conn>>
            BY <2>2 DEF Receive
        <3>2. Follows(pool, pool')
            BY <1>2, <3>1 DEF Follows
        <3>3. NodesInv' /\ LeasesInv'
            BY <1>1, <3>1 DEF TransferInv, NodesInv, LeasesInv
        <3> QED
            BY <1>2, <2>2, <3>1, <3>2, <3>3
    <2> QED
        BY <2>1, <2>2
<1>12. disk' = [disk EXCEPT ![First(s) + run.dl[s]] = conn[s].ver]
    BY <1>1, <1>4
<1> QED
    BY <1>1, <1>4, <1>5, <1>6, <1>7, <1>10, <1>11, <1>12 DEF d

LEMMA ReceiveKeeps == \A s \in Segs : TransferInv /\ Receive(s) => TransferInv'
<1> SUFFICES ASSUME TransferInv, NEW s \in Segs, Receive(s) PROVE TransferInv'
    OBVIOUS
<1>1. /\ Multi /\ conn[s].st = "body"
      /\ UNCHANGED <<kind, served, db, status, changed>>
      /\ run.dl[s] + 1 \in 1..Length(s)
      /\ run' \in Runs /\ run'.mode = "multi"
      /\ run'.dl = [run.dl EXCEPT ![s] = run.dl[s] + 1]
      /\ disk' \in Seq(0..MaxVersion) /\ Len(disk') = Size
      /\ Follows(pool, pool') /\ conn' \in [Segs -> Conns]
      /\ \A x \in Segs : conn'[x].st # "none" => conn'[x] = conn[x]
      /\ run.dl[s] + 1 = Length(s) => conn'[s].st = "none"
      /\ NodesInv' /\ LeasesInv'
    BY ReceiveShape, Zenon
<1>2. /\ run \in Runs /\ run.dl \in [Segs -> 0..2] /\ db.rows \in [Segs -> 0..2]
      /\ status = "running" /\ db.rows # NoRows
      /\ \A x \in Segs : /\ db.rows[x] <= run.dl[x] /\ run.dl[x] <= Length(x)
                         /\ conn[x].st # "none" => run.dl[x] < Length(x)
                         /\ db.rows[x] <= Length(x)
    BY <1>1, MultiFacts DEF TransferInv, PlacesInv, Runs
<1>3. TypeInv'
    BY <1>1 DEF TransferInv, TypeInv, Follows
<1>4. Multi' /\ status' = "running"
    BY <1>1, <1>2 DEF Multi
<1>5. /\ run'.dl[s] = run.dl[s] + 1 /\ \A x \in Segs \ {s} : run'.dl[x] = run.dl[x]
    BY <1>1, <1>2
<1>6. \A x \in Segs : /\ db'.rows[x] <= run'.dl[x] /\ run'.dl[x] <= Length(x)
                      /\ conn'[x].st # "none" => run'.dl[x] < Length(x)
    <2>1. db'.rows = db.rows /\ Length(s) \in Nat
        BY <1>1 DEF Length
    <2>2. /\ db'.rows[s] <= run'.dl[s] /\ run'.dl[s] <= Length(s)
          /\ conn'[s].st # "none" => run'.dl[s] < Length(s)
        BY <1>1, <1>2, <1>5, <2>1
    <2>3. ASSUME NEW x \in Segs \ {s}
          PROVE  /\ db'.rows[x] <= run'.dl[x] /\ run'.dl[x] <= Length(x)
                 /\ conn'[x].st # "none" => run'.dl[x] < Length(x)
        BY <1>1, <1>2, <1>5, <2>1
    <2> QED
        BY <2>2, <2>3
<1>7. PlacesInv'
    <2>1. db'.rows # NoRows /\ \A x \in Segs : db'.rows[x] <= Length(x)
        BY <1>1, <1>2
    <2> QED
        BY <1>1, <1>4, <1>6, <2>1 DEF PlacesInv
<1> QED
    BY <1>1, <1>3, <1>7 DEF TransferInv

\* What a connection that breaks changes.
LEMMA RetryShape ==
    ASSUME TransferInv, NEW s \in Segs, Retry(s)
    PROVE  /\ Multi /\ conn[s].st = "body"
           /\ UNCHANGED <<kind, served, db, disk, run, pool, status, changed>>
           /\ conn' \in [Segs -> Conns] /\ conn'[s].st = "leased"
           /\ conn'[s].node = conn[s].node /\ conn'[s].via = conn[s].via
           /\ \A x \in Segs \ {s} : conn'[x] = conn[x]
<1>1. /\ Multi /\ conn[s].st = "body"
      /\ conn' = [conn EXCEPT ![s] = Turned(conn[s], "leased", 0)]
      /\ UNCHANGED <<kind, served, db, disk, run, pool, status, changed>>
    BY DEF Retry
<1>2. conn \in [Segs -> Conns]
    BY <1>1, MultiFacts, Zenon
<1> DEFINE st == "leased"
           c == Turned(conn[s], st, 0)
<1>3. conn[s] \in Conns /\ conn[s].st # "none" /\ st \in {"leased", "body"} /\ 0 \in 0..MaxVersion
    BY <1>1, <1>2
<1>4. conn' = [conn EXCEPT ![s] = c]
    BY <1>1
<1>5. c \in Conns /\ c.st = "leased" /\ c.node = conn[s].node /\ c.via = conn[s].via
    BY <1>3, ConnTypes
<1> HIDE DEF c
<1> QED
    BY <1>1, <1>2, <1>4, <1>5

LEMMA RetryKeeps == \A s \in Segs : TransferInv /\ Retry(s) => TransferInv'
<1> SUFFICES ASSUME TransferInv, NEW s \in Segs, Retry(s) PROVE TransferInv'
    OBVIOUS
<1>1. /\ Multi /\ conn[s].st = "body"
      /\ UNCHANGED <<kind, served, db, disk, run, pool, status, changed>>
      /\ conn' \in [Segs -> Conns] /\ conn'[s].st = "leased" /\ conn'[s].node = conn[s].node
      /\ \A x \in Segs \ {s} : conn'[x] = conn[x]
    BY RetryShape, Zenon
<1>2. \A x \in Segs : conn'[x].node = conn[x].node /\ (conn'[x].st # "none" <=> conn[x].st # "none")
    BY <1>1
<1>3. TypeInv'
    BY <1>1 DEF TransferInv, TypeInv
<1>4. PlacesInv'
    <2>1. \A x \in Segs : conn'[x].st # "none" => run.dl[x] < Length(x)
        BY <1>1, <1>2 DEF TransferInv, PlacesInv
    <2>2. run \in Runs
        BY <1>1, MultiFacts, Zenon
    <2> QED
        BY <1>1, <2>1, <2>2, PlacesGoOn DEF Multi
<1>5. NodesInv'
    BY <1>1, <1>2 DEF TransferInv, NodesInv
<1>6. LeasesInv'
    BY <1>1, <1>2 DEF TransferInv, LeasesInv, Holds
<1> QED
    BY <1>3, <1>4, <1>5, <1>6 DEF TransferInv

LEMMA GiveUpKeeps == \A s \in Segs : TransferInv /\ GiveUp(s) => TransferInv'
<1> SUFFICES ASSUME TransferInv, NEW s \in Segs, GiveUp(s) PROVE TransferInv'
    OBVIOUS
<1>1. /\ Multi /\ conn[s].st = "leased" /\ Reclaim(s, FALSE)
      /\ UNCHANGED <<kind, served, db, disk, run, status, changed>>
    BY DEF GiveUp
<1> DEFINE immediate == FALSE
<1>2. immediate \in BOOLEAN /\ Reclaim(s, immediate) /\ db' = db /\ db \in Dbs
    BY <1>1, MultiFacts
<1> HIDE DEF immediate
<1>3. conn[s].st # "none"
    BY <1>1
<1>4. db' \in Dbs /\ db'.rows = db.rows
    BY <1>2
<1> QED
    BY <1>1, <1>2, <1>3, <1>4, ReclaimKeeps

LEMMA InterruptKeeps == TransferInv /\ Interrupt => TransferInv'
<1> SUFFICES ASSUME TransferInv, Interrupt PROVE TransferInv'
    OBVIOUS
<1> DEFINE why == "stopped"
<1>1. status = "running" /\ why \in {"stopped", "mismatch"} /\ Stop(why)
    BY DEF Interrupt
<1> HIDE DEF why
<1> QED
    BY <1>1, StopKeeps

LEMMA FinishMultiKeeps == TransferInv /\ FinishMulti => TransferInv'
<1> SUFFICES ASSUME TransferInv, FinishMulti PROVE TransferInv'
    OBVIOUS
<1>1. /\ Multi /\ \A s \in Segs : run.dl[s] = Length(s) /\ conn[s].st = "none"
      /\ db' = [db EXCEPT !.rows = run.dl]
      /\ status' = "done" /\ run' = Idle
      /\ UNCHANGED <<kind, served, disk, pool, conn, changed>>
    BY DEF FinishMulti, Complete
<1>2. /\ run \in Runs /\ run.mode = "multi" /\ db \in Dbs /\ Len(disk) = Size
      /\ conn \in [Segs -> Conns]
    BY <1>1, MultiFacts, Zenon
<1>3. run.dl \in [Segs -> 0..2] /\ run.dl # NoRows
    BY <1>2, ShapesDiffer DEF Runs
<1>4. db' \in Dbs /\ db'.rows = run.dl
    BY <1>1, <1>2, <1>3 DEF Dbs, Rows
<1>5. ~Multi'
    BY <1>1 DEF Multi
<1>6. conn = NoneOpen
    <2>1. \A s \in Segs : conn[s] = NoConn
        BY <1>1, <1>2, ConnTypes DEF Conns
    <2> QED
        BY <1>2, <2>1 DEF NoneOpen
<1>7. TypeInv'
    BY <1>1, <1>4 DEF TransferInv, TypeInv, Statuses
<1>8. PlacesInv'
    <2>1. \A s \in Segs : db'.rows[s] <= Length(s)
        BY <1>1, <1>4 DEF Length
    <2> QED
        BY <1>1, <1>2, <1>3, <1>4, <1>5, <1>6, <2>1 DEF PlacesInv
<1>9. NodesInv'
    BY <1>1 DEF TransferInv, NodesInv
<1> QED
    BY <1>5, <1>7, <1>8, <1>9 DEF TransferInv, LeasesInv

LEMMA SampleShape ==
    ASSUME TransferInv, Sample
    PROVE  /\ Multi /\ kind.auto /\ SampleAgrees(run.expected, served[Proxy])
           /\ UNCHANGED <<kind, served, db, disk, pool, conn, status, changed>>
           /\ run' \in Runs /\ run'.mode = "multi" /\ run'.dl = run.dl /\ run'.sampled
           /\ run'.expected = run.expected /\ run'.estimate = run.estimate
           /\ run'.latch = run.latch /\ run'.stream = run.stream
           /\ run'.ranges = run.ranges
<1>1. /\ Multi /\ kind.auto /\ SampleAgrees(run.expected, served[Proxy])
      /\ UNCHANGED <<kind, served, db, disk, pool, conn, status, changed>>
      /\ run' = [run EXCEPT !.sampled = TRUE]
    BY DEF Sample
<1>2. run \in Runs /\ run.mode = "multi"
    BY <1>1, MultiFacts, Zenon
<1> QED
    BY <1>1, <1>2 DEF Runs

LEMMA SampleKeeps == TransferInv /\ Sample => TransferInv'
<1> SUFFICES ASSUME TransferInv, Sample PROVE TransferInv'
    OBVIOUS
<1>1. /\ Multi
      /\ UNCHANGED <<kind, served, db, disk, pool, conn, status, changed>>
      /\ run' \in Runs /\ run'.mode = "multi" /\ run'.dl = run.dl
    BY SampleShape, Zenon
<1>2. TypeInv'
    BY <1>1 DEF TransferInv, TypeInv
<1>3. PlacesInv'
    BY <1>1, PlacesGoOn DEF Multi, TransferInv, PlacesInv
<1>4. NodesInv' /\ LeasesInv'
    BY <1>1 DEF TransferInv, NodesInv, LeasesInv
<1> QED
    BY <1>2, <1>3, <1>4 DEF TransferInv

LEMMA AdoptShape ==
    ASSUME TransferInv, Adopt
    PROVE  /\ Multi /\ run.sampled
           /\ UNCHANGED <<kind, served, db, disk, run, conn, status, changed>>
           /\ pool' \in Pools /\ PoolOK(pool') /\ pool'.slots = pool.slots
           /\ pool'.leased = pool.leased /\ pool'.marked = pool.marked
           /\ pool'.client = "proxy"
    BY SwitchFacts DEF Adopt, TransferInv, TypeInv, NodesInv

LEMMA AdoptKeeps == TransferInv /\ Adopt => TransferInv'
<1> SUFFICES ASSUME TransferInv, Adopt PROVE TransferInv'
    OBVIOUS
<1>1. /\ Multi
      /\ UNCHANGED <<kind, served, db, disk, run, conn, status, changed>>
      /\ pool' \in Pools /\ PoolOK(pool') /\ pool'.slots = pool.slots
      /\ pool'.leased = pool.leased
    BY AdoptShape, Zenon
<1>2. TypeInv'
    BY <1>1 DEF TransferInv, TypeInv
<1>3. PlacesInv'
    BY <1>1 DEF TransferInv, PlacesInv, Multi
<1>4. NodesInv' /\ LeasesInv'
    BY <1>1 DEF TransferInv, NodesInv, LeasesInv
<1> QED
    BY <1>2, <1>3, <1>4 DEF TransferInv

\* What holds of a single stream.
LEMMA SingleFacts ==
    ASSUME TransferInv, Single
    PROVE  /\ status = "running" /\ ~Multi /\ run \in Runs
           /\ run.mode \in {"single", "fallback"}
           /\ db.rows = NoRows /\ conn = NoneOpen
           /\ disk \in Seq(0..MaxVersion) /\ Len(disk) <= Size /\ Len(disk) \in Nat
<1>1. status = "running" /\ run.mode \in {"single", "fallback"} /\ ~Multi
    BY DEF Single, Multi
<1>2. Len(disk) \in Nat
    <2>1. disk \in Seq(0..MaxVersion)
        BY DEF TransferInv, TypeInv
    <2> QED
        BY <2>1, LenProperties, Zenon
<1> QED
    BY <1>1, <1>2 DEF TransferInv, TypeInv, PlacesInv

LEMMA OpenShape ==
    ASSUME TransferInv, Open
    PROVE  /\ Single /\ run.stream = 0
           /\ UNCHANGED <<kind, served, db, pool, conn, status, changed>>
           /\ served[Sys] \in Versions
           /\ run' \in Runs /\ run'.stream = served[Sys] /\ run'.mode = run.mode
           /\ run'.expected = run.expected /\ run'.sampled = run.sampled
           /\ run'.latch = run.latch /\ run'.ranges = run.ranges /\ run'.dl = run.dl
           /\ run'.estimate = run.estimate
           /\ disk' = (IF Appends(served[Sys]) THEN disk ELSE <<>>)
<1>1. /\ Single /\ run.stream = 0
      /\ UNCHANGED <<kind, served, db, pool, conn, status, changed>>
      /\ run' = [run EXCEPT !.stream = served[Sys]]
      /\ disk' = (IF Appends(served[Sys]) THEN disk ELSE <<>>)
    BY DEF Open
<1>2. served[Sys] \in Versions
    BY DEF TransferInv, TypeInv
<1>3. run \in Runs
    BY <1>1, SingleFacts
<1>4. served[Sys] \in 0..MaxVersion
    BY <1>2
<1> QED
    BY <1>1, <1>2, <1>3, <1>4 DEF Runs

LEMMA OpenKeeps == TransferInv /\ Open => TransferInv'
<1> SUFFICES ASSUME TransferInv, Open PROVE TransferInv'
    OBVIOUS
<1>1. /\ Single
      /\ UNCHANGED <<kind, served, db, pool, conn, status, changed>>
      /\ run' \in Runs /\ run'.mode = run.mode
      /\ disk' = (IF Appends(served[Sys]) THEN disk ELSE <<>>)
    BY OpenShape, Zenon
<1>2. /\ status = "running" /\ ~Multi /\ run.mode \in {"single", "fallback"}
      /\ db.rows = NoRows /\ conn = NoneOpen
      /\ disk \in Seq(0..MaxVersion) /\ Len(disk) <= Size
    BY <1>1, SingleFacts, Zenon
<1>3. disk' \in Seq(0..MaxVersion) /\ Len(disk') <= Size
    <2>1. CASE disk' = disk
        BY <1>2, <2>1
    <2>2. CASE disk' = <<>>
        BY <2>2
    <2> QED
        BY <1>1, <2>1, <2>2
<1>4. ~Multi'
    BY <1>1, <1>2 DEF Multi
<1>5. TypeInv'
    BY <1>1, <1>3 DEF TransferInv, TypeInv
<1>6. PlacesInv'
    BY <1>1, <1>2, <1>4 DEF PlacesInv
<1>7. NodesInv'
    BY <1>1 DEF TransferInv, NodesInv
<1> QED
    BY <1>4, <1>5, <1>6, <1>7 DEF TransferInv, LeasesInv

LEMMA ReceiveSingleShape ==
    ASSUME TransferInv, ReceiveSingle
    PROVE  /\ Single /\ run.stream \in 1..MaxVersion /\ Len(disk) < Size
           /\ UNCHANGED <<kind, served, db, run, pool, conn, status, changed>>
           /\ disk' \in Seq(0..MaxVersion) /\ Len(disk') = Len(disk) + 1
           /\ \A i \in 1..Len(disk) : disk'[i] = disk[i]
           /\ disk'[Len(disk) + 1] = run.stream
<1>1. /\ Single /\ run.stream # 0 /\ Len(disk) < Size
      /\ disk' = Append(disk, run.stream)
      /\ UNCHANGED <<kind, served, db, run, pool, conn, status, changed>>
    BY DEF ReceiveSingle
<1>2. /\ run \in Runs /\ disk \in Seq(0..MaxVersion) /\ Len(disk) \in Nat
    BY <1>1, SingleFacts, Zenon
<1>3. run.stream \in 0..MaxVersion
    BY <1>2 DEF Runs
<1> QED
    BY <1>1, <1>2, <1>3

LEMMA ReceiveSingleKeeps == TransferInv /\ ReceiveSingle => TransferInv'
<1> SUFFICES ASSUME TransferInv, ReceiveSingle PROVE TransferInv'
    OBVIOUS
<1>1. /\ Single /\ Len(disk) < Size
      /\ UNCHANGED <<kind, served, db, run, pool, conn, status, changed>>
      /\ disk' \in Seq(0..MaxVersion) /\ Len(disk') = Len(disk) + 1
    BY ReceiveSingleShape, Zenon
<1>2. /\ status = "running" /\ ~Multi /\ db.rows = NoRows /\ conn = NoneOpen
      /\ Len(disk) \in Nat /\ run \in Runs
    BY <1>1, SingleFacts, Zenon
<1>3. ~Multi'
    BY <1>1, <1>2 DEF Multi
<1>4. Len(disk') <= Size
    BY <1>1, <1>2
<1>5. TypeInv'
    BY <1>1, <1>4 DEF TransferInv, TypeInv
<1>6. PlacesInv'
    BY <1>1, <1>2, <1>3 DEF PlacesInv
<1>7. NodesInv'
    BY <1>1 DEF TransferInv, NodesInv
<1> QED
    BY <1>3, <1>5, <1>6, <1>7 DEF TransferInv, LeasesInv

LEMMA FinishSingleKeeps == TransferInv /\ FinishSingle => TransferInv'
<1> SUFFICES ASSUME TransferInv, FinishSingle PROVE TransferInv'
    OBVIOUS
<1>1. /\ Single /\ status' = "done" /\ run' = Idle
      /\ UNCHANGED <<kind, served, db, disk, pool, conn, changed>>
    BY DEF FinishSingle, Complete
<1>2. db.rows = NoRows /\ conn = NoneOpen
    BY <1>1, SingleFacts, Zenon
<1>3. ~Multi'
    BY <1>1 DEF Multi
<1>4. TypeInv'
    BY <1>1 DEF TransferInv, TypeInv, Statuses
<1>5. PlacesInv'
    BY <1>1, <1>2, <1>3 DEF PlacesInv
<1>6. NodesInv'
    BY <1>1 DEF TransferInv, NodesInv
<1> QED
    BY <1>3, <1>4, <1>5, <1>6 DEF TransferInv, LeasesInv

LEMMA ReplaceShape ==
    ASSUME TransferInv, NEW e \in Edges, Replace(e)
    PROVE  /\ status # "done"
           /\ UNCHANGED <<kind, db, disk, run, pool, conn, status>>
           /\ served' \in [Edges -> Versions] /\ served'[e] > served[e]
           /\ \A x \in Edges \ {e} : served'[x] = served[x]
           /\ changed' \in BOOLEAN
           /\ changed' = (changed \/ (e = Sys /\ status # "new")
                                  \/ (e = Proxy /\ run # Idle /\ run.sampled))
<1>1. /\ status # "done"
      /\ UNCHANGED <<kind, db, disk, run, pool, conn, status>>
      /\ changed' = (changed \/ (e = Sys /\ status # "new")
                             \/ (e = Proxy /\ run # Idle /\ run.sampled))
    BY DEF Replace
<1>2. PICK v \in Versions : v > served[e] /\ served' = [served EXCEPT ![e] = v]
    BY DEF Replace
<1>3. served \in [Edges -> Versions]
    BY DEF TransferInv, TypeInv
<1>4. changed' \in BOOLEAN
    <2> DEFINE b == changed \/ (e = Sys /\ status # "new")
                            \/ (e = Proxy /\ run # Idle /\ run.sampled)
    <2>1. b \in BOOLEAN
        BY Zenon
    <2>2. changed' = b
        BY <1>1
    <2> HIDE DEF b
    <2> QED
        BY <2>1, <2>2
<1>5. served' \in [Edges -> Versions] /\ served'[e] > served[e]
      /\ \A x \in Edges \ {e} : served'[x] = served[x]
    BY <1>2, <1>3
<1> QED
    BY <1>1, <1>4, <1>5

LEMMA ReplaceKeeps == \A e \in Edges : TransferInv /\ Replace(e) => TransferInv'
<1> SUFFICES ASSUME TransferInv, NEW e \in Edges, Replace(e) PROVE TransferInv'
    OBVIOUS
<1>1. /\ UNCHANGED <<kind, db, disk, run, pool, conn, status>>
      /\ served' \in [Edges -> Versions] /\ changed' \in BOOLEAN
    BY ReplaceShape, Zenon
<1>2. TypeInv'
    BY <1>1 DEF TransferInv, TypeInv
<1>3. PlacesInv'
    BY <1>1 DEF TransferInv, PlacesInv, Multi
<1>4. NodesInv' /\ LeasesInv'
    BY <1>1 DEF TransferInv, NodesInv, LeasesInv, Multi
<1> QED
    BY <1>2, <1>3, <1>4 DEF TransferInv

\* Every step keeps the bytes, the rows and the leases in place.
LEMMA TransferStep == TransferInv /\ [HttpNext]_vars => TransferInv'
<1> SUFFICES ASSUME TransferInv, [HttpNext]_vars PROVE TransferInv'
    OBVIOUS
<1>1. CASE Start
    <2> DEFINE resume == FALSE
    <2>1. status # "running" /\ resume \in BOOLEAN /\ Begin(resume)
        BY <1>1 DEF Start
    <2> HIDE DEF resume
    <2> QED
        BY <2>1, BeginKeeps
<1>2. CASE Resume
    <2> DEFINE resume == TRUE
    <2>1. status # "running" /\ resume \in BOOLEAN /\ Begin(resume)
        BY <1>2 DEF Resume
    <2> HIDE DEF resume
    <2> QED
        BY <2>1, BeginKeeps
<1>3. CASE StartFails \/ Restart \/ Interrupt
    BY <1>3, StartFailsKeeps, RestartKeeps, InterruptKeeps, Zenon
<1>4. CASE \E s \in Segs : Lease(s) \/ Answer(s) \/ Receive(s) \/ Retry(s) \/ GiveUp(s)
    BY <1>4, LeaseKeeps, AnswerKeeps, ReceiveKeeps, RetryKeeps, GiveUpKeeps, Zenon
<1>5. CASE FinishMulti \/ Open \/ ReceiveSingle \/ FinishSingle \/ Sample \/ Adopt
    BY <1>5, FinishMultiKeeps, OpenKeeps, ReceiveSingleKeeps, FinishSingleKeeps,
       SampleKeeps, AdoptKeeps, Zenon
<1>6. CASE \E e \in Edges : Replace(e)
    BY <1>6, ReplaceKeeps, Zenon
<1>7. CASE UNCHANGED vars
    BY <1>7 DEF vars, TransferInv, TypeInv, PlacesInv, NodesInv, LeasesInv, Multi
<1> QED
    BY <1>1, <1>2, <1>3, <1>4, <1>5, <1>6, <1>7, Zenon DEF HttpNext

\* Bytes, rows and leases keep their places for every task and server.
THEOREM TransferSafe == HttpSpec => []TransferInv
<1> QED
    BY TransferInit, TransferStep, PTL DEF HttpSpec

\* HttpTypeOK holds: whichever way a request of do_segment ends, the pool
\* counts exactly the leases of the segments that hold a connection.
THEOREM TransferTyped == HttpSpec => []HttpTypeOK
<1> QED
    BY TransferSafe, TransferTypes, PTL

-----------------------------------------------------------------------------
(* What a step may never do. *)

\* One step of FlagMeansFailures.
FlagStep ==
    pool'.marked /\ ~pool.marked => 2 * Cardinality(pool'.failed) > Cardinality(pool'.slots)

\* One step of SwitchHolds.
SwitchStep ==
    \A s \in Segs : pool.client = "proxy" /\ conn[s].st = "none" /\ conn'[s].st = "leased"
        => conn'[s].via = "proxy"

\* The steps that leave the pool or the connections alone, or give one back.
LEMMA MostStepsQuiet ==
    ASSUME TransferInv, [HttpNext]_vars, ~\E s \in Segs : Lease(s)
    PROVE  /\ pool'.marked => pool.marked \/ Follows(pool, pool')
           /\ \A s \in Segs : conn[s].st = "none" => conn'[s].st = "none"
<1> DEFINE Quiet == /\ pool'.marked => pool.marked \/ Follows(pool, pool')
                    /\ \A s \in Segs : conn[s].st = "none" => conn'[s].st = "none"
<1> SUFFICES Quiet
    OBVIOUS
<1>1. ASSUME NEW resume \in BOOLEAN, status # "running", Begin(resume) PROVE Quiet
    <2>1. pool'.marked = pool.marked /\ conn' = conn
        BY <1>1, BeginShape, Zenon
    <2> QED
        BY <2>1
<1>2. ASSUME NEW why, Stop(why) PROVE Quiet
    <2>1. pool' = pool /\ conn' = NoneOpen
        BY <1>2 DEF Stop
    <2> QED
        BY <2>1, ShapesDiffer
<1>3. ASSUME UNCHANGED <<pool, conn>> PROVE Quiet
    BY <1>3
<1>4. ASSUME Follows(pool, pool'),
             \A x \in Segs : conn'[x].st # "none" => conn'[x] = conn[x]
      PROVE  Quiet
    <2>1. \A x \in Segs : conn[x].st = "none" => conn'[x].st = "none"
        BY <1>4
    <2> QED
        BY <1>4, <2>1
<1>5. ASSUME NEW s \in Segs, pool' = pool, conn[s].st # "none",
             \A x \in Segs \ {s} : conn'[x] = conn[x]
      PROVE  Quiet
    BY <1>5
<1>6. ASSUME NEW s \in Segs, Multi, conn[s].st # "none", NEW immediate \in BOOLEAN,
             Reclaim(s, immediate)
      PROVE  Quiet
    <2>1. /\ Follows(pool, pool')
          /\ \A x \in Segs : conn'[x].st # "none" => conn'[x] = conn[x]
        BY <1>6, Returned DEF Reclaim
    <2> QED
        BY <1>4, <2>1
<1> HIDE DEF Quiet
<1>7. CASE Start \/ Resume
    <2>1. ASSUME Start PROVE Quiet
        <3> DEFINE resume == FALSE
        <3>1. status # "running" /\ resume \in BOOLEAN /\ Begin(resume)
            BY <2>1 DEF Start
        <3> HIDE DEF resume
        <3> QED
            BY <1>1, <3>1
    <2>2. ASSUME Resume PROVE Quiet
        <3> DEFINE resume == TRUE
        <3>1. status # "running" /\ resume \in BOOLEAN /\ Begin(resume)
            BY <2>2 DEF Resume
        <3> HIDE DEF resume
        <3> QED
            BY <1>1, <3>1
    <2> QED
        BY <1>7, <2>1, <2>2
<1>8. CASE Interrupt
    BY <1>2, <1>8 DEF Interrupt
<1>9. CASE StartFails \/ Restart \/ FinishMulti \/ FinishSingle \/ Open \/ ReceiveSingle
           \/ Sample \/ \E e \in Edges : Replace(e)
    <2>1. UNCHANGED <<pool, conn>>
        BY <1>9 DEF StartFails, Restart, FinishMulti, FinishSingle, Complete, Open,
           ReceiveSingle, Sample, Replace
    <2> QED
        BY <1>3, <2>1
<1>10. CASE UNCHANGED vars
    BY <1>3, <1>10 DEF vars
<1>11. CASE Adopt
    <2>1. pool'.marked = pool.marked /\ conn' = conn
        BY <1>11, AdoptShape, Zenon
    <2> QED
        BY <2>1 DEF Quiet
<1>12. ASSUME NEW s \in Segs, Answer(s) PROVE Quiet
    <2>1. PICK v \in Versions, tag \in 0..MaxVersion :
             /\ Multi /\ conn[s].st = "leased"
             /\ \/ Accept(s, v, tag)
                \/ VersionChanged(s)
                \/ Stop("mismatch")
        BY <1>12, AnswerCases, Zenon
    <2>2. CASE Accept(s, v, tag)
        <3>1. pool' = pool /\ \A x \in Segs \ {s} : conn'[x] = conn[x]
            BY <2>1, <2>2, AcceptShape, Zenon
        <3>2. conn[s].st # "none"
            BY <2>1
        <3> QED
            BY <1>5, <3>1, <3>2
    <2>3. CASE VersionChanged(s)
        <3>1. CASE FallBack
            <4>1. pool' = pool /\ conn' = NoneOpen
                BY <3>1 DEF FallBack
            <4> QED
                BY <4>1, ShapesDiffer DEF Quiet
        <3>2. CASE Reclaim(s, TRUE)
            <4> DEFINE immediate == TRUE
            <4>1. immediate \in BOOLEAN /\ Reclaim(s, immediate)
                BY <3>2
            <4> HIDE DEF immediate
            <4>2. conn[s].st # "none" /\ Multi
                BY <2>1
            <4> QED
                BY <1>6, <4>1, <4>2
        <3> QED
            BY <2>3, <3>1, <3>2 DEF VersionChanged
    <2>4. CASE Stop("mismatch")
        BY <1>2, <2>4
    <2> QED
        BY <2>1, <2>2, <2>3, <2>4
<1>13. ASSUME NEW s \in Segs, Receive(s) PROVE Quiet
    <2>1. /\ Follows(pool, pool')
          /\ \A x \in Segs : conn'[x].st # "none" => conn'[x] = conn[x]
        BY <1>13, ReceiveShape, Zenon
    <2> QED
        BY <1>4, <2>1
<1>14. ASSUME NEW s \in Segs, Retry(s) PROVE Quiet
    <2>1. pool' = pool /\ conn[s].st = "body" /\ \A x \in Segs \ {s} : conn'[x] = conn[x]
        BY <1>14, RetryShape, Zenon
    <2>2. conn[s].st # "none"
        BY <2>1
    <2> QED
        BY <1>5, <2>1, <2>2
<1>15. ASSUME NEW s \in Segs, GiveUp(s) PROVE Quiet
    <2> DEFINE immediate == FALSE
    <2>1. immediate \in BOOLEAN /\ Reclaim(s, immediate) /\ Multi /\ conn[s].st = "leased"
        BY <1>15 DEF GiveUp
    <2> HIDE DEF immediate
    <2>2. conn[s].st # "none"
        BY <2>1
    <2> QED
        BY <1>6, <2>1, <2>2
<1>16. CASE \E s \in Segs : Lease(s) \/ Answer(s) \/ Receive(s) \/ Retry(s) \/ GiveUp(s)
    BY <1>12, <1>13, <1>14, <1>15, <1>16, Zenon
<1> QED
    BY <1>7, <1>8, <1>9, <1>10, <1>11, <1>16, Zenon DEF HttpNext

LEMMA FlagStepHolds == TransferInv /\ [HttpNext]_vars => FlagStep
<1> SUFFICES ASSUME TransferInv, [HttpNext]_vars PROVE FlagStep
    OBVIOUS
<1>1. CASE \E s \in Segs : Lease(s)
    <2>1. PICK s \in Segs : Lease(s)
        BY <1>1
    <2>2. Follows(pool, pool')
        BY <2>1, LeaseShape, Zenon
    <2> QED
        BY <2>2 DEF Follows, FlagStep
<1>2. CASE ~\E s \in Segs : Lease(s)
    <2>1. pool'.marked => pool.marked \/ Follows(pool, pool')
        BY <1>2, MostStepsQuiet, Zenon
    <2> QED
        BY <2>1 DEF Follows, FlagStep
<1> QED
    BY <1>1, <1>2

LEMMA SwitchStepHolds == TransferInv /\ [HttpNext]_vars => SwitchStep
<1> SUFFICES ASSUME TransferInv, [HttpNext]_vars PROVE SwitchStep
    OBVIOUS
<1>1. CASE \E s \in Segs : Lease(s)
    <2>1. PICK s \in Segs : Lease(s)
        BY <1>1
    <2>2. /\ conn'[s].via = (IF conn'[s].node = Sys THEN pool.client ELSE "direct")
          /\ pool.client = "proxy" => conn'[s].node = Sys
          /\ \A x \in Segs \ {s} : conn'[x] = conn[x]
        BY <2>1, LeaseShape, Zenon
    <2> QED
        BY <2>2 DEF SwitchStep
<1>2. CASE ~\E s \in Segs : Lease(s)
    <2>1. \A s \in Segs : conn[s].st = "none" => conn'[s].st = "none"
        BY <1>2, MostStepsQuiet, Zenon
    <2> QED
        BY <2>1 DEF SwitchStep
<1> QED
    BY <1>1, <1>2

\* FlagMeansFailures holds: the host is marked as unfit for aggregation only by
\* a breaker that counted failed nodes, and the switch to a proxy disarms it.
THEOREM FlagIsEarned == HttpSpec => FlagMeansFailures
<1>1. FlagStep => (pool'.marked /\ ~pool.marked =>
                     2 * Cardinality(pool'.failed) > Cardinality(pool'.slots))
    BY DEF FlagStep
<1> QED
    BY <1>1, TransferSafe, FlagStepHolds, PTL DEF HttpSpec, FlagMeansFailures

\* SwitchHolds holds: after the switch every pinned node is kicked, so a lease
\* takes the system's node, whose client is the proxy's.
THEOREM SwitchIsComplete == HttpSpec => SwitchHolds
<1>1. SwitchStep => \A s \in Segs :
         pool.client = "proxy" /\ conn[s].st = "none" /\ conn'[s].st = "leased"
           => conn'[s].via = "proxy"
    BY DEF SwitchStep
<1> QED
    BY <1>1, TransferSafe, SwitchStepHolds, PTL DEF HttpSpec, SwitchHolds

-----------------------------------------------------------------------------
(* What the kind of the task says of its transfers. *)

KindInv ==
    /\ pool.slots # {} => kind.pool
    /\ ~db.verified => ~kind.probe /\ db.tag = 0
    /\ run # Idle =>
          /\ run.expected = 0 => run.estimate
          /\ run.estimate => ~kind.probe /\ pool.slots = {}
          /\ run.sampled => kind.auto
          /\ pool.client = "proxy" => run.sampled
          /\ \A s \in Segs : conn[s].st # "none" /\ conn[s].via = "proxy"
                => run.sampled /\ conn[s].node = Sys

LEMMA KindInit == HttpInit => KindInv
    BY DEF HttpInit, KindInv, NewPool

\* A segment transfer goes on with the validator it began with.
LEMMA KindGoesOn ==
    ASSUME TransferInv, KindInv, Multi, kind' = kind,
           pool'.slots = pool.slots, pool'.client = pool.client,
           run'.expected = run.expected, run'.estimate = run.estimate,
           run'.sampled = run.sampled, db'.tag = db.tag, db.verified => db'.verified,
           \A x \in Segs : conn'[x].st # "none" =>
              /\ conn[x].st # "none"
              /\ conn'[x].via = conn[x].via /\ conn'[x].node = conn[x].node
    PROVE  KindInv'
<1>1. run # Idle
    BY MultiFacts, ShapesDiffer
<1> QED
    BY <1>1 DEF KindInv

LEMMA KindBegins ==
    ASSUME TransferInv, KindInv, status # "running", NEW resume \in BOOLEAN, Begin(resume)
    PROVE  KindInv'
<1>1. /\ UNCHANGED <<kind, conn>> /\ conn = NoneOpen
      /\ db' \in Dbs /\ run' \in Runs
      /\ db'.verified = (IF resume THEN db.verified ELSE kind.probe)
      /\ db'.tag = (IF resume THEN db.tag ELSE IF kind.probe THEN served[Sys] ELSE 0)
      /\ run'.expected = (IF resume /\ db.tag # 0 THEN db.tag
                          ELSE IF db'.verified THEN served[Sys] ELSE 0)
      /\ run'.estimate = ~db'.verified /\ ~run'.sampled
      /\ pool'.client = "direct"
      /\ pool'.slots # {} => kind.pool /\ db'.verified
    BY BeginShape, Zenon
<1>2. served[Sys] \in 1..MaxVersion /\ kind.probe \in BOOLEAN
    BY DEF TransferInv, TypeInv, StartKinds
<1>3. ~db'.verified => ~kind.probe /\ db'.tag = 0
    <2>1. CASE resume
        BY <1>1, <2>1 DEF KindInv
    <2>2. CASE ~resume
        BY <1>1, <2>2
    <2> QED
        BY <2>1, <2>2
<1>4. run'.expected = 0 => ~db'.verified
    <2>1. CASE resume /\ db.tag # 0
        BY <1>1, <2>1
    <2>2. CASE ~(resume /\ db.tag # 0)
        BY <1>1, <1>2, <2>2
    <2> QED
        BY <2>1, <2>2
<1>5. \A s \in Segs : conn'[s].st = "none"
    BY <1>1, ShapesDiffer
<1> QED
    BY <1>1, <1>3, <1>4, <1>5 DEF KindInv

LEMMA KindAnswers == \A s \in Segs : TransferInv /\ KindInv /\ Answer(s) => KindInv'
<1> SUFFICES ASSUME TransferInv, KindInv, NEW s \in Segs, Answer(s) PROVE KindInv'
    OBVIOUS
<1>1. PICK v \in Versions, tag \in 0..MaxVersion :
         /\ Multi /\ conn[s].st = "leased"
         /\ \/ Accept(s, v, tag)
            \/ VersionChanged(s)
            \/ Stop("mismatch")
    BY AnswerCases, Zenon
<1>2. run # Idle /\ db \in Dbs
    BY <1>1, MultiFacts, ShapesDiffer
<1>3. CASE Accept(s, v, tag)
    <2>1. /\ UNCHANGED <<kind, pool>>
          /\ conn'[s].node = conn[s].node /\ conn'[s].via = conn[s].via
          /\ \A x \in Segs \ {s} : conn'[x] = conn[x]
          /\ run'.expected = run.expected /\ run'.estimate = run.estimate
          /\ run'.sampled = run.sampled
          /\ db'.tag = TagAfter(tag)
          /\ (db.verified => db'.verified) /\ (run.estimate => db'.verified)
        BY <1>1, <1>3, AcceptShape, Zenon
    <2>2. ~db'.verified => db'.tag = db.tag
        BY <1>2, <2>1 DEF KindInv, TagAfter
    <2>3. \A x \in Segs : conn'[x].st # "none" =>
              /\ conn[x].st # "none"
              /\ conn'[x].via = conn[x].via /\ conn'[x].node = conn[x].node
        BY <1>1, <2>1
    <2> QED
        BY <1>2, <2>1, <2>2, <2>3 DEF KindInv
<1>4. CASE VersionChanged(s)
    <2>1. CASE FallBack
        <3>1. /\ UNCHANGED <<kind, pool>> /\ conn' = NoneOpen
              /\ db'.tag = db.tag /\ (db.verified => db'.verified)
              /\ run'.expected = run.expected /\ run'.estimate = run.estimate
              /\ run'.sampled = run.sampled
            BY <1>1, <2>1, FallBackShape, Zenon
        <3>2. \A x \in Segs : conn'[x].st = "none"
            BY <3>1, ShapesDiffer
        <3> QED
            BY <1>1, <3>1, <3>2, KindGoesOn
    <2>2. CASE /\ Reclaim(s, TRUE) /\ db' = Settled
               /\ UNCHANGED <<kind, served, disk, run, status, changed, faults, stops>>
        <3> DEFINE immediate == TRUE
        <3>1. immediate \in BOOLEAN /\ Reclaim(s, immediate) /\ conn[s].st # "none"
            BY <1>1, <2>2
        <3> HIDE DEF immediate
        <3>2. /\ Follows(pool, pool')
              /\ \A x \in Segs : conn'[x].st # "none" => conn'[x] = conn[x]
            BY <1>1, <3>1, Returned DEF Reclaim
        <3>3. db'.tag = db.tag /\ (db.verified => db'.verified)
            BY <1>2, <2>2, SettledFacts
        <3>4. \A x \in Segs : conn'[x].st # "none" =>
                  /\ conn[x].st # "none"
                  /\ conn'[x].via = conn[x].via /\ conn'[x].node = conn[x].node
            BY <3>2
        <3> QED
            BY <1>1, <2>2, <3>2, <3>3, <3>4, KindGoesOn DEF Follows
    <2> QED
        BY <1>4, <2>1, <2>2 DEF VersionChanged
<1>5. CASE Stop("mismatch")
    <2>1. /\ run' = Idle /\ UNCHANGED <<kind, pool>>
          /\ db'.tag = db.tag /\ db'.verified = db.verified
        BY <1>1, <1>5, StopShape DEF Multi
    <2> QED
        BY <2>1 DEF KindInv
<1> QED
    BY <1>1, <1>3, <1>4, <1>5

LEMMA KindStep == TransferInv /\ KindInv /\ [HttpNext]_vars => KindInv'
<1> SUFFICES ASSUME TransferInv, KindInv, [HttpNext]_vars PROVE KindInv'
    OBVIOUS
<1>1. CASE Start
    <2> DEFINE resume == FALSE
    <2>1. status # "running" /\ resume \in BOOLEAN /\ Begin(resume)
        BY <1>1 DEF Start
    <2> HIDE DEF resume
    <2> QED
        BY <2>1, KindBegins
<1>2. CASE Resume
    <2> DEFINE resume == TRUE
    <2>1. status # "running" /\ resume \in BOOLEAN /\ Begin(resume)
        BY <1>2 DEF Resume
    <2> HIDE DEF resume
    <2> QED
        BY <2>1, KindBegins
<1>3. CASE StartFails \/ ReceiveSingle \/ UNCHANGED vars \/ \E e \in Edges : Replace(e)
    <2>1. UNCHANGED <<kind, db, run, pool, conn>>
        BY <1>3 DEF StartFails, ReceiveSingle, vars, Replace
    <2> QED
        BY <2>1 DEF KindInv
<1>4. CASE Restart
    <2>1. /\ status # "running" /\ UNCHANGED <<kind, run, pool>>
          /\ db' = [db EXCEPT !.rows = NoRows, !.sized = FALSE]
        BY <1>4 DEF Restart
    <2>2. db'.tag = db.tag /\ db'.verified = db.verified /\ run' = Idle
        BY <2>1 DEF TransferInv, TypeInv, PlacesInv, Dbs
    <2> QED
        BY <2>1, <2>2 DEF KindInv
<1>5. CASE Interrupt
    <2> DEFINE why == "stopped"
    <2>1. status = "running" /\ Stop(why)
        BY <1>5 DEF Interrupt
    <2> HIDE DEF why
    <2>2. /\ run' = Idle /\ UNCHANGED <<kind, pool>>
          /\ db'.tag = db.tag /\ db'.verified = db.verified
        BY <2>1, StopShape
    <2> QED
        BY <2>2 DEF KindInv
<1>6. CASE \E s \in Segs : Lease(s)
    <2>1. PICK s \in Segs : Lease(s)
        BY <1>6
    <2>2. /\ MayLease(s) /\ UNCHANGED <<kind, db, run>> /\ Follows(pool, pool')
          /\ conn'[s].via = (IF conn'[s].node = Sys THEN pool.client ELSE "direct")
          /\ \A x \in Segs \ {s} : conn'[x] = conn[x]
        BY <2>1, LeaseShape, Zenon
    <2>3. run # Idle
        BY <2>2, MultiFacts, ShapesDiffer DEF MayLease
    <2>4. conn'[s].via = "proxy" => run.sampled /\ conn'[s].node = Sys
        BY <2>2, <2>3 DEF KindInv
    <2> QED
        BY <2>2, <2>3, <2>4 DEF KindInv, Follows
<1>7. CASE \E s \in Segs : Answer(s)
    BY <1>7, KindAnswers, Zenon
<1>8. CASE \E s \in Segs : Receive(s)
    <2>1. PICK s \in Segs : Receive(s)
        BY <1>8
    <2>2. /\ Multi /\ UNCHANGED <<kind, db>> /\ Follows(pool, pool')
          /\ run'.expected = run.expected /\ run'.estimate = run.estimate
          /\ run'.sampled = run.sampled
          /\ \A x \in Segs : conn'[x].st # "none" => conn'[x] = conn[x]
        BY <2>1, ReceiveShape, Zenon
    <2>3. \A x \in Segs : conn'[x].st # "none" =>
              /\ conn[x].st # "none"
              /\ conn'[x].via = conn[x].via /\ conn'[x].node = conn[x].node
        BY <2>2
    <2> QED
        BY <2>2, <2>3, KindGoesOn DEF Follows
<1>9. CASE \E s \in Segs : Retry(s)
    <2>1. PICK s \in Segs : Retry(s)
        BY <1>9
    <2>2. /\ Multi /\ UNCHANGED <<kind, db, run, pool>>
          /\ conn[s].st = "body"
          /\ conn'[s].node = conn[s].node /\ conn'[s].via = conn[s].via
          /\ \A x \in Segs \ {s} : conn'[x] = conn[x]
        BY <2>1, RetryShape, Zenon
    <2>3. \A x \in Segs : conn'[x].st # "none" =>
              /\ conn[x].st # "none"
              /\ conn'[x].via = conn[x].via /\ conn'[x].node = conn[x].node
        BY <2>2
    <2> QED
        BY <2>2, <2>3, KindGoesOn
<1>10. CASE \E s \in Segs : GiveUp(s)
    <2>1. PICK s \in Segs : GiveUp(s)
        BY <1>10
    <2> DEFINE immediate == FALSE
    <2>2. /\ immediate \in BOOLEAN /\ Reclaim(s, immediate) /\ Multi /\ conn[s].st # "none"
          /\ UNCHANGED <<kind, db, run>>
        BY <2>1 DEF GiveUp
    <2> HIDE DEF immediate
    <2>3. /\ Follows(pool, pool')
          /\ \A x \in Segs : conn'[x].st # "none" => conn'[x] = conn[x]
        BY <2>2, Returned DEF Reclaim
    <2>4. \A x \in Segs : conn'[x].st # "none" =>
              /\ conn[x].st # "none"
              /\ conn'[x].via = conn[x].via /\ conn'[x].node = conn[x].node
        BY <2>3
    <2> QED
        BY <2>2, <2>3, <2>4, KindGoesOn DEF Follows
<1>11. CASE FinishMulti \/ FinishSingle
    <2>1. run' = Idle /\ UNCHANGED <<kind, pool>>
        BY <1>11 DEF FinishMulti, FinishSingle, Complete
    <2>2. db'.tag = db.tag /\ db'.verified = db.verified
        BY <1>11 DEF FinishMulti, FinishSingle, TransferInv, TypeInv, Dbs
    <2> QED
        BY <2>1, <2>2 DEF KindInv
<1>12. CASE Open
    <2>1. /\ Single /\ UNCHANGED <<kind, db, pool, conn>>
          /\ run'.expected = run.expected /\ run'.sampled = run.sampled
          /\ run'.estimate = run.estimate
        BY <1>12, OpenShape, Zenon
    <2>2. run # Idle
        BY <2>1, SingleFacts, ShapesDiffer
    <2> QED
        BY <2>1, <2>2 DEF KindInv
<1>13. CASE Sample
    <2>1. /\ Multi /\ kind.auto /\ UNCHANGED <<kind, db, pool, conn>>
          /\ run'.sampled /\ run'.expected = run.expected /\ run'.estimate = run.estimate
        BY <1>13, SampleShape, Zenon
    <2>2. run # Idle
        BY <2>1, MultiFacts, ShapesDiffer
    <2> QED
        BY <2>1, <2>2 DEF KindInv
<1>14. CASE Adopt
    <2>1. /\ Multi /\ run.sampled /\ UNCHANGED <<kind, db, run, conn>>
          /\ pool'.slots = pool.slots
        BY <1>14, AdoptShape, Zenon
    <2> QED
        BY <2>1 DEF KindInv
<1>15. HttpNext \/ UNCHANGED vars
    OBVIOUS
<1> QED
    BY <1>1, <1>2, <1>3, <1>4, <1>5, <1>6, <1>7, <1>8, <1>9, <1>10, <1>11, <1>12, <1>13,
       <1>14, <1>15, Zenon DEF HttpNext

\* A task that was never probed has no validator of its own, a transfer without
\* one leases no pinned node, and a proxy is used only when it was sampled.
THEOREM KindsKept == HttpSpec => [](TransferInv /\ KindInv)
<1> QED
    BY TransferInit, TransferStep, KindInit, KindStep, PTL DEF HttpSpec

-----------------------------------------------------------------------------
(* A replaced file, and an edge that lags behind. *)

\* A node or a proxy whose reply is of another version can be told from the
\* origin: pinned nodes honour If-Range, and a task with a proxy was probed.
Attributes(k) == (k.auto => k.probe) /\ (k.pool => k.ifRange)

ChangeInv ==
    /\ status = "new" => ~changed
    /\ ~changed /\ status # "new" =>
          /\ db.tag \in {0, served[Sys]}
          /\ run # Idle =>
                /\ run.expected \in {0, served[Sys]}
                /\ run.latch.tag \in {0, served[Sys]}
                /\ run.sampled /\ run.expected # 0 => served[Proxy] = run.expected
    /\ ChangeIsReal

LEMMA ChangeInit == HttpInit => ChangeInv
    BY DEF HttpInit, ChangeInv, ChangeIsReal, Idle

\* While nothing in use has changed, only a lagging pinned node is turned away.
LEMMA Attributed ==
    ASSUME TransferInv, KindInv, ChangeInv, Attributes(kind), ~changed, Multi,
           NEW s \in Segs, conn[s].st = "leased",
           NEW v \in Versions, v = served[EdgeOf(conn[s])], NEW tag, tag \in {0, v}
    PROVE  /\ Judge(s, v, tag) # "mismatch"
           /\ Judge(s, v, tag) = "changed" => conn[s].node \in Pinned
           /\ run.expected = 0 => v = served[Sys]
<1>1. run # Idle /\ status # "new" /\ conn[s] \in Conns /\ conn[s].st # "none"
    BY MultiFacts, ShapesDiffer
<1>2. /\ run.expected \in {0, served[Sys]} /\ run.latch.tag \in {0, served[Sys]}
      /\ run.sampled /\ run.expected # 0 => served[Proxy] = run.expected
    BY <1>1 DEF ChangeInv
<1>3. /\ run.expected = 0 => run.estimate
      /\ run.estimate => ~kind.probe /\ pool.slots = {}
      /\ run.sampled => kind.auto
      /\ pool.slots # {} => kind.pool
      /\ conn[s].via = "proxy" => run.sampled /\ conn[s].node = Sys
      /\ conn[s].node \in pool.slots \cup {Sys}
    BY <1>1 DEF KindInv, TransferInv, NodesInv
<1>4. CASE conn[s].via = "proxy"
    <2>1. run.expected # 0 /\ v = run.expected
        BY <1>2, <1>3, <1>4 DEF Attributes, EdgeOf
    <2>2. Judge(s, v, tag) = "accepted"
        BY <2>1 DEF Judge, WholeFile
    <2> QED
        BY <2>1, <2>2
<1>5. CASE conn[s].via # "proxy" /\ conn[s].node = Sys
    <2>1. v = served[Sys]
        BY <1>5 DEF EdgeOf
    <2>2. Judge(s, v, tag) = "accepted"
        BY <1>2, <2>1 DEF Judge, WholeFile
    <2> QED
        BY <2>1, <2>2
<1>6. CASE conn[s].via # "proxy" /\ conn[s].node # Sys
    <2>1. conn[s].node \in Pinned /\ pool.slots # {}
        BY <1>1, <1>3, <1>6, ConnTypes
    <2>2. kind.ifRange /\ ~run.estimate /\ run.expected # 0
        BY <1>3, <2>1 DEF Attributes
    <2>3. Judge(s, v, tag) # "mismatch"
        BY <2>2 DEF Judge, WholeFile, Plain
    <2> QED
        BY <2>1, <2>2, <2>3
<1> QED
    BY <1>4, <1>5, <1>6

\* A step that records and serves nothing else.
LEMMA ChangeGoesOn ==
    ASSUME ChangeInv, UNCHANGED <<served, changed>>, status # "new", status' # "new",
           db'.tag = db.tag,
           run' # Idle => /\ run # Idle /\ run'.expected = run.expected
                          /\ run'.latch = run.latch /\ run'.sampled = run.sampled,
           status' = "mismatch" \/ run'.mode = "fallback"
             => changed \/ status = "mismatch" \/ run.mode = "fallback"
    PROVE  ChangeInv'
    BY DEF ChangeInv, ChangeIsReal

LEMMA ChangeBegins ==
    ASSUME TransferInv, ChangeInv, status # "running", NEW resume \in BOOLEAN, Begin(resume),
           resume => status # "new", ~resume => status = "new"
    PROVE  ChangeInv'
<1>1. /\ status' = "running" /\ UNCHANGED <<served, changed>>
      /\ db'.tag = (IF resume THEN db.tag ELSE IF kind.probe THEN served[Sys] ELSE 0)
      /\ run'.expected = (IF resume /\ db.tag # 0 THEN db.tag
                          ELSE IF db'.verified THEN served[Sys] ELSE 0)
      /\ run'.latch.tag = 0 /\ ~run'.sampled
      /\ run'.mode \in {"single", "multi"}
    <2>1. run'.mode = "single" \/ run'.mode = "multi"
        BY BeginShape, Zenon
    <2>2. /\ status' = "running" /\ UNCHANGED <<served, changed>>
          /\ db'.tag = (IF resume THEN db.tag ELSE IF kind.probe THEN served[Sys] ELSE 0)
          /\ run'.expected = (IF resume /\ db.tag # 0 THEN db.tag
                              ELSE IF db'.verified THEN served[Sys] ELSE 0)
          /\ run'.latch.tag = 0 /\ ~run'.sampled
        BY BeginShape, Zenon
    <2> QED
        BY <2>1, <2>2
<1>2. ~changed => db'.tag \in {0, served[Sys]} /\ run'.expected \in {0, served[Sys]}
    <2>1. CASE resume
        <3>1. ~changed => db.tag \in {0, served[Sys]}
            BY <2>1 DEF ChangeInv
        <3> QED
            BY <1>1, <2>1, <3>1
    <2>2. CASE ~resume
        BY <1>1, <2>2
    <2> QED
        BY <2>1, <2>2
<1> QED
    BY <1>1, <1>2 DEF ChangeInv, ChangeIsReal

LEMMA ChangeAnswers ==
    \A s \in Segs :
        TransferInv /\ KindInv /\ ChangeInv /\ Attributes(kind) /\ Answer(s) => ChangeInv'
<1> SUFFICES ASSUME TransferInv, KindInv, ChangeInv, Attributes(kind), NEW s \in Segs, Answer(s)
             PROVE  ChangeInv'
    OBVIOUS
<1>1. PICK v \in Versions, tag \in 0..MaxVersion :
         /\ Multi /\ conn[s].st = "leased"
         /\ v = served[EdgeOf(conn[s])] /\ tag \in {0, v}
         /\ \/ Judge(s, v, tag) = "accepted" /\ Accept(s, v, tag)
            \/ Judge(s, v, tag) = "changed" /\ VersionChanged(s)
            \/ Judge(s, v, tag) = "mismatch" /\ Stop("mismatch")
    BY AnswerCases, Zenon
<1>2. run # Idle /\ db \in Dbs /\ status = "running" /\ run.mode = "multi"
    BY <1>1, MultiFacts, ShapesDiffer
<1>3. \/ changed
      \/ /\ Judge(s, v, tag) # "mismatch"
         /\ Judge(s, v, tag) = "changed" => conn[s].node \in Pinned
         /\ run.expected = 0 => v = served[Sys]
    BY <1>1, Attributed
<1>4. CASE Judge(s, v, tag) = "accepted" /\ Accept(s, v, tag)
    <2>1. /\ UNCHANGED <<served, status, changed>>
          /\ run' \in Runs /\ run'.mode = "multi" /\ run'.expected = run.expected
          /\ run'.sampled = run.sampled
          /\ run'.latch = LatchAfter(tag) /\ db'.tag = TagAfter(tag)
        <3>1. Multi /\ conn[s].st = "leased" /\ Accept(s, v, tag)
            BY <1>1, <1>4
        <3> QED
            BY ONLY <3>1, TransferInv, s \in Segs, v \in Versions, tag \in 0..MaxVersion,
               AcceptShape, Zenon
    <2>2. ~changed => /\ run'.latch.tag \in {0, served[Sys]}
                      /\ db'.tag \in {0, served[Sys]}
        <3>1. ASSUME ~changed PROVE run'.latch.tag \in {0, served[Sys]}
            <4>1. CASE run.expected = 0 /\ ~run.latch.known
                <5>1. run'.latch.tag = tag
                    BY <2>1, <4>1 DEF LatchAfter
                <5> QED
                    BY <1>1, <1>3, <3>1, <4>1, <5>1
            <4>2. CASE ~(run.expected = 0 /\ ~run.latch.known)
                <5>1. run'.latch = run.latch
                    BY <2>1, <4>2 DEF LatchAfter
                <5> QED
                    BY <1>2, <3>1, <5>1 DEF ChangeInv
            <4> QED
                BY <4>1, <4>2
        <3>2. ASSUME ~changed PROVE db'.tag \in {0, served[Sys]}
            <4>1. db.tag \in {0, served[Sys]}
                BY <1>2, <3>2 DEF ChangeInv
            <4> QED
                BY <1>1, <1>3, <2>1, <3>2, <4>1 DEF TagAfter
        <3> QED
            BY <3>1, <3>2
    <2> QED
        BY <1>2, <2>1, <2>2 DEF ChangeInv, ChangeIsReal
<1>5. CASE Judge(s, v, tag) = "changed" /\ VersionChanged(s)
    <2>1. CASE ~Attributable(conn[s].node) /\ FallBack
        <3>1. changed
            BY <1>3, <1>5, <2>1 DEF Attributable
        <3>2. /\ UNCHANGED <<served, status, changed>>
              /\ db'.tag = db.tag
              /\ run'.expected = run.expected /\ run'.sampled = run.sampled
              /\ run'.latch = run.latch
            BY <1>1, <2>1, FallBackShape, Zenon
        <3> QED
            BY <1>2, <3>1, <3>2, ChangeGoesOn
    <2>2. CASE /\ Reclaim(s, TRUE) /\ db' = Settled
               /\ UNCHANGED <<kind, served, disk, run, status, changed, faults, stops>>
        <3>1. db'.tag = db.tag
            BY <1>2, <2>2, SettledFacts
        <3> QED
            BY <1>2, <2>2, <3>1, ChangeGoesOn
    <2> QED
        BY <1>5, <2>1, <2>2 DEF VersionChanged
<1>6. CASE Judge(s, v, tag) = "mismatch" /\ Stop("mismatch")
    <2>1. changed
        BY <1>3, <1>6
    <2>2. /\ status' = "mismatch" /\ run' = Idle /\ UNCHANGED <<served, changed>>
          /\ db'.tag = db.tag
        BY <1>1, <1>6, StopShape DEF Multi
    <2> QED
        BY <1>2, <2>1, <2>2, ChangeGoesOn
<1> QED
    BY <1>1, <1>4, <1>5, <1>6

LEMMA ChangeReplaced ==
    \A e \in Edges : TransferInv /\ ChangeInv /\ Replace(e) => ChangeInv'
<1> SUFFICES ASSUME TransferInv, ChangeInv, NEW e \in Edges, Replace(e) PROVE ChangeInv'
    OBVIOUS
<1>1. /\ UNCHANGED <<db, run, status>>
      /\ \A x \in Edges \ {e} : served'[x] = served[x]
      /\ changed' = (changed \/ (e = Sys /\ status # "new")
                             \/ (e = Proxy /\ run # Idle /\ run.sampled))
    BY ReplaceShape, Zenon
<1>2. status = "new" => run = Idle
    BY DEF TransferInv, PlacesInv
<1>3. (changed => changed') /\ (status = "new" => ~changed')
    <2>1. changed => changed'
        BY <1>1, Zenon
    <2>2. status = "new" => ~changed
        BY DEF ChangeInv
    <2>3. status = "new" => ~changed'
        BY <1>1, <1>2, <2>2, Zenon
    <2> QED
        BY <2>1, <2>3
<1>4. ~changed' /\ status # "new" =>
        /\ ~changed /\ served'[Sys] = served[Sys]
        /\ run # Idle /\ run.sampled => served'[Proxy] = served[Proxy]
    <2>1. ~changed' /\ status # "new" => e # Sys /\ ~(e = Proxy /\ run # Idle /\ run.sampled)
        BY <1>1, Zenon
    <2> QED
        BY <1>1, <1>3, <2>1
<1> QED
    BY <1>1, <1>3, <1>4 DEF ChangeInv, ChangeIsReal

LEMMA ChangeStep ==
    TransferInv /\ KindInv /\ ChangeInv /\ Attributes(kind) /\ [HttpNext]_vars => ChangeInv'
<1> SUFFICES ASSUME TransferInv, KindInv, ChangeInv, Attributes(kind), [HttpNext]_vars
             PROVE  ChangeInv'
    OBVIOUS
<1>1. CASE Start
    <2> DEFINE resume == FALSE
    <2>1. /\ status # "running" /\ resume \in BOOLEAN /\ Begin(resume)
          /\ (resume => status # "new") /\ (~resume => status = "new")
        BY <1>1 DEF Start
    <2> HIDE DEF resume
    <2> QED
        BY <2>1, ChangeBegins
<1>2. CASE Resume
    <2> DEFINE resume == TRUE
    <2>1. /\ status # "running" /\ resume \in BOOLEAN /\ Begin(resume)
          /\ (resume => status # "new") /\ (~resume => status = "new")
        BY <1>2 DEF Resume
    <2> HIDE DEF resume
    <2> QED
        BY <2>1, ChangeBegins
<1>3. CASE StartFails
    <2>1. status = "new" /\ status' = "stopped" /\ UNCHANGED <<served, db, run, changed>>
        BY <1>3 DEF StartFails
    <2>2. db.tag = 0 /\ run = Idle
        BY <2>1 DEF TransferInv, PlacesInv
    <2>3. run.mode = "idle"
        BY <2>2 DEF Idle
    <2> QED
        BY <2>1, <2>2, <2>3 DEF ChangeInv, ChangeIsReal
<1>4. CASE Restart
    <2>1. /\ status \in {"stopped", "mismatch", "done"} /\ status' = "stopped"
          /\ UNCHANGED <<served, run, changed>>
          /\ db' = [db EXCEPT !.rows = NoRows, !.sized = FALSE]
        BY <1>4 DEF Restart
    <2>2. db'.tag = db.tag
        BY <2>1 DEF TransferInv, TypeInv, Dbs
    <2> QED
        BY <2>1, <2>2, ChangeGoesOn
<1>5. CASE Interrupt
    <2> DEFINE why == "stopped"
    <2>1. status = "running" /\ Stop(why) /\ why # "new" /\ why # "mismatch"
        BY <1>5 DEF Interrupt
    <2> HIDE DEF why
    <2>2. /\ status' = why /\ run' = Idle /\ UNCHANGED <<served, changed>>
          /\ db'.tag = db.tag
        BY <2>1, StopShape
    <2>3. run'.mode = "idle"
        BY <2>2 DEF Idle
    <2> QED
        BY <2>1, <2>2, <2>3, ChangeGoesOn
<1>6. CASE \E s \in Segs : Answer(s)
    BY <1>6, ChangeAnswers, Zenon
<1>7. CASE \E s \in Segs : Lease(s) \/ Retry(s) \/ GiveUp(s)
    <2>1. UNCHANGED <<served, db, run, status, changed>>
        BY <1>7 DEF Lease, Retry, GiveUp
    <2> QED
        BY <2>1 DEF ChangeInv, ChangeIsReal
<1>8. CASE \E s \in Segs : Receive(s)
    <2>1. PICK s \in Segs : Receive(s)
        BY <1>8
    <2>2. /\ Multi /\ UNCHANGED <<served, db, status, changed>>
          /\ run'.mode = "multi" /\ run'.expected = run.expected
          /\ run'.sampled = run.sampled /\ run'.latch = run.latch
        BY <2>1, ReceiveShape, Zenon
    <2>3. run # Idle /\ status = "running"
        BY <2>2, MultiFacts, ShapesDiffer
    <2> QED
        BY <2>2, <2>3, ChangeGoesOn
<1>9. CASE FinishMulti \/ FinishSingle
    <2>1. status = "running" /\ status' = "done" /\ run' = Idle /\ UNCHANGED <<served, changed>>
        BY <1>9 DEF FinishMulti, FinishSingle, Complete, Multi, Single
    <2>2. db'.tag = db.tag
        BY <1>9 DEF FinishMulti, FinishSingle, TransferInv, TypeInv, Dbs
    <2>3. run'.mode = "idle"
        BY <2>1 DEF Idle
    <2> QED
        BY <2>1, <2>2, <2>3, ChangeGoesOn
<1>10. CASE Open
    <2>1. /\ Single /\ UNCHANGED <<served, db, status, changed>>
          /\ run'.mode = run.mode /\ run'.expected = run.expected
          /\ run'.sampled = run.sampled /\ run'.latch = run.latch
        BY <1>10, OpenShape, Zenon
    <2>2. run # Idle /\ status = "running"
        BY <2>1, SingleFacts, ShapesDiffer
    <2> QED
        BY <2>1, <2>2, ChangeGoesOn
<1>11. CASE Sample
    <2>1. /\ Multi /\ SampleAgrees(run.expected, served[Proxy])
          /\ UNCHANGED <<served, db, status, changed>>
          /\ run'.mode = "multi" /\ run'.expected = run.expected /\ run'.latch = run.latch
        BY <1>11, SampleShape, Zenon
    <2>2. run # Idle /\ status = "running" /\ run.mode = "multi"
        BY <2>1, MultiFacts, ShapesDiffer
    <2>3. run.expected # 0 => served[Proxy] = run.expected
        BY <2>1 DEF SampleAgrees
    <2> QED
        BY <2>1, <2>2, <2>3 DEF ChangeInv, ChangeIsReal
<1>12. CASE Adopt \/ ReceiveSingle \/ UNCHANGED vars
    <2>1. UNCHANGED <<served, db, run, status, changed>>
        BY <1>12 DEF Adopt, ReceiveSingle, vars
    <2> QED
        BY <2>1 DEF ChangeInv, ChangeIsReal
<1>13. CASE \E e \in Edges : Replace(e)
    BY <1>13, ChangeReplaced, Zenon
<1>14. HttpNext \/ UNCHANGED vars
    OBVIOUS
<1> QED
    BY <1>1, <1>2, <1>3, <1>4, <1>5, <1>6, <1>7, <1>8, <1>9, <1>10, <1>11, <1>12, <1>13,
       <1>14, Zenon DEF HttpNext

\* ChangeIsReal holds whenever a reply of another version can be attributed: a
\* pinned node or a proxy that lags behind never costs the download.
THEOREM LagNeverEnds ==
    ASSUME \A k \in Starts : Attributes(k)
    PROVE  HttpSpec => []ChangeIsReal
<1>1. TransferInv => Attributes(kind)
    BY DEF TransferInv, TypeInv
<1>2. ChangeInv => ChangeIsReal
    BY DEF ChangeInv
<1> QED
    BY <1>1, <1>2, KindsKept, ChangeInit, ChangeStep, PTL DEF HttpSpec

-----------------------------------------------------------------------------
(* The versions of the bytes. *)

\* The server lets the parts of a file be told apart: by If-Range, or by the
\* validators of its ranged replies when nothing is ever appended unranged; a
\* task that is not probed learns its validator from its first reply.
TellsVersions(k) ==
    /\ k.ifRange \/ (k.tags = "always" /\ k.plans = {TRUE})
    /\ k.probe \/ k.tags = "always"
    /\ k.auto => k.probe

Bytes(s, k) == disk[First(s) + k - 1]

\* The first n[s] bytes of each segment are of the recorded version.
Full(n) == \A s \in Segs : \A k \in 1..n[s] : Bytes(s, k) = db.tag

RowsInv ==
    /\ status # "running" /\ db.tag # 0 /\ db.rows # NoRows => Full(db.rows)
    /\ ~db.verified => /\ db.rows \in {NoRows, ZeroRows}
                       /\ status = "running" => run.expected = 0

\* The segments: what was written and what arrives is of the recorded version,
\* and without one the only reply awaited is that of the first segment.
SegmentsInv ==
    Multi =>
       /\ run.expected # 0 /\ db.tag # 0 => run.expected = db.tag
       /\ run.stream = 0
       /\ db.tag # 0 =>
             /\ Full(run.dl)
             /\ \A s \in Segs : conn[s].st = "body" => conn[s].ver = db.tag
             /\ run.expected = 0 => run.latch.known /\ run.latch.tag = db.tag
       /\ db.tag = 0 /\ run.expected = 0 =>
             /\ ~run.latch.known /\ run.dl = ZeroRows /\ ~db.verified
             /\ conn[1].st # "body" /\ conn[2].st = "none"

\* The file of a single stream is of one version, w, no older than the recorded
\* one.
StreamOf(w) ==
    /\ disk # <<>> => db.tag <= w
    /\ w <= served[Sys]
    /\ \A i \in 1..Len(disk) : disk[i] = w
    /\ status = "running" /\ run.stream # 0 => run.stream = w

StreamInv ==
    /\ db.tag # 0 /\ db.rows = NoRows => \E w \in 0..MaxVersion : StreamOf(w)
    /\ status = "running" /\ ~Multi =>
          /\ run.stream # 0 => db.tag <= run.stream
          /\ db.tag # 0 /\ run.mode = "single" => run.expected = db.tag
          /\ run.mode = "single" /\ run.ranges => kind.plans # {TRUE}

VersionInv ==
    /\ db.tag <= served[Sys]
    /\ RowsInv /\ SegmentsInv /\ StreamInv
    /\ DoneMeansOneVersion

LEMMA VersionInit == TransferInv /\ HttpInit => VersionInv
<1> SUFFICES ASSUME TransferInv, HttpInit PROVE VersionInv
    OBVIOUS
<1>1. /\ db = [tag |-> 0, verified |-> TRUE, sized |-> FALSE, rows |-> NoRows]
      /\ status = "new"
    BY DEF HttpInit
<1>2. served[Sys] \in 1..MaxVersion
    BY DEF TransferInv, TypeInv
<1> QED
    BY <1>1, <1>2 DEF VersionInv, RowsInv, SegmentsInv, StreamInv, DoneMeansOneVersion, Multi

\* A segment transfer goes on: no byte is written and no reply judged.
LEMMA VersionGoesOn ==
    ASSUME VersionInv, Multi, status' = "running", run'.mode = "multi",
           UNCHANGED <<served, disk>>, db'.tag = db.tag, db'.rows = db.rows,
           db.verified => db'.verified, run.expected = 0 => db'.verified = db.verified,
           run'.expected = run.expected, run'.latch = run.latch,
           run'.dl = run.dl, run'.stream = run.stream,
           \A x \in Segs : conn'[x].st = "body" => conn'[x] = conn[x],
           run.expected = 0 /\ ~db.verified => conn'[2].st = "none",
           db.rows # NoRows
    PROVE  VersionInv'
<1>1. Multi' /\ status = "running"
    BY DEF Multi
<1>2. RowsInv'
    BY <1>1 DEF VersionInv, RowsInv
<1>3. Full(run.dl) /\ db.tag # 0 => Full(run.dl)'
    BY DEF Full, Bytes
<1>4. SegmentsInv'
    BY <1>1, <1>3 DEF VersionInv, SegmentsInv, Full, Bytes
<1>5. StreamInv'
    BY <1>1 DEF VersionInv, StreamInv
<1> QED
    BY <1>1, <1>2, <1>4, <1>5 DEF VersionInv, DoneMeansOneVersion

\* An empty file and no stream: nothing to compare.
LEMMA EmptyStream ==
    ASSUME TransferInv, disk' = <<>>, served' = served,
           status' = "running" => run'.stream = 0
    PROVE  \E w \in 0..MaxVersion : StreamOf(w)'
<1>1. 0 \in 0..MaxVersion /\ served[Sys] \in 1..MaxVersion
    BY DEF TransferInv, TypeInv
<1>2. StreamOf(0)'
    BY <1>1 DEF StreamOf
<1> QED
    BY <1>1, <1>2

LEMMA VersionBegins ==
    ASSUME TransferInv, KindInv, VersionInv, status # "running",
           NEW resume \in BOOLEAN, Begin(resume),
           resume => status # "new", ~resume => status = "new"
    PROVE  VersionInv'
<1>1. /\ status' = "running" /\ UNCHANGED <<kind, served, conn>> /\ conn = NoneOpen
      /\ run' \in Runs
      /\ db'.verified = (IF resume THEN db.verified ELSE kind.probe)
      /\ db'.tag = (IF resume THEN db.tag ELSE IF kind.probe THEN served[Sys] ELSE 0)
      /\ run'.expected = (IF resume /\ db.tag # 0 THEN db.tag
                          ELSE IF db'.verified THEN served[Sys] ELSE 0)
      /\ ~run'.latch.known /\ run'.stream = 0
      /\ \/ /\ run'.mode = "single" /\ db'.rows = NoRows
            /\ run'.ranges => kind.plans # {TRUE}
            /\ disk' = (IF db.rows # NoRows THEN <<>> ELSE disk)
         \/ /\ run'.mode = "multi" /\ run'.dl = db'.rows
            /\ db'.rows \in [Segs -> 0..2]
            /\ db'.rows = ZeroRows \/ db'.rows = db.rows
            /\ disk' \in Seq(0..MaxVersion) /\ Len(disk') = Size
            /\ \A i \in 1..Len(disk) : disk'[i] = disk[i]
    BY BeginShape, Zenon
<1>2. /\ served[Sys] \in 1..MaxVersion /\ kind.probe \in BOOLEAN
      /\ db.tag \in 0..MaxVersion /\ db.verified \in BOOLEAN
    BY DEF TransferInv, TypeInv, StartKinds, Dbs
<1>3. ~resume => disk = <<>> /\ db.tag = 0 /\ db.rows = NoRows
    BY DEF TransferInv, PlacesInv
<1>4. /\ db'.tag # 0 => run'.expected = db'.tag
      /\ db'.tag <= served[Sys]
    <2>1. CASE resume
        BY <1>1, <1>2, <2>1 DEF VersionInv
    <2>2. CASE ~resume
        BY <1>1, <1>2, <2>2
    <2> QED
        BY <2>1, <2>2
<1>5. ~db'.verified => db'.tag = 0 /\ run'.expected = 0 /\ (resume => ~db.verified)
    <2>1. CASE resume
        BY <1>1, <2>1 DEF KindInv
    <2>2. CASE ~resume
        BY <1>1, <2>2
    <2> QED
        BY <2>1, <2>2
<1>6. run'.expected = 0 => ~db'.verified
    BY <1>1, <1>2
<1>7. \A s \in Segs : conn'[s].st = "none"
    BY <1>1, ShapesDiffer
<1>8. ~db'.verified => db'.rows \in {NoRows, ZeroRows}
    <2>1. CASE resume
        BY <1>1, <1>5, <2>1 DEF VersionInv, RowsInv
    <2>2. CASE ~resume
        BY <1>1, <1>3, <2>2
    <2> QED
        BY <2>1, <2>2
<1>9. RowsInv'
    BY <1>1, <1>5, <1>8 DEF RowsInv
<1>10. CASE run'.mode = "multi"
    <2>1. /\ run'.dl = db'.rows /\ db'.rows \in [Segs -> 0..2]
          /\ db'.rows = ZeroRows \/ db'.rows = db.rows
          /\ \A i \in 1..Len(disk) : disk'[i] = disk[i]
        BY <1>1, <1>10
    <2>2. Multi' /\ db'.rows # NoRows
        BY <1>1, <1>10, <2>1, ShapesDiffer DEF Multi
    <2>3. db'.tag # 0 => Full(run.dl)'
        <3>1. CASE db'.rows = ZeroRows
            BY <2>1, <3>1 DEF Full, ZeroRows
        <3>2. CASE db'.rows = db.rows
            <4>1. resume /\ db.rows # NoRows /\ status # "new"
                BY <1>3, <2>1, <2>2, <3>2, ShapesDiffer
            <4>2. /\ Len(disk) = Size /\ \A s \in Segs : db.rows[s] <= Length(s)
                  /\ db.rows \in [Segs -> 0..2]
                BY <2>1, <3>2, <4>1 DEF TransferInv, PlacesInv
            <4>3. ASSUME db'.tag # 0 PROVE Full(db.rows) /\ db'.tag = db.tag
                BY <1>1, <4>1, <4>3 DEF VersionInv, RowsInv
            <4>4. \A s \in Segs : \A k \in 1..db.rows[s] : First(s) + k - 1 \in 1..Len(disk)
                BY <4>2 DEF First, Length
            <4> QED
                BY <2>1, <3>2, <4>3, <4>4 DEF Full, Bytes
        <3> QED
            BY <2>1, <3>1, <3>2
    <2>4. db'.tag = 0 /\ run'.expected = 0 => run'.dl = ZeroRows /\ ~db'.verified
        BY <1>6, <1>8, <2>1, <2>2
    <2>5. SegmentsInv'
        BY <1>1, <1>2, <1>4, <1>7, <2>3, <2>4 DEF SegmentsInv
    <2> QED
        BY <1>1, <1>4, <1>9, <2>2, <2>5 DEF VersionInv, StreamInv, DoneMeansOneVersion
<1>11. CASE run'.mode = "single"
    <2>1. /\ db'.rows = NoRows /\ run'.ranges => kind.plans # {TRUE}
          /\ disk' = (IF db.rows # NoRows THEN <<>> ELSE disk)
        BY <1>1, <1>11
    <2>2. ~Multi'
        BY <1>11 DEF Multi
    <2>3. db'.tag # 0 => \E w \in 0..MaxVersion : StreamOf(w)'
        <3>1. CASE disk' = <<>>
            BY <1>1, <3>1, EmptyStream
        <3>2. CASE disk' # <<>>
            <4>1. resume /\ db.rows = NoRows /\ disk' = disk /\ db'.tag = db.tag
                BY <1>1, <1>3, <2>1, <3>2
            <4>2. ASSUME db'.tag # 0 PROVE \E w \in 0..MaxVersion : StreamOf(w)'
                <5>1. PICK w \in 0..MaxVersion : StreamOf(w)
                    BY <4>1, <4>2 DEF VersionInv, StreamInv
                <5>2. StreamOf(w)'
                    BY <1>1, <4>1, <5>1 DEF StreamOf
                <5> QED
                    BY <5>2
            <4> QED
                BY <4>2
        <3> QED
            BY <3>1, <3>2
    <2>4. StreamInv'
        BY <1>1, <1>4, <2>1, <2>3 DEF StreamInv
    <2> QED
        BY <1>1, <1>4, <1>9, <2>2, <2>4 DEF VersionInv, SegmentsInv, DoneMeansOneVersion
<1> QED
    BY <1>1, <1>10, <1>11

LEMMA VersionStopped ==
    ASSUME TransferInv, KindInv, VersionInv, status = "running",
           NEW why \in {"stopped", "mismatch"}, Stop(why)
    PROVE  VersionInv'
<1>1. /\ status' = why /\ run' = Idle
      /\ UNCHANGED <<kind, served>>
      /\ db'.tag = db.tag /\ db'.verified = db.verified
      /\ disk' \in Seq(0..MaxVersion)
      /\ Len(disk') <= Len(disk)
      /\ \A i \in 1..Len(disk') : disk'[i] = disk[i]
      /\ \/ /\ run.mode = "multi" /\ disk' = disk
            /\ db'.rows \in [Segs -> 0..2]
            /\ \A s \in Segs : db'.rows[s] <= run.dl[s]
         \/ /\ run.mode # "multi" /\ db' = db
    BY StopShape, Zenon
<1>2. status' # "running" /\ status' # "done" /\ ~Multi'
    BY <1>1 DEF Multi
<1>3. db'.tag <= served'[Sys] /\ SegmentsInv' /\ DoneMeansOneVersion'
    BY <1>1, <1>2 DEF VersionInv, SegmentsInv, DoneMeansOneVersion
<1>4. CASE run.mode = "multi"
    <2>1. /\ disk' = disk /\ db'.rows \in [Segs -> 0..2]
          /\ \A s \in Segs : db'.rows[s] <= run.dl[s]
        BY <1>1, <1>4
    <2>2. Multi /\ run.dl \in [Segs -> 0..2] /\ db'.rows # NoRows
        BY <1>4, <2>1, MultiFacts, ShapesDiffer DEF Multi, Runs
    <2>3. db'.tag # 0 => Full(db.rows)' \/ Full(db'.rows)
        <3>1. ASSUME db'.tag # 0 PROVE Full(db'.rows)
            <4>1. Full(run.dl)
                BY <1>1, <2>2, <3>1 DEF VersionInv, SegmentsInv
            <4>2. \A s \in Segs : 1..db'.rows[s] \subseteq 1..run.dl[s]
                BY <2>1, <2>2
            <4> QED
                BY <4>1, <4>2 DEF Full
        <3> QED
            BY <3>1
    <2>4. db'.tag # 0 => Full(db.rows)'
        BY <1>1, <2>1, <2>3 DEF Full, Bytes
    <2>5. ~db'.verified => db'.rows \in {NoRows, ZeroRows}
        <3>1. ASSUME ~db'.verified PROVE db'.rows = ZeroRows
            <4>1. run.dl = ZeroRows
                BY <1>1, <2>2, <3>1 DEF VersionInv, RowsInv, SegmentsInv, KindInv
            <4>2. \A s \in Segs : db'.rows[s] = 0
                BY <2>1, <4>1 DEF ZeroRows
            <4> QED
                BY <2>1, <4>2 DEF ZeroRows
        <3> QED
            BY <3>1
    <2> QED
        BY <1>2, <1>3, <2>2, <2>4, <2>5 DEF VersionInv, RowsInv, StreamInv
<1>5. CASE run.mode # "multi"
    <2>1. db' = db /\ db.rows = NoRows
        BY <1>1, <1>5 DEF TransferInv, PlacesInv, Multi
    <2>2. RowsInv'
        BY <1>2, <2>1 DEF VersionInv, RowsInv
    <2>3. ASSUME db'.tag # 0 PROVE \E w \in 0..MaxVersion : StreamOf(w)'
        <3>1. PICK w \in 0..MaxVersion : StreamOf(w)
            BY <1>1, <2>1, <2>3 DEF VersionInv, StreamInv
        <3>2. /\ disk \in Seq(0..MaxVersion) /\ Len(disk) \in Nat /\ Len(disk') \in Nat
              /\ disk = <<>> => disk' = <<>>
            <4>1. disk \in Seq(0..MaxVersion)
                BY DEF TransferInv, TypeInv
            <4>2. Len(disk) \in Nat /\ Len(disk') \in Nat
                BY <1>1, <4>1, LenProperties, Zenon
            <4>3. disk = <<>> => disk' = <<>>
                BY <1>1, <4>1, <4>2
            <4> QED
                BY <4>1, <4>2, <4>3
        <3>3. \A i \in 1..Len(disk') : disk'[i] = w
            BY <1>1, <3>1, <3>2 DEF StreamOf
        <3>4. StreamOf(w)'
            BY <1>1, <1>2, <3>1, <3>2, <3>3 DEF StreamOf
        <3> QED
            BY <3>4
    <2>4. StreamInv'
        BY <1>2, <2>3 DEF StreamInv
    <2> QED
        BY <1>3, <2>2, <2>4 DEF VersionInv
<1> QED
    BY <1>4, <1>5

LEMMA VersionRestarted == TransferInv /\ VersionInv /\ Restart => VersionInv'
<1> SUFFICES ASSUME TransferInv, VersionInv, Restart PROVE VersionInv'
    OBVIOUS
<1>1. /\ status # "running" /\ status' = "stopped" /\ disk' = <<>>
      /\ db' = [db EXCEPT !.rows = NoRows, !.sized = FALSE]
      /\ UNCHANGED <<kind, served, run>>
    BY DEF Restart
<1>2. /\ db'.rows = NoRows /\ db'.tag = db.tag /\ db'.verified = db.verified
      /\ run' = Idle /\ ~Multi'
    BY <1>1 DEF TransferInv, TypeInv, PlacesInv, Dbs, Multi
<1>3. \E w \in 0..MaxVersion : StreamOf(w)'
    BY <1>1, <1>2, EmptyStream
<1> QED
    BY <1>1, <1>2, <1>3 DEF VersionInv, RowsInv, SegmentsInv, StreamInv, DoneMeansOneVersion

LEMMA VersionLeases ==
    \A s \in Segs : TransferInv /\ KindInv /\ VersionInv /\ Lease(s) => VersionInv'
<1> SUFFICES ASSUME TransferInv, KindInv, VersionInv, NEW s \in Segs, Lease(s) PROVE VersionInv'
    OBVIOUS
<1>1. /\ MayLease(s) /\ UNCHANGED <<kind, served, db, disk, run, status>>
      /\ conn'[s].st = "leased" /\ \A x \in Segs \ {s} : conn'[x] = conn[x]
    BY LeaseShape, Zenon
<1>2. Multi /\ (s = 1 \/ ~run.estimate \/ db.verified)
    BY <1>1 DEF MayLease
<1>3. status = "running" /\ run.mode = "multi" /\ db.rows # NoRows /\ run # Idle
    BY <1>2, MultiFacts, ShapesDiffer
<1>4. \A x \in Segs : conn'[x].st = "body" => conn'[x] = conn[x]
    BY <1>1
<1>5. run.expected = 0 /\ ~db.verified => conn'[2].st = "none"
    <2>1. run.expected = 0 /\ ~db.verified => s = 1 /\ conn[2].st = "none"
        BY <1>2, <1>3 DEF KindInv, VersionInv, SegmentsInv
    <2> QED
        BY <1>1, <2>1
<1> QED
    BY <1>1, <1>2, <1>3, <1>4, <1>5, VersionGoesOn

\* While the only reply awaited is the first, the second segment has none.
LEMMA SecondWaits ==
    ASSUME KindInv, VersionInv, Multi, run.expected = 0, ~db.verified
    PROVE  conn[1].st # "body" /\ conn[2].st = "none" /\ db.tag = 0
    BY DEF KindInv, VersionInv, SegmentsInv

LEMMA VersionRetries ==
    \A s \in Segs : TransferInv /\ KindInv /\ VersionInv /\ Retry(s) => VersionInv'
<1> SUFFICES ASSUME TransferInv, KindInv, VersionInv, NEW s \in Segs, Retry(s) PROVE VersionInv'
    OBVIOUS
<1>1. /\ Multi /\ conn[s].st = "body"
      /\ UNCHANGED <<kind, served, db, disk, run, status>>
      /\ conn'[s].st = "leased" /\ \A x \in Segs \ {s} : conn'[x] = conn[x]
    BY RetryShape, Zenon
<1>2. status = "running" /\ run.mode = "multi" /\ db.rows # NoRows
    BY <1>1, MultiFacts, ShapesDiffer
<1>3. \A x \in Segs : conn'[x].st = "body" => conn'[x] = conn[x]
    BY <1>1
<1>4. ~(run.expected = 0 /\ ~db.verified)
    BY <1>1, SecondWaits
<1> QED
    BY <1>1, <1>2, <1>3, <1>4, VersionGoesOn

\* A connection is given back.
LEMMA VersionReclaims ==
    ASSUME TransferInv, KindInv, VersionInv, Multi, NEW s \in Segs, conn[s].st # "none",
           NEW immediate \in BOOLEAN, Reclaim(s, immediate),
           UNCHANGED <<served, disk, run, status>>,
           db'.tag = db.tag, db'.rows = db.rows, db.verified => db'.verified,
           run.expected = 0 => db'.verified = db.verified
    PROVE  VersionInv'
<1>1. \A x \in Segs : conn'[x].st # "none" => conn'[x] = conn[x]
    BY Returned DEF Reclaim
<1>2. conn' \in [Segs -> Conns]
    BY Returned DEF Reclaim
<1>3. status = "running" /\ run.mode = "multi" /\ db.rows # NoRows
    BY MultiFacts, ShapesDiffer
<1>4. \A x \in Segs : conn'[x].st = "body" => conn'[x] = conn[x]
    BY <1>1
<1>5. run.expected = 0 /\ ~db.verified => conn'[2].st = "none"
    BY <1>1, SecondWaits
<1> QED
    BY <1>3, <1>4, <1>5, VersionGoesOn

LEMMA VersionGivesUp ==
    \A s \in Segs : TransferInv /\ KindInv /\ VersionInv /\ GiveUp(s) => VersionInv'
<1> SUFFICES ASSUME TransferInv, KindInv, VersionInv, NEW s \in Segs, GiveUp(s) PROVE VersionInv'
    OBVIOUS
<1> DEFINE immediate == FALSE
<1>1. /\ immediate \in BOOLEAN /\ Reclaim(s, immediate) /\ Multi /\ conn[s].st # "none"
      /\ UNCHANGED <<served, db, disk, run, status>>
    BY DEF GiveUp
<1> HIDE DEF immediate
<1> QED
    BY <1>1, VersionReclaims

LEMMA VersionReceives ==
    \A s \in Segs : TransferInv /\ KindInv /\ VersionInv /\ Receive(s) => VersionInv'
<1> SUFFICES ASSUME TransferInv, KindInv, VersionInv, NEW s \in Segs, Receive(s) PROVE VersionInv'
    OBVIOUS
<1>1. /\ Multi /\ conn[s].st = "body"
      /\ UNCHANGED <<kind, served, db, status>>
      /\ run.dl[s] + 1 \in 1..Length(s)
      /\ run'.mode = "multi"
      /\ run'.dl = [run.dl EXCEPT ![s] = run.dl[s] + 1]
      /\ run'.expected = run.expected /\ run'.stream = run.stream /\ run'.latch = run.latch
      /\ disk' = [disk EXCEPT ![First(s) + run.dl[s]] = conn[s].ver]
      /\ \A x \in Segs : conn'[x].st # "none" => conn'[x] = conn[x]
    BY ReceiveShape, Zenon
<1>2. /\ status = "running" /\ run \in Runs /\ db.rows # NoRows
      /\ disk \in [1..Size -> 0..MaxVersion]
    BY <1>1, MultiFacts, ShapesDiffer
<1>3. Multi' /\ status' = "running"
    BY <1>1, <1>2 DEF Multi
<1>4. /\ run.dl \in [Segs -> 0..2]
      /\ \A x \in Segs : run.dl[x] <= Length(x)
    BY <1>1, <1>2 DEF Runs, TransferInv, PlacesInv
<1>5. db.tag # 0 => Full(run.dl)'
    <2> SUFFICES ASSUME db.tag # 0, NEW x \in Segs, NEW k \in 1..run'.dl[x]
                 PROVE  disk'[First(x) + k - 1] = db.tag
        BY <1>1 DEF Full, Bytes
    <2>1. conn[s].ver = db.tag /\ Full(run.dl)
        BY <1>1 DEF VersionInv, SegmentsInv
    <2> DEFINE i == First(x) + k - 1
    <2>2. run'.dl[x] = (IF x = s THEN run.dl[s] + 1 ELSE run.dl[x])
        BY <1>1, <1>4
    <2>3. i \in 1..Size /\ k \in Nat
        BY <1>1, <1>4, <2>2 DEF First, Length
    <2>4. disk'[i] = (IF i = First(s) + run.dl[s] THEN db.tag ELSE disk[i])
        BY <1>1, <1>2, <2>1, <2>3
    <2>5. CASE x = s /\ k = run.dl[s] + 1
        <3>1. i = First(s) + run.dl[s]
            BY <1>4, <2>5 DEF First
        <3> QED
            BY <2>4, <3>1
    <2>6. CASE ~(x = s /\ k = run.dl[s] + 1)
        <3>1. k \in 1..run.dl[x]
            BY <1>4, <2>2, <2>6
        <3>2. disk[i] = db.tag
            BY <2>1, <3>1 DEF Full, Bytes
        <3> QED
            BY <2>4, <3>2
    <2> QED
        BY <2>5, <2>6
<1>6. \A x \in Segs : conn'[x].st = "body" => conn'[x] = conn[x]
    BY <1>1
<1>7. ~(db.tag = 0 /\ run.expected = 0)
    BY <1>1 DEF VersionInv, SegmentsInv
<1>8. SegmentsInv'
    BY <1>1, <1>5, <1>6, <1>7 DEF VersionInv, SegmentsInv
<1>9. RowsInv'
    BY <1>1, <1>2, <1>3 DEF VersionInv, RowsInv
<1> QED
    BY <1>1, <1>2, <1>3, <1>8, <1>9 DEF VersionInv, StreamInv, DoneMeansOneVersion

\* Three bytes of one version are a file of that version.
LEMMA FileOf ==
    ASSUME disk \in Seq(0..MaxVersion), Len(disk) = Size, NEW v \in Versions,
           \A i \in 1..Size : disk[i] = v
    PROVE  OneVersion
<1>1. disk = [i \in 1..Size |-> v]
    OBVIOUS
<1> QED
    BY <1>1 DEF OneVersion

LEMMA VersionFinishes == TransferInv /\ KindInv /\ VersionInv /\ FinishMulti => VersionInv'
<1> SUFFICES ASSUME TransferInv, KindInv, VersionInv, FinishMulti PROVE VersionInv'
    OBVIOUS
<1>1. /\ Multi /\ \A s \in Segs : run.dl[s] = Length(s) /\ conn[s].st = "none"
      /\ db' = [db EXCEPT !.rows = run.dl]
      /\ status' = "done" /\ run' = Idle
      /\ UNCHANGED <<kind, served, disk>>
    BY DEF FinishMulti, Complete
<1>2. /\ run \in Runs /\ db \in Dbs /\ Len(disk) = Size /\ disk \in Seq(0..MaxVersion)
      /\ status = "running"
    BY <1>1, MultiFacts, Zenon
<1>3. /\ db'.tag = db.tag /\ db'.verified = db.verified /\ db'.rows = run.dl
      /\ run.dl \in [Segs -> 0..2] /\ run.dl # NoRows
    BY <1>1, <1>2, ShapesDiffer DEF Dbs, Runs
<1>4. db.verified
    <2>1. ~db.verified => run.dl = ZeroRows
        BY <1>1, <1>2 DEF VersionInv, RowsInv, SegmentsInv, KindInv
    <2>2. run.dl[1] = 2
        BY <1>1 DEF Length
    <2> QED
        BY <2>1, <2>2 DEF ZeroRows
<1>5. db.tag # 0 => Full(run.dl)
    BY <1>1 DEF VersionInv, SegmentsInv
<1>6. db.tag # 0 => Full(db.rows)'
    BY <1>1, <1>3, <1>5 DEF Full, Bytes
<1>7. ASSUME db.tag # 0 PROVE OneVersion'
    <2>1. \A i \in 1..Size : disk[i] = db.tag
        <3>1. disk[1] = db.tag /\ disk[2] = db.tag /\ disk[3] = db.tag
            <4>1. run.dl[1] = 2 /\ run.dl[2] = 1
                BY <1>1 DEF Length
            <4>2. Bytes(1, 1) = db.tag /\ Bytes(1, 2) = db.tag /\ Bytes(2, 1) = db.tag
                BY <1>5, <1>7, <4>1 DEF Full
            <4> QED
                BY <4>2 DEF Bytes, First
        <3> QED
            BY <3>1
    <2>2. db.tag \in Versions
        BY <1>2, <1>7 DEF Dbs
    <2>3. OneVersion
        BY <1>2, <2>1, <2>2, FileOf
    <2> QED
        BY <1>1, <2>3 DEF OneVersion
<1>8. ~Multi'
    BY <1>1 DEF Multi
<1> QED
    BY <1>1, <1>3, <1>4, <1>6, <1>7, <1>8
       DEF VersionInv, RowsInv, SegmentsInv, StreamInv, DoneMeansOneVersion

LEMMA VersionProxied == TransferInv /\ KindInv /\ VersionInv /\ (Sample \/ Adopt) => VersionInv'
<1> SUFFICES ASSUME TransferInv, KindInv, VersionInv, Sample \/ Adopt PROVE VersionInv'
    OBVIOUS
<1>1. /\ Multi /\ UNCHANGED <<kind, served, db, disk, conn, status>>
      /\ run'.mode = run.mode /\ run'.dl = run.dl
      /\ run'.expected = run.expected /\ run'.latch = run.latch /\ run'.stream = run.stream
    <2>1. CASE Sample
        <3>1. /\ Multi /\ UNCHANGED <<kind, served, db, disk, conn, status>>
              /\ run'.mode = "multi" /\ run'.dl = run.dl
              /\ run'.expected = run.expected /\ run'.latch = run.latch
              /\ run'.stream = run.stream
            BY <2>1, SampleShape, Zenon
        <3> QED
            BY <3>1 DEF Multi
    <2>2. CASE Adopt
        BY <2>2 DEF Adopt
    <2> QED
        BY <2>1, <2>2
<1>2. status = "running" /\ run.mode = "multi" /\ db.rows # NoRows
    BY <1>1, MultiFacts, ShapesDiffer
<1>3. run.expected = 0 /\ ~db.verified => conn'[2].st = "none"
    BY <1>1, SecondWaits
<1> QED
    BY <1>1, <1>2, <1>3, VersionGoesOn

\* A reply that is accepted is of the recorded version, or, when there is none,
\* of the version whose validator it records.
LEMMA AcceptedVersion ==
    ASSUME TransferInv, KindInv, VersionInv, TellsVersions(kind), Multi,
           NEW s \in Segs, conn[s].st = "leased",
           NEW v \in Versions, v = served[EdgeOf(conn[s])],
           NEW tag \in 0..MaxVersion, tag \in ReplyTags(s, v), Judge(s, v, tag) = "accepted"
    PROVE  /\ run.expected = 0 => tag = v /\ v = served[Sys] /\ (db.tag # 0 => v = db.tag)
           /\ run.expected # 0 /\ db.tag # 0 => v = db.tag
<1>1. run # Idle /\ conn[s] \in Conns /\ conn[s].st # "none"
    BY MultiFacts, ShapesDiffer
<1>2. /\ run.expected = 0 => run.estimate
      /\ run.estimate => ~kind.probe /\ pool.slots = {}
      /\ run.sampled => kind.auto
      /\ conn[s].via = "proxy" => run.sampled
      /\ conn[s].node \in pool.slots \cup {Sys}
    BY <1>1 DEF KindInv, TransferInv, NodesInv
<1>3. ASSUME run.expected = 0
      PROVE  tag = v /\ v = served[Sys] /\ (db.tag # 0 => v = db.tag)
    <2>1. kind.tags = "always" /\ conn[s].via # "proxy" /\ conn[s].node = Sys
        BY <1>2, <1>3 DEF TellsVersions
    <2>2. tag = v /\ v = served[Sys]
        BY <2>1 DEF ReplyTags, EdgeOf
    <2>3. db.tag # 0 => run.latch.known /\ run.latch.tag = db.tag
        BY <1>3 DEF VersionInv, SegmentsInv
    <2>4. db.tag # 0 => tag = db.tag
        BY <1>3, <2>2, <2>3 DEF Judge
    <2> QED
        BY <2>2, <2>4
<1>4. ASSUME run.expected # 0, db.tag # 0
      PROVE  v = db.tag
    <2>1. run.expected = db.tag
        BY <1>4 DEF VersionInv, SegmentsInv
    <2>2. tag = 0 \/ tag = run.expected
        BY <1>4 DEF Judge
    <2>3. Plain(s) \/ ~WholeFile(s, v)
        BY DEF Judge
    <2>4. CASE WholeFile(s, v) \/ kind.tags = "always"
        <3>1. tag = v
            BY <2>4 DEF ReplyTags
        <3> QED
            BY <2>1, <2>2, <3>1
    <2>5. CASE ~WholeFile(s, v) /\ kind.tags # "always"
        <3>1. kind.ifRange
            BY <2>5 DEF TellsVersions
        <3> QED
            BY <1>4, <2>1, <2>5, <3>1 DEF WholeFile
    <2> QED
        BY <2>4, <2>5
<1> QED
    BY <1>3, <1>4

LEMMA VersionAccepts ==
    ASSUME TransferInv, KindInv, VersionInv, TellsVersions(kind), Multi,
           NEW s \in Segs, conn[s].st = "leased",
           NEW v \in Versions, v = served[EdgeOf(conn[s])],
           NEW tag \in 0..MaxVersion, tag \in ReplyTags(s, v), Judge(s, v, tag) = "accepted",
           Accept(s, v, tag)
    PROVE  VersionInv'
<1>1. /\ UNCHANGED <<kind, served, disk, status>>
      /\ conn'[s].st = "body" /\ conn'[s].ver = v
      /\ \A x \in Segs \ {s} : conn'[x] = conn[x]
      /\ run'.mode = "multi" /\ run'.dl = run.dl
      /\ run'.expected = run.expected /\ run'.stream = run.stream
      /\ run'.latch = LatchAfter(tag) /\ db'.tag = TagAfter(tag)
      /\ db'.rows = db.rows /\ (db.verified => db'.verified)
    <2>1. Multi /\ conn[s].st = "leased" /\ Accept(s, v, tag)
        OBVIOUS
    <2> QED
        BY ONLY <2>1, TransferInv, s \in Segs, v \in Versions, tag \in 0..MaxVersion,
           AcceptShape, Zenon
<1>2. /\ run.expected = 0 => tag = v /\ v = served[Sys] /\ (db.tag # 0 => v = db.tag)
      /\ run.expected # 0 /\ db.tag # 0 => v = db.tag
    BY AcceptedVersion, Zenon
<1>3. /\ status = "running" /\ run \in Runs /\ db.rows # NoRows
      /\ db.tag \in 0..MaxVersion /\ served[Sys] \in 1..MaxVersion
    BY MultiFacts, ShapesDiffer DEF Dbs, TransferInv, TypeInv
<1>4. Multi' /\ status' = "running"
    BY <1>1, <1>3 DEF Multi
<1>5. RowsInv'
    BY <1>1, <1>3, <1>4 DEF VersionInv, RowsInv
<1>6. CASE run.expected # 0
    <2>1. db'.tag = db.tag
        BY <1>1, <1>6 DEF TagAfter
    <2>2. db.tag # 0 => Full(run.dl)'
        BY <1>1, <2>1 DEF VersionInv, SegmentsInv, Full, Bytes
    <2>3. \A x \in Segs : conn'[x].st = "body" /\ db.tag # 0 => conn'[x].ver = db.tag
        BY <1>1, <1>2, <1>6 DEF VersionInv, SegmentsInv
    <2>4. SegmentsInv'
        BY <1>1, <1>6, <2>1, <2>2, <2>3 DEF VersionInv, SegmentsInv
    <2> QED
        BY <1>1, <1>3, <1>4, <1>5, <2>1, <2>4 DEF VersionInv, StreamInv, DoneMeansOneVersion
<1>7. CASE run.expected = 0
    <2>1. tag = v /\ v = served[Sys] /\ db'.tag = v
        BY <1>1, <1>2, <1>3, <1>7 DEF TagAfter
    <2>2. run'.latch.known /\ run'.latch.tag = v
        <3>1. CASE db.tag = 0
            <4>1. ~run.latch.known
                BY <1>7, <3>1 DEF VersionInv, SegmentsInv
            <4> DEFINE la == [known |-> TRUE, tag |-> tag]
            <4>2. run'.latch = la
                BY <1>1, <1>7, <4>1 DEF LatchAfter
            <4>3. la.known /\ la.tag = tag
                OBVIOUS
            <4> HIDE DEF la
            <4> QED
                BY <2>1, <4>2, <4>3
        <3>2. CASE db.tag # 0
            <4>1. run.latch.known /\ run.latch.tag = db.tag
                BY <1>7, <3>2 DEF VersionInv, SegmentsInv
            <4> QED
                BY <1>1, <1>2, <1>7, <3>2, <4>1 DEF LatchAfter
        <3> QED
            BY <3>1, <3>2
    <2>3. Full(run.dl)'
        <3>1. CASE db.tag = 0
            <4>1. run'.dl = ZeroRows
                BY <1>1, <1>7, <3>1 DEF VersionInv, SegmentsInv
            <4> QED
                BY <4>1 DEF Full, ZeroRows
        <3>2. CASE db.tag # 0
            <4>1. db'.tag = db.tag /\ Full(run.dl)
                BY <1>2, <1>7, <2>1, <3>2 DEF VersionInv, SegmentsInv
            <4> QED
                BY <1>1, <4>1 DEF Full, Bytes
        <3> QED
            BY <3>1, <3>2
    <2>4. \A x \in Segs : conn'[x].st = "body" => conn'[x].ver = v
        <3>1. ASSUME NEW x \in Segs \ {s}, conn[x].st = "body" PROVE conn[x].ver = v
            <4>1. db.tag # 0
                <5>1. conn[1].st # "none" \/ conn[2].st # "none"
                    BY <3>1
                <5>2. db.tag = 0 => conn[1].st # "body" /\ conn[2].st = "none"
                    BY <1>7 DEF VersionInv, SegmentsInv
                <5> QED
                    BY <3>1, <5>2
            <4> QED
                BY <1>2, <1>7, <3>1, <4>1 DEF VersionInv, SegmentsInv
        <3> QED
            BY <1>1, <3>1
    <2>5. v # 0 /\ v <= served'[Sys]
        BY <1>1, <1>3, <2>1
    <2>6. SegmentsInv'
        BY <1>1, <1>7, <2>1, <2>2, <2>3, <2>4, <2>5 DEF VersionInv, SegmentsInv
    <2> QED
        BY <1>1, <1>3, <1>4, <1>5, <2>1, <2>5, <2>6
           DEF VersionInv, StreamInv, DoneMeansOneVersion
<1> QED
    BY <1>6, <1>7

LEMMA VersionAnswers ==
    \A s \in Segs : TransferInv /\ KindInv /\ VersionInv /\ TellsVersions(kind) /\ Answer(s)
                      => VersionInv'
<1> SUFFICES ASSUME TransferInv, KindInv, VersionInv, TellsVersions(kind), NEW s \in Segs,
                    Answer(s)
             PROVE  VersionInv'
    OBVIOUS
<1>1. PICK v \in Versions, tag \in 0..MaxVersion :
         /\ Multi /\ conn[s].st = "leased"
         /\ v = served[EdgeOf(conn[s])] /\ tag \in ReplyTags(s, v)
         /\ \/ Judge(s, v, tag) = "accepted" /\ Accept(s, v, tag)
            \/ Judge(s, v, tag) = "changed" /\ VersionChanged(s)
            \/ Judge(s, v, tag) = "mismatch" /\ Stop("mismatch")
    BY AnswerCases, Zenon
<1>2. run # Idle /\ db \in Dbs /\ status = "running"
    BY <1>1, MultiFacts, ShapesDiffer
<1>3. CASE Judge(s, v, tag) = "accepted" /\ Accept(s, v, tag)
    BY <1>1, <1>3, VersionAccepts
<1>4. CASE FallBack
    <2>1. /\ UNCHANGED <<kind, served, status>> /\ disk' = <<>>
          /\ db'.rows = NoRows /\ db'.tag = db.tag /\ (db.verified => db'.verified)
          /\ run'.mode = "fallback" /\ run'.expected = run.expected
          /\ run'.stream = run.stream
        BY <1>1, <1>4, FallBackShape, Zenon
    <2>2. run'.stream = 0
        BY <1>1, <2>1 DEF VersionInv, SegmentsInv
    <2>3. \E w \in 0..MaxVersion : StreamOf(w)'
        BY <2>1, <2>2, EmptyStream
    <2>4. ~Multi'
        BY <2>1 DEF Multi
    <2>5. RowsInv'
        BY <1>2, <2>1 DEF VersionInv, RowsInv
    <2>6. StreamInv'
        BY <2>1, <2>2, <2>3 DEF StreamInv
    <2> QED
        BY <1>2, <2>1, <2>4, <2>5, <2>6 DEF VersionInv, SegmentsInv, DoneMeansOneVersion
<1>5. CASE /\ Attributable(conn[s].node) /\ Reclaim(s, TRUE) /\ db' = Settled
           /\ UNCHANGED <<kind, served, disk, run, status, changed, faults, stops>>
    <2> DEFINE immediate == TRUE
    <2>1. immediate \in BOOLEAN /\ Reclaim(s, immediate) /\ conn[s].st # "none"
        BY <1>1, <1>5
    <2> HIDE DEF immediate
    <2>2. db'.tag = db.tag /\ db'.rows = db.rows /\ (db.verified => db'.verified)
        BY <1>2, <1>5, SettledFacts
    <2>3. run.expected # 0
        <3>1. conn[s].node \in pool.slots \cup {Sys} /\ conn[s].node \in Pinned
            BY <1>5, <2>1 DEF TransferInv, NodesInv, Attributable
        <3>2. run.expected = 0 => pool.slots = {}
            BY <1>2 DEF KindInv
        <3> QED
            BY <3>1, <3>2
    <2> QED
        BY <1>1, <1>5, <2>1, <2>2, <2>3, VersionReclaims
<1>6. CASE Stop("mismatch")
    <2> DEFINE why == "mismatch"
    <2>1. why \in {"stopped", "mismatch"} /\ Stop(why)
        BY <1>6
    <2> HIDE DEF why
    <2> QED
        BY <1>2, <2>1, VersionStopped
<1> QED
    BY <1>1, <1>3, <1>4, <1>5, <1>6 DEF VersionChanged

LEMMA VersionOpens == TransferInv /\ VersionInv /\ TellsVersions(kind) /\ Open => VersionInv'
<1> SUFFICES ASSUME TransferInv, VersionInv, TellsVersions(kind), Open PROVE VersionInv'
    OBVIOUS
<1> DEFINE v == served[Sys]
<1>1. /\ Single /\ run.stream = 0
      /\ UNCHANGED <<kind, served, db, status>>
      /\ v \in Versions
      /\ run'.stream = v /\ run'.mode = run.mode
      /\ run'.expected = run.expected /\ run'.ranges = run.ranges
      /\ disk' = (IF Appends(v) THEN disk ELSE <<>>)
    BY OpenShape, Zenon
<1>2. /\ status = "running" /\ ~Multi /\ db.rows = NoRows /\ run \in Runs
      /\ disk \in Seq(0..MaxVersion) /\ Len(disk) \in Nat /\ db.tag \in 0..MaxVersion
    BY <1>1, SingleFacts DEF TransferInv, TypeInv, Dbs
<1>3. ~Multi'
    BY <1>1, <1>2 DEF Multi
<1>4. db.tag <= v /\ v \in 0..MaxVersion
    BY <1>1 DEF VersionInv
<1>5. ASSUME db.tag # 0 PROVE StreamOf(v)'
    <2>1. CASE disk' = <<>>
        BY <1>1, <2>1 DEF StreamOf
    <2>2. CASE disk' # <<>>
        <3>1. disk' = disk /\ Appends(v)
            BY <1>1, <2>2
        <3>2. run.mode = "single" /\ run.ranges /\ ~(kind.ifRange /\ run.expected \notin {0, v})
            BY <3>1 DEF Appends
        <3>3. run.expected = db.tag /\ kind.plans # {TRUE}
            BY <1>2, <1>5, <3>2 DEF VersionInv, StreamInv
        <3>4. v = db.tag
            BY <1>5, <3>2, <3>3 DEF TellsVersions
        <3>5. PICK w \in 0..MaxVersion : StreamOf(w)
            BY <1>2, <1>5 DEF VersionInv, StreamInv
        <3>6. w = v
            BY <1>2, <1>4, <2>2, <3>1, <3>4, <3>5 DEF StreamOf
        <3> QED
            BY <1>1, <3>1, <3>5, <3>6 DEF StreamOf
    <2> QED
        BY <2>1, <2>2
<1>6. StreamInv'
    BY <1>1, <1>2, <1>4, <1>5 DEF VersionInv, StreamInv
<1>7. RowsInv'
    BY <1>1, <1>2 DEF VersionInv, RowsInv
<1> QED
    BY <1>1, <1>2, <1>3, <1>6, <1>7 DEF VersionInv, SegmentsInv, DoneMeansOneVersion

LEMMA VersionStreams == TransferInv /\ VersionInv /\ ReceiveSingle => VersionInv'
<1> SUFFICES ASSUME TransferInv, VersionInv, ReceiveSingle PROVE VersionInv'
    OBVIOUS
<1>1. /\ Single /\ run.stream \in 1..MaxVersion
      /\ UNCHANGED <<kind, served, db, run, status>>
      /\ disk' \in Seq(0..MaxVersion) /\ Len(disk') = Len(disk) + 1
      /\ \A i \in 1..Len(disk) : disk'[i] = disk[i]
      /\ disk'[Len(disk) + 1] = run.stream
    BY ReceiveSingleShape, Zenon
<1>2. status = "running" /\ ~Multi /\ db.rows = NoRows /\ Len(disk) \in Nat
    BY <1>1, SingleFacts, Zenon
<1>3. ~Multi'
    BY <1>1, <1>2 DEF Multi
<1>4. ASSUME db.tag # 0 PROVE \E w \in 0..MaxVersion : StreamOf(w)'
    <2>1. PICK w \in 0..MaxVersion : StreamOf(w)
        BY <1>2, <1>4 DEF VersionInv, StreamInv
    <2>2. w = run.stream /\ db.tag <= w
        BY <1>1, <1>2, <2>1 DEF StreamOf, VersionInv, StreamInv
    <2>3. \A i \in 1..Len(disk') : disk'[i] = w
        BY <1>1, <1>2, <2>1, <2>2 DEF StreamOf
    <2>4. StreamOf(w)'
        BY <1>1, <2>1, <2>2, <2>3 DEF StreamOf
    <2> QED
        BY <2>4
<1>5. StreamInv'
    BY <1>1, <1>2, <1>4 DEF VersionInv, StreamInv
<1>6. RowsInv'
    BY <1>1, <1>2 DEF VersionInv, RowsInv
<1> QED
    BY <1>1, <1>2, <1>3, <1>5, <1>6 DEF VersionInv, SegmentsInv, DoneMeansOneVersion

LEMMA VersionStreamed == TransferInv /\ VersionInv /\ FinishSingle => VersionInv'
<1> SUFFICES ASSUME TransferInv, VersionInv, FinishSingle PROVE VersionInv'
    OBVIOUS
<1>1. /\ Single /\ Len(disk) = Size /\ status' = "done" /\ run' = Idle
      /\ UNCHANGED <<kind, served, db, disk>>
    BY DEF FinishSingle, Complete
<1>2. /\ status = "running" /\ db.rows = NoRows /\ db.tag \in 0..MaxVersion
      /\ disk \in Seq(0..MaxVersion)
    BY <1>1, SingleFacts DEF TransferInv, TypeInv, Dbs
<1>3. ~Multi'
    BY <1>1 DEF Multi
<1>4. ASSUME db.tag # 0
      PROVE  OneVersion' /\ \E w \in 0..MaxVersion : StreamOf(w)'
    <2>1. PICK w \in 0..MaxVersion : StreamOf(w)
        BY <1>2, <1>4 DEF VersionInv, StreamInv
    <2>2. disk # <<>>
        BY <1>1
    <2>3. w \in Versions /\ \A i \in 1..Size : disk[i] = w
        BY <1>1, <1>2, <1>4, <2>1, <2>2 DEF StreamOf
    <2>4. OneVersion
        BY <1>1, <1>2, <2>3, FileOf
    <2>5. OneVersion'
        BY <1>1, <2>4 DEF OneVersion
    <2>6. StreamOf(w)'
        BY <1>1, <2>1 DEF StreamOf
    <2> QED
        BY <2>5, <2>6
<1>5. StreamInv'
    BY <1>1, <1>4 DEF StreamInv
<1>6. RowsInv'
    BY <1>1, <1>2 DEF VersionInv, RowsInv
<1> QED
    BY <1>1, <1>3, <1>4, <1>5, <1>6 DEF VersionInv, SegmentsInv, DoneMeansOneVersion

LEMMA VersionReplaced == \A e \in Edges : TransferInv /\ VersionInv /\ Replace(e) => VersionInv'
<1> SUFFICES ASSUME TransferInv, VersionInv, NEW e \in Edges, Replace(e) PROVE VersionInv'
    OBVIOUS
<1>1. /\ UNCHANGED <<kind, db, disk, run, conn, status>>
      /\ served' \in [Edges -> Versions] /\ served'[e] > served[e]
      /\ \A x \in Edges \ {e} : served'[x] = served[x]
    BY ReplaceShape, Zenon
<1>2. /\ served[Sys] \in 1..MaxVersion /\ served'[Sys] \in 1..MaxVersion
      /\ served[Sys] <= served'[Sys] /\ db.tag \in 0..MaxVersion
    <2>1. served \in [Edges -> Versions] /\ db.tag \in 0..MaxVersion
        BY DEF TransferInv, TypeInv, Dbs
    <2>2. served'[Sys] = served[Sys] \/ served'[Sys] > served[Sys]
        BY <1>1
    <2> QED
        BY <1>1, <2>1, <2>2
<1>3. \A w \in 0..MaxVersion : StreamOf(w) => StreamOf(w)'
    BY <1>1, <1>2 DEF StreamOf
<1>4. Multi' <=> Multi
    BY <1>1 DEF Multi
<1>5. StreamInv'
    BY <1>1, <1>3, <1>4 DEF VersionInv, StreamInv
<1>6. RowsInv' /\ SegmentsInv'
    BY <1>1, <1>4 DEF VersionInv, RowsInv, SegmentsInv, Full, Bytes
<1>7. DoneMeansOneVersion'
    BY <1>1 DEF VersionInv, DoneMeansOneVersion, OneVersion
<1> QED
    BY <1>1, <1>2, <1>5, <1>6, <1>7 DEF VersionInv

LEMMA VersionStep ==
    TransferInv /\ KindInv /\ VersionInv /\ TellsVersions(kind) /\ [HttpNext]_vars => VersionInv'
<1> SUFFICES ASSUME TransferInv, KindInv, VersionInv, TellsVersions(kind), [HttpNext]_vars
             PROVE  VersionInv'
    OBVIOUS
<1>1. CASE Start
    <2> DEFINE resume == FALSE
    <2>1. /\ status # "running" /\ resume \in BOOLEAN /\ Begin(resume)
          /\ (resume => status # "new") /\ (~resume => status = "new")
        BY <1>1 DEF Start
    <2> HIDE DEF resume
    <2> QED
        BY <2>1, VersionBegins
<1>2. CASE Resume
    <2> DEFINE resume == TRUE
    <2>1. /\ status # "running" /\ resume \in BOOLEAN /\ Begin(resume)
          /\ (resume => status # "new") /\ (~resume => status = "new")
        BY <1>2 DEF Resume
    <2> HIDE DEF resume
    <2> QED
        BY <2>1, VersionBegins
<1>3. CASE StartFails \/ UNCHANGED vars
    <2>1. /\ UNCHANGED <<kind, served, db, disk, run, pool, conn>>
          /\ status' = status \/ (status = "new" /\ status' = "stopped")
        BY <1>3 DEF StartFails, vars
    <2>2. Multi' <=> Multi
        BY <2>1 DEF Multi
    <2>3. \A w \in 0..MaxVersion : StreamOf(w) => StreamOf(w)'
        BY <2>1 DEF StreamOf
    <2>4. RowsInv' /\ SegmentsInv'
        BY <2>1, <2>2 DEF VersionInv, RowsInv, SegmentsInv, Full, Bytes
    <2>5. StreamInv'
        BY <2>1, <2>2, <2>3 DEF VersionInv, StreamInv
    <2>6. DoneMeansOneVersion'
        BY <2>1 DEF VersionInv, DoneMeansOneVersion, OneVersion
    <2> QED
        BY <2>1, <2>4, <2>5, <2>6 DEF VersionInv
<1>4. CASE Interrupt
    <2> DEFINE why == "stopped"
    <2>1. status = "running" /\ why \in {"stopped", "mismatch"} /\ Stop(why)
        BY <1>4 DEF Interrupt
    <2> HIDE DEF why
    <2> QED
        BY <2>1, VersionStopped
<1>5. CASE Restart \/ FinishMulti \/ Sample \/ Adopt
    BY <1>5, VersionRestarted, VersionFinishes, VersionProxied, Zenon
<1>6. CASE Open \/ ReceiveSingle \/ FinishSingle
    BY <1>6, VersionOpens, VersionStreams, VersionStreamed, Zenon
<1>7. CASE \E s \in Segs : Lease(s) \/ Answer(s) \/ Receive(s) \/ Retry(s) \/ GiveUp(s)
    BY <1>7, VersionLeases, VersionAnswers, VersionReceives, VersionRetries, VersionGivesUp,
       Zenon
<1>8. CASE \E e \in Edges : Replace(e)
    BY <1>8, VersionReplaced, Zenon
<1>9. HttpNext \/ UNCHANGED vars
    OBVIOUS
<1> QED
    BY <1>1, <1>2, <1>3, <1>4, <1>5, <1>6, <1>7, <1>8, <1>9, Zenon DEF HttpNext

\* DoneMeansOneVersion holds whenever the versions of a file can be told apart:
\* every byte a finished file keeps was matched with the recorded validator.
THEOREM FilesAreWhole ==
    ASSUME \A k \in Starts : TellsVersions(k)
    PROVE  HttpSpec => []DoneMeansOneVersion
<1>1. TransferInv => TellsVersions(kind)
    BY DEF TransferInv, TypeInv
<1>2. VersionInv => DoneMeansOneVersion
    BY DEF VersionInv
<1> QED
    BY <1>1, <1>2, KindsKept, TransferInit, VersionInit, VersionStep, PTL DEF HttpSpec
=============================================================================
