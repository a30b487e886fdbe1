----------------------------- MODULE HttpDownload -----------------------------
(***************************************************************************)
(* One HTTP download across pauses, crashes, retries and restarts, while   *)
(* the file may be replaced, by another of the same length, at any edge    *)
(* that serves it.  What is at stake is which version each byte comes from. *)
(*                                                                         *)
(* The file has three units and two segments, and the segment map does not *)
(* change (SegmentCoordinator models how it does).  A validator is the     *)
(* version it stands for, 0 when there is none.  A reply is of one version. *)
(***************************************************************************)
EXTENDS NodePool, Sequences, SequencesExt

CONSTANTS
    Proxy,      \* the edge reached through the candidate proxy
    Starts,     \* the kinds of task and server, see StartKinds
    MaxVersion, MaxFaults, MaxStops     \* bounds

Edges == Pinned \cup {Sys, Proxy}
Versions == 1..MaxVersion

\* probe: the size comes from a probe, not from a hint; early: the first start
\* may end before it is answered; plans: whether to use segments; ifRange: the
\* server honours If-Range; tags: its 206 replies have a validator; pool:
\* aggregation finds the pinned nodes; auto: there is a candidate proxy.
StartKinds ==
    [probe : BOOLEAN, early : BOOLEAN, plans : (SUBSET BOOLEAN) \ {{}},
     ifRange : BOOLEAN, tags : {"always", "sometimes"}, pool : BOOLEAN, auto : BOOLEAN]

ASSUME HttpAssumption ==
    /\ Proxy \notin Nodes
    /\ Starts \subseteq StartKinds
    /\ MaxVersion \in Nat \ {0} /\ MaxFaults \in Nat /\ MaxStops \in Nat

Segs == {1, 2}
First(s) == IF s = 1 THEN 1 ELSE 3
Length(s) == IF s = 1 THEN 2 ELSE 1
Size == 3

VARIABLES
    kind,       \* one of Starts
    served,     \* the version each edge serves
    db,         \* the task's row: tag, verified, sized, and its segments' rows
    disk,       \* the temporary file: versions, 0 in a hole
    run,        \* the running transfer
    pool,       \* its nodes
    conn,       \* the connection of each segment
    status,
    changed,    \* history: the file changed at an edge in use
    faults, stops   \* counters of the bounds

vars == <<kind, served, db, disk, run, pool, conn, status, changed, faults, stops>>

Idle == [mode |-> "idle"]
NoConn == [st |-> "none"]
NoRows == <<>>
ZeroRows == [s \in Segs |-> 0]
NoneOpen == [s \in Segs |-> NoConn]

HttpInit ==
    /\ kind \in Starts
    /\ served \in {v \in [Edges -> Versions] :
                    /\ v[Sys] = (IF kind.pool \/ kind.auto THEN 2 ELSE 1)
                    /\ \A e \in Edges : v[e] <= v[Sys]
                    /\ ~kind.pool => \A n \in Pinned : v[n] = v[Sys]
                    /\ ~kind.auto => v[Proxy] = v[Sys]}
    /\ db = [tag |-> 0, verified |-> TRUE, sized |-> FALSE, rows |-> NoRows]
    /\ disk = <<>>
    /\ run = Idle
    /\ pool = NewPool({}, FALSE)
    /\ conn = NoneOpen
    /\ status = "new"
    /\ changed = FALSE
    /\ faults = 0 /\ stops = 0

-----------------------------------------------------------------------------
(* The start of a transfer. *)

\* Mutant of Expected: a resume trusts the validator of its own probe.
ExpectedIsProbed(resume, tag, probed) == probed

\* The validator the requests insist on.
Expected(resume, tag, probed) == IF resume /\ tag # 0 THEN tag ELSE probed

\* run_download_inner up to the first request.  A resume with an unverified
\* hint whose size was lost passes -1: no ranges.
Begin(resume) ==
    LET hinted == IF resume THEN ~db.verified ELSE ~kind.probe
        verified == IF resume THEN db.verified ELSE kind.probe
        sized == ~hinted \/ ~resume \/ db.sized
        probed == IF hinted THEN 0 ELSE served[Sys]
        tag == IF ~resume THEN probed ELSE db.tag
    IN  \E plan \in kind.plans :
            LET multi == sized /\ (plan \/ db.rows # NoRows)
                rows == IF ~multi THEN NoRows
                        ELSE IF db.rows = NoRows \/ disk = <<>> THEN ZeroRows ELSE db.rows
            IN  /\ db' = [tag |-> tag, verified |-> verified, sized |-> sized, rows |-> rows]
                /\ disk' = IF multi THEN disk \o [i \in 1..(Size - Len(disk)) |-> 0]
                           ELSE IF db.rows # NoRows THEN <<>> ELSE disk
                /\ run' = [mode |-> IF multi THEN "multi" ELSE "single",
                           expected |-> Expected(resume, db.tag, probed),
                           estimate |-> hinted /\ ~verified, ranges |-> sized,
                           latch |-> [known |-> FALSE, tag |-> 0],
                           dl |-> IF multi THEN rows ELSE ZeroRows,
                           stream |-> 0, sampled |-> FALSE]
                /\ pool' = NewPool(IF multi /\ kind.pool /\ verified /\ ~pool.marked
                                   THEN Pinned ELSE {}, pool.marked)
                /\ status' = "running"
                /\ UNCHANGED <<kind, served, conn, changed, faults, stops>>

Start == status = "new" /\ Begin(FALSE)

\* The first start is paused in the queue, or its probe fails: every later one
\* is a resume.
StartFails ==
    /\ status = "new" /\ kind.early
    /\ status' = "stopped"
    /\ UNCHANGED <<kind, served, db, disk, run, pool, conn, changed, faults, stops>>

\* By the user, or by the automatic retry.
Resume == status \in {"stopped", "mismatch"} /\ Begin(TRUE)

\* RestartTask: the validator and the range verdict stay.
Restart ==
    /\ status \in {"stopped", "mismatch", "done"}
    /\ stops < MaxStops
    /\ stops' = stops + 1
    /\ db' = [db EXCEPT !.rows = NoRows, !.sized = FALSE]
    /\ disk' = <<>>
    /\ status' = "stopped"
    /\ UNCHANGED <<kind, served, run, pool, conn, changed, faults>>

\* What the rows hold when a transfer ends early: anything between what they
\* held when it began and what it wrote.
Stop(why) ==
    /\ status' = why
    /\ IF run.mode = "multi"
       THEN \E rows \in [Segs -> 0..2] :
              /\ \A s \in Segs : db.rows[s] <= rows[s] /\ rows[s] <= run.dl[s]
              /\ db' = [db EXCEPT !.rows = rows]
              /\ UNCHANGED disk
       ELSE \E k \in 0..Len(disk) : disk' = SubSeq(disk, 1, k) /\ UNCHANGED db
    /\ run' = Idle
    /\ conn' = NoneOpen
    /\ UNCHANGED <<kind, served, pool, changed>>

\* A pause, a crash, or an error that ends the transfer.
Interrupt ==
    /\ status = "running"
    /\ stops < MaxStops
    /\ stops' = stops + 1
    /\ Stop("stopped")
    /\ UNCHANGED faults

-----------------------------------------------------------------------------
(* The segments. *)

Multi == status = "running" /\ run.mode = "multi"

\* While ranges are unverified only the first segment may start.
MayLease(s) ==
    /\ Multi
    /\ conn[s].st = "none"
    /\ run.dl[s] < Length(s)
    /\ s = 1 \/ ~run.estimate \/ db.verified

Lease(s) ==
    /\ MayLease(s)
    /\ \E l \in Leases(pool) :
         /\ pool' = l.pool
         /\ conn' = [conn EXCEPT ![s] =
                [st |-> "leased", node |-> l.node, ver |-> 0,
                 via |-> IF l.node = Sys THEN pool.client ELSE "direct"]]
    /\ UNCHANGED <<kind, served, db, disk, run, status, changed, faults, stops>>

EdgeOf(c) == IF c.via = "proxy" THEN Proxy ELSE c.node

\* The request carries no Range at all.
Plain(s) == run.estimate /\ s = 1 /\ run.dl[1] = 0

WholeFile(s, v) == Plain(s) \/ (run.expected # 0 /\ kind.ifRange /\ v # run.expected)

ReplyTags(s, v) ==
    IF WholeFile(s, v) \/ kind.tags = "always" THEN {v} ELSE {0, v}

\* do_segment's checks of a reply, in its order.
Judge(s, v, tag) ==
    IF ~Plain(s) /\ WholeFile(s, v) THEN "changed"
    ELSE IF run.expected # 0 /\ tag # 0 /\ tag # run.expected THEN "mismatch"
    ELSE IF run.expected = 0 /\ run.latch.known /\ run.latch.tag # 0
            /\ tag # 0 /\ tag # run.latch.tag THEN "changed"
    ELSE "accepted"

\* Any successful reply settles whether ranges work: these servers serve them.
Settled == IF run.estimate THEN [db EXCEPT !.verified = TRUE] ELSE db

\* The connection c at a request, or in the body of a reply of version v.
Turned(c, st, v) == [c EXCEPT !.st = st, !.ver = v]

Accept(s, v, tag) ==
    /\ conn' = [conn EXCEPT ![s] = Turned(conn[s], "body", v)]
    /\ IF run.expected = 0
       THEN /\ run' = IF run.latch.known THEN run
                      ELSE [run EXCEPT !.latch = [known |-> TRUE, tag |-> tag]]
            /\ db' = IF tag = 0 THEN Settled ELSE [Settled EXCEPT !.tag = tag]
       ELSE UNCHANGED run /\ db' = Settled
    /\ UNCHANGED <<kind, served, disk, pool, status, changed, faults, stops>>

\* Mutant of Reclaim: the node is not given back.
ReclaimKeepsLease(s, immediate) ==
    /\ pool' = ReportErr(pool, conn[s].node, immediate)
    /\ conn' = [conn EXCEPT ![s] = NoConn]

\* CdnNodeFailed: the segment waits for another node.
Reclaim(s, immediate) ==
    /\ pool' = GiveBack(ReportErr(pool, conn[s].node, immediate), conn[s].node)
    /\ conn' = [conn EXCEPT ![s] = NoConn]

\* The segments are given up for a single stream from the start.
FallBack ==
    /\ db' = [Settled EXCEPT !.rows = NoRows]
    /\ disk' = <<>>
    /\ run' = [run EXCEPT !.mode = "fallback"]
    /\ conn' = NoneOpen
    /\ UNCHANGED <<kind, served, pool, status, changed, faults, stops>>

\* Mutant of Attributable: another version ends the transfer, whoever sent it.
AttributableNever(n) == FALSE

\* is_node_attributable, for a reply that proves another version.
Attributable(n) == n \in Pinned

VersionChanged(s) ==
    \/ /\ Attributable(conn[s].node)
       /\ Reclaim(s, TRUE)
       /\ db' = Settled
       /\ UNCHANGED <<kind, served, disk, run, status, changed, faults, stops>>
    \/ ~Attributable(conn[s].node) /\ FallBack

\* The mismatch is retried and then ends the transfer, on any node.
Answer(s) ==
    /\ Multi
    /\ conn[s].st = "leased"
    /\ LET v == served[EdgeOf(conn[s])]
       IN  \E tag \in ReplyTags(s, v) :
             \/ Judge(s, v, tag) = "accepted" /\ Accept(s, v, tag)
             \/ Judge(s, v, tag) = "changed" /\ VersionChanged(s)
             \/ Judge(s, v, tag) = "mismatch" /\ Stop("mismatch") /\ UNCHANGED <<faults, stops>>

\* A chunk is written; the last one ends the segment.
Receive(s) ==
    LET n == run.dl[s] + 1
    IN  /\ Multi
        /\ conn[s].st = "body"
        /\ run' = [run EXCEPT !.dl = [run.dl EXCEPT ![s] = n]]
        /\ disk' = [disk EXCEPT ![First(s) + n - 1] = conn[s].ver]
        /\ IF n = Length(s)
           THEN /\ pool' = GiveBack(ReportOk(pool, conn[s].node), conn[s].node)
                /\ conn' = [conn EXCEPT ![s] = NoConn]
           ELSE UNCHANGED <<pool, conn>>
        /\ UNCHANGED <<kind, served, db, status, changed, faults, stops>>

\* The connection breaks or stalls; the retry keeps the node.
Retry(s) ==
    /\ Multi /\ conn[s].st = "body"
    /\ faults < MaxFaults
    /\ faults' = faults + 1
    /\ conn' = [conn EXCEPT ![s] = Turned(conn[s], "leased", 0)]
    /\ UNCHANGED <<kind, served, db, disk, run, pool, status, changed, stops>>

\* The retries are used up: on Sys that ends the transfer, like Interrupt.
GiveUp(s) ==
    /\ Multi /\ conn[s].st = "leased" /\ conn[s].node \in Pinned
    /\ faults < MaxFaults
    /\ faults' = faults + 1
    /\ Reclaim(s, FALSE)
    /\ UNCHANGED <<kind, served, db, disk, run, status, changed, stops>>

Complete ==
    /\ status' = "done"
    /\ run' = Idle
    /\ UNCHANGED <<kind, served, disk, pool, conn, changed, faults, stops>>

FinishMulti ==
    /\ Multi
    /\ \A s \in Segs : run.dl[s] = Length(s) /\ conn[s].st = "none"
    /\ db' = [db EXCEPT !.rows = run.dl]
    /\ Complete

-----------------------------------------------------------------------------
(* The automatic proxy, consulted while the segments run. *)

SampleAgrees(tag, v) == tag = 0 \/ tag = v

\* A faster proxy that serves the same version is remembered ...
Sample ==
    /\ Multi /\ kind.auto
    /\ ~run.sampled
    /\ SampleAgrees(run.expected, served[Proxy])
    /\ run' = [run EXCEPT !.sampled = TRUE]
    /\ UNCHANGED <<kind, served, db, disk, pool, conn, status, changed, faults, stops>>

\* ... and adopted at a later tick.
Adopt ==
    /\ Multi
    /\ run.sampled /\ pool.client = "direct"
    /\ pool' = Switch(pool)
    /\ UNCHANGED <<kind, served, db, disk, run, conn, status, changed, faults, stops>>

-----------------------------------------------------------------------------
(* The single stream, always direct. *)

Single == status = "running" /\ run.mode \in {"single", "fallback"}

\* download_single: If-Range is left to the server, its reply is not checked.
Appends(v) ==
    /\ run.mode = "single" /\ run.ranges
    /\ Len(disk) \in 1..(Size - 1)
    /\ ~(kind.ifRange /\ run.expected \notin {0, v})

Open ==
    /\ Single /\ run.stream = 0
    /\ LET v == served[Sys]
       IN  /\ run' = [run EXCEPT !.stream = v]
           /\ disk' = IF Appends(v) THEN disk ELSE <<>>
    /\ UNCHANGED <<kind, served, db, pool, conn, status, changed, faults, stops>>

ReceiveSingle ==
    /\ Single /\ run.stream # 0 /\ Len(disk) < Size
    /\ disk' = Append(disk, run.stream)
    /\ UNCHANGED <<kind, served, db, run, pool, conn, status, changed, faults, stops>>

FinishSingle ==
    /\ Single /\ run.stream # 0 /\ Len(disk) = Size
    /\ UNCHANGED db
    /\ Complete

-----------------------------------------------------------------------------
(* The file is replaced at an edge. *)
Replace(e) ==
    /\ status # "done"
    /\ \E v \in Versions : v > served[e] /\ served' = [served EXCEPT ![e] = v]
    /\ changed' = (changed \/ (e = Sys /\ status # "new")
                           \/ (e = Proxy /\ run # Idle /\ run.sampled))
    /\ UNCHANGED <<kind, db, disk, run, pool, conn, status, faults, stops>>

HttpNext ==
    \/ Start \/ StartFails \/ Resume \/ Restart \/ Interrupt
    \/ \E s \in Segs : Lease(s) \/ Answer(s) \/ Receive(s) \/ Retry(s) \/ GiveUp(s)
    \/ FinishMulti \/ Open \/ ReceiveSingle \/ FinishSingle
    \/ Sample \/ Adopt
    \/ \E e \in Edges : Replace(e)

HttpSpec == HttpInit /\ [][HttpNext]_vars

-----------------------------------------------------------------------------
(* Properties. *)

Rows == {NoRows} \cup [Segs -> 0..2]
Runs == [mode : {"multi", "single", "fallback"}, expected : 0..MaxVersion,
         estimate : BOOLEAN, ranges : BOOLEAN,
         latch : [known : BOOLEAN, tag : 0..MaxVersion],
         dl : [Segs -> 0..2], stream : 0..MaxVersion, sampled : BOOLEAN]
Conns == {NoConn} \cup [st : {"leased", "body"}, node : Nodes, ver : 0..MaxVersion,
                        via : {"direct", "proxy"}]

\* The variables have their types, and the pool counts one lease for every
\* connection of a running segment transfer: no path out of do_segment keeps
\* or returns a lease too many.
HttpTypeOK ==
    /\ kind \in Starts /\ served \in [Edges -> Versions]
    /\ db \in [tag : 0..MaxVersion, verified : BOOLEAN, sized : BOOLEAN, rows : Rows]
    /\ disk \in BoundedSeq(0..MaxVersion, Size)
    /\ run = Idle \/ run \in Runs
    /\ pool \in Pools /\ conn \in [Segs -> Conns]
    /\ status \in {"new", "running", "stopped", "mismatch", "done"}
    /\ Multi => \A n \in Nodes :
           pool.leased[n] = Cardinality({s \in Segs : conn[s].st # "none" /\ conn[s].node = n})

OneVersion == \E v \in Versions : disk = [i \in 1..Size |-> v]

\* A finished file has no hole and its bytes are all of one version, whatever
\* was replaced between two sessions, two segments or two edges, if a validator
\* was ever recorded.
DoneMeansOneVersion == status = "done" /\ db.tag # 0 => OneVersion

\* Progress is thrown away, or the task ends for a mismatch, only when the file
\* did change at an edge in use: a pinned node or a proxy that merely lags behind
\* costs a segment's request, never the download.
ChangeIsReal == (status = "mismatch" \/ run.mode = "fallback") => changed

\* A host is marked as unfit for aggregation only when most of the pinned
\* nodes failed by themselves: never because the proxy replaced them.
FlagMeansFailures ==
    [][pool'.marked /\ ~pool.marked =>
         2 * Cardinality(pool'.failed) > Cardinality(pool'.slots)]_vars

\* Once the proxy is adopted, no request of the transfer starts directly.
SwitchHolds ==
    [][\A s \in Segs : pool.client = "proxy" /\ conn[s].st = "none" /\ conn'[s].st = "leased"
         => conn'[s].via = "proxy"]_vars
=============================================================================
