------------------------- MODULE SegmentCoordinator -------------------------
(***************************************************************************)
(* The coordinator of a multi-segment download (run_coordinated_download   *)
(* in segment_coordinator.rs): it builds or restores the segment map,      *)
(* hands segments to the workers, splits, grows and merges them, degrades  *)
(* to fewer connections when the server refuses some, and verifies the     *)
(* result.  Its handlers await the database between the change of its own  *)
(* map and the publication of that change to the workers; each side of an  *)
(* await is an action.                                                     *)
(***************************************************************************)
EXTENDS SegmentWorkers

CONSTANTS
    Starts,         \* how a download may start: whether its size is an unverified
                    \* hint, and how many of the faults are spent
    InitialTotal,   \* the size the task starts with
    Probes,         \* the larger sizes a later probe may report
    Plan,           \* initial_segment_count
    MaxAllowed,     \* worker_cap
    MaxExpansions,  \* MAX_SIZE_EXPANSIONS
    RampRace,       \* whether a worker may finish while the ramp timer fires
    LateStatements, \* whether a resumed run overtakes its predecessor
    MayPause,       \* whether the user pauses
    MaxRestarts     \* bound: crashes and resumes

ASSUME CoordinatorAssumption ==
    /\ Starts # {} /\ Starts \subseteq [hint : BOOLEAN, faults : 0 .. MaxFaults]
    /\ InitialTotal \in 1 .. MaxTotal
    /\ Probes \subseteq 1 .. MaxTotal
    /\ Plan \in Nat \ {0}
    /\ MaxAllowed \in Workers
    /\ 1 .. MaxAllowed \subseteq Workers
    /\ MaxExpansions \in Nat
    /\ RampRace \in BOOLEAN
    /\ LateStatements \in BOOLEAN
    /\ MayPause \in BOOLEAN
    /\ MaxRestarts \in Nat

VARIABLES
    cpc,        \* where the coordinator stands
    segs,       \* segments
    nextIdx,    \* next_index
    allowed,    \* allowed_workers
    serial,     \* serial_mode
    strikes,    \* reject_strikes, counted up to 2
    openSeg,    \* open_ended_streaming
    expansions, \* expansions
    job,        \* the statement under way and what follows it
    result,     \* final_error, or the value returned
    verified,   \* tasks.range_verified
    taskTotal,  \* tasks.total_bytes
    fileLen,    \* length of the preallocated file
    late,       \* a statement of a run that was left behind
    astray,     \* history: a statement has failed or come late
    restarts    \* restarts so far

policyVars == <<allowed, serial, strikes>>
mapVars == <<segs, nextIdx, openSeg, expansions>>
taskVars == <<verified, taskTotal, fileLen, late, astray, restarts>>
workerVars == <<sharedVars, localVars, diskVars, faults>>
vars == <<cpc, mapVars, policyVars, job, result, taskVars, controlVars, workerVars>>

NoSeg == -1
NoStmt == [put |-> <<>>, par |-> NoSeg, end |-> 0, del |-> {}]
NoJob == [st |-> NoStmt, then |-> "loop", w |-> 0, asg |-> NoWork]
Job(st, then, w, a) == [st |-> st, then |-> then, w |-> w, asg |-> a]

Row(g) == [start |-> g.start, end |-> g.end, dl |-> g.dl]

\* upsert_segment, persist_split and persist_merge, one transaction each.
Upsert(m, i) == [put |-> [k \in {i} |-> Row(m[i])], par |-> NoSeg, end |-> 0, del |-> {}]

\* Mutant of PersistSplit: the row of the parent is left to the next upsert.
PersistSplitChildOnly(m, i, p) == Upsert(m, i)

PersistSplit(m, i, p) ==
    [put |-> [k \in {i} |-> Row(m[i])], par |-> p, end |-> m[p].end, del |-> {}]

PersistMerge(p, end, A) == [put |-> <<>>, par |-> p, end |-> end, del |-> A]

Commit(r, st) ==
    [i \in (DOMAIN r \ st.del) \cup DOMAIN st.put |->
        IF i \in DOMAIN st.put THEN st.put[i]
        ELSE IF i = st.par THEN [r[i] EXCEPT !.end = st.end]
        ELSE r[i]]

\* sync_downloaded_from_shared.
Synced(m) ==
    [i \in DOMAIN m |-> IF m[i].st = "Active" /\ i \in DOMAIN shared
                        THEN [m[i] EXCEPT !.dl = shared[i].dl] ELSE m[i]]

\* rebuild_seg_states: the progress of known segments is the workers' own.
Rebuilt(m) ==
    [i \in DOMAIN m |->
        [end |-> m[i].end, dl |-> IF i \in DOMAIN shared THEN shared[i].dl ELSE m[i].dl]]

Assignment(g, i, open, plain) ==
    [idx |-> i, start |-> g.start, from |-> g.start + g.dl, end |-> g.end,
     open |-> open, plain |-> plain]

CoordInit ==
    /\ cpc = "start"
    /\ segs = <<>> /\ nextIdx = 0 /\ openSeg = NoSeg /\ expansions = 0
    /\ allowed = 1 /\ serial = FALSE /\ strikes = 0
    /\ job = NoJob /\ result = "none"
    /\ \E s \in Starts : verified = ~s.hint /\ estimate = s.hint /\ faults = s.faults
    /\ taskTotal = InitialTotal /\ total = InitialTotal /\ fileLen = 0
    /\ late = NoStmt /\ astray = FALSE /\ restarts = 0
    /\ stopped = FALSE /\ slots = {}
    /\ shared = <<>> /\ verdict = "unknown" /\ anyData = FALSE /\ sensitive = FALSE
    /\ events = <<>>
    /\ wpc = [w \in Workers |-> "gone"] /\ asg = [w \in Workers |-> NoWork]
    /\ got = [w \in Workers |-> 0] /\ chunk = [w \in Workers |-> NoChunk]
    /\ rows = <<>> /\ written = {}

-----------------------------------------------------------------------------
(***************************************************************************)
(* The start of a run.                                                     *)
(***************************************************************************)

\* The total a run is started with: that of the task for an estimate, else a
\* probe, which may find that the file has grown.
Probed(n) == n = taskTotal \/ (~estimate /\ n \in Probes /\ n > taskTotal)

\* The rows as a map: full rows are complete, whatever they hold.
Loaded == [i \in DOMAIN rows |->
              Seg(rows[i].start, rows[i].end, rows[i].dl,
                  IF rows[i].dl >= RowSize(rows[i]) THEN "Completed" ELSE "Pending")]

\* The resume's file check: a file shorter than planned, or than what the rows
\* claim, makes every segment start over.
Checked(m, n) ==
    IF SumOfDl(m) > 0 /\ (fileLen < SumOfDl(m) \/ fileLen < n)
    THEN [i \in DOMAIN m |-> [m[i] EXCEPT !.dl = 0, !.st = "Pending"]]
    ELSE m

\* Workers for the first Pending segments: one when a segment starts at byte 0,
\* with an open-ended request, else as many as are allowed.
Launch(m, n, next) ==
    LET pend == InState(m, "Pending")
        fromZero == {i \in pend : m[i].start + m[i].dl = 0}
    IN  \E a \in 1 .. MaxAllowed :
          LET limit == IF fromZero # {} THEN 1 ELSE a
              rank(i) == Cardinality({j \in pend : j <= i})
              chosen == {i \in pend : rank(i) <= limit}
              team == {rank(i) : i \in chosen}
              segOf(w) == CHOOSE i \in chosen : rank(i) = w
          IN  /\ allowed' = a
              /\ segs' = [i \in DOMAIN m |->
                             IF i \in chosen THEN [m[i] EXCEPT !.st = "Active"] ELSE m[i]]
              /\ nextIdx' = next
              /\ total' = n
              /\ fileLen' = IF fileLen < n THEN n ELSE fileLen
              /\ shared' = [i \in DOMAIN m |-> [end |-> m[i].end, dl |-> m[i].dl]]
              /\ anyData' = (SumOfDl(m) > 0)
              /\ verdict' = IF estimate THEN "unknown" ELSE "supported"
              /\ openSeg' = IF fromZero # {} THEN Least(fromZero) ELSE NoSeg
              /\ slots' = team
              /\ wpc' = [w \in Workers |-> IF w \in team THEN "assigned" ELSE "gone"]
              /\ asg' = [w \in Workers |->
                            IF w \in team
                            THEN LET z == segOf(w) \in fromZero
                                 IN  Assignment(m[segOf(w)], segOf(w), z, estimate /\ z)
                            ELSE NoWork]
              /\ IF AllDone(m) THEN cpc' = "ended" /\ result' = "ok"
                               ELSE cpc' = "loop" /\ UNCHANGED result

UnchangedByLaunch ==
    UNCHANGED <<expansions, serial, strikes, job, verified, late, astray, restarts,
                estimate, stopped, sensitive, events, got, chunk, written, faults>>

StartFresh ==
    /\ cpc = "start"
    /\ rows = <<>>
    /\ \E n \in 1 .. MaxTotal :
          LET count == IF estimate THEN 1 ELSE Lesser(Plan, n)
          IN  /\ Probed(n)
              /\ rows' = [i \in 0 .. count - 1 |-> Row(Fresh(count, n)[i])]
              /\ taskTotal' = n
              /\ Launch(Fresh(count, n), n, count)
    /\ UnchangedByLaunch

\* The rows are trusted when they cover the probed size up to the drift.
Resume ==
    /\ cpc = "start"
    /\ rows # <<>>
    /\ LET covered == Greatest({rows[i].end : i \in DOMAIN rows}) + 1
       IN  \E n \in 1 .. MaxTotal :
             /\ Probed(n)
             /\ IF covered <= n /\ n - covered <= Drift /\ ValidateCoverage(Loaded, covered)
                THEN LET m == Checked(Loaded, covered)
                     IN  /\ rows' = [i \in DOMAIN m |-> Row(m[i])]
                         /\ taskTotal' = covered
                         /\ Launch(m, covered, Greatest(DOMAIN m) + 1)
                ELSE /\ rows' = <<>>
                     /\ total' = n
                     /\ cpc' = "rebuild"
                     /\ UNCHANGED <<allowed, segs, nextIdx, fileLen, shared, anyData, verdict,
                                    openSeg, slots, wpc, asg, result, taskTotal>>
    /\ UnchangedByLaunch

\* The rows were deleted; new ones are inserted.
Rebuild ==
    /\ cpc = "rebuild"
    /\ LET count == Lesser(Plan, total)
       IN  /\ rows' = [i \in 0 .. count - 1 |-> Row(Fresh(count, total)[i])]
           /\ taskTotal' = total
           /\ Launch(Fresh(count, total), total, count)
    /\ UnchangedByLaunch

-----------------------------------------------------------------------------
(***************************************************************************)
(* Handing out work, and the statement that records it.                    *)
(***************************************************************************)

\* find_next_work (split) and find_next_pending_only: a Pending segment, else
\* one half of the largest Active one.
Found(m, split) == InState(m, "Pending") # {} \/ (split /\ CanSplit(m))

\* Mutant of NextWork: a Pending segment is handed out and stays Pending.
NextWorkStaysPending(m, split) ==
    IF InState(m, "Pending") # {}
    THEN [m |-> m, i |-> Least(InState(m, "Pending")), par |-> NoSeg]
    ELSE [m |-> Split(m, nextIdx, "Active"), i |-> nextIdx, par |-> LargestActive(m)]

NextWork(m, split) ==
    IF InState(m, "Pending") # {}
    THEN [m |-> SetState(m, Least(InState(m, "Pending")), "Active"),
          i |-> Least(InState(m, "Pending")), par |-> NoSeg]
    ELSE [m |-> Split(m, nextIdx, "Active"), i |-> nextIdx, par |-> LargestActive(m)]

WorkStmt(f) == IF f.par = NoSeg THEN Upsert(f.m, f.i) ELSE PersistSplit(f.m, f.i, f.par)

\* The work f goes to worker w once its statement is through.
HandOut(f, w, then, z) ==
    /\ segs' = f.m
    /\ nextIdx' = IF f.par = NoSeg THEN nextIdx ELSE nextIdx + 1
    /\ job' = Job(WorkStmt(f), then, w, Assignment(f.m[f.i], f.i, z, z))
    /\ cpc' = "persist"

CloseSlot(w) == slots' = slots \ {w}

\* The statement of the job is executed, or fails; the failure is logged, and
\* only a merge is given up with it.
Persist ==
    /\ cpc = "persist"
    /\ \/ rows' = Commit(rows, job.st) /\ cpc' = "resume" /\ UNCHANGED <<job, astray>>
       \/ /\ DbFaults /\ ~astray /\ late = NoStmt    \* bound: one statement goes wrong
          /\ astray' = TRUE
          /\ UNCHANGED rows
          /\ IF job.then = "merged" THEN cpc' = "loop" /\ job' = NoJob
                                    ELSE cpc' = "resume" /\ UNCHANGED job
    /\ UNCHANGED <<mapVars, policyVars, result, verified, taskTotal, fileLen, late, restarts,
                   controlVars, sharedVars, localVars, written, faults>>

\* The handler goes on: the change is published and the worker gets its work.
Continue ==
    LET merged == Merge(segs, job.st.par, job.st.del)
        m == IF job.then = "merged" THEN merged ELSE segs
        sends == job.then \in {"send", "spawn"}
    IN  /\ cpc = "resume"
        /\ segs' = m
        /\ shared' = Rebuilt(m)
        /\ taskTotal' = IF job.then = "grown" THEN total ELSE taskTotal
        /\ wpc' = IF sends THEN [wpc EXCEPT ![job.w] = "assigned"] ELSE wpc
        /\ asg' = IF sends THEN [asg EXCEPT ![job.w] = job.asg] ELSE asg
        /\ slots' = IF job.then = "spawn" THEN slots \cup {job.w} ELSE slots
        /\ openSeg' = IF sends /\ job.asg.open THEN job.asg.idx ELSE openSeg
        /\ cpc' = CASE job.then = "spawn" -> "refill"
                    [] job.then = "short" -> "dispatch"
                    [] job.then = "grown" -> "redispatch"
                    [] OTHER -> "loop"
        /\ job' = IF job.then \in {"short", "grown"} THEN [NoJob EXCEPT !.w = job.w]
                                                     ELSE NoJob
        /\ UNCHANGED <<nextIdx, expansions, policyVars, result, verified, fileLen, late,
                       astray, restarts, estimate, total, stopped, verdict, anyData, sensitive,
                       events, got, chunk, diskVars, faults>>

-----------------------------------------------------------------------------
(***************************************************************************)
(* The event loop: a segment is done.                                      *)
(***************************************************************************)

Looping == cpc = "loop" /\ ~stopped
Handling(kinds) == Looping /\ events # <<>> /\ Head(events).kind \in kinds
ClearOpen(i) == openSeg' = IF openSeg = i THEN NoSeg ELSE openSeg

\* A segment that grew after its worker had stopped at the old boundary is cut
\* there and the rest becomes Pending.
HandleDone(e) ==
    /\ Handling({"done"}) /\ e = Head(events)
    /\ events' = Tail(events)
    /\ ClearOpen(e.idx)
    /\ IF 0 < e.n /\ e.n < Size(segs[e.idx])
       THEN /\ segs' = Shortfall(segs, e.idx, e.n, nextIdx)
            /\ nextIdx' = nextIdx + 1
            /\ job' = Job(PersistSplit(segs', nextIdx, e.idx), "short", e.w, NoWork)
            /\ cpc' = "persist"
       ELSE /\ segs' = Finish(segs, e.idx, e.n)
            /\ job' = [NoJob EXCEPT !.w = e.w]
            /\ cpc' = "dispatch"
            /\ UNCHANGED nextIdx
    /\ UNCHANGED <<expansions, policyVars, result, taskVars, controlVars, shared, verdict,
                   anyData, sensitive, localVars, diskVars, faults>>

\* Mutant of Eligible: serial mode does not look at the other workers.
EligibleInParallel(m) == ~serial => Cardinality(slots) <= allowed

\* Serial mode waits for the others to finish; beyond the allowance a worker
\* is not given more work.
Eligible(m) ==
    IF serial THEN InState(m, "Active") = {} ELSE Cardinality(slots) <= allowed

\* The worker of the finished segment is given work or retired.
Dispatch ==
    LET m == Synced(segs)
    IN  /\ cpc = "dispatch"
        /\ IF Eligible(m) /\ Found(m, ~serial)
           THEN HandOut(NextWork(m, ~serial), job.w, "send", FALSE) /\ UNCHANGED slots
           ELSE /\ segs' = m
                /\ job' = NoJob
                /\ UNCHANGED nextIdx
                /\ IF AllDone(m) THEN slots' = {} /\ cpc' = "join"
                                 ELSE CloseSlot(job.w) /\ cpc' = "loop"
        /\ UNCHANGED <<openSeg, expansions, policyVars, result, taskVars, estimate, total,
                       stopped, workerVars>>

-----------------------------------------------------------------------------
(***************************************************************************)
(* The event loop: failures.                                               *)
(***************************************************************************)

\* Mutant of EndLoop: the channels of the workers stay open.
EndLoopKeepsChannels(res) ==
    UNCHANGED slots /\ result' = res /\ cpc' = "join" /\ job' = NoJob

\* The loop ends: every channel is closed.
EndLoop(res) == slots' = {} /\ result' = res /\ cpc' = "join" /\ job' = NoJob

\* TrueSizeLarger: the tail is appended, or the run is stopped when this was
\* done too often or the file cannot be extended.  A report that is not larger
\* any more only sends the segment back.
HandleLarger(e) ==
    /\ Handling({"larger"}) /\ e = Head(events)
    /\ events' = Tail(events)
    /\ ClearOpen(e.idx)
    /\ \/ /\ e.n > total
          /\ IF expansions >= MaxExpansions THEN UNCHANGED faults ELSE CountFault
          /\ stopped' = TRUE
          /\ segs' = SetState(segs, e.idx, "Pending")
          /\ EndLoop("error")
          /\ UNCHANGED <<nextIdx, total, fileLen, expansions>>
       \/ /\ e.n > total /\ expansions < MaxExpansions
          /\ segs' = SetState(Grow(segs, nextIdx, total, e.n), e.idx, "Pending")
          /\ nextIdx' = nextIdx + 1
          /\ total' = e.n
          /\ fileLen' = e.n
          /\ expansions' = expansions + 1
          /\ job' = Job(Upsert(segs', nextIdx), "grown", e.w, NoWork)
          /\ cpc' = "persist"
          /\ UNCHANGED <<result, slots, stopped, faults>>
       \/ /\ e.n <= total
          /\ segs' = SetState(segs, e.idx, "Pending")
          /\ job' = [NoJob EXCEPT !.w = e.w]
          /\ cpc' = "redispatch"
          /\ UNCHANGED <<nextIdx, total, fileLen, expansions, result, slots, stopped, faults>>
    /\ UNCHANGED <<policyVars, verified, taskTotal, late, astray, restarts, estimate,
                   shared, verdict, anyData, sensitive, localVars, diskVars>>

HandleNodeFailed(e) ==
    /\ Handling({"node"}) /\ e = Head(events)
    /\ events' = Tail(events)
    /\ ClearOpen(e.idx)
    /\ segs' = SetState(segs, e.idx, "Pending")
    /\ job' = [NoJob EXCEPT !.w = e.w]
    /\ cpc' = "redispatch"
    /\ UNCHANGED <<nextIdx, expansions, policyVars, result, taskVars, controlVars, shared,
                   verdict, anyData, sensitive, localVars, diskVars, faults>>

\* The worker that reported is given work: unless Range is known to work, only
\* the plain request from byte 0 is repeated.
Redispatch ==
    LET plain == verdict # "supported"
        first == NextWork(segs, FALSE)
        can == IF plain THEN Found(segs, FALSE) /\ segs[first.i].start + segs[first.i].dl = 0
               ELSE (serial => InState(segs, "Active") = {}) /\ Found(segs, ~serial)
    IN  /\ cpc = "redispatch"
        /\ IF can
           THEN /\ HandOut(NextWork(segs, ~plain /\ ~serial), job.w, "send", plain)
                /\ UNCHANGED slots
           ELSE /\ CloseSlot(job.w)
                /\ job' = NoJob
                /\ cpc' = "loop"
                /\ UNCHANGED <<segs, nextIdx>>
        /\ UNCHANGED <<openSeg, expansions, policyVars, result, taskVars, estimate, total,
                       stopped, workerVars>>

\* absorb_pending_into_open_stream, when the open stream is still running.
ToAbsorb(m, open) ==
    IF open # NoSeg /\ m[open].st = "Active" THEN Absorbable(m, open) ELSE {}
Absorb(m, open) ==
    /\ job' = Job(PersistMerge(open, MergedEnd(m, ToAbsorb(m, open)), ToAbsorb(m, open)),
                  "merged", 0, NoWork)
    /\ cpc' = "persist"

Rejection(e) ==
    \/ /\ e.kind = "refused"
       /\ \E i \in DOMAIN segs \ {e.idx} : segs[i].st \in {"Active", "Completed"}
    \/ e.kind = "norange" /\ anyData

\* The first strike halves the connections, the next leaves one at a time.
Degrade ==
    LET alive == Cardinality(slots)
    IN  /\ strikes' = Lesser(strikes + 1, 2)
        /\ IF ~serial /\ strikes = 0 /\ alive > 2
           THEN allowed' = alive \div 2 /\ UNCHANGED serial
           ELSE serial' = TRUE /\ UNCHANGED allowed

\* The segment of a refused connection waits for the others; with nobody left
\* the run fails, or falls back to a single stream when little is lost.
HandleRejection(e) ==
    /\ Handling({"refused", "norange"}) /\ e = Head(events) /\ Rejection(e)
    /\ events' = Tail(events)
    /\ ClearOpen(e.idx)
    /\ Degrade
    /\ segs' = SetState(segs, e.idx, "Pending")
    /\ IF ToAbsorb(segs', openSeg') # {}
       THEN Absorb(segs', openSeg') /\ CloseSlot(e.w) /\ UNCHANGED result
       ELSE IF slots \subseteq {e.w} /\ InState(segs', "Active") = {}
       THEN \/ EndLoop("fallback") /\ (~anyData \/ e.kind = "norange")
            \/ EndLoop("error") /\ anyData
       ELSE CloseSlot(e.w) /\ cpc' = "loop" /\ UNCHANGED <<result, job>>
    /\ UNCHANGED <<nextIdx, expansions, taskVars, estimate, total, stopped, shared,
                   verdict, anyData, sensitive, localVars, diskVars, faults>>

\* Path B: the workers are stopped.
HandleFatal(e) ==
    /\ Handling({"refused", "norange", "replaced", "broken"}) /\ e = Head(events)
    /\ ~Rejection(e)
    /\ events' = Tail(events)
    /\ ClearOpen(e.idx)
    /\ stopped' = TRUE
    /\ segs' = SetState(segs, e.idx, "Pending")
    /\ EndLoop(IF e.kind \in {"norange", "replaced"} \/ (e.kind = "refused" /\ ~anyData)
               THEN "fallback" ELSE "error")
    /\ UNCHANGED <<nextIdx, expansions, policyVars, taskVars, estimate, total, shared,
                   verdict, anyData, sensitive, localVars, diskVars, faults>>

HandleVerdict(e) ==
    /\ Handling({"supported", "unsupported"}) /\ e = Head(events)
    /\ events' = Tail(events)
    /\ verified' = (verified \/ e.kind = "supported")
    /\ sensitive' = (sensitive \/ e.kind = "unsupported")
    /\ IF e.kind = "unsupported" /\ ToAbsorb(segs, openSeg) # {}
       THEN Absorb(segs, openSeg) ELSE UNCHANGED <<job, cpc>>
    /\ UNCHANGED <<mapVars, policyVars, result, taskTotal, fileLen, late, astray,
                   restarts, controlVars, shared, verdict, anyData, localVars, diskVars, faults>>

-----------------------------------------------------------------------------
(***************************************************************************)
(* The event loop: timers.  select! is biased, so a timer fires only when  *)
(* no event was queued when the channel was polled.                        *)
(***************************************************************************)

Quiet == Looping /\ events = <<>>

ProactiveSplit ==
    LET m == Synced(segs)
    IN  /\ Quiet /\ ~serial /\ ~sensitive /\ verdict = "supported" /\ ~AllDone(segs)
        /\ IF InState(m, "Pending") = {} /\ CanSplit(m)
           THEN /\ segs' = Split(m, nextIdx, "Pending")
                /\ nextIdx' = nextIdx + 1
                /\ job' = Job(PersistSplit(segs', nextIdx, LargestActive(m)), "loop", 0, NoWork)
                /\ cpc' = "persist"
           ELSE /\ segs' = m /\ m # segs
                /\ UNCHANGED <<nextIdx, job, cpc>>
        /\ UNCHANGED <<openSeg, expansions, policyVars, result, taskVars, controlVars,
                       workerVars>>

\* The ramp timer: the poll of the channel comes before the handler's first
\* look at the workers.
RampPoll ==
    /\ RampRace /\ Quiet
    /\ cpc' = "ramp"
    /\ UNCHANGED <<mapVars, policyVars, job, result, taskVars, controlVars, workerVars>>

Gone(S) == {w \in S : wpc[w] = "gone"}

\* Slots of finished workers are closed, the allowance is adjusted: up only
\* while nothing was refused.
RampTick ==
    /\ IF RampRace THEN cpc = "ramp" ELSE Quiet
    /\ slots' = slots \ Gone(slots)
    /\ \E a \in 1 .. MaxAllowed :
          /\ a > allowed => strikes = 0 /\ ~sensitive /\ ~serial /\ verdict = "supported"
          /\ allowed' = a
    /\ cpc' = IF ~serial /\ ~AllDone(segs) /\ verdict = "supported" THEN "refill"
              ELSE IF slots' = {} /\ ~AllDone(segs) THEN "join" ELSE "loop"
    /\ UNCHANGED <<mapVars, serial, strikes, job, result, taskVars, estimate, total,
                   stopped, workerVars>>

\* Bound: a new worker takes the number of one that left nothing in the channel.
Spare == {w \in Gone(Workers) \ slots : \A k \in DOMAIN events : events[k].w # w}

\* Workers are spawned up to the allowance; without any the loop ends.
Refill ==
    LET m == Synced(segs)
        short == Cardinality(slots) < allowed
    IN  /\ cpc = "refill"
        /\ \/ /\ short /\ Spare # {} /\ Found(m, TRUE)
              /\ HandOut(NextWork(m, TRUE), Least(Spare), "spawn", FALSE)
           \/ /\ ~short \/ ~Found(m, TRUE) \/ (Spare = {} /\ slots # {})
              /\ segs' = IF short THEN m ELSE segs
              /\ cpc' = IF slots = {} /\ ~AllDone(segs) THEN "join" ELSE "loop"
              /\ UNCHANGED <<nextIdx, job>>
        /\ UNCHANGED <<openSeg, expansions, policyVars, result, taskVars, controlVars,
                       workerVars>>

\* Mutant of DrainProgress: the chunk that is being written is counted.
DrainCountsChunk(w) ==
    LET i == asg[w].idx
    IN  /\ Quiet
        /\ wpc[w] \in {"stream", "write"}
        /\ i \in DOMAIN segs \cap DOMAIN rows
        /\ segs[i].st # "Completed" /\ rows[i].start = segs[i].start
        /\ LET d == Lesser(got[w] + chunk[w].len, RowSize(rows[i]))
           IN  d > rows[i].dl /\ rows' = [rows EXCEPT ![i].dl = d]
        /\ UNCHANGED <<cpc, mapVars, policyVars, job, result, taskVars, controlVars,
                       sharedVars, localVars, written, faults>>

\* The durable watermark of a running segment is written by the coordinator;
\* it never lowers the row.
DrainProgress(w) ==
    LET i == asg[w].idx
    IN  /\ Quiet
        /\ wpc[w] \in {"stream", "write"}
        /\ i \in DOMAIN segs \cap DOMAIN rows
        /\ segs[i].st # "Completed" /\ rows[i].start = segs[i].start
        /\ LET d == Lesser(Lesser(got[w], Size(segs[i])), RowSize(rows[i]))
           IN  d > rows[i].dl /\ rows' = [rows EXCEPT ![i].dl = d]
        /\ UNCHANGED <<cpc, mapVars, policyVars, job, result, taskVars, controlVars,
                       sharedVars, localVars, written, faults>>

-----------------------------------------------------------------------------
(***************************************************************************)
(* The end of a run, and what comes between runs.                          *)
(***************************************************************************)

\* The user pauses: the token reaches the workers at once, the loop at its next
\* turn.
Pause ==
    /\ MayPause /\ ~stopped
    /\ cpc \notin {"start", "rebuild", "join", "ended"}
    /\ stopped' = TRUE
    /\ UNCHANGED <<cpc, mapVars, policyVars, job, result, taskVars, estimate, total, slots,
                   workerVars>>

HandlePause ==
    /\ cpc = "loop" /\ stopped
    /\ EndLoop("cancelled")
    /\ UNCHANGED <<mapVars, policyVars, taskVars, estimate, total, stopped, workerVars>>

Verified(m) == SumOfDl(m) >= total /\ ValidateCoverage(m, total)

\* All workers have exited.  Without an error the map is verified, and its
\* progress is written to the rows.
Join ==
    LET m == Synced(segs)
    IN  /\ cpc = "join"
        /\ Gone(Workers) = Workers
        /\ cpc' = "ended"
        /\ IF result # "none" THEN UNCHANGED <<segs, rows, result>>
           ELSE IF Verified(m)
           THEN /\ segs' = m /\ result' = "ok"
                /\ \/ rows' = [i \in DOMAIN rows |->
                                  IF i \in DOMAIN m THEN [rows[i] EXCEPT !.dl = m[i].dl]
                                                    ELSE rows[i]]
                   \/ DbFaults /\ UNCHANGED rows
           ELSE segs' = m /\ result' = "incomplete" /\ UNCHANGED rows
        /\ UNCHANGED <<nextIdx, openSeg, expansions, policyVars, job, taskVars, controlVars,
                       sharedVars, localVars, written, faults>>

\* The process dies, or the user resumes a paused or failed task, which does
\* not wait for the run before it.
Restart ==
    /\ restarts < MaxRestarts
    /\ cpc # "start"
    /\ result \notin {"ok", "fallback"}
    /\ restarts' = restarts + 1
    /\ late' = IF LateStatements /\ ~astray /\ cpc = "persist" THEN job.st ELSE late
    /\ estimate' = (estimate /\ ~verified)
    /\ cpc' = "start" /\ result' = "none" /\ job' = NoJob
    /\ segs' = <<>> /\ nextIdx' = 0 /\ openSeg' = NoSeg /\ expansions' = 0
    /\ allowed' = 1 /\ serial' = FALSE /\ strikes' = 0
    /\ stopped' = FALSE /\ slots' = {} /\ total' = taskTotal
    /\ shared' = <<>> /\ verdict' = "unknown" /\ anyData' = FALSE /\ sensitive' = FALSE
    /\ events' = <<>>
    /\ wpc' = [w \in Workers |-> "gone"] /\ asg' = [w \in Workers |-> NoWork]
    /\ got' = [w \in Workers |-> 0] /\ chunk' = [w \in Workers |-> NoChunk]
    /\ UNCHANGED <<verified, taskTotal, fileLen, astray, rows, written, faults>>

\* A statement of the run that was left behind.
LateCommit ==
    /\ late # NoStmt
    /\ rows' = Commit(rows, late)
    /\ late' = NoStmt
    /\ astray' = TRUE
    /\ UNCHANGED <<cpc, mapVars, policyVars, job, result, verified, taskTotal, fileLen,
                   restarts, controlVars, sharedVars, localVars, written, faults>>

Ended == cpc = "ended" /\ UNCHANGED vars

-----------------------------------------------------------------------------

HandleEvent ==
    /\ events # <<>>
    /\ LET e == Head(events)
       IN  \/ HandleDone(e)
           \/ HandleLarger(e)
           \/ HandleNodeFailed(e)
           \/ HandleRejection(e)
           \/ HandleFatal(e)
           \/ HandleVerdict(e)

CoordStep ==
    \/ StartFresh
    \/ Resume
    \/ Rebuild
    \/ Persist
    \/ Continue
    \/ HandleEvent
    \/ Dispatch
    \/ Redispatch
    \/ RampPoll
    \/ RampTick
    \/ Refill
    \/ HandlePause
    \/ Join

\* The coordinator's part of the state, which a worker's step leaves alone.
CoordUnchanged == UNCHANGED <<cpc, mapVars, policyVars, job, result, taskVars>>

CoordNext ==
    \/ CoordStep
    \/ ProactiveSplit
    \/ \E w \in Workers :
          \/ WorkerProgress(w) /\ CoordUnchanged
          \/ WorkerFault(w) /\ CoordUnchanged
          \/ DrainProgress(w)
    \/ Pause
    \/ Restart
    \/ LateCommit
    \/ Ended

\* The tasks of the runtime run; the server delivers what it has begun.
CoordFairness ==
    /\ WF_vars(CoordStep)
    /\ \A w \in Workers : WF_vars(WorkerProgress(w) /\ CoordUnchanged)

CoordSpec == CoordInit /\ [][CoordNext]_vars /\ CoordFairness

-----------------------------------------------------------------------------
(***************************************************************************)
(* Properties.                                                             *)
(***************************************************************************)

Running == cpc \notin {"start", "rebuild"}

\* The map is a partition of the file through every split, growth, merge and
\* cut, whatever the workers do while a change is being recorded.
Layout == Running => IsPartition(segs, total)

\* A segment the coordinator counts as complete has all its bytes in the file.
CompletedMeansWritten ==
    \A i \in InState(segs, "Completed") : Bytes(segs[i]) \subseteq written

\* A run that reports success has the whole file.
SuccessMeansWritten == result = "ok" => 0 .. total - 1 \subseteq written

\* What a row claims was downloaded is in the file, across splits, redispatches
\* and restarts, as long as every statement was executed in its turn.
RowsTrustworthy ==
    ~astray => \A i \in DOMAIN rows :
        rows[i].start .. rows[i].start + rows[i].dl - 1 \subseteq written

\* Whenever the process dies, the rows it leaves pass the check of the next run,
\* as long as every statement was executed in its turn.
RowsRecoverable ==
    astray \/ rows = <<>> \/ ValidateCoverage(Loaded, Greatest({rows[i].end : i \in DOMAIN rows}) + 1)

\* The check a resume makes of its rows accepts every layout of segments with
\* bytes that covers the file, and none that leaves a byte out or gives it to two
\* segments, whatever order of crashes, failed and late statements left the rows
\* as they are.  It does not ask that a segment has a byte.
ValidationIsExact ==
    rows # <<>> =>
        LET map == Loaded
        IN  \A n \in 1 .. MaxTotal : IF ValidateCoverage(map, n) THEN CoversOnce(map, n)
                                                                ELSE ~IsPartition(map, n)

\* Who will finish segment i: the workers that hold it, the events about it
\* and the assignment the coordinator is about to send.
Owners(i) ==
    {<<"worker", w>> : w \in {w \in Workers : asg[w].idx = i /\ wpc[w] \notin {"gone", "wait"}}}
    \cup {<<"event", k>> : k \in {k \in DOMAIN events :
              events[k].idx = i /\ events[k].kind \notin {"supported", "unsupported"}}}
    \cup (IF job.then \in {"send", "spawn"} /\ job.asg.idx = i THEN {<<"job", 0>>} ELSE {})

\* No segment is downloaded by two workers, and while the run goes on no
\* active segment is left without one.
OneOwner ==
    /\ \A i \in DOMAIN segs : Cardinality(Owners(i)) <= 1
    /\ cpc = "loop" /\ ~stopped => \A i \in InState(segs, "Active") : Owners(i) # {}

\* In serial mode no segment is started beside another.
SerialMeansAlone ==
    [][serial /\ serial' => \/ InState(segs', "Active") \subseteq InState(segs, "Active")
                            \/ InState(segs, "Active") = {} /\ Cardinality(InState(segs', "Active")) <= 1]_vars

\* Whatever is refused, lost, reported or reordered, a run ends.
RunEnds == cpc = "loop" ~> cpc = "ended"
=============================================================================
