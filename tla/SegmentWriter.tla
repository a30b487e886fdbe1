---------------------------- MODULE SegmentWriter ----------------------------
(***************************************************************************)
(* How the bytes of a multi-segment download become durable, and when the  *)
(* database is told: the write loop of do_segment, its retries, the table  *)
(* of durable watermarks the coordinator drains into the database, the     *)
(* hand-back of a failed segment and its reassignment, and restarts.       *)
(*                                                                         *)
(* The database row is what a resumed download trusts, so it must never    *)
(* run ahead of what a power loss leaves on disk (BUG-COORD-FSYNC in the   *)
(* source).  Each worker stands for the worker on one segment; the layout  *)
(* of the segments is the subject of SegmentCoordinator.                   *)
(***************************************************************************)
EXTENDS FileSyncGate

CONSTANTS
    FlushFaults,    \* whether flushing the BufWriter may fail
    DbFaults,       \* whether a database statement may fail
    MaxFails,       \* bound: network failures of one behaviour
    MaxRestarts     \* bound: process crashes and power losses

ASSUME WriterAssumption ==
    /\ FlushFaults \in BOOLEAN
    /\ DbFaults \in BOOLEAN
    /\ MaxFails \in Nat
    /\ MaxRestarts \in Nat
    /\ MaxOffset > 0

NoValue == MaxOffset + 1     \* an empty slot
NoSnap == [off |-> 0, t |-> MaxTime + 1]

VARIABLES
    pc,         \* where the worker of a segment stands in do_segment
    got,        \* seg_downloaded: bytes handed to the BufWriter
    base,       \* actual_start - seg_start of the running attempt
    durOff,     \* durable_offset
    pend,       \* pending_snap: a snapshot no sync covers yet
    table,      \* durable_progress: watermarks waiting for the coordinator
    batch,      \* the rows of the batch write under way
    row,        \* task_segments.downloaded_bytes
    shared,     \* seg_states[..].downloaded_bytes, written by the worker
    live,       \* LiveSegment.downloaded_bytes, the coordinator's view
    state,      \* LiveSegment.state
    fails,      \* network failures so far
    restarts    \* restarts so far

workerVars == <<pc, got, base, durOff, pend>>
coordVars == <<table, batch, live, state>>
vars == <<gateVars, workerVars, coordVars, row, shared, fails, restarts>>

PCs == {"stream",      \* in the write loop
        "periodic",    \* in sync_if_stale
        "aborting",    \* flushed, before the best-effort sync of an error path
        "saving",      \* before the database write of an error path
        "aborted",     \* do_segment returned a network error
        "ioerr",       \* do_segment returned a local I/O error
        "final",       \* in sync_covering, after the loop
        "complete",    \* before the database write of a finished segment
        "refused",     \* Failed was reported, the assignment is over
        "reported",    \* Done was reported
        "idle"}        \* no assignment
SegStates == {"Pending", "Active", "Completed"}

WriterTypeOK ==
    /\ GateTypeOK
    /\ pc \in [Workers -> PCs]
    /\ got \in [Workers -> Offset]
    /\ base \in [Workers -> Offset]
    /\ durOff \in [Workers -> Offset]
    /\ pend \in [Workers -> [off : Offset, t : 0 .. MaxTime + 1]]
    /\ table \in [Workers -> Offset \cup {NoValue}]
    /\ batch \in [Workers -> Offset \cup {NoValue}]
    /\ row \in [Workers -> Offset]
    /\ shared \in [Workers -> Offset]
    /\ live \in [Workers -> Offset]
    /\ state \in [Workers -> SegStates]
    /\ fails \in 0 .. MaxFails
    /\ restarts \in 0 .. MaxRestarts

NoRows == [w \in Workers |-> NoValue]

WriterInit ==
    /\ GateInit
    /\ pc = [w \in Workers |-> "stream"]
    /\ got = [w \in Workers |-> 0]
    /\ base = [w \in Workers |-> 0]
    /\ durOff = [w \in Workers |-> 0]
    /\ pend = [w \in Workers |-> NoSnap]
    /\ table = NoRows
    /\ batch = NoRows
    /\ row = [w \in Workers |-> 0]
    /\ shared = [w \in Workers |-> 0]
    /\ live = [w \in Workers |-> 0]
    /\ state = [w \in Workers |-> "Active"]
    /\ fails = 0
    /\ restarts = 0

\* What the page cache holds of w's segment, without a gap, once its BufWriter
\* is flushed.  An attempt that started past the end of it leaves a gap.
Flushed(w) ==
    IF base[w] <= cached[w] /\ got[w] >= cached[w] THEN got[w] ELSE cached[w]

\* A new attempt (one call of do_segment) starts at offset off.
StartAt(w, off) ==
    /\ pc' = [pc EXCEPT ![w] = "stream"]
    /\ got' = [got EXCEPT ![w] = off]
    /\ base' = [base EXCEPT ![w] = off]
    /\ durOff' = [durOff EXCEPT ![w] = off]
    /\ pend' = [pend EXCEPT ![w] = NoSnap]

GoTo(w, to) ==
    /\ pc' = [pc EXCEPT ![w] = to]
    /\ UNCHANGED <<got, base, durOff, pend>>

\* do_segment_with_retry returned; its locals are gone.
EndAssignment(w, to) ==
    /\ pc' = [pc EXCEPT ![w] = to]
    /\ got' = [got EXCEPT ![w] = 0]
    /\ base' = [base EXCEPT ![w] = 0]
    /\ durOff' = [durOff EXCEPT ![w] = 0]
    /\ pend' = [pend EXCEPT ![w] = NoSnap]

-----------------------------------------------------------------------------
(***************************************************************************)
(* The write loop.                                                         *)
(***************************************************************************)

\* A chunk goes to the BufWriter and the shared progress is updated at once.
Chunk(w) ==
    /\ pc[w] = "stream"
    /\ got[w] < MaxOffset
    /\ got' = [got EXCEPT ![w] = got[w] + 1]
    /\ shared' = [shared EXCEPT ![w] = got[w] + 1]
    /\ UNCHANGED <<gateVars, pc, base, durOff, pend, coordVars, row, fails, restarts>>

\* DB_SAVE_INTERVAL_SECS elapsed after a chunk: flush, take the snapshot, and
\* ask the gate for a sync.
Periodic(w) ==
    /\ pc[w] = "stream"
    /\ got[w] > base[w]
    /\ Enter(w, "stale", Flushed(w))
    /\ GoTo(w, "periodic")
    /\ UNCHANGED <<coordVars, row, shared, fails, restarts>>

\* Mutant of NewDurable: any answer of the gate is taken to cover the snapshot.
NewDurableAlways(w) == got[w]

\* The watermark after an answer: the snapshot itself when the sync started
\* after it, else the snapshot that was pending when the sync covers that one.
NewDurable(w) ==
    IF ret[w] >= snapT[w] THEN got[w]
    ELSE IF ret[w] >= pend[w].t THEN pend[w].off
    ELSE durOff[w]

PeriodicCommit(w) ==
    /\ pc[w] = "periodic"
    /\ call[w] = "ok"
    /\ Leave(w)
    /\ durOff' = [durOff EXCEPT ![w] = NewDurable(w)]
    /\ pend' = [pend EXCEPT ![w] = IF ret[w] >= snapT[w] THEN NoSnap
                                   ELSE [off |-> got[w], t |-> snapT[w]]]
    /\ table' = IF NewDurable(w) = durOff[w] THEN table
                ELSE [table EXCEPT ![w] = NewDurable(w)]
    /\ pc' = [pc EXCEPT ![w] = "stream"]
    /\ UNCHANGED <<got, base, batch, live, state, row, shared, fails, restarts>>

\* sync_if_stale / sync_covering failed: do_segment returns the error without
\* a word to the database.
GateFailed(w) ==
    /\ pc[w] \in {"periodic", "final"}
    /\ call[w] = "err"
    /\ Leave(w)
    /\ GoTo(w, "ioerr")
    /\ UNCHANGED <<coordVars, row, shared, fails, restarts>>

\* A flush fails: what the BufWriter held is lost with it.
FlushErr(w) ==
    /\ FlushFaults
    /\ pc[w] = "stream"
    /\ fails < MaxFails
    /\ fails' = fails + 1
    /\ GoTo(w, "ioerr")
    /\ UNCHANGED <<gateVars, coordVars, row, shared, restarts>>

\* Mutant of Abort: the BufWriter is dropped without a flush.
AbortUnflushed(w) ==
    /\ pc[w] = "stream"
    /\ fails < MaxFails
    /\ fails' = fails + 1
    /\ GoTo(w, "aborting")
    /\ UNCHANGED <<gateVars, coordVars, row, shared, restarts>>

\* The stream stalls or breaks: flush, then a best-effort sync of its own, then
\* the offset is written to the database.
Abort(w) ==
    /\ pc[w] = "stream"
    /\ fails < MaxFails
    /\ fails' = fails + 1
    /\ cached' = [cached EXCEPT ![w] = Flushed(w)]
    /\ GoTo(w, "aborting")
    /\ UNCHANGED <<now, durable, syncing, lastStart, call, mode, snapT, myStart,
                   covered, ret, coordVars, row, shared, restarts>>

\* Mutant of BestEffortSync: the error paths save without a sync.
BestEffortSyncSkipped(w) ==
    /\ pc[w] = "aborting"
    /\ GoTo(w, "saving")
    /\ UNCHANGED <<gateVars, coordVars, row, shared, fails, restarts>>

\* let _ = sync_data(): outside the gate, and its failure is ignored.
BestEffortSync(w) ==
    /\ pc[w] = "aborting"
    /\ \/ durable' = Larger(durable, cached)
       \/ SyncFaults /\ UNCHANGED durable
    /\ GoTo(w, "saving")
    /\ UNCHANGED <<now, cached, syncing, lastStart, call, mode, snapT, myStart,
                   covered, ret, coordVars, row, shared, fails, restarts>>

\* update_segment_progress_bounded; its result is ignored.
SaveOffset(w) ==
    \/ row' = [row EXCEPT ![w] = got[w]]
    \/ DbFaults /\ UNCHANGED row

SaveAborted(w) ==
    /\ pc[w] = "saving"
    /\ SaveOffset(w)
    /\ GoTo(w, "aborted")
    /\ UNCHANGED <<gateVars, coordVars, shared, fails, restarts>>

\* Mutant of EndOfLoop: the last sync may be answered by an older one.
EndOfLoopStale(w) ==
    /\ pc[w] = "stream"
    /\ \/ got[w] = MaxOffset /\ UNCHANGED fails
       \/ got[w] < MaxOffset /\ fails < MaxFails /\ fails' = fails + 1
    /\ Enter(w, "stale", Flushed(w))
    /\ GoTo(w, "final")
    /\ UNCHANGED <<coordVars, row, shared, restarts>>

\* The loop ended, at the boundary or because the server closed the stream.
EndOfLoop(w) ==
    /\ pc[w] = "stream"
    /\ \/ got[w] = MaxOffset /\ UNCHANGED fails
       \/ got[w] < MaxOffset /\ fails < MaxFails /\ fails' = fails + 1
    /\ Enter(w, "cover", Flushed(w))
    /\ GoTo(w, "final")
    /\ UNCHANGED <<coordVars, row, shared, restarts>>

\* Short of the boundary the segment is truncated: saved, and an error.
FinalSynced(w) ==
    /\ pc[w] = "final"
    /\ call[w] = "ok"
    /\ Leave(w)
    /\ GoTo(w, IF got[w] = MaxOffset THEN "complete" ELSE "saving")
    /\ UNCHANGED <<coordVars, row, shared, fails, restarts>>

Complete(w) ==
    /\ pc[w] = "complete"
    /\ SaveOffset(w)
    /\ EndAssignment(w, "reported")
    /\ UNCHANGED <<gateVars, coordVars, shared, fails, restarts>>

-----------------------------------------------------------------------------
(***************************************************************************)
(* do_segment_with_retry and the coordinator.                              *)
(***************************************************************************)

\* The retry reads its start from the database; when that fails it starts
\* where the last attempt did.  A full row means the segment is done.
Retry(w) ==
    /\ pc[w] \in {"aborted", "ioerr"}
    /\ \/ row[w] < MaxOffset /\ StartAt(w, row[w])
       \/ row[w] = MaxOffset /\ EndAssignment(w, "reported")
       \/ DbFaults /\ StartAt(w, base[w])
    /\ UNCHANGED <<gateVars, coordVars, row, shared, fails, restarts>>

\* The request of an attempt is refused before its body (403, 429, a larger
\* total), or a pinned node used up its retries: Failed is reported and the
\* coordinator takes the segment back.
HandBack(w) ==
    /\ \/ pc[w] = "stream" /\ got[w] = base[w] /\ fails < MaxFails /\ fails' = fails + 1
       \/ pc[w] = "aborted" /\ UNCHANGED fails
    /\ EndAssignment(w, "refused")
    /\ UNCHANGED <<gateVars, coordVars, row, shared, restarts>>

\* WorkerEvent::Failed: the segment is Pending, its progress as last seen.
HandleFailed(w) ==
    /\ pc[w] = "refused"
    /\ state' = [state EXCEPT ![w] = "Pending"]
    /\ GoTo(w, "idle")
    /\ UNCHANGED <<gateVars, table, batch, live, row, shared, fails, restarts>>

\* find_next_work takes the Pending segment: persist_segment_change upserts its
\* row with the coordinator's progress, and the assignment starts there.
Redispatch(w) ==
    /\ state[w] = "Pending"
    /\ state' = [state EXCEPT ![w] = "Active"]
    /\ \/ row' = [row EXCEPT ![w] = live[w]]
       \/ DbFaults /\ UNCHANGED row
    /\ IF live[w] < MaxOffset THEN StartAt(w, live[w])
                              ELSE EndAssignment(w, "reported")
    /\ UNCHANGED <<gateVars, table, batch, live, shared, fails, restarts>>

HandleDone(w) ==
    /\ pc[w] = "reported"
    /\ state' = [state EXCEPT ![w] = "Completed"]
    /\ live' = [live EXCEPT ![w] = MaxOffset]
    /\ GoTo(w, "idle")
    /\ UNCHANGED <<gateVars, table, batch, row, shared, fails, restarts>>

\* sync_downloaded_from_shared, before a split is computed.
SyncFromShared ==
    /\ live' = [w \in Workers |-> IF state[w] = "Active" THEN shared[w] ELSE live[w]]
    /\ live' # live
    /\ UNCHANGED <<gateVars, workerVars, table, batch, state, row, shared, fails, restarts>>

\* take_durable_progress_rows: the table is emptied, rows of completed
\* segments are dropped.
TakeBatch ==
    /\ table # NoRows
    /\ batch = NoRows
    /\ batch' = [w \in Workers |-> IF state[w] = "Completed" THEN NoValue ELSE table[w]]
    /\ table' = NoRows
    /\ UNCHANGED <<gateVars, workerVars, live, state, row, shared, fails, restarts>>

\* Mutant of BatchRow: a row of the batch always wins.
BatchRowOverwrites(w) == IF batch[w] = NoValue THEN row[w] ELSE batch[w]

\* update_segments_progress_batch never lowers a row.
BatchRow(w) ==
    IF batch[w] = NoValue \/ row[w] > batch[w] THEN row[w] ELSE batch[w]

WriteBatch ==
    /\ batch # NoRows
    /\ \/ row' = [w \in Workers |-> BatchRow(w)]
       \/ DbFaults /\ UNCHANGED row
    /\ batch' = NoRows
    /\ UNCHANGED <<gateVars, workerVars, table, live, state, shared, fails, restarts>>

-----------------------------------------------------------------------------
(***************************************************************************)
(* The process dies, and with it the page cache when the power fails; the  *)
(* next run of the download starts every segment where its row says.       *)
(***************************************************************************)
Restart(powerLoss) ==
    /\ restarts < MaxRestarts
    /\ restarts' = restarts + 1
    /\ cached' = IF powerLoss THEN durable ELSE cached
    /\ syncing' = FALSE
    /\ lastStart' = 0
    /\ call' = [w \in Workers |-> "idle"]
    /\ mode' = [w \in Workers |-> "stale"]
    /\ snapT' = [w \in Workers |-> 0]
    /\ myStart' = [w \in Workers |-> 0]
    /\ covered' = [w \in Workers |-> [x \in Workers |-> 0]]
    /\ ret' = [w \in Workers |-> 0]
    /\ state' = [w \in Workers |-> IF row[w] = MaxOffset THEN "Completed" ELSE "Active"]
    /\ pc' = [w \in Workers |-> IF row[w] = MaxOffset THEN "idle" ELSE "stream"]
    /\ got' = [w \in Workers |-> IF row[w] = MaxOffset THEN 0 ELSE row[w]]
    /\ base' = got'
    /\ durOff' = got'
    /\ shared' = row
    /\ live' = row
    /\ pend' = [w \in Workers |-> NoSnap]
    /\ table' = NoRows
    /\ batch' = NoRows
    /\ UNCHANGED <<now, durable, row, fails>>

\* Every segment is complete, or the clock's bound stops the download.
Finished ==
    /\ now = MaxTime \/ \A w \in Workers : state[w] = "Completed"
    /\ UNCHANGED vars

GateAlone(w) ==
    /\ GateStep(w)
    /\ UNCHANGED <<workerVars, coordVars, row, shared, fails, restarts>>

WriterTick == Tick /\ UNCHANGED <<workerVars, coordVars, row, shared, fails, restarts>>

WorkerStep(w) ==
    \/ Chunk(w)
    \/ Periodic(w)
    \/ PeriodicCommit(w)
    \/ GateFailed(w)
    \/ FlushErr(w)
    \/ Abort(w)
    \/ BestEffortSync(w)
    \/ SaveAborted(w)
    \/ EndOfLoop(w)
    \/ FinalSynced(w)
    \/ Complete(w)
    \/ Retry(w)
    \/ HandBack(w)

CoordStep ==
    \/ \E w \in Workers : HandleFailed(w) \/ Redispatch(w) \/ HandleDone(w)
    \/ SyncFromShared
    \/ TakeBatch
    \/ WriteBatch

WriterNext ==
    \/ \E w \in Workers : WorkerStep(w) \/ GateAlone(w)
    \/ CoordStep
    \/ WriterTick
    \/ \E powerLoss \in BOOLEAN : Restart(powerLoss)
    \/ Finished

\* The steps of a call to the gate are taken; the rest may stop anywhere.
WriterFairness == \A w \in Workers : WF_vars(GateAlone(w))

WriterSpec == WriterInit /\ [][WriterNext]_vars /\ WriterFairness

-----------------------------------------------------------------------------
(***************************************************************************)
(* Properties.                                                             *)
(***************************************************************************)

\* The row a resume trusts never exceeds what survives a power loss, over
\* periodic saves, error paths, hand-backs, batches and restarts.
DbNotAheadOfDisk == \A w \in Workers : row[w] <= durable[w]

\* The watermarks on their way to the database are durable even when some
\* fdatasyncs fail.
WatermarksAreDurable ==
    \A w \in Workers :
        /\ table[w] # NoValue => table[w] <= durable[w]
        /\ batch[w] # NoValue => batch[w] <= durable[w]

\* An attempt starts inside the part of the segment that was written: no byte
\* before it is skipped.
NoSkippedBytes ==
    \A w \in Workers : pc[w] = "stream" => base[w] <= cached[w]

\* A segment the coordinator counts as complete is durable to its last byte.
CompletedIsDurable ==
    \A w \in Workers : state[w] = "Completed" => durable[w] = MaxOffset

\* While statements and syncs succeed the whole write path, its error exits,
\* retries, hand-backs, batches and restarts included, is an implementation of
\* DurableProgress: only a hand-over lowers a row, a row grows over durable
\* bytes alone, and a segment once reported complete stays so through a crash.
Durable ==
    INSTANCE DurableProgress WITH
        Segments <- Workers, Length <- MaxOffset,
        disk <- durable, saved <- row,
        finished <- {w \in Workers : state[w] = "Completed"}

ImplementsDurableProgress == Durable!ProgressSpec
=============================================================================
