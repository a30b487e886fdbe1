--------------------------- MODULE SegmentWorkers ---------------------------
(***************************************************************************)
(* The workers of a multi-segment download (spawn_worker,                  *)
(* do_segment_with_retry and do_segment in segment_coordinator.rs) and     *)
(* what they share with the coordinator: the segment states, the verdict   *)
(* on Range, the event channel, the database rows and the file.            *)
(*                                                                         *)
(* Offsets are counted in units of the least splittable size.  A write     *)
(* reaches the file as soon as it is made; durability is the subject of    *)
(* SegmentWriter.                                                          *)
(***************************************************************************)
EXTENDS SegmentMap, Sequences

CONSTANTS
    Workers,        \* worker slots, 1 .. N
    MaxTotal,       \* bound: the largest size a server reports
    MaxChunk,       \* the largest chunk a stream delivers at once
    Drift,          \* CDN drift tolerance on the size, for a probed total
    Pinned,         \* whether a lease may be pinned to one CDN node
    DbFaults,       \* whether a database statement may fail
    MaxFaults       \* bound: network faults, refusals and size reports

ASSUME WorkersAssumption ==
    /\ Workers \subseteq Nat
    /\ MaxTotal \in Nat \ {0}
    /\ MaxChunk \in Nat \ {0}
    /\ Drift \in Nat
    /\ Pinned \in BOOLEAN
    /\ DbFaults \in BOOLEAN
    /\ MaxFaults \in Nat

VARIABLES
    estimate,   \* size_is_estimate
    total,      \* planned_total
    shared,     \* seg_states: index -> [end, dl]
    verdict,    \* range_verdict
    anyData,    \* total_downloaded > 0
    sensitive,  \* conn_sensitive
    events,     \* the event channel
    stopped,    \* worker_cancel
    slots,      \* the workers whose assignment channel is open
    wpc,        \* where a worker stands
    asg,        \* its WorkerAssignment; retries move from and end
    got,        \* seg_downloaded
    chunk,      \* the chunk being written: its length, cut at the boundary?
    rows,       \* task_segments: index -> [start, end, dl]
    written,    \* the bytes the file holds
    faults      \* faults so far

sharedVars == <<shared, verdict, anyData, sensitive, events>>
diskVars == <<rows, written>>
localVars == <<wpc, asg, got, chunk>>
controlVars == <<estimate, total, stopped, slots>>

WorkerPCs == {"gone",       \* no task
              "assigned",   \* an assignment is in the channel
              "request",    \* about to send a request
              "answered",   \* its response decided on Range
              "ignored",    \* its response decided on Range by ignoring it
              "stream",     \* in the write loop
              "write",      \* a chunk is cut to its budget, not yet written
              "finish",     \* at the boundary
              "retry",      \* the attempt failed, RangeNotSupported apart
              "rangeRetry", \* the attempt failed with RangeNotSupported
              "wait"}       \* an event was sent, waiting for an assignment
NoWork == [idx |-> 0, start |-> 0, from |-> 0, end |-> 0, open |-> FALSE, plain |-> FALSE]
NoChunk == [len |-> 0, cut |-> FALSE]

Event(kind, w, i, n) == [kind |-> kind, w |-> w, idx |-> i, n |-> n]
Send(e) == events' = Append(events, e)

Pos(w) == asg[w].start + got[w]
Goto(w, to) == wpc' = [wpc EXCEPT ![w] = to]
SharedEnd(w) ==
    IF asg[w].idx \in DOMAIN shared THEN shared[asg[w].idx].end ELSE asg[w].end
Publish(w, d) ==    \* update_seg_state
    shared' = IF asg[w].idx \in DOMAIN shared
              THEN [shared EXCEPT ![asg[w].idx].dl = d] ELSE shared

\* The assignment is over: the event e goes to the coordinator.
Report(w, e, next) ==
    /\ Send(e)
    /\ wpc' = [wpc EXCEPT ![w] = next]
    /\ asg' = [asg EXCEPT ![w] = NoWork]
    /\ got' = [got EXCEPT ![w] = 0]
    /\ chunk' = [chunk EXCEPT ![w] = NoChunk]

ReportDone(w, d) == Report(w, Event("done", w, asg[w].idx, d), "wait")

\* A worker on a pinned lease turns what can be blamed on the node into
\* CdnNodeFailed; only that and TrueSizeLarger keep the worker.
ReportFailed(w, kind, n) ==
    \/ Report(w, Event(kind, w, asg[w].idx, n), IF kind = "larger" THEN "wait" ELSE "gone")
    \/ /\ Pinned /\ kind \in {"refused", "replaced", "broken"}
       /\ Report(w, Event("node", w, asg[w].idx, 0), "wait")

\* update_segment_progress_bounded: start_byte has to match, and the length of
\* the row caps the value.  Its result is ignored.
RowSize(r) == r.end - r.start + 1
SaveRow(w, d) ==
    LET i == asg[w].idx
    IN  \/ rows' = IF i \in DOMAIN rows /\ rows[i].start = asg[w].start
                   THEN [rows EXCEPT ![i].dl = Lesser(d, RowSize(rows[i]))] ELSE rows
        \/ DbFaults /\ UNCHANGED rows

CountFault == faults < MaxFaults /\ faults' = faults + 1

-----------------------------------------------------------------------------
(***************************************************************************)
(* The request.                                                            *)
(***************************************************************************)

Receive(w) ==
    /\ wpc[w] = "assigned"
    /\ IF stopped THEN Goto(w, "gone") ELSE Goto(w, "request")
    /\ UNCHANGED <<controlVars, sharedVars, asg, got, chunk, diskVars, faults>>

AlreadyComplete(w) ==
    /\ wpc[w] = "request"
    /\ asg[w].from > asg[w].end
    /\ ReportDone(w, asg[w].end - asg[w].start + 1)
    /\ UNCHANGED <<controlVars, shared, verdict, anyData, sensitive, diskVars, faults>>

FromZero(w) == asg[w].open /\ asg[w].from = 0
Tolerance == IF estimate THEN 0 ELSE Drift

Requesting(w) == wpc[w] = "request" /\ asg[w].from <= asg[w].end

\* Connection errors and error statuses, before the verdict is looked at.
RequestFails(w) ==
    /\ Requesting(w)
    /\ CountFault
    /\ \/ ReportFailed(w, "refused", 0)
       \/ Goto(w, "retry") /\ UNCHANGED <<events, asg, got, chunk>>
    /\ UNCHANGED <<controlVars, shared, verdict, anyData, sensitive, diskVars>>

\* The first response of a hint task decides on Range, once: a 206 proves it, a
\* 200 only by its Accept-Ranges header.  The coordinator is told before the
\* response is looked at further.
Rule(w, v) ==
    /\ Requesting(w)
    /\ verdict = "unknown"
    /\ verdict' = v
    /\ Send(Event(v, w, 0, 0))
    /\ IF v = "unsupported" /\ ~FromZero(w)
       THEN Goto(w, "ignored") /\ CountFault
       ELSE Goto(w, "answered") /\ UNCHANGED faults
    /\ UNCHANGED <<controlVars, shared, anyData, sensitive, asg, got, chunk, diskVars>>

Answered(w) == wpc[w] = "answered" \/ (Requesting(w) /\ verdict # "unknown")

\* A 206 at the requested start, or the whole file asked for from byte 0.
Accepted(w) ==
    /\ Answered(w)
    /\ Goto(w, "stream")
    /\ got' = [got EXCEPT ![w] = asg[w].from - asg[w].start]
    /\ UNCHANGED <<controlVars, sharedVars, asg, chunk, diskVars, faults>>

\* The whole file in answer to a range: an error to retry once Range has
\* delivered a byte, the end of the worker before.
RangeIgnored(w) ==
    /\ \/ wpc[w] = "ignored" /\ UNCHANGED faults
       \/ Answered(w) /\ ~FromZero(w) /\ CountFault
    /\ sensitive' = TRUE
    /\ IF anyData THEN Goto(w, "rangeRetry") /\ UNCHANGED <<events, asg, got, chunk>>
                  ELSE ReportFailed(w, "norange", 0)
    /\ UNCHANGED <<controlVars, shared, verdict, anyData, diskVars>>

\* A validator that no longer matches, or a range that starts elsewhere.
Replaced(w) ==
    /\ Answered(w)
    /\ CountFault
    /\ ReportFailed(w, "replaced", 0)
    /\ UNCHANGED <<controlVars, shared, verdict, anyData, sensitive, diskVars>>

\* The size the server reports is larger than planned.
TrueSizeLarger(w, n) ==
    /\ Answered(w)
    /\ n > total + Tolerance
    /\ CountFault
    /\ ReportFailed(w, "larger", n)
    /\ UNCHANGED <<controlVars, shared, verdict, anyData, sensitive, diskVars>>

-----------------------------------------------------------------------------
(***************************************************************************)
(* The write loop and its exits.                                           *)
(***************************************************************************)

\* What the response still holds: an open stream runs to the end of the file.
BodyLeft(w) == (IF FromZero(w) THEN total - 1 ELSE asg[w].end) - Pos(w) + 1

\* What may still be written before the shared boundary.
Budget(w) ==
    IF SharedEnd(w) >= Pos(w) THEN SharedEnd(w) - Pos(w) + 1 ELSE 0

\* A chunk arrives: it is cut to the budget, read before the limiter and the
\* write are awaited.
Read(w) ==
    /\ wpc[w] = "stream"
    /\ \E n \in 1 .. Lesser(MaxChunk, BodyLeft(w)) :
          LET len == Lesser(n, Budget(w))
          IN  IF len = 0
              THEN Goto(w, "finish") /\ UNCHANGED chunk
              ELSE /\ Goto(w, "write")
                   /\ chunk' = [chunk EXCEPT ![w] = [len |-> len, cut |-> len < n]]
    /\ UNCHANGED <<controlVars, sharedVars, asg, got, diskVars, faults>>

Write(w) ==
    /\ wpc[w] = "write"
    /\ written' = written \cup Pos(w) .. Pos(w) + chunk[w].len - 1
    /\ got' = [got EXCEPT ![w] = @ + chunk[w].len]
    /\ Publish(w, got[w] + chunk[w].len)
    /\ anyData' = TRUE
    /\ Goto(w, IF chunk[w].cut THEN "finish" ELSE "stream")
    /\ chunk' = [chunk EXCEPT ![w] = NoChunk]
    /\ UNCHANGED <<controlVars, verdict, sensitive, events, asg, rows, faults>>

\* Mutant of StreamEnds: the end of the stream is taken for the boundary.
StreamEndsTrusted(w) ==
    /\ wpc[w] = "stream"
    /\ IF BodyLeft(w) > 0 THEN CountFault ELSE UNCHANGED faults
    /\ Goto(w, "finish")
    /\ UNCHANGED <<rows, controlVars, sharedVars, asg, got, chunk, written>>

\* The stream ends, of itself or early.  The boundary is read once more: short
\* of it, the progress is saved and the attempt failed.
StreamEnds(w) ==
    /\ wpc[w] = "stream"
    /\ IF BodyLeft(w) > 0 THEN CountFault ELSE UNCHANGED faults
    /\ IF Pos(w) <= SharedEnd(w) THEN SaveRow(w, got[w]) /\ Goto(w, "retry")
                                 ELSE UNCHANGED rows /\ Goto(w, "finish")
    /\ UNCHANGED <<controlVars, sharedVars, asg, got, chunk, written>>

\* A stall or a broken stream: the progress is saved.
StreamBreaks(w) ==
    /\ wpc[w] = "stream"
    /\ CountFault
    /\ SaveRow(w, got[w])
    /\ Goto(w, "retry")
    /\ UNCHANGED <<controlVars, sharedVars, asg, got, chunk, written>>

FinishSegment(w) ==
    /\ wpc[w] = "finish"
    /\ SaveRow(w, got[w])
    /\ ReportDone(w, got[w])
    /\ UNCHANGED <<controlVars, shared, verdict, anyData, sensitive, written, faults>>

\* The plain stream of a server without Range is not resumed with a range.
\* actual_start is that of the attempt that failed.
NotResumable(w) ==
    asg[w].plain /\ asg[w].from > asg[w].start /\ verdict = "unsupported"

GiveUp(w) ==
    /\ wpc[w] \in {"retry", "rangeRetry"}
    /\ IF wpc[w] = "rangeRetry" THEN ReportFailed(w, "norange", 0)
                                ELSE ReportFailed(w, "broken", 0)
    /\ UNCHANGED <<controlVars, shared, verdict, anyData, sensitive, diskVars, faults>>

\* The next attempt starts where the row says, with the boundary of the row.
Retry(w) ==
    LET i == asg[w].idx
        row == rows[i]
    IN  /\ wpc[w] \in {"retry", "rangeRetry"}
        /\ ~NotResumable(w)
        /\ \/ /\ i \in DOMAIN rows
              /\ IF asg[w].start + row.dl > row.end
                 THEN ReportDone(w, row.dl)
                 ELSE /\ asg' = [asg EXCEPT ![w].end = row.end,
                                            ![w].from = asg[w].start + row.dl]
                      /\ got' = [got EXCEPT ![w] = 0]
                      /\ Goto(w, "request")
                      /\ UNCHANGED <<chunk, events>>
           \/ /\ i \notin DOMAIN rows \/ DbFaults
              /\ got' = [got EXCEPT ![w] = 0]
              /\ Goto(w, "request")
              /\ UNCHANGED <<asg, chunk, events>>
        /\ UNCHANGED <<controlVars, shared, verdict, anyData, sensitive, diskVars, faults>>

\* worker_cancel: a stream saves its progress; nothing is reported.
Cancelled(w) ==
    /\ stopped
    /\ wpc[w] \in {"request", "stream", "retry", "rangeRetry"}
    /\ IF wpc[w] = "stream" THEN SaveRow(w, got[w]) ELSE UNCHANGED rows
    /\ Goto(w, "gone")
    /\ asg' = [asg EXCEPT ![w] = NoWork]
    /\ got' = [got EXCEPT ![w] = 0]
    /\ UNCHANGED <<controlVars, sharedVars, chunk, written, faults>>

\* The channel was closed.
Retire(w) ==
    /\ wpc[w] = "wait"
    /\ w \notin slots
    /\ Goto(w, "gone")
    /\ UNCHANGED <<controlVars, sharedVars, asg, got, chunk, diskVars, faults>>

\* The steps a worker takes by itself, and the faults it may meet.
WorkerProgress(w) ==
    \/ Receive(w)
    \/ AlreadyComplete(w)
    \/ \E v \in {"supported", "unsupported"} : Rule(w, v)
    \/ Accepted(w)
    \/ Read(w)
    \/ Write(w)
    \/ StreamEnds(w)
    \/ FinishSegment(w)
    \/ Retry(w)
    \/ GiveUp(w)
    \/ Cancelled(w)
    \/ Retire(w)

WorkerFault(w) ==
    \/ RequestFails(w)
    \/ RangeIgnored(w)
    \/ Replaced(w)
    \/ \E n \in 1 .. MaxTotal : TrueSizeLarger(w, n)
    \/ StreamBreaks(w)
=============================================================================
