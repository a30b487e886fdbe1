---------------------------- MODULE HlsDownload ----------------------------
(***************************************************************************)
(* An HLS download: its segments are fetched by concurrent producers and   *)
(* written by one task in the order of the playlist, which saves a mark    *)
(* after each; a later run cuts the file at the mark and goes on.  Runs    *)
(* are paused, fail, crash and are restarted, and the manager does not     *)
(* wait for a run it has cancelled before it spawns the next one.          *)
(*                                                                         *)
(* Every segment is two units long, so that a write may stop inside it.  A *)
(* unit says which playlist, segment and half it comes from.  A playlist   *)
(* is replaced by one of another media sequence.                           *)
(***************************************************************************)
EXTENDS Naturals, FiniteSets, Sequences, SequencesExt

CONSTANTS
    Count,          \* segments of the playlist
    Concurrency,    \* hls_concurrency
    DbFaults,       \* whether the mark may fail to be saved or deleted
    MaxEdition, MaxFaults, MaxCrashes, MaxRuns  \* bounds

ASSUME HlsAssumption ==
    /\ Count \in Nat \ {0} /\ Concurrency \in Nat \ {0}
    /\ DbFaults \in BOOLEAN
    /\ MaxEdition \in Nat \ {0} /\ MaxFaults \in Nat /\ MaxCrashes \in Nat
    /\ MaxRuns \in Nat \ {0}

VARIABLES
    edition,    \* the playlist the server had last
    status,     \* the status of the task's row
    mark,       \* hls_resume_<id>
    data,       \* the content of a file, named after the run that created it
    temp,       \* the file under the temporary name, 0 for none
    final,      \* the file under the final name, 0 for none
    run,        \* the runs of the task
    last,       \* the number of the last one
    overlapped, \* history: a run has begun before another had ended
    stale,      \* history: the mark is of a file that was created anew since, or
                \* the file was continued at such a mark
    late,       \* history: a write was lost after its segment had been counted
    faults, crashes     \* counters of the bounds

vars == <<edition, status, mark, data, temp, final, run, last, overlapped, stale, late,
          faults, crashes>>
fileVars == <<data, temp, final>>
historyVars == <<overlapped, stale, late>>
boundVars == <<faults, crashes>>

Runs == 1 .. MaxRuns
Segments == 1 .. Count
Half == 2

Hole == <<0, 0, 0>>
Unit(e, s, k) == <<e, s, k>>
Content(e, n) == [i \in 1 .. Half * n |-> Unit(e, (i + 1) \div 2, 2 - (i % 2))]

NoMark == [next |-> 0, bytes |-> 0, edition |-> 0]
NoRun == [st |-> "over", cancelled |-> FALSE, resume |-> FALSE, edition |-> 0,
          file |-> 0, first |-> 1, appends |-> FALSE, next |-> 1, bytes |-> 0, part |-> 0,
          air |-> <<>>, lost |-> FALSE, fetch |-> [s \in Segments |-> "gone"], why |-> "none"]

HlsInit ==
    /\ edition = 1
    /\ status = "pending"
    /\ mark = NoMark
    /\ data = [r \in Runs |-> <<>>]
    /\ temp = 0 /\ final = 0
    /\ run = [r \in Runs |-> NoRun]
    /\ last = 0
    /\ overlapped = FALSE /\ stale = FALSE /\ late = FALSE
    /\ faults = 0 /\ crashes = 0

-----------------------------------------------------------------------------
\* What a write, an append and set_len make of a content.
Padded(f, n) == [i \in 1 .. n |-> IF i <= Len(f) THEN f[i] ELSE Hole]
Put(f, pos, u) == IF pos < Len(f) THEN [f EXCEPT ![pos + 1] = u] ELSE Append(Padded(f, pos), u)

SetLen(f, n) == IF n < Len(f) THEN SubSeq(f, 1, n) ELSE Padded(f, n)

Over(r) == run[r].st = "over"
Update(r, new) == run' = [run EXCEPT ![r] = new]
Goto(r, st) == Update(r, [run[r] EXCEPT !.st = st])
End(r) == Update(r, NoRun)

\* A write of the run is still in the air although its segment is counted.
InAirCounted(r) == run[r].air # <<>> /\ run[r].air[1][2] < run[r].next

Fault == faults < MaxFaults /\ faults' = faults + 1

(***************************************************************************)
(* The manager.                                                            *)
(***************************************************************************)

\* A run is spawned; the one before it may not have ended.
Spawn(runs, resume) ==
    /\ last < MaxRuns
    /\ last' = last + 1
    /\ run' = [runs EXCEPT ![last + 1] = [NoRun EXCEPT !.st = "parse", !.resume = resume]]
    /\ overlapped' = (overlapped \/ \E r \in Runs : ~Over(r))

Start ==
    /\ status = "pending" /\ last = 0
    /\ Spawn(run, FALSE)
    /\ status' = "running"
    /\ UNCHANGED <<edition, mark, fileVars, stale, late, boundVars>>

Resume ==
    /\ status \in {"paused", "error"}
    /\ Spawn(run, TRUE)
    /\ status' = "running"
    /\ UNCHANGED <<edition, mark, fileVars, stale, late, boundVars>>

Cancelled(runs) == [r \in Runs |-> [runs[r] EXCEPT !.cancelled = TRUE]]

Pause ==
    /\ status = "running" /\ \E r \in Runs : ~Over(r)
    /\ run' = Cancelled(run)
    /\ status' = "paused"
    /\ UNCHANGED <<edition, mark, fileVars, last, historyVars, boundVars>>

\* restart_task: the run is cancelled, both files are removed, the row is
\* reset, and the task is resumed.  The mark stays.
Restart ==
    /\ status # "pending"
    /\ Spawn(Cancelled(run), TRUE)
    /\ temp' = 0 /\ final' = 0
    /\ status' = "running"
    /\ UNCHANGED <<edition, mark, data, stale, late, boundVars>>

Crash ==
    /\ crashes < MaxCrashes
    /\ crashes' = crashes + 1
    /\ \E r \in Runs : ~Over(r)
    /\ run' = [r \in Runs |-> NoRun]
    /\ status' = IF status = "running" THEN "paused" ELSE status
    /\ late' = (late \/ \E r \in Runs : InAirCounted(r))
    /\ UNCHANGED <<edition, mark, fileVars, last, overlapped, stale, faults>>

(***************************************************************************)
(* The beginning of a run.                                                 *)
(***************************************************************************)

\* The playlist is fetched and parsed, unless the run was cancelled or the
\* server fails; the server may have replaced it.
Parse(r) ==
    /\ run[r].st = "parse"
    /\ \/ /\ run[r].cancelled
          /\ End(r)
          /\ UNCHANGED <<status, faults>>
          /\ UNCHANGED edition
       \/ /\ ~run[r].cancelled
          /\ edition' \in edition .. MaxEdition
          /\ Update(r, [run[r] EXCEPT !.st = "open", !.edition = edition'])
          /\ UNCHANGED <<status, faults>>
       \/ /\ Fault
          /\ End(r)
          /\ status' = "error"
          /\ UNCHANGED edition
    /\ UNCHANGED <<mark, fileVars, last, historyVars, crashes>>

\* Mutant of MaySkip: the media sequence is not compared.
MaySkipAnyEdition(r) == mark.next > 0 /\ temp # 0 /\ data[temp] # <<>>

\* Whether a resume may skip the segments before the mark.
MaySkip(r) ==
    /\ mark.next > 0
    /\ mark.edition = run[r].edition
    /\ temp # 0 /\ data[temp] # <<>>

\* The run with its file and a producer for each segment from `next' on.
Opened(r, file, appends, next, bytes) ==
    [run[r] EXCEPT !.st = "top", !.file = file, !.appends = appends, !.first = next,
                   !.next = next, !.bytes = bytes,
                   !.fetch = [s \in Segments |-> IF s < next THEN "gone" ELSE "wait"]]

\* Mutant of Cut: the file is not cut at the mark.
CutNothing(f) == f

\* set_len of a resume, to saved_bytes.min(file_size).
Cut(f) == IF Len(f) > mark.bytes THEN SubSeq(f, 1, mark.bytes) ELSE f

\* The file is cut at the mark and opened to append, or created.
Open(r) ==
    /\ run[r].st = "open"
    /\ IF run[r].resume /\ MaySkip(r)
       THEN /\ data' = [data EXCEPT ![temp] = Cut(@)]
            /\ Update(r, Opened(r, temp, TRUE, mark.next + 1, Len(data'[temp])))
            /\ UNCHANGED <<mark, temp, stale, late>>
       ELSE /\ temp' = IF temp = 0 THEN r ELSE temp
            /\ data' = [data EXCEPT ![temp'] = <<>>]
            /\ Update(r, Opened(r, temp', FALSE, 1, 0))
            /\ mark' \in IF run[r].resume THEN {mark}
                         ELSE {NoMark} \cup (IF DbFaults THEN {mark} ELSE {})
            /\ stale' = (mark'.next > 0 /\ mark'.edition = run[r].edition)
            /\ late' = FALSE
    /\ UNCHANGED <<edition, status, final, last, overlapped, boundVars>>

(***************************************************************************)
(* The producers.  A segment waits for a permit, is fetched and decrypted  *)
(* ("busy", until its result is sent), its result is in the channel, and   *)
(* when the writer has received it the segment is held in its map.         *)
(***************************************************************************)
Having(r, states) == {s \in Segments : run[r].fetch[s] \in states}
Fetch(r, s, st) == [run[r] EXCEPT !.fetch[s] = st]
Permits(r) == Min({Concurrency, Max({1, Count - run[r].first + 1})})

\* A producer that finds the run cancelled fetches nothing.
Acquire(r, s) ==
    /\ run[r].fetch[s] = "wait"
    /\ Cardinality(Having(r, {"busy", "stopped"})) < Permits(r)
    /\ Update(r, Fetch(r, s, IF run[r].cancelled THEN "stopped" ELSE "busy"))
    /\ UNCHANGED faults

\* Mutant of ReceiverDropped: the receiver outlives the writer's loop.
ReceiverKept(r) == FALSE

ReceiverDropped(r) == run[r].st = "join"

InChannel == {"ok", "failed", "halted"}

\* What comes of a fetch is sent, when there is room, and the permit released;
\* once the receiver is gone the send fails at once.
Send(r, s) ==
    /\ run[r].fetch[s] \in {"busy", "stopped"}
    /\ \/ /\ ReceiverDropped(r)
          /\ Update(r, Fetch(r, s, "gone"))
          /\ UNCHANGED faults
       \/ /\ ~ReceiverDropped(r)
          /\ Cardinality(Having(r, InChannel)) < Permits(r)
          /\ \/ /\ run[r].fetch[s] = "busy"
                /\ \/ Update(r, Fetch(r, s, "ok")) /\ UNCHANGED faults
                   \/ Update(r, Fetch(r, s, "failed")) /\ Fault
             \/ run[r].cancelled /\ Update(r, Fetch(r, s, "halted")) /\ UNCHANGED faults

Producer(r, s) ==
    /\ Acquire(r, s) \/ Send(r, s)
    /\ UNCHANGED <<edition, status, mark, fileVars, last, historyVars, crashes>>

(***************************************************************************)
(* The writer.  A write returns once its unit is handed to the file's      *)
(* thread ("in the air"); the next one waits for it and reports its error. *)
(***************************************************************************)
Stop(r, why) == [run[r] EXCEPT !.st = "join", !.why = why]
Fail(r) == [Stop(r, "failed") EXCEPT !.cancelled = TRUE]

\* The head of the loops: all is written, or the run is cancelled, or the
\* next segment is at hand, or a result is received.
Top(r) ==
    /\ run[r].st = "top"
    /\ IF run[r].next > Count THEN Goto(r, "join")
       ELSE IF run[r].cancelled THEN Update(r, Stop(r, "cancelled"))
       ELSE Goto(r, IF run[r].fetch[run[r].next] = "held" THEN "write" ELSE "receive")
    /\ UNCHANGED <<mark, data, stale, late, faults>>

Receive(r) ==
    /\ run[r].st = "receive"
    /\ \E s \in Having(r, InChannel) :
          \/ /\ run[r].fetch[s] = "ok"
             /\ Update(r, [Fetch(r, s, "held") EXCEPT
                               !.st = IF s = run[r].next THEN "top" ELSE @])
          \/ /\ run[r].fetch[s] = "failed"
             /\ Update(r, [Fail(r) EXCEPT !.fetch[s] = "gone"])
          \/ /\ run[r].fetch[s] = "halted"
             /\ Update(r, [Stop(r, "cancelled") EXCEPT !.cancelled = TRUE, !.fetch[s] = "gone"])
    /\ UNCHANGED <<mark, data, stale, late, faults>>

\* A unit of the segment is written.  An error of the unit before makes the
\* writer cut the file at the beginning of the segment, which may fail, and
\* stop; set_len may also lengthen the file.  With the last unit the segment
\* is counted.
Write(r) ==
    /\ run[r].st = "write"
    /\ run[r].lost \/ run[r].air = <<>>
    /\ IF run[r].lost
       THEN /\ Update(r, Fail(r))
            /\ \/ /\ data' = [data EXCEPT ![run[r].file] = SetLen(@, run[r].bytes)]
                  /\ UNCHANGED faults
               \/ Fault /\ UNCHANGED data
       ELSE LET u == Unit(run[r].edition, run[r].next, run[r].part + 1)
                new == [run[r] EXCEPT !.air = <<u>>]
            IN  /\ Update(r, IF run[r].part + 1 < Half
                             THEN [new EXCEPT !.part = @ + 1]
                             ELSE [new EXCEPT !.part = 0, !.bytes = @ + Half, !.next = @ + 1,
                                              !.fetch[run[r].next] = "gone", !.st = "mark"])
                /\ UNCHANGED <<data, faults>>
    /\ UNCHANGED <<mark, stale, late>>

\* The file's thread makes the write, or fails.
Land(r) ==
    /\ run[r].air # <<>> /\ ~run[r].lost
    /\ \/ LET u == run[r].air[1]
              at == IF run[r].appends THEN Len(data[run[r].file])
                    ELSE Half * (u[2] - 1) + u[3] - 1
          IN  /\ data' = [data EXCEPT ![run[r].file] = Put(@, at, u)]
              /\ Update(r, [run[r] EXCEPT !.air = <<>>])
              /\ UNCHANGED <<late, faults>>
       \/ /\ Fault
          /\ Update(r, [run[r] EXCEPT !.lost = TRUE])
          /\ late' = (late \/ InAirCounted(r))
          /\ UNCHANGED data
    /\ UNCHANGED <<edition, status, mark, temp, final, last, overlapped, stale, crashes>>

\* The mark is saved after each segment; a failure is ignored.  A run that went
\* on from a stale mark does not make it right.
SaveMark(r) ==
    /\ run[r].st = "mark"
    /\ \/ /\ mark' = [next |-> run[r].next - 1, bytes |-> run[r].bytes,
                      edition |-> run[r].edition]
          /\ stale' = (stale /\ run[r].appends)
       \/ DbFaults /\ UNCHANGED <<mark, stale>>
    /\ Goto(r, "top")
    /\ UNCHANGED <<data, late, faults>>

Writer(r) ==
    /\ Top(r) \/ Receive(r) \/ Write(r) \/ SaveMark(r)
    /\ UNCHANGED <<edition, status, temp, final, last, overlapped, crashes>>

(***************************************************************************)
(* The end of a run.                                                       *)
(***************************************************************************)

\* The producers are joined and the file is flushed; an error of the flush
\* counts only when there was none before.  When all is well the mark is
\* deleted, which may fail.
Join(r) ==
    /\ run[r].st = "join"
    /\ Having(r, {"wait", "busy", "stopped"}) = {}
    /\ run[r].air = <<>> \/ run[r].lost
    /\ IF run[r].why = "none" /\ ~run[r].lost
       THEN /\ Goto(r, "rename")
            /\ mark' \in {NoMark} \cup (IF DbFaults THEN {mark} ELSE {})
            /\ UNCHANGED status
       ELSE /\ End(r)
            /\ status' = IF run[r].why = "cancelled" THEN status ELSE "error"
            /\ UNCHANGED mark
    /\ UNCHANGED <<temp, final>>

Rename(r) ==
    /\ run[r].st = "rename"
    /\ IF temp = 0
       THEN End(r) /\ status' = "error" /\ UNCHANGED <<temp, final>>
       ELSE Goto(r, "report") /\ final' = temp /\ temp' = 0 /\ UNCHANGED status
    /\ UNCHANGED mark

Report(r) ==
    /\ run[r].st = "report"
    /\ End(r)
    /\ status' = "done"
    /\ UNCHANGED <<mark, temp, final>>

Finish(r) ==
    /\ Join(r) \/ Rename(r) \/ Report(r)
    /\ UNCHANGED <<edition, data, last, historyVars, boundVars>>

RunStep(r) ==
    \/ Parse(r) \/ Open(r) \/ Writer(r) \/ Land(r) \/ Finish(r)

Going(r) == RunStep(r) \/ \E s \in Segments : Producer(r, s)

HlsNext ==
    \/ Start \/ Resume \/ Pause \/ Restart \/ Crash
    \/ \E r \in Runs : Going(r)

\* The runtime polls the tasks of a run that are woken; requests, writes and
\* statements end.
HlsSpec == HlsInit /\ [][HlsNext]_vars /\ \A r \in Runs : WF_vars(Going(r))

-----------------------------------------------------------------------------
\* No run overlapped another, no mark outlived its file and was resumed from,
\* and no write was lost after its segment had been counted.
Undisturbed == ~overlapped /\ ~stale /\ ~late

\* A task that is done has a file of all segments of one playlist, in order
\* and without a hole, however often it was paused, failed or crashed and was
\* resumed: the completion of run_hls_download after the resume at the mark.
DoneMeansWhole ==
    status = "done" /\ Undisturbed =>
        final # 0 /\ \E e \in 1 .. MaxEdition : data[final] = Content(e, Count)

\* The mark is a boundary of segments of the file: what is before it is
\* exactly the segments it counts, but for the write that is still in the air.
\* This is what the resume relies on when it cuts the file at the mark.
MarkIsBoundary ==
    mark.next > 0 /\ temp # 0 /\ mark.edition = edition /\ Undisturbed =>
        LET whole == Content(mark.edition, mark.next)
            inAir == \E r \in Runs : run[r].file = temp /\ run[r].air = <<Last(whole)>>
        IN  /\ mark.bytes = Len(whole)
            /\ IsPrefix(IF inAir THEN Front(whole) ELSE whole, data[temp])

\* A run ends: no producer waits forever to send to a writer that has stopped,
\* and the writer never waits for a segment whose result was not sent.
HlsRunEnds == \A r \in Runs : run[r].st = "parse" ~> Over(r)
=============================================================================
