# LDownload: specification, model checking and proofs

LDownload is a multi-protocol download manager: a Rust engine
(`src/native/engine`), hosts around it (`hub` for the Flutter app, `server` for
headless use, `api`, `cli`), and user interfaces.  What decides whether a user
gets the right bytes is the multi-segment HTTP path: a coordinator, its workers,
the file they share, and the database that lets a later run go on where a
crashed one stopped.  Around it stand the manager that queues, starts and stops
downloads, the policy for the number of connections, the choice of the edge that
serves a request, the HLS downloader with a resume of its own, and the pairing of
two devices.  Those are what this directory specifies.

Paths below without a directory are in `src/native/engine/src/`.

## Inventory

| Component | State | Operations | Talks to | Hard behaviour | Correct when |
|---|---|---|---|---|---|
| fdatasync gate (`FileSyncGate`, `segment_coordinator.rs` 825–980) | syncing flag, start of the last completed sync | `sync_if_stale`, `sync_covering` | workers (calls), file | coalesced syncs, lost `Notify`, failing syncs | an answer at or after a snapshot means that snapshot is on disk; every call returns |
| write path (`do_segment`, `do_segment_with_retry` 4155–5043; segment statements of `db.rs`) | BufWriter, counters, pending snapshot, watermark table, rows | chunk, periodic save, error exit, completion, retry, hand-back, batch write | gate, database, coordinator | power loss, failing flush, sync or statement, batches out of date | a row never exceeds what the disk holds; no byte is skipped |
| segment map (3284–3812) | index → start, end, progress, state | fresh, split, proactive split, shortfall, growth, merge, `validate_coverage` | coordinator only | changed while workers write with the old bounds | always a partition of the file |
| workers (`spawn_worker` 3980–4142) | assignment, attempt, counters | request, verdict on Range, read, write, retry, report | coordinator (events, assignments, shared bounds), rows | a bound read before an await; streams that end early, larger than planned, or replaced | Done only for written bytes |
| coordinator (`run_coordinated_download` 1257–3143) | map, allowance, serial mode, strikes, open stream, verdict, events | start, resume, rebuild, one handler per event, timers, end | workers, database, download manager (token) | each handler awaits the database between its map and what workers see; biased `select!`; degradation | success means the whole file; every run ends; one worker per segment; rows recoverable |
| ramp controller (531–727, 2601–3012) | allowance, freezes, probes | verdict, grow, shrink, freeze, soft probe | coordinator, domain policy | oscillation, stale samples, leftovers of a shrink | allowance within its cap, probes never add up, a hard freeze is final |
| domain connection policy (64–397) | cap, hint, timestamps per host | record, read, persist, load | coordinators, database | two faces expire separately; snapshots written by tasks nobody waits for | a start respects every live refusal |
| task lifecycle (`download_manager.rs`) | active tasks with generations, queue, retries, reserved names, boost | create, start, pause, resume, cancel, restart, delete, boost, limits, done | all downloaders, database, hosts | stale `TaskDone`, a delete that waits, chains of handlers, names and reservations | one live entry per run, limits respected, no idle slot, reservations exact |
| HTTP downloader (`downloader.rs`) | validator latch, mode, row of the task | probe, start, segments, single stream, fall back, resume, restart | coordinator, manager, pool | the file is replaced at some edge at some time | a finished file is of one version |
| CDN node pool (`cdn/`) | slots, leases, kicks, breaker | lease, report, kick, switch | workers | leases that outlive their slot, kicks after a switch | outstanding counts right, a host is marked only for failures |
| automatic proxy (`auto_proxy.rs`) | decisions per host | sample, adopt | pool | a sample of another version | requests after the switch go through the proxy |
| HLS downloader (`hls_downloader.rs`) | playlist, producers, channel, file, mark | parse, fetch, write, save the mark, cut, resume | manager | runs that overlap, a playlist replaced, tokio's write-behind | a finished file is whole, the mark is a boundary |
| device link (`link/`) | codes, sessions, tokens, peers | generate, hello, confirm, decide, prune, restart | the other device | timeouts against late confirmations, lost replies | a pairing needs both users; both sides keep one secret |
| speed limiter (`speed_limiter.rs`) | tokens, limit | consume, refill, set limit | all streams | lost notification, limit changes | no over-spend, no starvation |
| database (`db.rs`) | SQLite rows | statements and transactions | all | failures ignored by callers | as used above |
| route health | samples | record, choose | downloaders | stale health | — |
| webhooks, RSS | endpoints, feeds, seen items | deliver with retries, refresh | manager | repeated delivery, repeated items | — |
| BitTorrent, eD2k, FTP, DASH, streams | per protocol | download | manager | wire protocols | — |
| plugins, hub, API, CLI, server, updater, UIs | — | forwarding, presentation | engine | — | — |

`PROJECT.json` lists every component with its status, and under `hazards` the
places in the code where something can go wrong that a test hardly reaches, each
with the properties that would notice.

## Modules

| Module | Models | Proved about |
|---|---|---|
| `FileSyncGate` | the gate, one action per step between two awaits | `SegmentWriter_proofs` |
| `DurableProgress` | abstract: what the write path promises of saved progress | implemented by `SegmentWriter` |
| `SegmentWriter` (extends `FileSyncGate`) | what each segment's bytes go through from stream to disk and row; the gate's callers are the actual ones | `SegmentWriter_proofs` |
| `SegmentMap` | the map's operations as operators on functions | `SegmentCoordinator_proofs` |
| `SegmentWorkers` (extends `SegmentMap`) | workers, their requests and reports | — |
| `SegmentCoordinator` (extends `SegmentWorkers`) | the event loop, start, resume, restarts; composes map and workers | `SegmentCoordinator_proofs`, `SegmentBytes_proofs` |
| `ConnPolicy`, `RampController` (extends it) | the record of a host; the number of connections of a download of that host | `RampController_proofs` |
| `TaskLifecycle` | the manager's handlers and the runs it spawns | `TaskLifecycle_proofs` |
| `NodePool`, `HttpDownload` (extends it) | leases and kicks; which version every byte of a download comes from | `HttpDownload_proofs` |
| `HlsDownload` | the runs of an HLS task on their shared file and mark | `HlsDownload_proofs` |
| `LinkPairing` | both sides of the pairing of devices | `LinkPairing_proofs` |
| `MC…` | instances for TLC and their symmetry sets | |

### How the models correspond to the code

*Gate.*  `Decide` is the critical section under the gate's mutex, `BeginSync` the
reading of `start`, `SyncOk`/`SyncErr` the end of `sync_data` and the publication
of its start, `Arm`/`WaitTimeout` the registration with `Notify` and its bounded
wait.  `Arm` is separate from `Decide`, so that a notification sent between the
two is lost, as in the code.  `covered[w]` is what was in the page cache when
`w`'s sync began: only that becomes durable.

*Writer.*  `pc[w]` names the point of `do_segment` that segment `w` has reached.
`Chunk` advances `seg_downloaded` and the shared counter before the bytes leave
the BufWriter; `Periodic`, `PeriodicCommit` are the periodic save with its
snapshot, its pending snapshot (`pend`) and the watermark (`table`); `Abort`,
`BestEffortSync`, `SaveAborted` the stall, error and cancel exits; `EndOfLoop`,
`FinalSynced`, `Complete` the normal end; `Retry`, `HandBack`, `HandleFailed`,
`Redispatch` the three ways on from a failure; `TakeBatch`, `WriteBatch` the
coordinator's flush of the watermarks; `Restart(powerLoss)` what a later run finds.
`DurableProgress` knows none of this: `Fill`, `Save`, `HandOver` and `Finish` over
the bytes on disk, the saved progress and the finished segments.

*Coordinator.*  Each handler of the event loop is one action up to its first
await, and the awaited database statement is `Persist`; `Continue` is what
follows: publication to the workers (`rebuild_seg_states`), the assignment, the
next decision.  Between them the workers go on with the old bounds.  `Dispatch`
is the search for work after a Done, `Redispatch` the one after a larger size or
a node failure; `HandleRejection` and `Degrade` the strikes; `HandleFatal` the
end with cancelled workers; `HandleVerdict` the Range ruling; `RampPoll`,
`RampTick`, `Refill` the ramp timer; `ProactiveSplit` the idle split;
`DrainProgress` the watermark flush; `Join` the end of the run with its
verification.  `Resume`, `Rebuild`, `Launch` are the start on existing rows:
drift tolerance, coverage check, deletion and insertion as separate statements,
file check, first assignments.

*Ramp.*  `run` is the record of the control variables of one download, `policy`
the host's entry of `DOMAIN_CONN_CAPS`, `snapshots` the entries that tasks nobody
waits for have written: any may be the one in the table.  `Tick` is one turn of
the ramp timer in the code's order: observation (`Observed`), judgement of a
growth or a probe (`JudgeGrowth`, `JudgeProbe`), shrinking (`Shrunk`), growth
(`Expanded`, `Grown`) and the refill (`Topped`).  `Refused` is the refusal handler
with its halving, `RefusedElsewhere` and `HintedElsewhere` what other downloads do
to the record, `Restart` a new process that loads some snapshot (`Merged`).

*Lifecycle.*  The manager is owned by an actor: a handler is a step, and handlers
that call each other are operators from one record `m` (the manager's memory, the
rows, the runs) to the next.  `delete_task` waits for the run it cancels, so it is
two steps (`DeleteTask`, `FinishDelete`) with everything else in between.  A run
goes through `Reserve`, `Open`, `Check`, `Announce`, `Notice`, `Succeed`/`Fail` by
itself; `OnTaskDone` compares its generation with the entry.

*HTTP.*  `served[e]` is the version edge `e` serves; a validator is the version it
stands for.  `Answer` and `Receive` are a reply and the rest of its body, `Judge`
the comparison of validators with If-Range and the latch, `Reclaim` the return of a
lease with its blame, `FallBack` and `VersionChanged` the loss of progress, `Single`
mode the one stream with its own resume, `Sample` and `Adopt` the automatic proxy.

*HLS.*  A run is a record with its place (`Parse`, `Open`, `Acquire`, `Send`,
`Receive`, `Write`, `SaveMark`, `Join`, `Rename`, `Report`); its file is found by
the handle it opened, so that a run that was cancelled but has not noticed still
writes the old one.  `air` is the write that tokio's file has taken and not
finished: `Land` completes or loses it, after the caller has gone on.

*Link.*  The handler of a hello (`HandleHello`) consumes the code; the handler of a
confirmation waits (`HandleConfirm`, `Deadline`, `Awaken`) until its user decided
(`SetLocalDecision`) or the window closes; `PairConfirm` records the peer,
`Answer` and `Confirmed` are the reply and the initiator's record.

### What is abstracted

- *Coordinator.*  Offsets are counted in units of the least splittable size
  (`TAIL_MIN_SPLIT_BYTES`): `MinSplit = 2` units, as `find_next_work` splits only
  what leaves both halves above the threshold.  A write is in the file once made,
  and the progress it saves is exact: durability is the writer's subject.  Retry
  counts are abstracted: a worker may give up after any failure.  A server never
  delivers less than its own hint.  What the ramp decides is a free choice of the
  allowance with the code's guards on growing.  A stalled stream, a hostile
  reconnection and a timeout are all `StreamBreaks` or `RequestFails`;
  `OpenEndedEstablished` only shortens a timer and is left out.  Progress writes of
  workers of an earlier run hit the epoch guard of `update_segment_progress_bounded`
  and change no row; statements of an earlier *coordinator* are not guarded, and are
  `LateCommit`.  The comment on crash safety at `segment_coordinator.rs` 27–30
  describes a split written as two statements; the code writes one transaction
  (`persist_split`), and so does the model.
- *Gate and writer.*  The clock advances by at least one unit across a write to the
  page cache.  The OS never writes a page back early and the BufWriter never spills
  early: the worst case for every durability property.  A failed fdatasync leaves the
  pages dirty.
- *Ramp.*  Throughput is seen only through the comparisons the code makes (the
  verdict on a growth, a low window, whether any byte arrived); whether work is left
  for a new worker is open; `preGrow` is 0 while no growth is evaluated; other
  downloads act through the record only.
- *Lifecycle.*  Left out: BitTorrent sessions, plugin resolvers, webhooks, the
  automatic proxy's failover, batches, queue edits and schedules, starting and
  stopping a queue.  Only `delete_task` is split at its wait.
- *HTTP.*  Versions have equal length (three units, two fixed segments); a reply is
  of one version; servers without or with weak validators, compression, request
  bodies and the guard against HTML answers are left out, as are cached proxy
  decisions and hints that a plugin vouches for; a sample is taken only where it
  agrees and is faster; a refusal by the system resolver's node is a broken request.
- *HLS.*  A segment is two units; variants, keys and the remuxing are left out; the
  order of the channel is left open, as the writer sorts; files are found by handle
  after an unlink (POSIX); the races for the statuses are the lifecycle's.
- *Link.*  Keys, signatures, the throttle on wrong codes, discovery and the requests
  of paired devices are left out; who will use which code is fixed by `Init`; the
  clock's unit is the minute of the decision window, and the clock is monotone.

## Runs

| Run | Instance | Properties and what they show |
|---|---|---|
| `writer` | 2 segments of 2 units, clock to 3, failing flushes, one failure, one restart or power loss | `DbNotAheadOfDisk`, `NoSkippedBytes`, `ImplementsDurableProgress`: rows never ahead of the disk, no skipped byte, the write path implements its abstract specification |
| `writer_faults` | the same with any fdatasync and any statement failing | `WatermarksAreDurable`, `CompletedIsDurable`, `AnswerCoversSnapshot`, `CoveringAnswerIsFresh`, `EveryCallReturns`: the gate between its real callers |
| `coordinator` | 2 workers, a file of 3 units that may grow to 4, two faults, pinned nodes, a probed size or a hint | `Layout`, `CompletedMeansWritten`, `RowsTrustworthy`: the map and the file under every way to cut, grow and lose a segment |
| `coordinator_restart` | file of 2 units, a later probe of 3, drift 1, pause, one crash or resume, one statement lost or late | `SuccessMeansWritten`, `RowsRecoverable`, `ValidationIsExact`: what a crash leaves can be used or is recognised |
| `coordinator_degrade` | 3 workers, 3 segments, one refusal, workers ending under the ramp timer | `OneOwner`, `SerialMeansAlone`, `RunEnds` |
| `lifecycle_queue` | 3 tasks, 2 queues, a limit that changes, one call per handler kind at a time, one retry | `NoIdleSlot`, `StartsWithinLimits`, `QueueMoves` |
| `lifecycle_files` | 2 tasks of one name, two calls, late reports, boost, delete, restart, crash | `QueueIsSound`, `SlotsAreLive`, `ReservationsExact`, `BoostEndsWithItsRun`, `EntriesLeaveWithTheirRun` |
| `lifecycle_shared_file` | violation | `OneWriterPerFile`, see Findings |
| `ramp_policy` | plans of 1 and 3, one download, one event of others, one step of the clock past the TTL, one restart | `RampTypeOK`, `SoftNeverCreeps`, `StartsUnderRefusals`, `HardNeverGrows` |
| `http` | 2 pinned nodes, the system's and the proxy's edge, 3 versions, 2 faults, one stop | `HttpTypeOK`, `DoneMeansOneVersion`, `ChangeIsReal`, `FlagMeansFailures`, `SwitchHolds` |
| `link_pairing` | 2 devices, 2 codes, clock to 4, failing records, one crash | `LinkTypeOK`, `PairedByBoth`, `SecretsAgree` |
| `hls` | 2 segments, one permit, 2 playlists, one fault, one crash, two runs | `DoneMeansWhole`, `MarkIsBoundary`, `HlsRunEnds` |

*Bounds.*  Two segments are the least with a foreign sync in the gate; three
workers the least where halving the connections leaves more than one; 3 or 4
units the least where a segment that was split can be split, grown or cut short
again, and where a merge spans more than one segment.  One restart meets every
state of the run before it, and the state after it is a start with rows, whatever
came before.  `MaxFaults` counts refusals, breaks, node failures and reports of a
larger size; two are needed for a failure during the handling of another.
`MaxExpansions` is the code's `MAX_SIZE_EXPANSIONS`, made small so that it is
reached.  A worker's number is reused only when none of its events is queued
(`Spare`): the code numbers workers without end.  `coordinator_restart` lets one
statement go wrong.  In the ramp the code starts with 2 connections and the run
with 1, so that a plan of 3 still doubles once and is capped once.  `http` kicks a
node after 2 failures in a row instead of 3, so that a kick fits into the faults.
`link_pairing` has one pending session where the code has 32, which makes the
eviction happen; its window, code and session times keep their order (1 < 2 < 3).
HLS runs go up to 2, the least that overlaps.  Symmetry is used for nodes, for
segments of the writer and for devices and codes, in runs without liveness.

*Fairness.*  The coordinator's task and each worker's task are polled by the
runtime again and again (weak fairness of `CoordStep` and of `WorkerProgress`),
and a server that began to answer delivers or breaks: the code turns silence
into a break by its stall timeout.  Faults, timers that only optimise
(`ProactiveSplit`), pauses and restarts are not fair.  In the gate, and so in the
writer, only the steps of a call are fair, because the wait for a notification is
bounded by a timeout; that notification itself is not.  The manager's actor takes
its messages and runs end: one weak fairness of `SystemStep`, nothing of the
user.  The steps of an HLS run, its producers' included, are weakly fair: the runtime
polls what is woken, and requests, writes and statements end.  `ramp_policy`,
`http` and `link_pairing` check no liveness.

*Deadlock* is checked where every state has a step; `CHECK_DEADLOCK FALSE` stands
where the bounds of users, faults and clocks run out and the system rightly rests.

## Proofs

Every theorem is stated for all values of the constants that the assumptions of
the modules admit.

`SegmentWriter_proofs` on the gate, for any set of workers, any gap, any bounds, with failing
syncs: the contract of the gate.  The property is not inductive: an answer is
right because of the syncs that ran, so `GateInv` adds that at most one caller is
in a sync and the flag is set exactly then (`OneSyncAtATime`), that the sync under way
covers every snapshot taken before its start (`SyncInv`), that the last
published sync has made durable every snapshot before its start
(`PublishedInv`), and that an answer is never later than a published start
(`AnswerInv`).

The same module on the writer: for any set of segments and any bounds, with any
database failures, crashes and power losses, and without failing flushes or
fdatasyncs (`NoIoFaults`): rows, watermarks and completions are durable and no
attempt starts past the written bytes.  Type correctness needs no such
assumption.  `WriterInv` adds to the gate's invariant where a segment can be in
the gate and with what BufWriter (`CallInv`), that the disk does not run ahead of
the page cache (`CacheInv`), what every remembered counter is worth
(`ProgressInv`: durable, or owed to the attempt under way), what the pending
snapshot becomes (`SnapInv`), and what is owed by a save or a completion
(`SavedInv`).  Each action has its step, and under it the conjuncts it disturbs.
`WriterImplementsProgress`: when statements are executed too (`NoFaults`), the
write path implements `DurableProgress`.  On top of `WriterInv` it needs that a
segment at its end has its row there (`RowAtEnd`); every action of the writer is
then shown to be a `Fill`, `Save`, `HandOver` or `Finish`, or to leave the three
abstract variables alone.  A lost statement is the reason for the hypothesis:
`Complete` finishes a segment whose row the database refused.

`SegmentCoordinator_proofs`, about the map: for files of any size and maps of any number of segments,
the layout of a new download is a partition of the file (`FreshIsPartition`); the
split, the cut of a short segment, the tail and the merge keep the map one
(`SplitKeepsPartition`, `ShortfallKeepsPartition`, `GrowMakesPartition`,
`MergeKeepsPartition`), and a split leaves its parent every byte it has already
downloaded.  The check a resume makes of the rows is exact: it accepts every partition
(`PartitionPasses`) and nothing that leaves out a byte or gives it to two segments
(`CoverageIsExact`).  The split and the short segment rest on
`CutKeepsPartition`, which is about one segment cut in two.  The largest active
segment, the end of a merge, and the first and the last segment in the order of
`sort_by_key` exist by well-foundedness: a smallest counterexample takes the place of an induction.
So do the sums over a map: the recursive function of the library's fold is unfolded one
element at a time, and a smallest set on which it fails to add is the contradiction
(`SumExists`, `SumsCompare`).  `validate_coverage` needs its comparison of the sum of
the sizes for one thing: that the last segment does not end before it starts.  For rows
whose segments all have a byte the other conditions suffice (`CoverageMeansPartition`).

The rest of `SegmentCoordinator_proofs` puts these to use, for any number of workers, any plan,
size, drift and number of faults: through every interleaving of the handlers, the
statements they await, the workers and the restarts, the map is a partition of the
file (`LayoutHolds`), and no segment has two owners or, while the loop goes on and
nobody has stopped it, none (`OneOwnerHolds`).  `Layout` is not inductive: each
handler changes the segment that a message or a job names, and that is in the map,
active and nobody else's only because of who holds what.  `CoordInv`
(`CoordInvHolds`) therefore adds the holders: a busy worker, a report in the
channel and an assignment a handler has recorded but not sent each name an active
segment (`HoldersActive`), all different ones (`OneHolder`); who has reported rests
until the handler has answered (`ReportersRest`); and at work every active segment
is held (`NoneForgotten`).  It adds what a state between the two sides of an await
has to agree with: the statement says what the map says, a merge about to be
published still finds its segments untouched (`JobSound`), and every row is of a
segment of the map that starts where the row does (`RowsMatch`), which is why a
retry from the row stays inside the segment.  One lemma per handler and per step of
a worker; `WorkHandedOut`, `WorkSent`, `WorkerGoesOn`, `WorkerReports` and
`HeadTaken` are the five ways in which who holds what can change.

The theorems assume `LateStatements` false: no statement of a run that was
left behind is executed after the next run has begun.  The assumption is needed.
A late `persist_split` may store the row of a map that is gone, and a map resumed
from such rows may have a segment without a byte (see Findings).  What holds then
is what `coordinator_restart` checks, and `CoordInvUnlessAstray`: the invariant
holds until such a statement has come.

`SegmentBytes_proofs` goes on from `CoordInv` to the file: a segment counted as
complete is wholly written (`CompletedMeansWrittenHolds`), and no row claims a byte
that is not (`RowsTrustworthyHolds`, which asks nothing of the constants).  Neither
says enough of itself.  A segment is completed by a report, a report counts what a
worker got, a worker starts from where its assignment or its row says, a row repeats
what a worker or the map counts, and the map takes over what is shared with the
workers.  `BytesInv` says of each of them that what it counts is in the file
(`SegsWritten`, `SharedWritten`, `RowsWritten`, `WorkersWritten`, `ReportsWritten`,
`JobWritten`).  The hard cases are those where two of them change apart: a split
while the parent's worker writes past the new boundary, a report that is late for a
segment cut meanwhile, a merge whose statement fails, and the open stream that takes
over segments the rows still list.

The same module proves that a download that is interrupted is never started over for
the layout of its rows (`RowsRecoverableHolds`, which asks nothing of the constants
either), and that the check of a resume is exact wherever a run was interrupted
(`ValidationIsExactHolds`).  A statement stores one or two rows and relies on the others
being those of the map it was computed from, so the rows alone are not an invariant.
`RowsInv` relates them to the map one statement ahead: what the rows hold, with the
statement under way (`Stored`), has the bounds of the map the run has once the handler
has gone on (`Target`).  A merge is the exception that makes the second half
necessary, because its map changes only after the statement.  The lemmas say of each
handler that it stores every bound it moved (`CommitStores`, `MergeStores`), and of
every save that it moves none, not even between the two sides of an await
(`SaveRecorded`).

A further section proves that a run that reports success has the whole file
(`SuccessMeansWrittenHolds`; with late statements, until one has come:
`SuccessMeansWrittenUnlessAstray`).  The check after the loop is not enough for it: it
compares the sum of the counters with the size, and a segment that was split while its
worker was writing may count bytes of its neighbour.  What saves the run is that the loop
ends without an error only when every segment is complete, although it also ends when no
channel is open.  `EndInv` says why the second never comes first: while the run is at
work a channel is open exactly for the staff (`Manned`), that is, whoever has a segment,
a report in the channel, or is in a handler's hand; the ramp and the proactive split act
in parallel mode only (`Parallel`); in serial mode somebody is at work while there is
work (`SerialGoes`).  Two hypotheses bound it.  The size was probed, so that no response
rules on Range any more; for a hint task, whose first response does, success rests on
the sum, and nothing is proved.  And the ramp timer looks at the workers in the step
that found the channel empty (`RampRace` false): with workers that fail between the two
the theorem does not hold, as described under Findings.

The module ends with serial mode (`SerialMeansAloneHolds`): a step takes segments from
workers, or gives one to one worker when none has any.  The handlers that hand out
work ask for that; the repetition of a plain stream, for a server that does not support
Range, does not, and what is to be shown is that nobody else is at work then.
`SerialInv` says it of the time before: while Range is not known to work and nothing of the first segment is counted
(`Untouched`), at most one worker has a segment, and none while the handler that took
its report looks for work (`Alone`).  The workers cannot make a touched segment
untouched, since a chunk is never empty (`Chunks`), nor can the coordinator: what
starts at byte 0 in the next map is the first segment of this one (`Descends`).

`RampController_proofs`, for any plan, caps, times to live and budgets: all four
properties of the run `ramp_policy`.  `RampInv` has a part for the download and
one for the host.  `Sane` relates what is allowed, alive and under evaluation:
while a growth is evaluated Range is supported, the freeze is that of a probe or
of a growing ramp and the allowance is at most twice the scale before
(`Evaluated`); the workers alive are at most twice the allowance and one
(`Halvable`), which is why halving the *alive* connections never exceeds the
allowance even when a rollback or a shrink left some over; and `Creep` counts what
the probes and the expansions have added since the freeze.  `PolicyInv` says that
every entry of the record, in memory or in a snapshot, has the time of a clock
that was, and `RefusalsRecorded` that every refusal that still counts is covered
by the cap and the time stamp of the record.  One lemma per action shows that the
next record of the download is idle, or follows from this one as the four
theorems need (`Calm`).

`LinkPairing_proofs`, for any devices, codes and times with a decision window
shorter than a session: the types, and that a device is recorded only after both
users accepted, the responder's within its window, and by the initiator only
after the responder (`PairedByBoth`).  `LinkInv` adds that a code that was not
generated has no past (`UnusedInv`), that a handler waits only until its hello's
time plus the window and stores only what was decided in time on a session that
it has closed (`WindowInv`), and how far the requests of each stage have come
(`StageInv`).  The secrets of the last pairing agree (`PairKeepsOneSecret`), by
`AgreeInv`: a code is recorded by its responder at most once, and whatever overwrites
one of its two secrets, the next pairing or its half, makes it the last no longer.

`TaskLifecycle_proofs`, for any tasks, queues, limits, requests and kinds of error:
no slot is held by a run that is gone or was told to stop (`NoDeadSlots`), no task
waits twice, while it runs or without a row (`TheQueueIsSound`), and no TaskDone of an
earlier run takes the entry of a later one (`NoEntryIsStolen`).  The handlers call each
other, and the queue and sets of tasks are iterated, so the proof is about records.
`Good` is what every handler keeps of `m`: each entry belongs to a live run of its task
(`Live`), a generation to one run (`RunsSound`), a row is gone only without an entry
(`Rowed`), and the queue is in order (`Once`, `Waits`).  `Keeps` says how the record a
handler returns follows from the one it got: the runs that took a name are the same, and
no run of a task whose row is not final goes on without its entry (`Orphan`).  Both
pass from a handler to the one that calls it, and through the iterations, whose fold
is unfolded as a recursive function on finitely many positions (`FoldExists`,
`DrainWalk`, `ResumeInTurn`, `AutoPauseKeeps`).  `LifecycleInv` adds that a task whose
`delete_task` waits has no entry and no place in the queue.
`NamesAreReservedExactly` assumes `SlowExit` false, that cancelled runs end within the
wait of `delete_task`; without it a reservation leaks (see Findings).  Then a name is
reserved exactly for the one run that took it, until its TaskDone is received.

`SlotsAreFilled` and `LimitsAreKept` are about instances without the boost, which starts
its target whatever the limits are.  `SlotInv` says that no queue runs more than its
limit allows (`Settled`) and that nobody waits who may start (`Tight`), unless a delete
waits for its run, whose slot the second half of `delete_task` fills.  A handler that
keeps the first and passes no limit on its way `Calms`; one that also ends tight
`Fills`, mostly because its last call drains the queue; and the two compose as the
handlers call each other.  One handler frees a slot without a drain: `resume_task`
drops the entry of a run that is over and starts its task, or queues it.  It queues it
only if the global limit is still reached, since the queue the entry has left has room
again (`RoomAgain`), and then nobody else may start either (`ResumeInnerFills`).

`BoostIsNotLost` (`BoostEndsWithItsRun`) is about instances without cancel, which leaves
the boost on.  A handler that takes no entry from the boosted task or ends the boost
`KeepsBoost`; a resume only `Minds` it, since it may drop the target's entry and queue
the task.  The two compose, so that the chains of handlers need one lemma each;
`SetPriorityKeeps` says that a boost that is on after a request has its target running.
That the property needs its exceptions is told under Findings.

`HttpDownload_proofs`, for any set of pinned nodes, any number of versions, faults and
stops: all five properties of the run `http`.  `TransferInv`, which asks
nothing of the tasks and servers, says where a transfer can stand: connections only
while segments run, each to a node of the pool and counted there (`LeasesInv`); rows
only over a file of full length and never ahead of what was written (`PlacesInv`); and a
pool whose breaker has counted failures only, until a switch disarms it and kicks every
pinned node (`PoolOK`).  `FlagMeansFailures` and `SwitchHolds` follow step by step from
what each operation of the pool returns (`KickFollows`, `LeaseFollows`,
`ReturnFollows`, `SwitchFacts`).

The two properties about versions need hypotheses on the kinds of tasks and servers in
`Starts`, which every kind the run checks satisfies.  `ChangeIsReal` (`LagNeverEnds`):
pinned nodes honour If-Range, and a task with a candidate proxy was probed
(`Attributes`).  `DoneMeansOneVersion` (`FilesAreWhole`): the server honours If-Range, or
all its ranged replies have validators and nothing is ever fetched unranged; and the
first validator is known from the probe or from the first reply (`TellsVersions`).  The
hypotheses are necessary: for kinds that fail any one of them TLC finds a counterexample
(those of the second kind are listed under Findings).  `KindInv` relates a transfer
without a validator to what it then cannot have, pinned nodes or a proxy; `ChangeInv`
says that while nothing in use has changed everything recorded is what the origin
serves; and `VersionInv` that every byte counted by a row or a live counter is of the
recorded version, that a reply whose body is being read is, that without a recorded
version the only reply awaited is that of the first segment, and that the file of a
single stream is of one version, no older than the recorded one (`StreamOf`): an append is
allowed only by If-Range with the recorded version, and then the two are the same.

`HlsDownload_proofs`, for any number of segments, editions of the playlist, permits,
faults, crashes and runs: `FilesAreComplete` (`DoneMeansWhole`) and
`MarksAreBoundaries` (`MarkIsBoundary`).  `HlsInv` (`HlsSafe`) has one escape and a
half that holds otherwise: either a run was started while another was alive, or the
file is what the bookkeeping says (`Healthy`).  A run places its segments in order
(`Placed`), has fetched what it is about to write, and its file holds exactly what it
counts but for one unit in the air (`Filled`); the latter only for a run that did not
go on from a stale mark, in a task that lost no write it had counted (`Trusted`).  The mark
never runs ahead of the run that stores it (`Marked`), and while no run is alive the
file holds at least what the mark counts (`Rested`, `FileAtRest`), which is what
the next run opens.  The two properties need the escape: they speak of tasks whose runs
did not overlap, and the run of TLC meets those that did.  The attempt to prove the
second corrected the model: that a mark was stale has to be remembered past a run
that went on from it (`stale` in `SaveMark`), which takes three runs to tell, and the
instance has two.

Only model-checked:

- liveness and `ENABLED`, out of the prover's reach: `EveryCallReturns`,
  `RunEnds`, `QueueMoves`, `HlsRunEnds`;
- `SuccessMeansWritten` of a hint task (of a probed size it is proved); no run lists it,
  but the instance of `coordinator`, which starts with either, satisfies it.

## Findings

`lifecycle_shared_file`: a task that waits in the queue keeps the name it was
created with, and a resume neither looks for a free name nor reserves one
(`download_manager.rs` 6391).  Paused in the queue and resumed, it writes the
temporary file of a running task of the same name; the comment at lines
1430–1431 says that reservations rule this out.

### Seen while modelling

Not made runs of their own; each was seen in a counterexample or while a
definition was translated.

*Write path and coordinator.*
- `seg_downloaded` and the shared counter are advanced before the flush.  When the
  flush fails and the retry is then refused before its body, the coordinator takes
  the segment back with the live counter and hands it out from there; the bytes the
  flush lost are never written.
- A worker that fails and ends after the biased `select!` polled the channel and
  before the ramp timer looks at the handles lets the loop end without an error;
  the verification sums counters that were not clamped, so that bytes written past
  a split boundary make up for a segment nobody downloaded.
- A resume does not wait for the paused run: a `persist_split` of the old run
  executed after the new run wrote its rows shrinks a row of the new layout.  It can
  leave an empty row whose neighbours cover a smaller file; `validate_coverage` (3321)
  accepts it, because it never asks that a segment has a byte.  TLC finds it with a
  plan of two segments for a file of 4 units that a later probe finds to have 6.
  `ValidationIsExact` therefore asks that an accepted layout covers every byte once,
  which an empty segment does not disturb, and that a layout of segments with bytes
  that does so is accepted.
- The guard against retrying a plain stream with a range compares the start of the
  attempt that failed, which for the first attempt is the segment's own start.
- The error exits ignore the result of their own `sync_data` and save the offset.
- `downloaded_bytes` may exceed the size of a segment between a split and the next
  Done.  A resumed, unverified hint task sends ranged requests for segments that do
  not start at byte 0 before the verdict, against the comment at line 478.  The
  handler of a Done after a growth under an unsupported verdict hands out the tail
  with a range (1962).
- After a node failure the hand-over upserts the row with an older counter.

*Lifecycle.*
- Pausing the boosted task does not always end the boost, against the comment at
  line 5482.  The target has ended, its TaskDone has not arrived, and it is resumed
  after the limit was lowered: its entry is dropped and it waits in the queue (5728).
  Paused there, it takes the branch of a queued task, which returns (5455) before the
  guard: the boost stays on without a target, and nothing resumes what it had paused.
  TLC finds it with two tasks and four calls; with three tasks no limit need change,
  since a boost may start its target beyond the limit (next).  `BoostEndsWithItsRun`
  therefore says of a boosted task whose entry leaves that it waits in the queue, is
  being deleted, or ends the boost with it.
- The boosted task does not always run alone, against the comments at lines 8504 and
  8528–8529.  A boost that is moved to another task keeps the set of auto-paused tasks.
  One of them was resumed and waits; pausing the earlier target starts it, and the step
  that mops up what was started meanwhile passes it over, because it is in the set
  (8508).  `do_resume_task` then starts the new target without a look at the capacity:
  two tasks run under a limit of one (TLC: three tasks, three calls).
  `StartsWithinLimits` is therefore checked in an instance without the boost.
- A second resume before the resumed run wrote its status force-removes the live
  entry without cancelling it (5703 ff.): two live runs.
- `create` stores the raw name, and a delete of a task that never started removes
  another's `<name>.fdownloading`; `deferred_file_cleanup` works by path; a delete
  that aborts a run between its reservation and the write of its name leaks the
  reservation or releases another's (`ReservationsExact` is checked with runs that
  end in time, `SlowExit` false).
- A cancel during a backoff leaves `retry_scheduled`, a pause does not stop the
  retry; `clear_priority` resumes tasks the user has cancelled or paused meanwhile;
  a run may write its status after the pause's own; moving a task to another queue
  and changing or deleting a queue do not start what may now run.

*Connections.*
- A shrink at the cap re-doubles later with surplus connections, which are judged
  without a growth; a tail drops the probe under evaluation without rolling it back;
  a load merges a tighter cap with an older time stamp; snapshots of the record may
  be stored out of order.

*HTTP.*
- The validator is stored only by a first start whose probe is answered.  When that
  start is paused in the queue, its probe fails, or the task came with a hint, every
  later start is a resume (`download_manager.rs` 6319) whose probe is not stored:
  after a replacement by a file of equal length the new probe agrees with the new
  file, and the old prefix is continued (`downloader.rs` 2751; the comment at
  2747–2749 promises no silent splice).  `DoneMeansOneVersion` therefore speaks of
  tasks with a stored validator.
- A lagging pinned node that ignores If-Range yields an "ETag mismatch" that is not
  attributed to the node and fails the task.  `restart_task` keeps the old
  validator, so that after a change a restart ends in a mismatch or falls to a
  single stream.  A cached proxy decision switches without a sample of its own; a
  hint task compares the sample with an empty validator though it has latched one, so
  that its first validator may be that of a proxy ahead of the origin: after a fallback
  to the origin, a pause, and the same version at the origin, the single stream appends
  to the older bytes (TLC finds it with four versions; `TellsVersions` excludes it);
  a vouched task latches the validator of whichever node answers first.  A fallback
  keeps the stale validator and starts from 0 at each resume; `download_single` has
  no second check when If-Range is ignored, and after a switch it goes directly.
  A real change kicks every pinned node and marks the host as unfit for a day.
- Automatic proxy: concurrent probes overwrite a pending decision, `or_insert` loses
  one from disk, a probe in flight sets a decision after the clear, `spawn_write`
  checks before it writes.

*HLS.*
- `restart_task` leaves `hls_resume_<id>`: a restart that crashes in its first
  segment is resumed past segments it never had.  A paused run keeps writing its
  segment (the speed-limited loop has no check) while the resumed one cuts and
  appends.  The error of the last write of a segment arrives after the segment was
  counted and the mark saved (tokio's file writes behind), against the comment at
  `hls_downloader.rs` 1215–1216; the roll-back then lengthens the file with a hole.
  A resume may choose another variant.  `DoneMeansWhole` and `MarkIsBoundary` are
  checked for tasks without these (`Undisturbed`).  The semaphore does not bound the
  buffers as its comment says.

*Link.*
- Two devices that pair with each other at the same time end with different secrets
  although both report success; `SecretsAgree` speaks of pairings that do not
  overlap.  A lost reply leaves the responder with a secret the initiator lacks
  until the next completed pairing.  An approval is lost if the timer fires just
  before it.

*FTP* (not modelled).  On a write error the counter includes bytes of the dropped
BufWriter, so that a row may be ahead of the file; the cancel path ignores a failed
flush and does not sync.

## Not modelled

The speed limiter is a rate over real time; nothing of it can be stated without a
clock that counts bytes.  Route health orders choices the models leave open.  FTP
has a fixed layout and retries of its own and would be the next downloader.
Webhooks and RSS touch no download.  Wire protocols of third parties (BitTorrent,
eD2k, Kad), parsing, file naming, plugins, the hosts' forwarding, the updater and
user interfaces are listed in `PROJECT.json` with their reasons.

## Plan

Done: gate, writer and its refinement, map, workers, coordinator, lifecycle, ramp
and policy, nodes and HTTP, HLS, device link; proofs about all of them.

Left, in this order:

- `SuccessMeansWritten` of hint tasks, whose runs may also end by the sum of the
  counters.
- FTP segments, if a model of them says more than the writer's does.
