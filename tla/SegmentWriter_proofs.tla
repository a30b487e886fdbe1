------------------------ MODULE SegmentWriter_proofs ------------------------
(***************************************************************************)
(* Proofs about FileSyncGate, for any set of workers and any bounds, and   *)
(* about SegmentWriter, for any workers and any bounds.  GateInv           *)
(* strengthens the contract of the gate to an inductive invariant: it      *)
(* follows a snapshot through the sync that is running (SyncInv) and       *)
(* through the last one that completed (PublishedInv).                     *)
(*                                                                         *)
(* The theorems about the writer assume that flushes and fdatasyncs do not *)
(* fail (NoIoFaults): with such faults DbNotAheadOfDisk and NoSkippedBytes *)
(* do not hold (README.md).  Database statements may fail, and the process *)
(* or the power at any time.                                               *)
(***************************************************************************)
EXTENDS SegmentWriter, TLAPS

-----------------------------------------------------------------------------
(* The gate. *)

InCall(w) == call[w] # "idle"

\* A running sync covers every snapshot that is not younger than its start.
SyncInv ==
    \A w \in Workers : call[w] = "sync" =>
        /\ myStart[w] <= now
        /\ snapT[w] <= myStart[w]
        /\ lastStart <= myStart[w] + 1
        /\ \A x \in Workers :
              InCall(x) /\ snapT[x] <= myStart[w] => cached[x] <= covered[w][x]

\* The published start vouches for every snapshot that is not younger.
PublishedInv ==
    /\ lastStart <= now + 1
    /\ \A x \in Workers :
          /\ InCall(x) => snapT[x] <= now
          /\ InCall(x) /\ snapT[x] < lastStart => cached[x] <= durable[x]

\* An answer is a start that was published.
AnswerInv ==
    \A w \in Workers : call[w] = "ok" =>
        /\ ret[w] < lastStart
        /\ mode[w] = "cover" => snapT[w] <= ret[w]

GateInv == GateTypeOK /\ OneSyncAtATime /\ SyncInv /\ PublishedInv /\ AnswerInv

USE GateAssumption DEF Offset, Time, Modes, CallStates

LEMMA GateInitInv == GateInit => GateInv
<1> SUFFICES ASSUME GateInit PROVE GateInv
    OBVIOUS
<1>1. GateTypeOK
      <2>1. [x \in Workers |-> 0] \in [Workers -> Offset]
            OBVIOUS
      <2>2. covered \in [Workers -> [Workers -> Offset]]
            BY <2>1, Zenon DEF GateInit
      <2>3. call \in [Workers -> CallStates] /\ mode \in [Workers -> Modes]
            BY DEF GateInit
      <2>4. now \in Time /\ lastStart \in 0 .. MaxTime + 1
            BY DEF GateInit
      <2>8. syncing \in BOOLEAN
            BY Zenon DEF GateInit
      <2>5. cached \in [Workers -> Offset] /\ durable \in [Workers -> Offset]
            BY <2>1 DEF GateInit
      <2>6. [w \in Workers |-> 0] \in [Workers -> Time]
            OBVIOUS
      <2>7. /\ snapT \in [Workers -> Time] /\ myStart \in [Workers -> Time]
            /\ ret \in [Workers -> Time]
            BY <2>6 DEF GateInit
      <2> QED BY <2>2, <2>3, <2>4, <2>5, <2>7, <2>8, Zenon DEF GateTypeOK
<1>2. OneSyncAtATime /\ SyncInv /\ AnswerInv
      BY DEF GateInit, OneSyncAtATime, SyncInv, AnswerInv
<1>3. PublishedInv
      BY DEF GateInit, PublishedInv, InCall
<1> QED BY <1>1, <1>2, <1>3 DEF GateInv

LEMMA GateTypeStep == GateTypeOK /\ [GateNext]_gateVars => GateTypeOK'
<1> SUFFICES ASSUME GateTypeOK, [GateNext]_gateVars PROVE GateTypeOK'
    OBVIOUS
<1>1. ASSUME NEW w \in Workers, NEW m \in Modes, NEW off \in Offset, Enter(w, m, off)
      PROVE GateTypeOK'
      BY <1>1 DEF GateTypeOK, Enter
<1>2. ASSUME NEW w \in Workers, Decide(w) PROVE GateTypeOK'
      <2>1. lastStart > 0 => lastStart - 1 \in Time
            BY DEF GateTypeOK
      <2> QED BY <1>2, <2>1 DEF GateTypeOK, Decide, Reusable
<1>3. ASSUME NEW w \in Workers, BeginSync(w) PROVE GateTypeOK'
      BY <1>3 DEF GateTypeOK, BeginSync
<1>4. ASSUME NEW w \in Workers, SyncOk(w) PROVE GateTypeOK'
      <2>1. covered[w] \in [Workers -> Offset]
            BY DEF GateTypeOK
      <2>2. durable' \in [Workers -> Offset]
            BY <1>4, <2>1 DEF GateTypeOK, SyncOk, Larger
      <2>3. call' \in [Workers -> CallStates]
            BY <1>4 DEF GateTypeOK, SyncOk, WakeParked
      <2>4. lastStart' \in 0 .. MaxTime + 1 /\ ret' \in [Workers -> Time]
            BY <1>4 DEF GateTypeOK, SyncOk
      <2>5. covered' = covered /\ syncing' = FALSE
            BY <1>4 DEF SyncOk
      <2> QED BY <1>4, <2>2, <2>3, <2>4, <2>5, Zenon DEF GateTypeOK, SyncOk
<1>5. ASSUME NEW w \in Workers, SyncErr(w) PROVE GateTypeOK'
      BY <1>5 DEF GateTypeOK, SyncErr, WakeParked
<1>6. ASSUME NEW w \in Workers, Arm(w) \/ WaitTimeout(w) PROVE GateTypeOK'
      BY <1>6 DEF GateTypeOK, Arm, WaitTimeout
<1>7. ASSUME NEW w \in Workers, Leave(w) PROVE GateTypeOK'
      BY <1>7 DEF GateTypeOK, Leave
<1>8. CASE Tick
      BY <1>8 DEF GateTypeOK, Tick
<1>9. CASE UNCHANGED gateVars
      BY <1>9 DEF GateTypeOK, gateVars
<1> QED BY <1>1, <1>2, <1>3, <1>4, <1>5, <1>6, <1>7, <1>8, <1>9
        DEF GateNext, GateStep, AtRest

LEMMA GateInvStep == GateInv /\ [GateNext]_gateVars => GateInv'
<1> SUFFICES ASSUME GateInv, [GateNext]_gateVars PROVE GateInv'
    OBVIOUS
<1>t. GateTypeOK /\ GateTypeOK'
      BY GateTypeStep DEF GateInv
<1> USE DEF GateTypeOK
<1>1. ASSUME NEW w \in Workers, NEW m \in Modes, NEW off \in Offset, Enter(w, m, off)
      PROVE GateInv'
      <2>1. OneSyncAtATime'
            BY <1>1, <1>t DEF GateInv, OneSyncAtATime, Enter
      <2>2. SyncInv' /\ PublishedInv'
            BY <1>1, <1>t DEF GateInv, SyncInv, PublishedInv, InCall, Enter
      <2>3. AnswerInv'
            BY <1>1, <1>t DEF GateInv, AnswerInv, Enter
      <2> QED BY <1>t, <2>1, <2>2, <2>3 DEF GateInv
<1>2. ASSUME NEW w \in Workers, Decide(w) PROVE GateInv'
      <2>1. OneSyncAtATime'
            BY <1>2, <1>t DEF GateInv, OneSyncAtATime, Decide
      <2>2. SyncInv' /\ PublishedInv'
            BY <1>2, <1>t DEF GateInv, SyncInv, PublishedInv, InCall, Decide
      <2>3. AnswerInv'
            BY <1>2, <1>t DEF GateInv, AnswerInv, Decide, Reusable
      <2> QED BY <1>t, <2>1, <2>2, <2>3 DEF GateInv
<1>3. ASSUME NEW w \in Workers, BeginSync(w) PROVE GateInv'
      <2>1. OneSyncAtATime'
            BY <1>3, <1>t DEF GateInv, OneSyncAtATime, BeginSync
      <2>2. SyncInv' /\ PublishedInv'
            BY <1>3, <1>t DEF GateInv, SyncInv, PublishedInv, InCall, BeginSync
      <2>3. AnswerInv'
            BY <1>3, <1>t DEF GateInv, AnswerInv, BeginSync
      <2> QED BY <1>t, <2>1, <2>2, <2>3 DEF GateInv
<1>4. ASSUME NEW w \in Workers, SyncOk(w) PROVE GateInv'
      <2>1. OneSyncAtATime'
            BY <1>4, <1>t DEF GateInv, OneSyncAtATime, SyncOk, WakeParked
      <2>2. SyncInv'
            \* no other sync is running
            BY <1>4, <1>t DEF GateInv, SyncInv, OneSyncAtATime, SyncOk, WakeParked
      <2>3. PublishedInv'
            BY <1>4, <1>t DEF GateInv, SyncInv, PublishedInv, InCall, SyncOk,
                              WakeParked, Larger
      <2>4. AnswerInv'
            BY <1>4, <1>t DEF GateInv, SyncInv, AnswerInv, SyncOk, WakeParked
      <2> QED BY <1>t, <2>1, <2>2, <2>3, <2>4 DEF GateInv
<1>5. ASSUME NEW w \in Workers, SyncErr(w) PROVE GateInv'
      <2>1. OneSyncAtATime'
            BY <1>5, <1>t DEF GateInv, OneSyncAtATime, SyncErr, WakeParked
      <2>2. SyncInv' /\ PublishedInv' /\ AnswerInv'
            BY <1>5, <1>t DEF GateInv, SyncInv, PublishedInv, AnswerInv, InCall,
                              SyncErr, WakeParked
      <2> QED BY <1>t, <2>1, <2>2 DEF GateInv
<1>6. ASSUME NEW w \in Workers, Arm(w) \/ WaitTimeout(w) PROVE GateInv'
      <2>1. OneSyncAtATime'
            BY <1>6, <1>t DEF GateInv, OneSyncAtATime, Arm, WaitTimeout
      <2>2. SyncInv'
            <3>1. CASE Arm(w)
                  BY <3>1, <1>t DEF GateInv, SyncInv, InCall, Arm
            <3>2. CASE WaitTimeout(w)
                  BY <3>2, <1>t DEF GateInv, SyncInv, InCall, WaitTimeout
            <3> QED BY <1>6, <3>1, <3>2
      <2>3. PublishedInv'
            <3>1. CASE Arm(w)
                  BY <3>1, <1>t DEF GateInv, PublishedInv, InCall, Arm
            <3>2. CASE WaitTimeout(w)
                  BY <3>2, <1>t DEF GateInv, PublishedInv, InCall, WaitTimeout
            <3> QED BY <1>6, <3>1, <3>2
      <2>4. AnswerInv'
            BY <1>6, <1>t DEF GateInv, AnswerInv, Arm, WaitTimeout
      <2> QED BY <1>t, <2>1, <2>2, <2>3, <2>4 DEF GateInv
<1>7. ASSUME NEW w \in Workers, Leave(w) PROVE GateInv'
      <2>1. OneSyncAtATime'
            BY <1>7, <1>t DEF GateInv, OneSyncAtATime, Leave
      <2>2. SyncInv' /\ PublishedInv' /\ AnswerInv'
            BY <1>7, <1>t DEF GateInv, SyncInv, PublishedInv, AnswerInv, InCall, Leave
      <2> QED BY <1>t, <2>1, <2>2 DEF GateInv
<1>8. CASE Tick
      BY <1>8, <1>t DEF GateInv, OneSyncAtATime, SyncInv, PublishedInv, AnswerInv,
                        InCall, Tick
<1>9. CASE UNCHANGED gateVars
      BY <1>9, <1>t DEF GateInv, OneSyncAtATime, SyncInv, PublishedInv, AnswerInv,
                        InCall, gateVars
<1> QED BY <1>1, <1>2, <1>3, <1>4, <1>5, <1>6, <1>7, <1>8, <1>9
        DEF GateNext, GateStep, AtRest

LEMMA GateInvAlways == GateSpec => []GateInv
BY GateInitInv, GateInvStep, PTL DEF GateSpec

\* Type correctness of the gate, for any workers and any bounds.
THEOREM GateTypeCorrect == GateSpec => []GateTypeOK
<1>1. GateInv => GateTypeOK
      BY DEF GateInv
<1> QED BY <1>1, GateInvAlways, PTL

\* The contract of sync_if_stale and sync_covering: an answer not earlier
\* than the snapshot vouches for every byte of it.
THEOREM GateContract == GateSpec => []AnswerCoversSnapshot
<1>1. GateInv => AnswerCoversSnapshot
      BY DEF GateInv, GateTypeOK, AnswerCoversSnapshot, AnswerInv, PublishedInv, InCall
<1> QED BY <1>1, GateInvAlways, PTL

\* sync_covering answers with a sync that started after the snapshot.
THEOREM CoveringContract == GateSpec => []CoveringAnswerIsFresh
<1>1. GateInv => CoveringAnswerIsFresh
      BY DEF GateInv, GateTypeOK, CoveringAnswerIsFresh, AnswerInv
<1> QED BY <1>1, GateInvAlways, PTL

\* At most one fdatasync of the gate runs at any time.
THEOREM OneSync == GateSpec => []OneSyncAtATime
<1>1. GateInv => OneSyncAtATime
      BY DEF GateInv
<1> QED BY <1>1, GateInvAlways, PTL

\* The published start never moves back.
THEOREM LastStartMonotone == GateSpec => LastStartNeverRegresses
<1>1. GateInv /\ [GateNext]_gateVars => [lastStart' >= lastStart]_gateVars
      BY DEF GateInv, GateTypeOK, SyncInv, gateVars, GateNext, GateStep, Enter, Decide,
             BeginSync, SyncOk, SyncErr, Arm, WaitTimeout, Leave, Tick, AtRest
<1> QED BY <1>1, GateInvAlways, PTL DEF GateSpec, LastStartNeverRegresses

-----------------------------------------------------------------------------
(* The writer. *)


NoIoFaults == SyncFaults = FALSE /\ FlushFaults = FALSE

\* The states of do_segment in which chunks may be ahead of the disk.
InAttempt(w) == pc[w] \in {"stream", "periodic", "aborting", "final"}

\* Who is in the gate, for what, and with a flushed BufWriter.
CallInv ==
    \A w \in Workers :
        /\ pc[w] = "periodic" => call[w] # "idle" /\ mode[w] = "stale"
        /\ pc[w] = "final" => call[w] # "idle" /\ mode[w] = "cover"
        /\ pc[w] \notin {"periodic", "final"} => call[w] = "idle"
        /\ pc[w] \in {"periodic", "final", "aborting"} => got[w] <= cached[w]
        /\ call[w] # "err"

\* The disk never runs ahead of the page cache.
CacheInv ==
    \A w \in Workers :
        /\ durable[w] <= cached[w]
        /\ \A v \in Workers : covered[v][w] <= cached[w]

\* Progress the worker or the coordinator remembers is durable, or belongs to
\* the chunks of the attempt under way.
ProgressInv ==
    \A w \in Workers :
        /\ base[w] <= durable[w]
        /\ base[w] <= got[w]
        /\ \/ shared[w] <= durable[w]
           \/ InAttempt(w) /\ shared[w] <= got[w] /\ base[w] < got[w]
        /\ \/ live[w] <= durable[w]
           \/ InAttempt(w) /\ live[w] <= got[w] /\ base[w] < got[w]

\* The snapshots of the periodic saves, and what they became.
SnapInv ==
    \A w \in Workers :
        /\ durOff[w] <= durable[w]
        /\ pend[w].off <= cached[w]
        /\ pend[w].t < lastStart => pend[w].off <= durable[w]
        /\ \A v \in Workers :
              call[v] = "sync" /\ pend[w].t <= myStart[v] => pend[w].off <= covered[v][w]

\* What is on its way to the database, and what a segment's end promises.
SavedInv ==
    \A w \in Workers :
        /\ pc[w] = "saving" => got[w] <= durable[w]
        /\ pc[w] = "complete" => got[w] = MaxOffset
        /\ pc[w] \in {"complete", "reported"} => durable[w] = MaxOffset
        /\ state[w] = "Pending" => pc[w] = "idle"

WriterInv ==
    /\ WriterTypeOK
    /\ GateInv
    /\ CallInv
    /\ CacheInv
    /\ ProgressInv
    /\ SnapInv
    /\ SavedInv
    /\ DbNotAheadOfDisk
    /\ WatermarksAreDurable
    /\ CompletedIsDurable
-----------------------------------------------------------------------------
(* Proofs. *)

USE GateAssumption, WriterAssumption
    DEF Offset, Time, Modes, CallStates, PCs, SegStates, NoValue, NoSnap

\* The variables of a worker keep their types when an assignment starts or ends.
WorkerTypes ==
    /\ pc \in [Workers -> PCs]
    /\ got \in [Workers -> Offset]
    /\ base \in [Workers -> Offset]
    /\ durOff \in [Workers -> Offset]
    /\ pend \in [Workers -> [off : Offset, t : 0 .. MaxTime + 1]]

LEMMA AssignmentTypes ==
    ASSUME WriterTypeOK, NEW w \in Workers,
           \/ \E off \in Offset : StartAt(w, off)
           \/ \E to \in PCs : EndAssignment(w, to)
    PROVE  WorkerTypes'
<1>1. ASSUME NEW off \in Offset, StartAt(w, off) PROVE WorkerTypes'
      BY <1>1 DEF WriterTypeOK, WorkerTypes, StartAt
<1>2. ASSUME NEW to \in PCs, EndAssignment(w, to) PROVE WorkerTypes'
      BY <1>2 DEF WriterTypeOK, WorkerTypes, EndAssignment
<1> QED BY <1>1, <1>2

LEMMA WriterTypeStep == WriterTypeOK /\ [WriterNext]_vars => WriterTypeOK'
<1> SUFFICES ASSUME WriterTypeOK, [WriterNext]_vars PROVE WriterTypeOK'
    OBVIOUS
<1>1. ASSUME NEW w \in Workers, Chunk(w) PROVE WriterTypeOK'
      BY <1>1 DEF WriterTypeOK, GateTypeOK, Chunk, gateVars, workerVars, coordVars
<1>2. ASSUME NEW w \in Workers, Periodic(w) PROVE WriterTypeOK'
      BY <1>2 DEF WriterTypeOK, GateTypeOK, Periodic, Enter, GoTo, Flushed,
              gateVars, workerVars, coordVars
<1>3. ASSUME NEW w \in Workers, PeriodicCommit(w) PROVE WriterTypeOK'
      BY <1>3 DEF WriterTypeOK, GateTypeOK, PeriodicCommit, Leave, NewDurable,
              gateVars, workerVars, coordVars
<1>4. ASSUME NEW w \in Workers, GateFailed(w) PROVE WriterTypeOK'
      BY <1>4 DEF WriterTypeOK, GateTypeOK, GateFailed, Leave, GoTo, gateVars,
              workerVars, coordVars
<1>5. ASSUME NEW w \in Workers, FlushErr(w) PROVE WriterTypeOK'
      BY <1>5 DEF WriterTypeOK, GateTypeOK, FlushErr, GoTo, gateVars, workerVars,
              coordVars
<1>6. ASSUME NEW w \in Workers, Abort(w) PROVE WriterTypeOK'
      BY <1>6 DEF WriterTypeOK, GateTypeOK, Abort, GoTo, Flushed, gateVars,
              workerVars, coordVars
<1>7. ASSUME NEW w \in Workers, BestEffortSync(w) PROVE WriterTypeOK'
      BY <1>7 DEF WriterTypeOK, GateTypeOK, BestEffortSync, GoTo, Larger, gateVars,
              workerVars, coordVars
<1>8. ASSUME NEW w \in Workers, SaveAborted(w) PROVE WriterTypeOK'
      BY <1>8 DEF WriterTypeOK, GateTypeOK, SaveAborted, GoTo, SaveOffset,
              gateVars, workerVars, coordVars
<1>9. ASSUME NEW w \in Workers, EndOfLoop(w) PROVE WriterTypeOK'
      BY <1>9 DEF WriterTypeOK, GateTypeOK, EndOfLoop, Enter, GoTo, Flushed,
              gateVars, workerVars, coordVars
<1>10. ASSUME NEW w \in Workers, FinalSynced(w) PROVE WriterTypeOK'
      BY <1>10 DEF WriterTypeOK, GateTypeOK, FinalSynced, Leave, GoTo, gateVars,
              workerVars, coordVars
<1>11. ASSUME NEW w \in Workers, Complete(w) PROVE WriterTypeOK'
      BY <1>11 DEF WriterTypeOK, GateTypeOK, Complete, EndAssignment, SaveOffset,
              gateVars, workerVars, coordVars
<1>12. ASSUME NEW w \in Workers, Retry(w) PROVE WriterTypeOK'
      <2>1. row[w] \in Offset /\ base[w] \in Offset
            BY DEF WriterTypeOK
      <2>2. WorkerTypes'
            BY <1>12, <2>1, AssignmentTypes DEF Retry
      <2> QED BY <1>12, <2>2
              DEF WriterTypeOK, GateTypeOK, WorkerTypes, Retry, gateVars, coordVars
<1>13. ASSUME NEW w \in Workers, HandBack(w) PROVE WriterTypeOK'
      BY <1>13 DEF WriterTypeOK, GateTypeOK, HandBack, EndAssignment, gateVars,
              workerVars, coordVars
<1>14. ASSUME NEW w \in Workers, HandleFailed(w) PROVE WriterTypeOK'
      BY <1>14 DEF WriterTypeOK, GateTypeOK, HandleFailed, GoTo, gateVars,
              workerVars, coordVars
<1>15. ASSUME NEW w \in Workers, Redispatch(w) PROVE WriterTypeOK'
      <2>1. live[w] \in Offset
            BY DEF WriterTypeOK
      <2>2. WorkerTypes'
            BY <1>15, <2>1, AssignmentTypes DEF Redispatch
      <2>3. row' \in [Workers -> Offset] /\ state' \in [Workers -> SegStates]
            BY <1>15, <2>1 DEF WriterTypeOK, Redispatch
      <2>4. UNCHANGED <<gateVars, table, batch, live, shared, fails, restarts>>
            BY <1>15 DEF Redispatch
      <2> QED BY <2>2, <2>3, <2>4 DEF WriterTypeOK, GateTypeOK, WorkerTypes, gateVars
<1>16. ASSUME NEW w \in Workers, HandleDone(w) PROVE WriterTypeOK'
      BY <1>16 DEF WriterTypeOK, GateTypeOK, HandleDone, GoTo, gateVars,
              workerVars, coordVars
<1>17. CASE SyncFromShared
      BY <1>17 DEF WriterTypeOK, GateTypeOK, SyncFromShared, gateVars, workerVars,
              coordVars
<1>18. CASE TakeBatch
      BY <1>18 DEF WriterTypeOK, GateTypeOK, TakeBatch, NoRows, gateVars,
              workerVars, coordVars
<1>19. CASE WriteBatch
      <2>1. \A w \in Workers : BatchRow(w) \in Offset
            BY DEF WriterTypeOK, BatchRow
      <2>2. row' \in [Workers -> Offset]
            BY <1>19, <2>1 DEF WriterTypeOK, WriteBatch
      <2>3. batch' \in [Workers -> Offset \cup {NoValue}]
            BY <1>19 DEF WriteBatch, NoRows
      <2>4. UNCHANGED <<gateVars, workerVars, table, live, state, shared, fails, restarts>>
            BY <1>19 DEF WriteBatch
      <2> QED BY <2>2, <2>3, <2>4 DEF WriterTypeOK, GateTypeOK, gateVars, workerVars
<1>20. ASSUME NEW powerLoss \in BOOLEAN, Restart(powerLoss) PROVE WriterTypeOK'
      <2>1. [x \in Workers |-> 0] \in [Workers -> Offset]
            OBVIOUS
      <2>2. covered' \in [Workers -> [Workers -> Offset]]
            BY <1>20, <2>1, Zenon DEF Restart
      <2>3. /\ now' \in Time /\ lastStart' \in 0 .. MaxTime + 1
            /\ cached' \in [Workers -> Offset] /\ durable' \in [Workers -> Offset]
            BY <1>20 DEF WriterTypeOK, GateTypeOK, Restart
      <2>4. syncing' \in BOOLEAN
            BY <1>20, Zenon DEF Restart
      <2>5. call' \in [Workers -> CallStates] /\ mode' \in [Workers -> Modes]
            BY <1>20 DEF Restart
      <2>6. /\ snapT' \in [Workers -> Time] /\ myStart' \in [Workers -> Time]
            /\ ret' \in [Workers -> Time]
            <3>1. [x \in Workers |-> 0] \in [Workers -> Time]
                  OBVIOUS
            <3> QED BY <1>20, <3>1 DEF Restart
      <2>7. GateTypeOK'
            BY <2>2, <2>3, <2>4, <2>5, <2>6, Zenon DEF GateTypeOK
      <2>8. /\ got' \in [Workers -> Offset] /\ pc' \in [Workers -> PCs]
            /\ pend' \in [Workers -> [off : Offset, t : 0 .. MaxTime + 1]]
            BY <1>20 DEF WriterTypeOK, Restart
      <2>9. /\ base' \in [Workers -> Offset] /\ durOff' \in [Workers -> Offset]
            BY <1>20, <2>8 DEF Restart
      <2>10. /\ table' \in [Workers -> Offset \cup {NoValue}]
             /\ batch' \in [Workers -> Offset \cup {NoValue}]
             BY <1>20 DEF Restart, NoRows
      <2>11. /\ row' \in [Workers -> Offset] /\ shared' \in [Workers -> Offset]
             /\ live' \in [Workers -> Offset] /\ state' \in [Workers -> SegStates]
             /\ fails' \in 0 .. MaxFails /\ restarts' \in 0 .. MaxRestarts
             BY <1>20 DEF WriterTypeOK, Restart
      <2> QED BY <2>7, <2>8, <2>9, <2>10, <2>11 DEF WriterTypeOK
<1>21. ASSUME NEW w \in Workers, GateAlone(w) PROVE WriterTypeOK'
      <2>1. GateTypeOK'
            BY <1>21, GateTypeStep DEF WriterTypeOK, GateAlone, GateNext
      <2> QED BY <1>21, <2>1 DEF WriterTypeOK, GateAlone, workerVars, coordVars
<1>22. CASE WriterTick
      <2>1. GateTypeOK'
            BY <1>22, GateTypeStep DEF WriterTypeOK, WriterTick, GateNext
      <2> QED BY <1>22, <2>1 DEF WriterTypeOK, WriterTick, workerVars, coordVars
<1>23. CASE UNCHANGED vars
      BY <1>23 DEF WriterTypeOK, GateTypeOK, vars, gateVars, workerVars, coordVars
<1> QED BY <1>1, <1>2, <1>3, <1>4, <1>5, <1>6, <1>7, <1>8, <1>9, <1>10, <1>11,
        <1>12, <1>13, <1>14, <1>15, <1>16, <1>17, <1>18, <1>19, <1>20, <1>21,
        <1>22, <1>23
        DEF WriterNext, WorkerStep, CoordStep, Finished

\* A covering answer without faults makes the flushed bytes durable.
LEMMA CoverMeansDurable ==
    ASSUME WriterInv, NEW w \in Workers, pc[w] = "final", call[w] = "ok"
    PROVE  got[w] <= durable[w]
<1>1. got[w] <= cached[w] /\ mode[w] = "cover" /\ InCall(w)
      BY DEF WriterInv, CallInv, InCall
<1>2. snapT[w] < lastStart
      BY <1>1 DEF WriterInv, GateInv, AnswerInv, WriterTypeOK, GateTypeOK
<1>3. cached[w] <= durable[w]
      BY <1>1, <1>2 DEF WriterInv, GateInv, PublishedInv
<1> QED BY <1>1, <1>3 DEF WriterInv, WriterTypeOK, GateTypeOK

\* Once flushed, the page cache holds everything the attempt received.
LEMMA FlushedCovers ==
    ASSUME WriterInv, NEW w \in Workers
    PROVE  /\ Flushed(w) \in Offset
           /\ got[w] <= Flushed(w)
           /\ cached[w] <= Flushed(w)
<1>1. base[w] <= cached[w]
      BY DEF WriterInv, ProgressInv, CacheInv, WriterTypeOK, GateTypeOK
<1> QED BY <1>1 DEF Flushed, WriterInv, WriterTypeOK, GateTypeOK

\* The watermark of a periodic save is durable, whichever answer it rests on.
LEMMA NewDurableIsDurable ==
    ASSUME WriterInv, NEW w \in Workers, pc[w] = "periodic", call[w] = "ok"
    PROVE  NewDurable(w) <= durable[w]
<1> USE DEF WriterInv, WriterTypeOK, GateTypeOK
<1>1. got[w] <= cached[w] /\ InCall(w) /\ ret[w] < lastStart
      BY DEF CallInv, InCall, GateInv, AnswerInv
<1>2. CASE ret[w] >= snapT[w]
      <2>1. cached[w] <= durable[w]
            BY <1>1, <1>2 DEF GateInv, PublishedInv
      <2> QED BY <1>1, <1>2, <2>1 DEF NewDurable
<1>3. CASE ~(ret[w] >= snapT[w]) /\ ret[w] >= pend[w].t
      <2>1. pend[w] \in [off : Offset, t : 0 .. MaxTime + 1]
            OBVIOUS
      <2>2. pend[w].t < lastStart
            BY <1>1, <1>3, <2>1
      <2> QED BY <1>3, <2>2 DEF NewDurable, SnapInv
<1>4. CASE ~(ret[w] >= snapT[w]) /\ ~(ret[w] >= pend[w].t)
      BY <1>4 DEF NewDurable, SnapInv
<1> QED BY <1>2, <1>3, <1>4

\* A worker that is in no attempt starts one, or ends its assignment, at an
\* offset that is durable.
LEMMA StartKeeps ==
    ASSUME WriterInv, WriterTypeOK', NEW w \in Workers, NEW off \in Offset,
           pc[w] \in {"aborted", "ioerr", "idle"}, off <= durable[w],
           StartAt(w, off), UNCHANGED <<gateVars, table, batch, live, shared>>
    PROVE  CallInv' /\ CacheInv' /\ ProgressInv' /\ SnapInv'
<1> USE DEF WriterInv, WriterTypeOK, GateTypeOK, gateVars
<1>1. CallInv'
      BY DEF CallInv, StartAt
<1>2. CacheInv'
      BY DEF CacheInv
<1>3. ProgressInv'
      BY DEF ProgressInv, InAttempt, StartAt
<1>4. SnapInv'
      BY DEF SnapInv, StartAt
<1> QED BY <1>1, <1>2, <1>3, <1>4

LEMMA EndKeeps ==
    ASSUME WriterInv, WriterTypeOK', NEW w \in Workers,
           pc[w] \in {"aborted", "ioerr", "idle"},
           EndAssignment(w, "reported"), UNCHANGED <<gateVars, table, batch, live, shared>>
    PROVE  CallInv' /\ CacheInv' /\ ProgressInv' /\ SnapInv'
<1> USE DEF WriterInv, WriterTypeOK, GateTypeOK, gateVars
<1>1. CallInv'
      BY DEF CallInv, EndAssignment
<1>2. CacheInv'
      BY DEF CacheInv
<1>3. ProgressInv'
      BY DEF ProgressInv, InAttempt, EndAssignment
<1>4. SnapInv'
      BY DEF SnapInv, EndAssignment
<1> QED BY <1>1, <1>2, <1>3, <1>4

\* What happens outside the gate's calls keeps its invariant.
LEMMA GateFrame ==
    ASSUME GateInv, GateTypeOK',
           UNCHANGED <<now, syncing, lastStart, call, mode, snapT, myStart, covered, ret>>,
           \A x \in Workers : durable[x] <= durable'[x],
           \A x \in Workers : call[x] # "idle" => cached'[x] = cached[x]
    PROVE  GateInv'
<1>1. OneSyncAtATime'
      BY Zenon DEF GateInv, OneSyncAtATime
<1>2. SyncInv' /\ AnswerInv'
      BY DEF GateInv, GateTypeOK, SyncInv, AnswerInv, InCall
<1>3. PublishedInv'
      BY DEF GateInv, GateTypeOK, PublishedInv, InCall
<1> QED BY <1>1, <1>2, <1>3 DEF GateInv

\* A save of an offset that is durable keeps the rows durable.
LEMMA RowWrite ==
    ASSUME row \in [Workers -> Offset], durable \in [Workers -> Offset], DbNotAheadOfDisk,
           NEW w \in Workers, NEW off \in Offset, off <= durable[w],
           row' = [row EXCEPT ![w] = off] \/ row' = row
    PROVE  \A x \in Workers : row'[x] <= durable[x]
BY DEF DbNotAheadOfDisk

LEMMA OffsetAtTop ==
    ASSUME NEW off \in Offset, ~(off < MaxOffset)
    PROVE  off = MaxOffset
OBVIOUS

LEMMA LargerIsCached ==
    ASSUME CacheInv, durable \in [Workers -> Offset], cached \in [Workers -> Offset],
           NEW x \in Workers
    PROVE  Larger(durable, cached)[x] = cached[x]
BY DEF CacheInv, Larger

LEMMA WriterInvStep == NoIoFaults /\ WriterInv /\ [WriterNext]_vars => WriterInv'
<1> SUFFICES ASSUME NoIoFaults, WriterInv, [WriterNext]_vars PROVE WriterInv'
    OBVIOUS
<1>t. WriterTypeOK /\ WriterTypeOK' /\ GateTypeOK
      BY WriterTypeStep DEF WriterInv, WriterTypeOK
<1> USE <1>t DEF WriterInv, WriterTypeOK, GateTypeOK, NoIoFaults, gateVars, workerVars, coordVars
<1>1. ASSUME NEW w \in Workers, Chunk(w) PROVE WriterInv'
      <2>1. GateInv'
            BY <1>1 DEF GateInv, OneSyncAtATime, SyncInv,
                    PublishedInv, AnswerInv, InCall, CallInv, Chunk
      <2>2. CallInv'
            BY <1>1 DEF CallInv, Chunk
      <2>3. CacheInv'
            BY <1>1 DEF CacheInv, Chunk
      <2>4. ProgressInv'
            BY <1>1 DEF ProgressInv, CacheInv, CallInv,
                    InAttempt, Chunk
      <2>5. SnapInv'
            BY <1>1 DEF SnapInv, CacheInv, CallInv, Chunk
      <2>6. SavedInv'
            BY <1>1 DEF SavedInv, CallInv, Chunk
      <2>7. DbNotAheadOfDisk' /\ WatermarksAreDurable' /\ CompletedIsDurable'
            BY <1>1 DEF DbNotAheadOfDisk, WatermarksAreDurable, CompletedIsDurable,
                    SavedInv, Chunk
      <2> QED BY <2>1, <2>2, <2>3, <2>4, <2>5, <2>6, <2>7
<1>2. ASSUME NEW w \in Workers, Periodic(w) PROVE WriterInv'
      <2>0. /\ Flushed(w) \in Offset
            /\ got[w] <= Flushed(w) /\ cached[w] <= Flushed(w)
            BY FlushedCovers
      <2>1. GateInv'
            <3>1. \E m \in Modes, off \in Offset : Enter(w, m, off)
                  BY <1>2, <2>0 DEF Periodic
            <3> QED BY <3>1, GateInvStep DEF GateNext
      <2>2. CallInv'
            BY <1>2, <2>0 DEF CallInv, Periodic, Enter, GoTo
      <2>3. CacheInv'
            BY <1>2, <2>0 DEF CacheInv, Periodic, Enter, GoTo
      <2>4. ProgressInv'
            BY <1>2, <2>0 DEF ProgressInv, CacheInv, CallInv,
                    InAttempt, Periodic, Enter, GoTo
      <2>5. SnapInv'
            BY <1>2, <2>0 DEF SnapInv, CacheInv, CallInv, Periodic,
                    Enter, GoTo
      <2>6. SavedInv'
            BY <1>2, <2>0 DEF SavedInv, CallInv, Periodic, Enter,
                    GoTo
      <2>7. DbNotAheadOfDisk' /\ WatermarksAreDurable' /\ CompletedIsDurable'
            BY <1>2, <2>0 DEF DbNotAheadOfDisk, WatermarksAreDurable, CompletedIsDurable,
                    SavedInv, Periodic, Enter, GoTo
      <2> QED BY <2>1, <2>2, <2>3, <2>4, <2>5, <2>6, <2>7
<1>3. ASSUME NEW w \in Workers, PeriodicCommit(w) PROVE WriterInv'
      <2>0. NewDurable(w) <= durable[w]
            BY <1>3, NewDurableIsDurable DEF PeriodicCommit
      <2>1. GateInv'
            BY <1>3, GateInvStep DEF PeriodicCommit, GateNext,
                    Flushed
      <2>2. CallInv'
            BY <1>3 DEF CallInv, PeriodicCommit, Leave,
                    NewDurable
      <2>3. CacheInv'
            BY <1>3 DEF CacheInv, PeriodicCommit, Leave,
                    NewDurable
      <2>4. ProgressInv'
            BY <1>3 DEF ProgressInv, CacheInv, CallInv,
                    InAttempt, PeriodicCommit, Leave, NewDurable
      <2>5. SnapInv'
            BY <1>3 DEF SnapInv, CacheInv, CallInv, GateInv,
                    PublishedInv, SyncInv, AnswerInv, InCall, PeriodicCommit, Leave,
                    NewDurable
      <2>6. SavedInv'
            BY <1>3 DEF SavedInv, CallInv, PeriodicCommit,
                    Leave, NewDurable
      <2>7. DbNotAheadOfDisk' /\ WatermarksAreDurable' /\ CompletedIsDurable'
            BY <1>3, <2>0 DEF DbNotAheadOfDisk, WatermarksAreDurable,
                    CompletedIsDurable, SavedInv, PeriodicCommit, Leave
      <2> QED BY <2>1, <2>2, <2>3, <2>4, <2>5, <2>6, <2>7
<1>4. ASSUME NEW w \in Workers, GateFailed(w) PROVE WriterInv'
      BY <1>4 DEF CallInv, GateFailed
<1>5. ASSUME NEW w \in Workers, Abort(w) PROVE WriterInv'
      <2>0. /\ Flushed(w) \in Offset
            /\ got[w] <= Flushed(w) /\ cached[w] <= Flushed(w)
            BY FlushedCovers
      <2>1. GateInv'
            <3>1. UNCHANGED <<now, durable, syncing, lastStart, call, mode, snapT,
                              myStart, covered, ret>>
                  BY <1>5 DEF Abort
            <3>2. \A x \in Workers : call[x] # "idle" => cached'[x] = cached[x]
                  BY <1>5 DEF Abort, CallInv
            <3>3. GateInv /\ GateTypeOK' /\ \A x \in Workers : durable[x] <= durable'[x]
                  BY <3>1
            <3> QED BY <3>1, <3>2, <3>3, GateFrame
      <2>2. CallInv'
            BY <1>5, <2>0 DEF CallInv, Abort, GoTo
      <2>3. CacheInv'
            BY <1>5, <2>0 DEF CacheInv, Abort, GoTo
      <2>4. ProgressInv'
            BY <1>5, <2>0 DEF ProgressInv, CacheInv, CallInv,
                    InAttempt, Abort, GoTo
      <2>5. SnapInv'
            BY <1>5, <2>0 DEF SnapInv, CacheInv, CallInv, Abort, GoTo
      <2>6. SavedInv'
            BY <1>5, <2>0 DEF SavedInv, CallInv, Abort, GoTo
      <2>7. DbNotAheadOfDisk' /\ WatermarksAreDurable' /\ CompletedIsDurable'
            BY <1>5, <2>0 DEF DbNotAheadOfDisk, WatermarksAreDurable, CompletedIsDurable,
                    SavedInv, Abort, GoTo
      <2> QED BY <2>1, <2>2, <2>3, <2>4, <2>5, <2>6, <2>7
<1>6. ASSUME NEW w \in Workers, BestEffortSync(w) PROVE WriterInv'
      <2>a. /\ durable' = Larger(durable, cached)
            /\ pc' = [pc EXCEPT ![w] = "saving"] /\ pc[w] = "aborting"
            /\ UNCHANGED <<now, cached, syncing, lastStart, call, mode, snapT, myStart,
                           covered, ret, coordVars, row, shared, got, base, durOff, pend>>
            BY <1>6 DEF BestEffortSync, GoTo
      <2>b. \A x \in Workers : durable'[x] = cached[x]
            BY <2>a, LargerIsCached
      <2>0. /\ \A x \in Workers : durable'[x] = cached[x]
            /\ pc' = [pc EXCEPT ![w] = "saving"] /\ pc[w] = "aborting"
            /\ UNCHANGED <<now, cached, syncing, lastStart, call, mode, snapT, myStart,
                           covered, ret, coordVars, row, shared, got, base, durOff, pend>>
            BY <2>a, <2>b
      <2>1. GateInv'
            BY <2>0, GateFrame DEF CacheInv
      <2>2. CallInv'
            BY <2>0 DEF CallInv
      <2>3. CacheInv'
            BY <2>0 DEF CacheInv
      <2>4. ProgressInv'
            BY <2>0 DEF ProgressInv, CacheInv, CallInv,
                    InAttempt
      <2>5. SnapInv'
            BY <2>0 DEF SnapInv, CacheInv, CallInv
      <2>6. SavedInv'
            BY <2>0 DEF SavedInv, CallInv, CacheInv
      <2>7. DbNotAheadOfDisk' /\ WatermarksAreDurable' /\ CompletedIsDurable'
            BY <2>0 DEF DbNotAheadOfDisk, WatermarksAreDurable, CompletedIsDurable,
                    SavedInv, CacheInv
      <2> QED BY <2>1, <2>2, <2>3, <2>4, <2>5, <2>6, <2>7
<1>7. ASSUME NEW w \in Workers, SaveAborted(w) PROVE WriterInv'
      <2>0. \A x \in Workers : row'[x] <= durable[x]
            <3>1. got[w] <= durable[w]
                  BY <1>7 DEF SaveAborted, SavedInv
            <3>2. row' = [row EXCEPT ![w] = got[w]] \/ row' = row
                  BY <1>7 DEF SaveAborted, SaveOffset
            <3> QED BY <3>1, <3>2, RowWrite
      <2>1. GateInv'
            BY <1>7 DEF GateInv, OneSyncAtATime, SyncInv,
                    PublishedInv, AnswerInv, InCall, CallInv, SaveAborted, GoTo,
                    SaveOffset
      <2>2. CallInv'
            BY <1>7 DEF CallInv, SaveAborted, GoTo, SaveOffset
      <2>3. CacheInv'
            BY <1>7 DEF CacheInv, SaveAborted, GoTo, SaveOffset
      <2>4. ProgressInv'
            BY <1>7 DEF ProgressInv, CacheInv, CallInv,
                    InAttempt, SaveAborted, GoTo, SaveOffset
      <2>5. SnapInv'
            BY <1>7 DEF SnapInv, CacheInv, CallInv, SaveAborted,
                    GoTo, SaveOffset
      <2>6. SavedInv'
            BY <1>7 DEF SavedInv, CallInv, SaveAborted, GoTo,
                    SaveOffset
      <2>7. DbNotAheadOfDisk' /\ WatermarksAreDurable' /\ CompletedIsDurable'
            BY <1>7, <2>0 DEF DbNotAheadOfDisk, WatermarksAreDurable, CompletedIsDurable,
                    SaveAborted, GoTo
      <2> QED BY <2>1, <2>2, <2>3, <2>4, <2>5, <2>6, <2>7
<1>8. ASSUME NEW w \in Workers, EndOfLoop(w) PROVE WriterInv'
      <2>0. /\ Flushed(w) \in Offset
            /\ got[w] <= Flushed(w) /\ cached[w] <= Flushed(w)
            BY FlushedCovers
      <2>1. GateInv'
            <3>1. \E m \in Modes, off \in Offset : Enter(w, m, off)
                  BY <1>8, <2>0 DEF EndOfLoop
            <3> QED BY <3>1, GateInvStep DEF GateNext
      <2>2. CallInv'
            BY <1>8, <2>0 DEF CallInv, EndOfLoop, Enter, GoTo
      <2>3. CacheInv'
            BY <1>8, <2>0 DEF CacheInv, EndOfLoop, Enter, GoTo
      <2>4. ProgressInv'
            BY <1>8, <2>0 DEF ProgressInv, CacheInv, CallInv,
                    InAttempt, EndOfLoop, Enter, GoTo
      <2>5. SnapInv'
            BY <1>8, <2>0 DEF SnapInv, CacheInv, CallInv, EndOfLoop,
                    Enter, GoTo
      <2>6. SavedInv'
            BY <1>8, <2>0 DEF SavedInv, CallInv, EndOfLoop, Enter,
                    GoTo
      <2>7. DbNotAheadOfDisk' /\ WatermarksAreDurable' /\ CompletedIsDurable'
            BY <1>8, <2>0 DEF DbNotAheadOfDisk, WatermarksAreDurable, CompletedIsDurable,
                    SavedInv, EndOfLoop, Enter, GoTo
      <2> QED BY <2>1, <2>2, <2>3, <2>4, <2>5, <2>6, <2>7
<1>9. ASSUME NEW w \in Workers, FinalSynced(w) PROVE WriterInv'
      <2>1. GateInv'
            BY <1>9, GateInvStep DEF FinalSynced, GateNext,
                    Flushed
      <2>2. CallInv'
            BY <1>9 DEF CallInv, FinalSynced, Leave, GoTo
      <2>3. CacheInv'
            BY <1>9 DEF CacheInv, FinalSynced, Leave, GoTo
      <2>4. ProgressInv'
            BY <1>9, CoverMeansDurable DEF ProgressInv,
                    CacheInv, CallInv, InAttempt, FinalSynced, Leave, GoTo
      <2>5. SnapInv'
            BY <1>9 DEF SnapInv, CacheInv, CallInv, FinalSynced,
                    Leave, GoTo
      <2>6. SavedInv'
            BY <1>9, CoverMeansDurable DEF SavedInv, CallInv,
                    FinalSynced, Leave, GoTo
      <2>7. DbNotAheadOfDisk' /\ WatermarksAreDurable' /\ CompletedIsDurable'
            BY <1>9 DEF DbNotAheadOfDisk, WatermarksAreDurable, CompletedIsDurable,
                    SavedInv, FinalSynced, Leave, GoTo
      <2> QED BY <2>1, <2>2, <2>3, <2>4, <2>5, <2>6, <2>7
<1>10. ASSUME NEW w \in Workers, Complete(w) PROVE WriterInv'
      <2>0. \A x \in Workers : row'[x] <= durable[x]
            <3>1. got[w] <= durable[w]
                  BY <1>10 DEF Complete, SavedInv
            <3>2. row' = [row EXCEPT ![w] = got[w]] \/ row' = row
                  BY <1>10 DEF Complete, SaveOffset
            <3> QED BY <3>1, <3>2, RowWrite
      <2>1. GateInv'
            BY <1>10 DEF GateInv, OneSyncAtATime, SyncInv,
                    PublishedInv, AnswerInv, InCall, CallInv, Complete,
                    EndAssignment, SaveOffset
      <2>2. CallInv'
            BY <1>10 DEF CallInv, Complete, EndAssignment,
                    SaveOffset
      <2>3. CacheInv'
            BY <1>10 DEF CacheInv, Complete, EndAssignment,
                    SaveOffset
      <2>4. ProgressInv'
            BY <1>10 DEF ProgressInv, CacheInv, CallInv,
                    InAttempt, Complete, EndAssignment, SaveOffset
      <2>5. SnapInv'
            BY <1>10 DEF SnapInv, CacheInv, CallInv, Complete,
                    EndAssignment, SaveOffset
      <2>6. SavedInv'
            BY <1>10 DEF SavedInv, CallInv, Complete,
                    EndAssignment, SaveOffset
      <2>7. DbNotAheadOfDisk' /\ WatermarksAreDurable' /\ CompletedIsDurable'
            BY <1>10, <2>0 DEF DbNotAheadOfDisk, WatermarksAreDurable, CompletedIsDurable,
                    Complete, EndAssignment
      <2> QED BY <2>1, <2>2, <2>3, <2>4, <2>5, <2>6, <2>7
<1>11. ASSUME NEW w \in Workers, Retry(w) PROVE WriterInv'
      <2>1. /\ pc[w] \in {"aborted", "ioerr"}
            /\ UNCHANGED <<gateVars, table, batch, live, shared, state, row>>
            BY <1>11 DEF Retry
      <2>2. /\ row[w] \in Offset /\ row[w] <= durable[w]
            /\ base[w] \in Offset /\ base[w] <= durable[w]
            BY DEF DbNotAheadOfDisk, ProgressInv
      <2>3. \/ StartAt(w, row[w])
            \/ row[w] = MaxOffset /\ EndAssignment(w, "reported")
            \/ StartAt(w, base[w])
            BY <1>11 DEF Retry
      <2>4. CallInv' /\ CacheInv' /\ ProgressInv' /\ SnapInv'
            BY <2>1, <2>2, <2>3, StartKeeps, EndKeeps
      <2>5. GateInv'
            BY <2>1, GateInvStep
      <2>6. SavedInv'
            <3>1. CASE row[w] = MaxOffset /\ EndAssignment(w, "reported")
                  BY <2>1, <2>2, <3>1 DEF SavedInv, EndAssignment
            <3>2. CASE StartAt(w, row[w]) \/ StartAt(w, base[w])
                  BY <2>1, <3>2 DEF SavedInv, StartAt
            <3> QED BY <2>3, <3>1, <3>2
      <2>7. DbNotAheadOfDisk' /\ WatermarksAreDurable' /\ CompletedIsDurable'
            BY <2>1 DEF DbNotAheadOfDisk, WatermarksAreDurable, CompletedIsDurable
      <2> QED BY <2>4, <2>5, <2>6, <2>7
<1>12. ASSUME NEW w \in Workers, HandBack(w) PROVE WriterInv'
      <2>1. GateInv'
            BY <1>12 DEF GateInv, OneSyncAtATime, SyncInv,
                    PublishedInv, AnswerInv, InCall, CallInv, HandBack, EndAssignment
      <2>2. CallInv'
            BY <1>12 DEF CallInv, HandBack, EndAssignment
      <2>3. CacheInv'
            BY <1>12 DEF CacheInv, HandBack, EndAssignment
      <2>4. ProgressInv'
            BY <1>12 DEF ProgressInv, CacheInv, CallInv,
                    InAttempt, HandBack, EndAssignment
      <2>5. SnapInv'
            BY <1>12 DEF SnapInv, CacheInv, CallInv, HandBack,
                    EndAssignment
      <2>6. SavedInv'
            BY <1>12 DEF SavedInv, CallInv, HandBack,
                    EndAssignment
      <2>7. DbNotAheadOfDisk' /\ WatermarksAreDurable' /\ CompletedIsDurable'
            BY <1>12 DEF DbNotAheadOfDisk, WatermarksAreDurable, CompletedIsDurable,
                    SavedInv, HandBack, EndAssignment
      <2> QED BY <2>1, <2>2, <2>3, <2>4, <2>5, <2>6, <2>7
<1>13. ASSUME NEW w \in Workers, HandleFailed(w) PROVE WriterInv'
      <2>1. GateInv'
            BY <1>13 DEF GateInv, OneSyncAtATime, SyncInv,
                    PublishedInv, AnswerInv, InCall, CallInv, HandleFailed, GoTo
      <2>2. CallInv'
            BY <1>13 DEF CallInv, HandleFailed, GoTo
      <2>3. CacheInv'
            BY <1>13 DEF CacheInv, HandleFailed, GoTo
      <2>4. ProgressInv'
            BY <1>13 DEF ProgressInv, CacheInv, CallInv,
                    InAttempt, HandleFailed, GoTo
      <2>5. SnapInv'
            BY <1>13 DEF SnapInv, CacheInv, CallInv,
                    HandleFailed, GoTo
      <2>6. SavedInv'
            BY <1>13 DEF SavedInv, CallInv, HandleFailed, GoTo
      <2>7. DbNotAheadOfDisk' /\ WatermarksAreDurable' /\ CompletedIsDurable'
            BY <1>13 DEF DbNotAheadOfDisk, WatermarksAreDurable, CompletedIsDurable,
                    SavedInv, HandleFailed, GoTo
      <2> QED BY <2>1, <2>2, <2>3, <2>4, <2>5, <2>6, <2>7
<1>14. ASSUME NEW w \in Workers, Redispatch(w) PROVE WriterInv'
      <2>1. /\ state[w] = "Pending" /\ state' = [state EXCEPT ![w] = "Active"]
            /\ row' = [row EXCEPT ![w] = live[w]] \/ row' = row
            /\ UNCHANGED <<gateVars, table, batch, live, shared>>
            BY <1>14 DEF Redispatch
      <2>2. pc[w] = "idle" /\ live[w] \in Offset /\ live[w] <= durable[w]
            BY <2>1 DEF SavedInv, ProgressInv, InAttempt
      <2>3. \/ StartAt(w, live[w])
            \/ live[w] = MaxOffset /\ EndAssignment(w, "reported")
            <3>0. IF live[w] < MaxOffset THEN StartAt(w, live[w])
                                         ELSE EndAssignment(w, "reported")
                  BY <1>14 DEF Redispatch
            <3>1. CASE live[w] < MaxOffset
                  BY <3>0, <3>1
            <3>2. CASE ~(live[w] < MaxOffset)
                  <4>1. EndAssignment(w, "reported")
                        BY <3>0, <3>2
                  <4>2. live[w] = MaxOffset
                        BY <2>2, <3>2, OffsetAtTop
                  <4> QED BY <4>1, <4>2
            <3> QED BY <3>1, <3>2
      <2>4. CallInv' /\ CacheInv' /\ ProgressInv' /\ SnapInv'
            <3>1. CASE StartAt(w, live[w])
                  BY <2>1, <2>2, <3>1, StartKeeps
            <3>2. CASE EndAssignment(w, "reported")
                  BY <2>1, <2>2, <3>2, EndKeeps
            <3> QED BY <2>3, <3>1, <3>2
      <2>5. GateInv'
            BY <2>1, GateInvStep
      <2>6. SavedInv'
            <3>1. CASE live[w] = MaxOffset /\ EndAssignment(w, "reported")
                  BY <2>1, <2>2, <3>1 DEF SavedInv, EndAssignment
            <3>2. CASE StartAt(w, live[w])
                  BY <2>1, <3>2 DEF SavedInv, StartAt
            <3> QED BY <2>3, <3>1, <3>2
      <2>7. DbNotAheadOfDisk'
            <3>1. \A x \in Workers : row'[x] <= durable[x]
                  BY <2>1, <2>2, RowWrite
            <3>2. durable' = durable
                  BY <2>1
            <3> QED BY <3>1, <3>2, Zenon DEF DbNotAheadOfDisk
      <2>8. WatermarksAreDurable' /\ CompletedIsDurable'
            BY <2>1 DEF WatermarksAreDurable, CompletedIsDurable
      <2> QED BY <2>4, <2>5, <2>6, <2>7, <2>8
<1>15. ASSUME NEW w \in Workers, HandleDone(w) PROVE WriterInv'
      <2>1. GateInv'
            BY <1>15 DEF GateInv, OneSyncAtATime, SyncInv,
                    PublishedInv, AnswerInv, InCall, CallInv, HandleDone, GoTo
      <2>2. CallInv'
            BY <1>15 DEF CallInv, HandleDone, GoTo
      <2>3. CacheInv'
            BY <1>15 DEF CacheInv, HandleDone, GoTo
      <2>4. ProgressInv'
            BY <1>15 DEF ProgressInv, CacheInv, CallInv,
                    InAttempt, SavedInv, HandleDone, GoTo
      <2>5. SnapInv'
            BY <1>15 DEF SnapInv, CacheInv, CallInv, HandleDone,
                    GoTo
      <2>6. SavedInv'
            BY <1>15 DEF SavedInv, CallInv, HandleDone, GoTo
      <2>7. DbNotAheadOfDisk' /\ WatermarksAreDurable' /\ CompletedIsDurable'
            BY <1>15 DEF DbNotAheadOfDisk, WatermarksAreDurable, CompletedIsDurable,
                    SavedInv, HandleDone, GoTo
      <2> QED BY <2>1, <2>2, <2>3, <2>4, <2>5, <2>6, <2>7
<1>16. CASE SyncFromShared
      <2>1. GateInv'
            BY <1>16 DEF GateInv, OneSyncAtATime, SyncInv,
                    PublishedInv, AnswerInv, InCall, CallInv, SyncFromShared
      <2>2. CallInv'
            BY <1>16 DEF CallInv, SyncFromShared
      <2>3. CacheInv'
            BY <1>16 DEF CacheInv, SyncFromShared
      <2>4. ProgressInv'
            BY <1>16 DEF ProgressInv, CacheInv, CallInv,
                    InAttempt, SyncFromShared
      <2>5. SnapInv'
            BY <1>16 DEF SnapInv, CacheInv, CallInv,
                    SyncFromShared
      <2>6. SavedInv'
            BY <1>16 DEF SavedInv, CallInv, SyncFromShared
      <2>7. DbNotAheadOfDisk' /\ WatermarksAreDurable' /\ CompletedIsDurable'
            BY <1>16 DEF DbNotAheadOfDisk, WatermarksAreDurable, CompletedIsDurable,
                    SavedInv, SyncFromShared
      <2> QED BY <2>1, <2>2, <2>3, <2>4, <2>5, <2>6, <2>7
<1>17. CASE TakeBatch
      <2>1. GateInv'
            BY <1>17 DEF GateInv, OneSyncAtATime, SyncInv,
                    PublishedInv, AnswerInv, InCall, CallInv, TakeBatch, NoRows
      <2>2. CallInv'
            BY <1>17 DEF CallInv, TakeBatch, NoRows
      <2>3. CacheInv'
            BY <1>17 DEF CacheInv, TakeBatch, NoRows
      <2>4. ProgressInv'
            BY <1>17 DEF ProgressInv, CacheInv, CallInv,
                    InAttempt, TakeBatch, NoRows
      <2>5. SnapInv'
            BY <1>17 DEF SnapInv, CacheInv, CallInv, TakeBatch,
                    NoRows
      <2>6. SavedInv'
            BY <1>17 DEF SavedInv, CallInv, TakeBatch, NoRows
      <2>7. DbNotAheadOfDisk' /\ WatermarksAreDurable' /\ CompletedIsDurable'
            BY <1>17 DEF DbNotAheadOfDisk, WatermarksAreDurable, CompletedIsDurable,
                    SavedInv, TakeBatch, NoRows
      <2> QED BY <2>1, <2>2, <2>3, <2>4, <2>5, <2>6, <2>7
<1>18. CASE WriteBatch
      <2>0. \A x \in Workers : row'[x] <= durable[x]
            <3>1. \A x \in Workers : BatchRow(x) <= durable[x]
                  BY DEF BatchRow, WatermarksAreDurable, DbNotAheadOfDisk
            <3>2. row' = [x \in Workers |-> BatchRow(x)] \/ row' = row
                  BY <1>18 DEF WriteBatch
            <3> QED BY <3>1, <3>2 DEF DbNotAheadOfDisk
      <2>1. GateInv'
            BY <1>18 DEF GateInv, OneSyncAtATime, SyncInv,
                    PublishedInv, AnswerInv, InCall, CallInv, WriteBatch, NoRows,
                    BatchRow
      <2>2. CallInv'
            BY <1>18 DEF CallInv, WriteBatch, NoRows, BatchRow
      <2>3. CacheInv'
            BY <1>18 DEF CacheInv, WriteBatch, NoRows, BatchRow
      <2>4. ProgressInv'
            BY <1>18 DEF ProgressInv, CacheInv, CallInv,
                    InAttempt, WriteBatch, NoRows, BatchRow
      <2>5. SnapInv'
            BY <1>18 DEF SnapInv, CacheInv, CallInv, WriteBatch,
                    NoRows, BatchRow
      <2>6. SavedInv'
            BY <1>18 DEF SavedInv, CallInv, WriteBatch, NoRows,
                    BatchRow
      <2>7. DbNotAheadOfDisk' /\ WatermarksAreDurable' /\ CompletedIsDurable'
            BY <1>18, <2>0 DEF DbNotAheadOfDisk, WatermarksAreDurable, CompletedIsDurable,
                    WriteBatch, NoRows
      <2> QED BY <2>1, <2>2, <2>3, <2>4, <2>5, <2>6, <2>7
<1>19. ASSUME NEW powerLoss \in BOOLEAN, Restart(powerLoss) PROVE WriterInv'
      <2>1. GateInv'
            BY <1>19 DEF GateInv, OneSyncAtATime, SyncInv,
                    PublishedInv, AnswerInv, InCall, CallInv, Restart, NoRows
      <2>2. CallInv'
            BY <1>19 DEF CallInv, Restart, NoRows
      <2>3. CacheInv'
            BY <1>19 DEF CacheInv, Restart, NoRows
      <2>4. ProgressInv'
            BY <1>19 DEF ProgressInv, CacheInv, CallInv,
                    InAttempt, DbNotAheadOfDisk, Restart, NoRows
      <2>5. SnapInv'
            BY <1>19 DEF SnapInv, CacheInv, CallInv,
                    DbNotAheadOfDisk, Restart, NoRows
      <2>6. SavedInv'
            BY <1>19 DEF SavedInv, CallInv, Restart, NoRows
      <2>7. DbNotAheadOfDisk' /\ WatermarksAreDurable' /\ CompletedIsDurable'
            BY <1>19 DEF DbNotAheadOfDisk, WatermarksAreDurable, CompletedIsDurable,
                    SavedInv, Restart, NoRows
      <2> QED BY <2>1, <2>2, <2>3, <2>4, <2>5, <2>6, <2>7
<1>20. ASSUME NEW w \in Workers, GateAlone(w) PROVE WriterInv'
      <2>1. GateInv'
            BY <1>20, GateInvStep DEF GateAlone, GateNext
      <2>2. CASE Decide(w)
            <3>1. CallInv'
                  BY <1>20, <2>2 DEF CallInv, GateAlone, Decide
            <3>2. CacheInv'
                  BY <1>20, <2>2 DEF CacheInv, GateAlone, Decide
            <3>3. ProgressInv'
                  BY <1>20, <2>2 DEF ProgressInv, InAttempt, CacheInv, GateAlone,
                          Decide
            <3>4. SnapInv'
                  BY <1>20, <2>2 DEF SnapInv, CacheInv, GateAlone, Decide
            <3>5. SavedInv'
                  BY <1>20, <2>2 DEF SavedInv, CacheInv, GateAlone, Decide
            <3>6. DbNotAheadOfDisk' /\ WatermarksAreDurable' /\ CompletedIsDurable'
                  BY <1>20, <2>2 DEF DbNotAheadOfDisk, WatermarksAreDurable,
                          CompletedIsDurable, GateAlone, Decide
            <3> QED BY <2>1, <3>1, <3>2, <3>3, <3>4, <3>5, <3>6
      <2>3. CASE BeginSync(w)
            <3>1. CallInv'
                  BY <1>20, <2>3 DEF CallInv, GateAlone, BeginSync
            <3>2. CacheInv'
                  BY <1>20, <2>3 DEF CacheInv, GateAlone, BeginSync
            <3>3. ProgressInv'
                  BY <1>20, <2>3 DEF ProgressInv, InAttempt, CacheInv, GateAlone,
                          BeginSync
            <3>4. SnapInv'
                  BY <1>20, <2>3 DEF SnapInv, CacheInv, GateAlone, BeginSync
            <3>5. SavedInv'
                  BY <1>20, <2>3 DEF SavedInv, CacheInv, GateAlone, BeginSync
            <3>6. DbNotAheadOfDisk' /\ WatermarksAreDurable' /\ CompletedIsDurable'
                  BY <1>20, <2>3 DEF DbNotAheadOfDisk, WatermarksAreDurable,
                          CompletedIsDurable, GateAlone, BeginSync
            <3> QED BY <2>1, <3>1, <3>2, <3>3, <3>4, <3>5, <3>6
      <2>4. CASE SyncOk(w)
            <3>1. CallInv'
                  BY <1>20, <2>4 DEF CallInv, GateAlone, SyncOk, WakeParked, Larger
            <3>2. CacheInv'
                  BY <1>20, <2>4 DEF CacheInv, GateAlone, SyncOk, WakeParked, Larger
            <3>3. ProgressInv'
                  BY <1>20, <2>4 DEF ProgressInv, InAttempt, CacheInv, GateAlone,
                          SyncOk, WakeParked, Larger
            <3>4. SnapInv'
                  <4>1. /\ call[w] = "sync" /\ lastStart' = myStart[w] + 1
                        /\ \A v \in Workers : call'[v] = "sync" => call[v] = "sync"
                        /\ UNCHANGED <<cached, myStart, covered, durOff, pend>>
                        BY <1>20, <2>4 DEF GateAlone, SyncOk, WakeParked
                  <4>2. \A x \in Workers : durable[x] <= durable'[x] /\ covered[w][x] <= durable'[x]
                        BY <1>20, <2>4 DEF GateAlone, SyncOk, Larger
                  <4>3. \A x \in Workers :
                            /\ durOff[x] <= durable'[x]
                            /\ pend[x].t <= myStart[w] => pend[x].off <= durable'[x]
                        BY <4>1, <4>2 DEF SnapInv
                  <4> QED BY <4>1, <4>2, <4>3 DEF SnapInv
            <3>5. SavedInv'
                  BY <1>20, <2>4 DEF SavedInv, CacheInv, GateAlone, SyncOk,
                          WakeParked, Larger
            <3>6. DbNotAheadOfDisk' /\ WatermarksAreDurable' /\ CompletedIsDurable'
                  BY <1>20, <2>4 DEF DbNotAheadOfDisk, WatermarksAreDurable,
                          CompletedIsDurable, GateAlone, SyncOk, WakeParked, Larger
            <3> QED BY <2>1, <3>1, <3>2, <3>3, <3>4, <3>5, <3>6
      <2>5. CASE Arm(w)
            <3>1. CallInv'
                  BY <1>20, <2>5 DEF CallInv, GateAlone, Arm
            <3>2. CacheInv'
                  BY <1>20, <2>5 DEF CacheInv, GateAlone, Arm
            <3>3. ProgressInv'
                  BY <1>20, <2>5 DEF ProgressInv, InAttempt, CacheInv, GateAlone, Arm
            <3>4. SnapInv'
                  BY <1>20, <2>5 DEF SnapInv, CacheInv, GateAlone, Arm
            <3>5. SavedInv'
                  BY <1>20, <2>5 DEF SavedInv, CacheInv, GateAlone, Arm
            <3>6. DbNotAheadOfDisk' /\ WatermarksAreDurable' /\ CompletedIsDurable'
                  BY <1>20, <2>5 DEF DbNotAheadOfDisk, WatermarksAreDurable,
                          CompletedIsDurable, GateAlone, Arm
            <3> QED BY <2>1, <3>1, <3>2, <3>3, <3>4, <3>5, <3>6
      <2>6. CASE WaitTimeout(w)
            <3>1. CallInv'
                  BY <1>20, <2>6 DEF CallInv, GateAlone, WaitTimeout
            <3>2. CacheInv'
                  BY <1>20, <2>6 DEF CacheInv, GateAlone, WaitTimeout
            <3>3. ProgressInv'
                  BY <1>20, <2>6 DEF ProgressInv, InAttempt, CacheInv, GateAlone,
                          WaitTimeout
            <3>4. SnapInv'
                  BY <1>20, <2>6 DEF SnapInv, CacheInv, GateAlone, WaitTimeout
            <3>5. SavedInv'
                  BY <1>20, <2>6 DEF SavedInv, CacheInv, GateAlone, WaitTimeout
            <3>6. DbNotAheadOfDisk' /\ WatermarksAreDurable' /\ CompletedIsDurable'
                  BY <1>20, <2>6 DEF DbNotAheadOfDisk, WatermarksAreDurable,
                          CompletedIsDurable, GateAlone, WaitTimeout
            <3> QED BY <2>1, <3>1, <3>2, <3>3, <3>4, <3>5, <3>6
      <2> QED BY <1>20, <2>2, <2>3, <2>4, <2>5, <2>6 DEF GateAlone, GateStep, SyncErr
<1>21. CASE WriterTick
      <2>1. GateInv'
            BY <1>21, GateInvStep DEF WriterTick, GateNext
      <2> QED BY <1>21, <2>1 DEF CallInv, CacheInv, ProgressInv, InAttempt, SnapInv,
                    SavedInv, DbNotAheadOfDisk, WatermarksAreDurable,
                    CompletedIsDurable, WriterTick, Tick
<1>22. CASE UNCHANGED vars
      <2>1. GateInv'
            BY <1>22, GateInvStep DEF vars
      <2> QED BY <1>22, <2>1 DEF CallInv, CacheInv, ProgressInv, InAttempt, SnapInv,
                    SavedInv, DbNotAheadOfDisk, WatermarksAreDurable,
                    CompletedIsDurable, vars
<1> QED BY <1>1, <1>2, <1>3, <1>4, <1>5, <1>6, <1>7, <1>8, <1>9, <1>10, <1>11, <1>12,
        <1>13, <1>14, <1>15, <1>16, <1>17, <1>18, <1>19, <1>20, <1>21, <1>22
        DEF WriterNext, WorkerStep, CoordStep, Finished, FlushErr

LEMMA WriterInitInv == NoIoFaults /\ WriterInit => WriterInv
<1> SUFFICES ASSUME WriterInit PROVE WriterInv
    OBVIOUS
<1>1. GateInv
      BY GateInitInv DEF WriterInit
<1>2. WriterTypeOK
      <2>1. /\ pc \in [Workers -> PCs]
            /\ got \in [Workers -> Offset] /\ base \in [Workers -> Offset]
            /\ durOff \in [Workers -> Offset]
            /\ pend \in [Workers -> [off : Offset, t : 0 .. MaxTime + 1]]
            BY DEF WriterInit
      <2>2. /\ table \in [Workers -> Offset \cup {NoValue}]
            /\ batch \in [Workers -> Offset \cup {NoValue}]
            BY DEF WriterInit, NoRows
      <2>3. /\ row \in [Workers -> Offset] /\ shared \in [Workers -> Offset]
            /\ live \in [Workers -> Offset] /\ state \in [Workers -> SegStates]
            BY DEF WriterInit
      <2>4. fails \in 0 .. MaxFails /\ restarts \in 0 .. MaxRestarts
            BY DEF WriterInit
      <2> QED BY <1>1, <2>1, <2>2, <2>3, <2>4, Zenon DEF WriterTypeOK, GateInv
<1>3. CallInv
      BY DEF WriterInit, GateInit, CallInv
<1>4. CacheInv /\ ProgressInv /\ SnapInv
      BY DEF WriterInit, GateInit, CacheInv, ProgressInv, SnapInv
<1>5. SavedInv /\ DbNotAheadOfDisk /\ CompletedIsDurable
      BY DEF WriterInit, GateInit, SavedInv, DbNotAheadOfDisk, CompletedIsDurable
<1>6. WatermarksAreDurable
      BY DEF WriterInit, NoRows, WatermarksAreDurable
<1> QED BY <1>1, <1>2, <1>3, <1>4, <1>5, <1>6 DEF WriterInv

LEMMA WriterInvAlways == NoIoFaults => (WriterSpec => []WriterInv)
<1>1. CASE NoIoFaults
      <2>1. WriterInit => WriterInv
            BY <1>1, WriterInitInv
      <2>2. WriterInv /\ [WriterNext]_vars => WriterInv'
            BY <1>1, WriterInvStep
      <2> QED BY <2>1, <2>2, PTL DEF WriterSpec
<1> QED BY <1>1

\* Every state of the write loop, its retries and the coordinator's side of it
\* is well-formed, with or without I/O faults.
THEOREM WriterTypeCorrect == WriterSpec => []WriterTypeOK
<1>1. WriterInit => WriterTypeOK
      <2> SUFFICES ASSUME WriterInit PROVE WriterTypeOK
          OBVIOUS
      <2>1. GateTypeOK
            BY GateInitInv DEF WriterInit, GateInv
      <2>2. /\ pc \in [Workers -> PCs]
            /\ got \in [Workers -> Offset] /\ base \in [Workers -> Offset]
            /\ durOff \in [Workers -> Offset]
            /\ pend \in [Workers -> [off : Offset, t : 0 .. MaxTime + 1]]
            BY DEF WriterInit
      <2>3. /\ table \in [Workers -> Offset \cup {NoValue}]
            /\ batch \in [Workers -> Offset \cup {NoValue}]
            BY DEF WriterInit, NoRows
      <2>4. /\ row \in [Workers -> Offset] /\ shared \in [Workers -> Offset]
            /\ live \in [Workers -> Offset] /\ state \in [Workers -> SegStates]
            BY DEF WriterInit
      <2>5. fails \in 0 .. MaxFails /\ restarts \in 0 .. MaxRestarts
            BY DEF WriterInit
      <2> QED BY <2>1, <2>2, <2>3, <2>4, <2>5, Zenon DEF WriterTypeOK
<1> QED BY <1>1, WriterTypeStep, PTL DEF WriterSpec

\* As long as flushes and fdatasyncs succeed, the offset a resume reads from the
\* database is on disk, whatever the interleaving, the restarts, the power
\* losses and the failures of database statements.
THEOREM RowsAreDurable == NoIoFaults => (WriterSpec => []DbNotAheadOfDisk)
<1>1. WriterInv => DbNotAheadOfDisk
      BY DEF WriterInv
<1> QED BY <1>1, WriterInvAlways, PTL

\* Under the same assumption every watermark waiting for the coordinator's batch
\* is durable.
THEOREM WatermarksDurable == NoIoFaults => (WriterSpec => []WatermarksAreDurable)
<1>1. WriterInv => WatermarksAreDurable
      BY DEF WriterInv
<1> QED BY <1>1, WriterInvAlways, PTL

\* A segment reported complete is durable to its last byte.
THEOREM CompletionDurable == NoIoFaults => (WriterSpec => []CompletedIsDurable)
<1>1. WriterInv => CompletedIsDurable
      BY DEF WriterInv
<1> QED BY <1>1, WriterInvAlways, PTL

\* No attempt starts past a byte of its segment that was never written.
THEOREM NoGap == NoIoFaults => (WriterSpec => []NoSkippedBytes)
<1>1. WriterInv => NoSkippedBytes
      BY DEF WriterInv, WriterTypeOK, GateTypeOK, ProgressInv, CacheInv, NoSkippedBytes
<1> QED BY <1>1, WriterInvAlways, PTL

-----------------------------------------------------------------------------
(* The refinement of DurableProgress. *)

NoFaults == NoIoFaults /\ DbFaults = FALSE

\* A segment that is reported or complete has a full row, and nobody works on a
\* complete one.
RowAtEnd ==
    \A w \in Workers :
        /\ state[w] = "Completed" => pc[w] = "idle"
        /\ state[w] = "Completed" \/ pc[w] = "reported" => row[w] = MaxOffset

\* Such a segment keeps its row through an action on another one, and an action
\* on w itself may only report it with a full row.
LEMMA RowAtEndFrame ==
    ASSUME RowAtEnd, WriterTypeOK, NEW w \in Workers, state[w] # "Completed",
           \A x \in Workers \ {w} : pc'[x] = pc[x] /\ row'[x] = row[x],
           \A x \in Workers : state'[x] = "Completed" => state[x] = "Completed",
           pc'[w] = "reported" => row'[w] = MaxOffset
    PROVE  RowAtEnd'
BY DEF RowAtEnd

LEMMA RowAtEndStep ==
    NoFaults /\ WriterInv /\ RowAtEnd /\ [WriterNext]_vars => RowAtEnd'
<1> SUFFICES ASSUME NoFaults, WriterInv, RowAtEnd, [WriterNext]_vars PROVE RowAtEnd'
    OBVIOUS
<1>t. WriterTypeOK
      BY DEF WriterInv
<1>p. /\ pc \in [Workers -> PCs] /\ row \in [Workers -> Offset]
      /\ state \in [Workers -> SegStates] /\ got \in [Workers -> Offset]
      BY <1>t DEF WriterTypeOK
<1> USE <1>t, <1>p DEF gateVars, workerVars, coordVars
<1>0. ASSUME NEW w \in Workers, pc[w] # "idle" PROVE state[w] # "Completed"
      BY <1>0 DEF RowAtEnd
<1>1. ASSUME NEW w \in Workers, Chunk(w) \/ PeriodicCommit(w) PROVE RowAtEnd'
      BY <1>1 DEF RowAtEnd, Chunk, PeriodicCommit
<1>2. ASSUME NEW w \in Workers,
             Periodic(w) \/ GateFailed(w) \/ FlushErr(w) \/ Abort(w) \/ BestEffortSync(w)
               \/ EndOfLoop(w) \/ FinalSynced(w)
      PROVE  RowAtEnd'
      <2>1. /\ \E to \in PCs : GoTo(w, to) /\ to # "reported"
            /\ UNCHANGED <<row, state>> /\ pc[w] # "idle"
            BY <1>2, {"complete", "saving"} \subseteq PCs
               DEF PCs, Periodic, GateFailed, FlushErr, Abort, BestEffortSync, EndOfLoop,
                   FinalSynced
      <2> QED BY <2>1, <1>0, RowAtEndFrame DEF GoTo
<1>3. ASSUME NEW w \in Workers, SaveAborted(w) PROVE RowAtEnd'
      BY <1>3, <1>0, RowAtEndFrame DEF SaveAborted, SaveOffset, GoTo
<1>4. ASSUME NEW w \in Workers, Complete(w) PROVE RowAtEnd'
      <2>1. got[w] = MaxOffset
            BY <1>4 DEF WriterInv, SavedInv, Complete
      <2> QED BY <1>4, <2>1, <1>0, RowAtEndFrame
              DEF Complete, SaveOffset, EndAssignment, NoFaults
<1>5. ASSUME NEW w \in Workers, Retry(w) PROVE RowAtEnd'
      BY <1>5, <1>0, RowAtEndFrame DEF Retry, StartAt, EndAssignment
<1>6. ASSUME NEW w \in Workers, HandBack(w) PROVE RowAtEnd'
      BY <1>6, <1>0, RowAtEndFrame DEF HandBack, EndAssignment
<1>7. ASSUME NEW w \in Workers, HandleFailed(w) PROVE RowAtEnd'
      BY <1>7, <1>0, RowAtEndFrame DEF HandleFailed, GoTo
<1>8. ASSUME NEW w \in Workers, Redispatch(w) PROVE RowAtEnd'
      <2>1. row' = [row EXCEPT ![w] = live[w]] /\ state[w] = "Pending"
            BY <1>8 DEF Redispatch, NoFaults
      <2>2. live[w] \in Offset
            BY DEF WriterTypeOK
      <2>3. CASE live[w] < MaxOffset
            BY <1>8, <2>1, <2>3, RowAtEndFrame DEF Redispatch, StartAt
      <2>4. CASE ~(live[w] < MaxOffset)
            <3>1. live[w] = MaxOffset
                  BY <2>2, <2>4, OffsetAtTop
            <3> QED BY <1>8, <2>1, <2>4, <3>1, RowAtEndFrame DEF Redispatch, EndAssignment
      <2> QED BY <2>3, <2>4
<1>9. ASSUME NEW w \in Workers, HandleDone(w) PROVE RowAtEnd'
      BY <1>9 DEF HandleDone, GoTo, RowAtEnd
<1>10. CASE SyncFromShared \/ TakeBatch \/ WriterTick
      BY <1>10 DEF SyncFromShared, TakeBatch, WriterTick, RowAtEnd
<1>11. CASE WriteBatch
      <2>1. \A x \in Workers : row[x] = MaxOffset => BatchRow(x) = MaxOffset
            <3> SUFFICES ASSUME NEW x \in Workers, row[x] = MaxOffset
                         PROVE  BatchRow(x) = MaxOffset
                OBVIOUS
            <3>1. batch[x] \in Offset \cup {NoValue}
                  BY <1>t DEF WriterTypeOK
            <3> QED BY <3>1, GateAssumption DEF BatchRow, Offset, NoValue
      <2> QED BY <1>11, <2>1 DEF WriteBatch, RowAtEnd
<1>12. ASSUME NEW powerLoss \in BOOLEAN, Restart(powerLoss) PROVE RowAtEnd'
      BY <1>12 DEF Restart, RowAtEnd
<1>13. ASSUME NEW w \in Workers, GateAlone(w) PROVE RowAtEnd'
      BY <1>13 DEF GateAlone, RowAtEnd
<1>14. CASE UNCHANGED vars
      BY <1>14 DEF vars, RowAtEnd
<1> QED BY <1>1, <1>2, <1>3, <1>4, <1>5, <1>6, <1>7, <1>8, <1>9, <1>10, <1>11, <1>12,
        <1>13, <1>14
        DEF WriterNext, WorkerStep, CoordStep, Finished

LEMMA RowAtEndInit == WriterInit => RowAtEnd
BY DEF WriterInit, RowAtEnd

LEMMA LargerNotBelow ==
    ASSUME NEW f \in [Workers -> Offset], NEW g \in [Workers -> Offset], NEW x \in Workers
    PROVE  Larger(f, g)[x] >= f[x]
<1>1. f[x] \in Nat
      BY GateAssumption DEF Offset
<1>2. g[x] \in Nat
      BY GateAssumption DEF Offset
<1> QED BY <1>1, <1>2 DEF Larger

\* What a step of the write path is to DurableProgress.
LEMMA FillStep ==
    ASSUME durable \in [Workers -> Offset], durable' \in [Workers -> Offset],
           \A w \in Workers : durable'[w] >= durable[w],
           row' = row,
           \A w \in Workers : state'[w] = "Completed" <=> state[w] = "Completed"
    PROVE  [Durable!ProgressNext]_(Durable!progressVars)
BY DEF Durable!ProgressNext, Durable!Fill, Durable!NotBelow, Offset

LEMMA RowStep ==
    ASSUME row \in [Workers -> Offset], durable \in [Workers -> Offset],
           NEW w \in Workers, NEW off \in Offset, off <= durable[w], DbNotAheadOfDisk,
           state[w] # "Completed",
           row' = [row EXCEPT ![w] = off], durable' = durable,
           \A x \in Workers : state'[x] = "Completed" <=> state[x] = "Completed"
    PROVE  [Durable!ProgressNext]_(Durable!progressVars)
<1>1. {x \in Workers : state'[x] = "Completed"} = {x \in Workers : state[x] = "Completed"}
      OBVIOUS
<1>2. row' \in [Workers -> 0 .. MaxOffset]
      BY DEF Offset
<1>3. CASE off >= row[w]
      <2>1. Durable!NotBelow(row', row) /\ Durable!NotBelow(durable, row')
            BY <1>3, GateAssumption DEF Durable!NotBelow, DbNotAheadOfDisk, Offset
      <2>2. Durable!Save
            BY <1>1, <1>2, <2>1 DEF Durable!Save
      <2> QED BY <2>2 DEF Durable!ProgressNext
<1>4. CASE ~(off >= row[w])
      <2>1. off \in 0 .. row[w]
            BY <1>4, GateAssumption DEF Offset
      <2>2. Durable!HandOver(w)
            BY <1>1, <2>1 DEF Durable!HandOver
      <2> QED BY <2>2 DEF Durable!ProgressNext
<1> QED BY <1>3, <1>4

LEMMA FinishStep ==
    ASSUME UNCHANGED <<durable, row>>,
           \A w \in Workers : state[w] = "Completed" => state'[w] = "Completed",
           \A w \in Workers : state'[w] = "Completed" => row[w] = MaxOffset
    PROVE  [Durable!ProgressNext]_(Durable!progressVars)
BY DEF Durable!ProgressNext, Durable!Finish

LEMMA RefinementStep ==
    NoFaults /\ WriterInv /\ WriterInv' /\ RowAtEnd /\ RowAtEnd' /\ [WriterNext]_vars
        => [Durable!ProgressNext]_(Durable!progressVars)
<1> SUFFICES ASSUME NoFaults, WriterInv, WriterInv', RowAtEnd, RowAtEnd', [WriterNext]_vars
             PROVE  [Durable!ProgressNext]_(Durable!progressVars)
    OBVIOUS
<1>t. /\ WriterTypeOK /\ WriterTypeOK'
      /\ row \in [Workers -> Offset] /\ row' \in [Workers -> Offset]
      /\ durable \in [Workers -> Offset] /\ durable' \in [Workers -> Offset]
      /\ state \in [Workers -> SegStates] /\ got \in [Workers -> Offset]
      /\ live \in [Workers -> Offset]
      BY DEF WriterInv, WriterTypeOK, GateTypeOK
<1>d. DbNotAheadOfDisk
      BY DEF WriterInv
<1>r. \A w \in Workers : durable[w] >= durable[w]
      BY <1>t, GateAssumption DEF Offset
<1> USE DEF gateVars, workerVars, coordVars
<1>0. ASSUME UNCHANGED <<durable, row, state>>
      PROVE  [Durable!ProgressNext]_(Durable!progressVars)
      BY <1>0 DEF Durable!progressVars
<1>1. ASSUME NEW w \in Workers,
             Chunk(w) \/ Periodic(w) \/ PeriodicCommit(w) \/ GateFailed(w) \/ FlushErr(w)
               \/ Abort(w) \/ EndOfLoop(w) \/ FinalSynced(w) \/ Retry(w) \/ HandBack(w)
      PROVE  UNCHANGED <<durable, row, state>>
      BY <1>1 DEF Chunk, Periodic, PeriodicCommit, GateFailed, FlushErr, Abort, EndOfLoop,
              FinalSynced, Retry, HandBack, Enter, Leave, GoTo, EndAssignment, StartAt
<1>2. ASSUME NEW w \in Workers, BestEffortSync(w)
      PROVE  [Durable!ProgressNext]_(Durable!progressVars)
      <2>1. /\ durable' = durable \/ durable' = Larger(durable, cached)
            /\ row' = row /\ state' = state
            BY <1>2 DEF BestEffortSync
      <2>2. \A x \in Workers : durable'[x] >= durable[x]
            <3>1. cached \in [Workers -> Offset]
                  BY <1>t DEF WriterTypeOK, GateTypeOK
            <3> QED BY <2>1, <3>1, <1>t, <1>r, LargerNotBelow
      <2> QED BY <2>1, <2>2, <1>t, FillStep
<1>3. ASSUME NEW w \in Workers, GateAlone(w)
      PROVE  [Durable!ProgressNext]_(Durable!progressVars)
      <2>1. CASE SyncOk(w)
            <3>1. durable' = Larger(durable, covered[w]) /\ row' = row /\ state' = state
                  BY <1>3, <2>1 DEF SyncOk, GateAlone
            <3>2. covered[w] \in [Workers -> Offset]
                  BY <1>t DEF WriterTypeOK, GateTypeOK
            <3>3. \A x \in Workers : durable'[x] >= durable[x]
                  BY <3>1, <3>2, <1>t, LargerNotBelow
            <3> QED BY <3>1, <3>3, <1>t, FillStep
      <2>2. CASE Decide(w) \/ BeginSync(w) \/ SyncErr(w) \/ Arm(w) \/ WaitTimeout(w)
            <3>1. UNCHANGED <<durable, row, state>>
                  BY <1>3, <2>2
                     DEF Decide, BeginSync, SyncErr, Arm, WaitTimeout, GateAlone
            <3> QED BY <3>1, <1>0
      <2> QED BY <1>3, <2>1, <2>2 DEF GateAlone, GateStep
<1>4. ASSUME NEW w \in Workers, SaveAborted(w)
      PROVE  [Durable!ProgressNext]_(Durable!progressVars)
      <2>1. /\ row' = [row EXCEPT ![w] = got[w]] /\ durable' = durable /\ state' = state
            /\ pc[w] = "saving"
            BY <1>4 DEF SaveAborted, SaveOffset, NoFaults
      <2>2. got[w] <= durable[w] /\ state[w] # "Completed"
            BY <2>1 DEF WriterInv, SavedInv, RowAtEnd
      <2> QED BY <2>1, <2>2, <1>t, <1>d, RowStep
<1>5. ASSUME NEW w \in Workers, Complete(w)
      PROVE  [Durable!ProgressNext]_(Durable!progressVars)
      <2>1. /\ row' = [row EXCEPT ![w] = got[w]] /\ durable' = durable /\ state' = state
            /\ pc[w] = "complete"
            BY <1>5 DEF Complete, SaveOffset, NoFaults
      <2>2. got[w] <= durable[w] /\ state[w] # "Completed"
            BY <2>1, <1>t, GateAssumption DEF WriterInv, SavedInv, RowAtEnd, Offset
      <2> QED BY <2>1, <2>2, <1>t, <1>d, RowStep
<1>6. ASSUME NEW w \in Workers, Redispatch(w)
      PROVE  [Durable!ProgressNext]_(Durable!progressVars)
      <2>1. /\ row' = [row EXCEPT ![w] = live[w]] /\ durable' = durable
            /\ state[w] = "Pending" /\ state' = [state EXCEPT ![w] = "Active"]
            BY <1>6 DEF Redispatch, NoFaults
      <2>2. pc[w] = "idle"
            BY <2>1 DEF WriterInv, SavedInv
      <2>3. live[w] <= durable[w]
            BY <2>2 DEF WriterInv, ProgressInv, InAttempt
      <2>4. \A x \in Workers : state'[x] = "Completed" <=> state[x] = "Completed"
            BY <2>1, <1>t
      <2> QED BY <2>1, <2>3, <2>4, <1>t, <1>d, RowStep
<1>7. ASSUME NEW w \in Workers, HandleFailed(w)
      PROVE  [Durable!ProgressNext]_(Durable!progressVars)
      <2>1. UNCHANGED <<durable, row>> /\ state' = [state EXCEPT ![w] = "Pending"]
            /\ state[w] # "Completed"
            BY <1>7 DEF HandleFailed, RowAtEnd
      <2>2. \A x \in Workers : state'[x] = "Completed" <=> state[x] = "Completed"
            BY <2>1, <1>t
      <2> QED BY <2>1, <2>2, FinishStep DEF RowAtEnd
<1>8. ASSUME NEW w \in Workers, HandleDone(w)
      PROVE  [Durable!ProgressNext]_(Durable!progressVars)
      <2>1. UNCHANGED <<durable, row>> /\ state' = [state EXCEPT ![w] = "Completed"]
            BY <1>8 DEF HandleDone
      <2> QED BY <2>1, <1>t, FinishStep DEF RowAtEnd
<1>9. CASE WriteBatch
      <2>1. /\ row' = [w \in Workers |-> BatchRow(w)]
            /\ UNCHANGED <<durable, state>>
            BY <1>9 DEF WriteBatch, NoFaults
      <2>2. Durable!NotBelow(row', row)
            <3> SUFFICES ASSUME NEW w \in Workers PROVE BatchRow(w) >= row[w]
                BY <2>1 DEF Durable!NotBelow
            <3>1. row[w] \in Offset /\ batch[w] \in Offset \cup {NoValue}
                  BY <1>t DEF WriterTypeOK
            <3> QED BY <3>1, GateAssumption DEF BatchRow, Offset, NoValue
      <2>3. DbNotAheadOfDisk'
            BY DEF WriterInv
      <2>4. Durable!NotBelow(durable, row')
            BY <2>1, <2>3, <1>t, GateAssumption
               DEF DbNotAheadOfDisk, Durable!NotBelow, Offset
      <2>5. Durable!Save
            BY <2>1, <2>2, <2>4, <1>t DEF Durable!Save, Offset
      <2> QED BY <2>5 DEF Durable!ProgressNext
<1>10. CASE SyncFromShared \/ TakeBatch \/ WriterTick
      BY <1>10, <1>0 DEF SyncFromShared, TakeBatch, WriterTick, Tick
<1>11. ASSUME NEW powerLoss \in BOOLEAN, Restart(powerLoss)
      PROVE  [Durable!ProgressNext]_(Durable!progressVars)
      <2>1. /\ UNCHANGED <<durable, row>>
            /\ \A w \in Workers : state'[w] = "Completed" <=> row[w] = MaxOffset
            BY <1>11 DEF Restart
      <2> QED BY <2>1, FinishStep DEF RowAtEnd
<1>12. CASE UNCHANGED vars
      BY <1>12, <1>0 DEF vars
<1> QED BY <1>0, <1>1, <1>2, <1>3, <1>4, <1>5, <1>6, <1>7, <1>8, <1>9, <1>10, <1>11, <1>12
        DEF WriterNext, WorkerStep, CoordStep, Finished

\* While fdatasyncs, flushes and statements succeed the write path implements
\* the promise of DurableProgress, for any number of segments, their sizes, and
\* any number of crashes: a step of do_segment, of the gate, of the coordinator
\* or a restart is a step of that specification or leaves it as it is.
THEOREM WriterImplementsProgress == NoFaults => (WriterSpec => ImplementsDurableProgress)
<1>1. CASE NoFaults
      <2>0. NoIoFaults
            BY <1>1 DEF NoFaults
      <2>1. WriterInit => Durable!ProgressInit
            BY DEF WriterInit, GateInit, Durable!ProgressInit
      <2>2. WriterInit => RowAtEnd
            BY RowAtEndInit
      <2>3. WriterInv /\ RowAtEnd /\ [WriterNext]_vars => RowAtEnd'
            BY <1>1, RowAtEndStep
      <2>4. WriterInv /\ WriterInv' /\ RowAtEnd /\ RowAtEnd' /\ [WriterNext]_vars
                => [Durable!ProgressNext]_(Durable!progressVars)
            BY <1>1, RefinementStep
      <2>5. WriterSpec => []WriterInv
            BY <2>0, WriterInvAlways
      <2> QED BY <2>1, <2>2, <2>3, <2>4, <2>5, PTL
              DEF WriterSpec, ImplementsDurableProgress, Durable!ProgressSpec
<1> QED BY <1>1
=============================================================================
