---------------------------- MODULE FileSyncGate ----------------------------
(***************************************************************************)
(* The fdatasync coalescing gate of the segment coordinator                *)
(* (struct FileSyncGate in segment_coordinator.rs).  Every worker of a     *)
(* multi-segment download writes the same file through its own descriptor, *)
(* and one fdatasync makes the dirty pages of the whole file durable, so   *)
(* the workers share syncs through the gate:                               *)
(*                                                                         *)
(*   sync_if_stale   reuses the last completed sync while it is younger    *)
(*                   than MIN_SYNC_GAP (mode "stale");                     *)
(*   sync_covering   reuses it only when it started no earlier than the    *)
(*                   caller's snapshot (mode "cover").                     *)
(*                                                                         *)
(* Both answer with the START time of a completed sync; the caller trusts  *)
(* a snapshot only when that start is not earlier than the snapshot.       *)
(*                                                                         *)
(* Data is abstracted to one offset per worker: the bytes of its segment   *)
(* that reached the page cache and the bytes that are durable.  The OS may *)
(* write pages back earlier than an fdatasync; leaving that out is the     *)
(* worst case for every property here.                                     *)
(***************************************************************************)
EXTENDS Naturals

CONSTANTS
    Workers,        \* the workers of one download
    MinSyncGap,     \* MIN_SYNC_GAP, in clock units
    MaxOffset,      \* bound: the length of a worker's segment
    MaxTime,        \* bound: the clock stops there
    SyncFaults      \* whether an fdatasync may fail (TRUE or FALSE)

ASSUME GateAssumption ==
    /\ MinSyncGap \in Nat
    /\ MaxOffset \in Nat
    /\ MaxTime \in Nat
    /\ SyncFaults \in BOOLEAN

VARIABLES
    now,        \* the monotonic clock (Instant::now)
    cached,     \* cached[w]: bytes of w's segment in the page cache
    durable,    \* durable[w]: bytes of w's segment that survive a power loss
    syncing,    \* GateState.syncing
    lastStart,  \* GateState.last_completed_start: time + 1, 0 for None
    call,       \* call[w]: where w stands in sync_if_stale / sync_covering
    mode,       \* mode[w]: which of the two w is in
    snapT,      \* snapT[w]: the clock when w's snapshot was taken
    myStart,    \* myStart[w]: the start of the sync w runs itself
    covered,    \* covered[w][x]: what w's running sync covers of x's bytes
    ret         \* ret[w]: the start time the gate returned to w

gateVars == <<now, cached, durable, syncing, lastStart, call, mode, snapT,
              myStart, covered, ret>>

Offset == 0 .. MaxOffset
Time == 0 .. MaxTime
Modes == {"stale", "cover"}
CallStates == {"idle", "decide", "begin", "sync", "arm", "parked", "ok", "err"}

GateTypeOK ==
    /\ now \in Time
    /\ cached \in [Workers -> Offset]
    /\ durable \in [Workers -> Offset]
    /\ syncing \in BOOLEAN
    /\ lastStart \in 0 .. MaxTime + 1
    /\ call \in [Workers -> CallStates]
    /\ mode \in [Workers -> Modes]
    /\ snapT \in [Workers -> Time]
    /\ myStart \in [Workers -> Time]
    /\ covered \in [Workers -> [Workers -> Offset]]
    /\ ret \in [Workers -> Time]

GateInit ==
    /\ now = 0
    /\ cached = [w \in Workers |-> 0]
    /\ durable = [w \in Workers |-> 0]
    /\ syncing = FALSE
    /\ lastStart = 0
    /\ call = [w \in Workers |-> "idle"]
    /\ mode = [w \in Workers |-> "stale"]
    /\ snapT = [w \in Workers |-> 0]
    /\ myStart = [w \in Workers |-> 0]
    /\ covered = [w \in Workers |-> [x \in Workers |-> 0]]
    /\ ret = [w \in Workers |-> 0]

(***************************************************************************)
(* The caller flushes its BufWriter (off bytes are in the page cache from  *)
(* here on), reads the clock for its snapshot and enters the gate.  The    *)
(* write to the page cache takes at least one unit of the clock.           *)
(***************************************************************************)
Enter(w, m, off) ==
    /\ call[w] = "idle"
    /\ now < MaxTime
    /\ off >= cached[w]
    /\ now' = now + 1
    /\ cached' = [cached EXCEPT ![w] = off]
    /\ mode' = [mode EXCEPT ![w] = m]
    /\ snapT' = [snapT EXCEPT ![w] = now + 1]
    /\ call' = [call EXCEPT ![w] = "decide"]
    /\ UNCHANGED <<durable, syncing, lastStart, myStart, covered, ret>>

\* Mutant of Reusable: sync_covering judged by age, as sync_if_stale is.
ReusableByAge(w) == lastStart > 0 /\ now < lastStart - 1 + MinSyncGap

\* The last completed sync answers w's call without another one.
Reusable(w) ==
    IF mode[w] = "stale" THEN lastStart > 0 /\ now < lastStart - 1 + MinSyncGap
                         ELSE lastStart > 0 /\ lastStart - 1 >= snapT[w]

\* The decision under the gate's lock: reuse, wait for the running sync, or
\* become the one that syncs.
Decide(w) ==
    /\ call[w] = "decide"
    /\ \/ /\ Reusable(w)
          /\ ret' = [ret EXCEPT ![w] = lastStart - 1]
          /\ call' = [call EXCEPT ![w] = "ok"]
          /\ UNCHANGED syncing
       \/ /\ ~Reusable(w) /\ syncing
          /\ call' = [call EXCEPT ![w] = "arm"]
          /\ UNCHANGED <<syncing, ret>>
       \/ /\ ~Reusable(w) /\ ~syncing
          /\ syncing' = TRUE
          /\ call' = [call EXCEPT ![w] = "begin"]
          /\ UNCHANGED ret
    /\ UNCHANGED <<now, cached, durable, lastStart, mode, snapT, myStart, covered>>

\* my_start is read before fdatasync is called: every byte in the page cache
\* by then is covered.
BeginSync(w) ==
    /\ call[w] = "begin"
    /\ myStart' = [myStart EXCEPT ![w] = now]
    /\ covered' = [covered EXCEPT ![w] = cached]
    /\ call' = [call EXCEPT ![w] = "sync"]
    /\ UNCHANGED <<now, cached, durable, syncing, lastStart, mode, snapT, ret>>

\* notify_waiters wakes the callers that are registered, and no other.
WakeParked(w, to) ==
    call' = [x \in Workers |-> IF x = w THEN to
                               ELSE IF call[x] = "parked" THEN "decide"
                               ELSE call[x]]

Larger(f, g) == [x \in Workers |-> IF f[x] >= g[x] THEN f[x] ELSE g[x]]

\* Mutant of SyncOk: the completion time is recorded as the start.
SyncOkAtCompletion(w) ==
    /\ call[w] = "sync"
    /\ durable' = Larger(durable, covered[w])
    /\ syncing' = FALSE
    /\ lastStart' = now + 1
    /\ ret' = [ret EXCEPT ![w] = now]
    /\ WakeParked(w, "ok")
    /\ UNCHANGED <<now, cached, mode, snapT, myStart, covered>>

\* The bytes covered when the sync started are durable; its start is
\* published, and it is the answer.
SyncOk(w) ==
    /\ call[w] = "sync"
    /\ durable' = Larger(durable, covered[w])
    /\ syncing' = FALSE
    /\ lastStart' = myStart[w] + 1
    /\ ret' = [ret EXCEPT ![w] = myStart[w]]
    /\ WakeParked(w, "ok")
    /\ UNCHANGED <<now, cached, mode, snapT, myStart, covered>>

\* A failed sync leaves the gate free and the last completed start alone.
SyncErr(w) ==
    /\ SyncFaults
    /\ call[w] = "sync"
    /\ syncing' = FALSE
    /\ WakeParked(w, "err")
    /\ UNCHANGED <<now, cached, durable, lastStart, mode, snapT, myStart,
                   covered, ret>>

\* Registering with the Notify happens after the lock was released, so the
\* notification of the running sync may already have been sent.
Arm(w) ==
    /\ call[w] = "arm"
    /\ call' = [call EXCEPT ![w] = "parked"]
    /\ UNCHANGED <<now, cached, durable, syncing, lastStart, mode, snapT,
                   myStart, covered, ret>>

\* Mutant of WaitTimeout: the timer fires and the wait goes on.
WaitTimeoutIgnored(w) ==
    /\ call[w] = "parked"
    /\ UNCHANGED gateVars

\* The 50 ms fallback of the wait.
WaitTimeout(w) ==
    /\ call[w] = "parked"
    /\ call' = [call EXCEPT ![w] = "decide"]
    /\ UNCHANGED <<now, cached, durable, syncing, lastStart, mode, snapT,
                   myStart, covered, ret>>

Tick ==
    /\ now < MaxTime
    /\ now' = now + 1
    /\ UNCHANGED <<cached, durable, syncing, lastStart, call, mode, snapT,
                   myStart, covered, ret>>

\* The caller takes the answer; the locals of its call are gone.
Leave(w) ==
    /\ call[w] \in {"ok", "err"}
    /\ call' = [call EXCEPT ![w] = "idle"]
    /\ mode' = [mode EXCEPT ![w] = "stale"]
    /\ snapT' = [snapT EXCEPT ![w] = 0]
    /\ myStart' = [myStart EXCEPT ![w] = 0]
    /\ covered' = [covered EXCEPT ![w] = [x \in Workers |-> 0]]
    /\ ret' = [ret EXCEPT ![w] = 0]
    /\ UNCHANGED <<now, cached, durable, syncing, lastStart>>

\* The clock's bound is reached and no call is under way.
AtRest ==
    /\ now = MaxTime
    /\ \A w \in Workers : call[w] = "idle"
    /\ UNCHANGED gateVars

\* The steps of the gate's own code for a caller.
GateStep(w) ==
    \/ Decide(w)
    \/ BeginSync(w)
    \/ SyncOk(w)
    \/ SyncErr(w)
    \/ Arm(w)
    \/ WaitTimeout(w)

GateNext ==
    \/ \E w \in Workers :
          \/ \E m \in Modes, off \in Offset : Enter(w, m, off)
          \/ GateStep(w)
          \/ Leave(w)
    \/ Tick
    \/ AtRest

GateFairness == \A w \in Workers : WF_gateVars(GateStep(w)) /\ WF_gateVars(Leave(w))

GateSpec == GateInit /\ [][GateNext]_gateVars /\ GateFairness

-----------------------------------------------------------------------------
(***************************************************************************)
(* Properties.                                                             *)
(***************************************************************************)

\* The contract both functions document: when the gate answers with a start
\* time that is not earlier than the caller's snapshot, every byte of the
\* snapshot is durable -- whoever ran the sync, whenever it completed.
AnswerCoversSnapshot ==
    \A w \in Workers :
        call[w] = "ok" /\ ret[w] >= snapT[w] => cached[w] <= durable[w]

\* sync_covering never hands out a sync older than the snapshot, however many
\* calls were in flight when it decided.
CoveringAnswerIsFresh ==
    \A w \in Workers :
        call[w] = "ok" /\ mode[w] = "cover" => ret[w] >= snapT[w]

\* GateState.syncing serialises the syncs of the gate: two callers never run
\* fdatasync at once, and the flag is set exactly while one of them does.
OneSyncAtATime ==
    /\ \A v, w \in Workers :
          call[v] \in {"begin", "sync"} /\ call[w] \in {"begin", "sync"} => v = w
    /\ syncing <=> \E w \in Workers : call[w] \in {"begin", "sync"}

\* The recorded start never moves back: a later answer is never staler than
\* an earlier one.
LastStartNeverRegresses == [][lastStart' >= lastStart]_gateVars

\* Every call returns, although notify_waiters may run before the waiter has
\* registered.
EveryCallReturns ==
    \A w \in Workers : call[w] = "decide" ~> call[w] \in {"ok", "err"}
=============================================================================
