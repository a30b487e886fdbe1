---------------------------- MODULE TaskLifecycle ----------------------------
(***************************************************************************)
(* The download manager: the queue, the concurrency limits, the runs it    *)
(* spawns, pause, resume, cancel, delete, restart, the priority (boost)    *)
(* mode, automatic retries, file names and their reservation.              *)
(*                                                                         *)
(* The manager is owned by an actor that runs one handler at a time; a     *)
(* handler is one step here, except delete_task, which waits for the run   *)
(* it cancelled.  Runs are tasks of their own: they write the status of    *)
(* their row, take a file name, create and rename files, and report with a *)
(* TaskDone whose generation the manager compares with its own entry.      *)
(*                                                                         *)
(* Handlers call each other in sequence, so the state they share is one    *)
(* record, `m', and a handler is an operator from such a record to the     *)
(* next.                                                                   *)
(***************************************************************************)
EXTENDS Naturals, FiniteSets, SequencesExt

CONSTANTS
    Tasks,
    NoTask,
    BaseName,       \* BaseName[t]: the file name t is created with
    QueueOf,        \* QueueOf[t]: the named queue of t
    QueueMax,       \* QueueMax[q]: its limit, 0 for none
    Limits,         \* the values of max_concurrent a user may set, 0 for none
    InitialLimits,  \* those it may have at the start
    MaxRetries,     \* max_auto_retries
    Ops,            \* the requests a user makes in this instance
    MaxCalls,       \* bound: requests made after the tasks are created
    Errors,         \* the kinds of error a run may end with
    LateReports,    \* whether a cancelled run may still end with its own result
    SlowExit        \* whether a cancelled run may outlive the wait of delete_task

ASSUME LifecycleAssumption ==
    /\ IsFiniteSet(Tasks) /\ Tasks # {} /\ NoTask \notin Tasks
    /\ \A t \in Tasks : QueueMax[QueueOf[t]] \in Nat
    /\ Limits \subseteq Nat
    /\ InitialLimits \subseteq Limits /\ InitialLimits # {}
    /\ MaxRetries \in Nat /\ MaxCalls \in Nat
    /\ Errors \subseteq {"failed", "rejected"}
    /\ {LateReports, SlowExit} \subseteq BOOLEAN

VARIABLES
    m,          \* the manager's memory, the rows of its tasks and the runs
    reserved,   \* reserved_temp_paths
    temp,       \* names whose .fdownloading file is on disk
    final,      \* names whose finished file is on disk
    timers,     \* timers[t]: delayed retry messages on their way
    deleting,   \* the delete_task that waits for a run, if any
    cleanups,   \* deferred_file_cleanup tasks that have not run
    calls       \* requests made

vars == <<m, reserved, temp, final, timers, deleting, cleanups, calls>>

\* failed and rejected are status 4, with a retriable error and with another.
Terminal == {"completed", "failed", "rejected", "cancelled"}
Gone == {"absent", "deleted"}
Statuses == {"pending", "preparing", "downloading", "paused"} \cup Terminal \cup Gone

Phases == {"naming", "opening", "probing", "ready", "writing", "ended"}

\* The name a task is created with, and the i-th variant of it, "name (i)".
Variant(t, i) == <<BaseName[t], i>>
NoName == <<>>

NoDelete == [task |-> NoTask, gen |-> 0, files |-> FALSE]

-----------------------------------------------------------------------------
(* Capacity                                                                *)

Active(s) == {t \in Tasks : s.active[t] # 0}

HasCapacity(s) == s.limit = 0 \/ Cardinality(Active(s)) < s.limit

HasQueueCapacity(s, t) ==
    LET most == QueueMax[QueueOf[t]] IN
    most = 0 \/ Cardinality({u \in Active(s) : QueueOf[u] = QueueOf[t]}) < most

\* Mutant of MayStart: the limit of the named queue is not looked at.
MayStartAnyQueue(s, t) == HasCapacity(s)

MayStart(s, t) == HasCapacity(s) /\ HasQueueCapacity(s, t)

Queued(s, t) == \E i \in DOMAIN s.pending : s.pending[i].task = t

WithStatus(s, t, v) ==
    IF s.status[t] \in Gone THEN s ELSE [s EXCEPT !.status[t] = v]

Unqueued(s, t) ==
    [s EXCEPT !.pending = RemoveFirstMatch(@, LAMBDA q : q.task = t)]

-----------------------------------------------------------------------------
(* Starting                                                                *)

\* The generation of a run is compared with the entry of its task only, so the
\* least number no run of the task carries stands for the growing counter.
NewGeneration(s, t) ==
    LET used == {r.gen : r \in {q \in s.runs : q.task = t}} IN
    CHOOSE g \in 1 .. Cardinality(used) + 1 :
        g \notin used /\ \A h \in 1 .. g - 1 : h \in used

\* A new run: a start takes a name first, a resume uses the name of the row.
Spawn(s, t, resume) ==
    IF s.status[t] \in Gone THEN s
    ELSE LET g == NewGeneration(s, t)
             run == [gen |-> g, task |-> t, resumed |-> resume, cancelled |-> FALSE,
                     phase |-> IF resume THEN "opening" ELSE "naming",
                     file |-> IF resume THEN s.name[t] ELSE NoName]
         IN [s EXCEPT !.active[t] = g, !.runs = @ \cup {run}]

\* One entry of the queue: started, dropped or kept.
Consider(acc, q) ==
    IF acc.full \/ ~HasCapacity(acc.s)
    THEN [acc EXCEPT !.full = TRUE, !.kept = Append(@, q)]
    ELSE IF acc.s.active[q.task] # 0 THEN acc
    ELSE IF ~HasQueueCapacity(acc.s, q.task)
         THEN [acc EXCEPT !.kept = Append(@, q)]
         ELSE [acc EXCEPT !.s = Spawn(@, q.task, q.resume)]

\* Start what the limits allow, in order; entries of a full queue are passed
\* over, and nothing is looked at any more once the global limit is reached.
DrainQueue(s) ==
    LET end == FoldLeft(Consider, [s |-> s, kept |-> <<>>, full |-> FALSE], s.pending)
    IN  [end.s EXCEPT !.pending = end.kept]

Cancelled(s, t) ==
    [s EXCEPT !.active[t] = 0,
              !.runs = {IF r.task = t /\ r.gen = s.active[t] THEN [r EXCEPT !.cancelled = TRUE] ELSE r : r \in @}]

\* Mutant of ResumeInner: a task that waits is put into the queue once more.
ResumeInnerTwice(s, t) ==
    LET s1 == [s EXCEPT !.scheduled = @ \ {t}]
        s2 == [s1 EXCEPT !.active[t] = 0]
    IN  IF s1.active[t] # 0 /\ s1.status[t] \notin Terminal THEN s1
        ELSE IF MayStart(s2, t) THEN DrainQueue(Spawn(s2, t, TRUE))
        ELSE IF s2.status[t] \in Gone THEN s2
        ELSE [s2 EXCEPT !.status[t] = IF @ = "completed" THEN @ ELSE "pending",
                        !.pending = Append(@, [task |-> t, resume |-> TRUE])]

\* An entry whose row is already final is taken for one whose TaskDone has not
\* been received yet: it is dropped, without cancelling anything.
ResumeInner(s, t) ==
    LET s1 == [s EXCEPT !.scheduled = @ \ {t}]
        s2 == [s1 EXCEPT !.active[t] = 0]
    IN  IF s1.active[t] # 0 /\ s1.status[t] \notin Terminal THEN s1
        ELSE IF Queued(s2, t) THEN s2
        ELSE IF MayStart(s2, t) THEN DrainQueue(Spawn(s2, t, TRUE))
        ELSE IF s2.status[t] \in Gone THEN s2
        ELSE [s2 EXCEPT !.status[t] = IF @ = "completed" THEN @ ELSE "pending",
                        !.pending = Append(@, [task |-> t, resume |-> TRUE])]

Resume(s, t) == ResumeInner([s EXCEPT !.retries[t] = 0], t)

-----------------------------------------------------------------------------
(* Pausing and the boost mode.  Sets of task ids are iterated in the       *)
(* arbitrary order of a hash set: `order' is one of them.                  *)

Orders(S) == SetToSeqs(S)

\* Op for the members of S, one after the other.
InTurn(Op(_, _), s, S, order) ==
    FoldLeft(LAMBDA acc, t : IF t \in S THEN Op(acc, t) ELSE acc, s, order)

ResumeUnlessDone(s, t) == IF s.status[t] = "completed" THEN s ELSE Resume(s, t)

ClearPriority(s, order) ==
    InTurn(ResumeUnlessDone, [s EXCEPT !.priority = NoTask, !.autoPaused = {}],
           s.autoPaused, order)

\* Mutant of EndBoostOf: the boost outlives its task.
EndBoostKept(s, t, order) == s

\* The boost ends when its task stops, and is left alone otherwise.
EndBoostOf(s, t, order) == IF s.priority = t THEN ClearPriority(s, order) ELSE s

\* Mutant of PauseInner: the slot of the paused run is not filled again.
PauseInnerKeepsSlot(s, t, order) ==
    LET s1 == [s EXCEPT !.scheduled = @ \ {t}] IN
    IF Queued(s1, t) THEN WithStatus(Unqueued(s1, t), t, "paused")
    ELSE IF s1.active[t] = 0 THEN s1
    ELSE EndBoostOf(WithStatus(Cancelled(s1, t), t, "paused"), t, order)

PauseInner(s, t, order) ==
    LET s1 == [s EXCEPT !.scheduled = @ \ {t}] IN
    IF Queued(s1, t) THEN WithStatus(Unqueued(s1, t), t, "paused")
    ELSE IF s1.active[t] = 0 THEN s1
    ELSE EndBoostOf(DrainQueue(WithStatus(Cancelled(s1, t), t, "paused")), t, order)

\* The tasks of S are paused in turn, and noted for the end of the boost.
AutoPause(s, S, order) ==
    LET PauseNoted(acc, u) == PauseInner([acc EXCEPT !.autoPaused = @ \cup {u}], u, order)
    IN  InTurn(PauseNoted, s, S, order)

\* Active tasks are paused, then queued ones, then those that were started by
\* the queue meanwhile, unless an earlier boost had paused them already.
SetPriority(s, t, order) ==
    LET s1 == [Unqueued(s, t) EXCEPT !.autoPaused = @ \ {t}, !.priority = NoTask]
        s2 == AutoPause(s1, Active(s1) \ {t}, order)
        s3 == AutoPause(s2, {u \in Tasks \ {t} : Queued(s2, u)}, order)
        s4 == AutoPause(s3, Active(s3) \ (s3.autoPaused \cup {t}), order)
        s5 == [s4 EXCEPT !.priority = t]
        s6 == IF s5.active[t] # 0 THEN s5
              ELSE IF Queued(s, t) THEN Spawn(s5, t, TRUE)
              ELSE Resume(s5, t)
    IN  IF s.priority = t THEN ClearPriority(s, order)
        ELSE IF s6.active[t] = 0 THEN ClearPriority(s6, order) ELSE s6

-----------------------------------------------------------------------------
(* The requests of the user                                                *)

LifecycleInit ==
    /\ \E n \in InitialLimits :
        m = [status |-> [t \in Tasks |-> "absent"],
             name |-> [t \in Tasks |-> Variant(t, 0)],
             active |-> [t \in Tasks |-> 0],
             pending |-> <<>>,
             retries |-> [t \in Tasks |-> 0],
             scheduled |-> {},
             priority |-> NoTask,
             autoPaused |-> {},
             limit |-> n,
             runs |-> {}]
    /\ reserved = {} /\ temp = {} /\ final = {} /\ cleanups = {}
    /\ timers = [t \in Tasks |-> 0]
    /\ deleting = NoDelete
    /\ calls = 0

disk == <<temp, final>>

\* The actor is not inside delete_task.
Idle == deleting = NoDelete

Request(op) ==
    /\ Idle
    /\ op \in Ops
    /\ calls < MaxCalls
    /\ calls' = calls + 1

\* A task may be created paused ("later"): then it is only a row.
Create(t) ==
    /\ Idle
    /\ m.status[t] = "absent"
    /\ LET row == [m EXCEPT !.status[t] = "pending"] IN
       \/ m' = IF MayStart(row, t) THEN DrainQueue(Spawn(row, t, FALSE))
               ELSE [row EXCEPT !.pending = Append(@, [task |-> t, resume |-> FALSE])]
       \/ "later" \in Ops /\ m' = WithStatus(row, t, "paused")
    /\ UNCHANGED <<reserved, disk, timers, deleting, cleanups, calls>>

PauseTask(t) ==
    /\ Request("pause")
    /\ \E order \in Orders(m.autoPaused) : m' = PauseInner(m, t, order)
    /\ UNCHANGED <<reserved, disk, timers, deleting, cleanups>>

ResumeTask(t) ==
    /\ Request("resume")
    /\ m.status[t] \notin Gone
    /\ m' = Resume(m, t)
    /\ UNCHANGED <<reserved, disk, timers, deleting, cleanups>>

\* Unlike the others, cancel_task leaves the retry mark, the boost mode and the
\* auto-paused set alone.
CancelTask(t) ==
    /\ Request("cancel")
    /\ m' = LET s == Unqueued([m EXCEPT !.retries[t] = 0], t) IN
            DrainQueue(WithStatus(IF s.active[t] = 0 THEN s ELSE Cancelled(s, t), t, "cancelled"))
    /\ UNCHANGED <<reserved, disk, timers, deleting, cleanups>>

RestartTask(t) ==
    /\ Request("restart")
    /\ m.status[t] \notin Gone
    /\ \E order \in Orders(m.autoPaused) :
        LET live == m.active[t] # 0 \/ m.status[t] \in {"pending", "preparing", "downloading"}
            s == IF live THEN PauseInner(m, t, order) ELSE m
        IN m' = Resume([s EXCEPT !.status[t] = "pending", !.scheduled = @ \ {t}], t)
    /\ temp' = temp \ {m.name[t]}
    /\ final' = final \ {m.name[t]}
    /\ UNCHANGED <<reserved, timers, deleting, cleanups>>

SetPriorityTask(t) ==
    /\ Request("boost")
    /\ m.status[t] \notin Gone
    /\ \E order \in Orders(Tasks) : m' = SetPriority(m, t, order)
    /\ UNCHANGED <<reserved, disk, timers, deleting, cleanups>>

SetMaxConcurrent ==
    /\ Request("limit")
    /\ \E n \in Limits \ {m.limit} : m' = DrainQueue([m EXCEPT !.limit = n])
    /\ UNCHANGED <<reserved, disk, timers, deleting, cleanups>>

DeleteTask(t) ==
    /\ Request("delete")
    /\ m.status[t] \notin Gone
    /\ \E files \in BOOLEAN : deleting' = [task |-> t, gen |-> m.active[t], files |-> files]
    /\ LET s == Unqueued([m EXCEPT !.retries[t] = 0, !.scheduled = @ \ {t}], t) IN
       m' = IF s.active[t] = 0 THEN s ELSE Cancelled(s, t)
    /\ UNCHANGED <<reserved, disk, timers, cleanups>>

\* The run has ended, or five seconds have passed and it is aborted: then no
\* TaskDone will come, and the name of the row is released for it.
FinishDelete(aborted) ==
    /\ ~Idle
    /\ LET t == deleting.task
           handle == {r \in m.runs : r.task = t /\ r.gen = deleting.gen}
           name == m.name[t]
           s == [m EXCEPT !.status[t] = "deleted", !.autoPaused = @ \ {t},
                          !.runs = IF aborted THEN @ \ handle ELSE @]
       IN /\ IF aborted THEN SlowExit /\ \E r \in handle : r.phase # "ended"
                        ELSE \A r \in handle : r.phase = "ended"
          /\ \E order \in Orders(m.autoPaused) : m' = DrainQueue(EndBoostOf(s, t, order))
          /\ temp' = temp \ {name}
          /\ final' = IF deleting.files THEN final \ {name} ELSE final
          /\ reserved' = IF aborted THEN reserved \ {name} ELSE reserved
          /\ cleanups' = IF aborted THEN cleanups \cup {[name |-> name, files |-> deleting.files]}
                                    ELSE cleanups
    /\ deleting' = NoDelete
    /\ UNCHANGED <<timers, calls>>

DeferredCleanup(c) ==
    /\ cleanups' = cleanups \ {c}
    /\ temp' = temp \ {c.name}
    /\ final' = IF c.files THEN final \ {c.name} ELSE final
    /\ UNCHANGED <<m, reserved, timers, deleting, calls>>

\* The program ends at any point and is started again.
Crash ==
    /\ "crash" \in Ops /\ calls < MaxCalls /\ calls' = calls + 1
    /\ m' = [m EXCEPT !.status = [t \in Tasks |->
                          IF @[t] \in {"pending", "preparing", "downloading"} THEN "paused" ELSE @[t]],
                      !.active = [t \in Tasks |-> 0], !.pending = <<>>,
                      !.retries = [t \in Tasks |-> 0], !.scheduled = {},
                      !.priority = NoTask, !.autoPaused = {}, !.runs = {}]
    /\ reserved' = {} /\ cleanups' = {}
    /\ timers' = [t \in Tasks |-> 0]
    /\ deleting' = NoDelete
    /\ UNCHANGED disk

-----------------------------------------------------------------------------
(* The runs                                                                *)

Moved(r, phase) == [m EXCEPT !.runs = (@ \ {r}) \cup {[r EXCEPT !.phase = phase]}]

\* The first variant of the name that is neither reserved nor on disk.
FreeName(t, taken) ==
    LET i == CHOOSE i \in 0 .. Cardinality(taken) :
                /\ Variant(t, i) \notin taken
                /\ \A j \in 0 .. i - 1 : Variant(t, j) \in taken
    IN Variant(t, i)

Reserve(r) ==
    /\ r.phase = "naming"
    /\ LET name == FreeName(r.task, reserved \cup temp \cup final) IN
       /\ reserved' = reserved \cup {name}
       /\ m' = [m EXCEPT !.runs = (@ \ {r}) \cup {[r EXCEPT !.phase = "opening", !.file = name]}]
    /\ UNCHANGED <<disk, timers, deleting, cleanups, calls>>

\* The run writes its name and its status without looking at its token.
Open(r) ==
    /\ r.phase = "opening"
    /\ m' = [WithStatus(Moved(r, "probing"), r.task, "preparing") EXCEPT !.name[r.task] = r.file]
    /\ UNCHANGED <<reserved, disk, timers, deleting, cleanups, calls>>

\* The file has been probed and the token is not cancelled.
Check(r) ==
    /\ r.phase = "probing"
    /\ ~r.cancelled
    /\ m' = Moved(r, "ready")
    /\ UNCHANGED <<reserved, disk, timers, deleting, cleanups, calls>>

\* A pause may come between the check of the token and this.
Announce(r) ==
    /\ r.phase = "ready"
    /\ m' = WithStatus(Moved(r, "writing"), r.task, "downloading")
    /\ temp' = temp \cup {r.file}
    /\ UNCHANGED <<reserved, final, timers, deleting, cleanups, calls>>

Notice(r) ==
    /\ r.phase \in {"probing", "writing"}
    /\ r.cancelled
    /\ m' = Moved(r, "ended")
    /\ UNCHANGED <<reserved, disk, timers, deleting, cleanups, calls>>

MayReport(r) == r.cancelled => LateReports

\* The temporary file becomes the finished one, under another name if a file
\* of that name has appeared.
Succeed(r) ==
    /\ r.phase = "writing"
    /\ MayReport(r)
    /\ r.file \in temp
    /\ LET name == IF r.file \in final THEN FreeName(r.task, temp \cup final) ELSE r.file IN
       /\ m' = [WithStatus(Moved(r, "ended"), r.task, "completed") EXCEPT
                  !.name[r.task] = IF name = r.file THEN @ ELSE name]
       /\ final' = final \cup {name}
    /\ temp' = temp \ {r.file}
    /\ UNCHANGED <<reserved, timers, deleting, cleanups, calls>>

Fail(r) ==
    /\ r.phase \in {"probing", "writing"}
    /\ MayReport(r)
    /\ \E v \in Errors : m' = WithStatus(Moved(r, "ended"), r.task, v)
    /\ UNCHANGED <<reserved, disk, timers, deleting, cleanups, calls>>

\* Mutant of Released: a resumed run releases the name of its row.
ReleasedAlways(r) == reserved \ {r.file}

\* A run that took a name has it released when its TaskDone arrives, whatever
\* the generation.
Released(r) == IF r.resumed THEN reserved ELSE reserved \ {r.file}

\* Mutant of Matches: the entry of a later run is taken for that of this one.
MatchesAny(r) == m.active[r.task] # 0

\* Mutant of Matches: no TaskDone is recognised.
MatchesNever(r) == m.active[r.task] = r.gen + 1

Matches(r) == m.active[r.task] = r.gen

OnTaskDone(r) ==
    /\ Idle
    /\ r.phase = "ended"
    /\ reserved' = Released(r)
    /\ LET t == r.task
           s == [m EXCEPT !.runs = @ \ {r}]
           retry(n) == n.status[t] = "failed" /\ n.retries[t] < MaxRetries
       IN \E order \in Orders(m.autoPaused) :
            LET freed == IF Matches(r) THEN EndBoostOf([s EXCEPT !.active[t] = 0], t, order) ELSE s
                n == DrainQueue(freed)
                again == Matches(r) /\ retry(n)
            IN /\ m' = IF again
                       THEN [n EXCEPT !.retries[t] = @ + 1, !.scheduled = @ \cup {t}]
                       ELSE IF Matches(r) /\ n.status[t] = "completed"
                       THEN [n EXCEPT !.retries[t] = 0]
                       ELSE n
               /\ timers' = IF again THEN [timers EXCEPT ![t] = @ + 1] ELSE timers
    /\ UNCHANGED <<disk, deleting, cleanups, calls>>

\* The delayed message of an automatic retry reaches the actor.
RetryFires(t) ==
    /\ Idle
    /\ timers[t] > 0
    /\ timers' = [timers EXCEPT ![t] = @ - 1]
    /\ m' = IF m.status[t] \in {"failed", "rejected"} THEN ResumeInner(m, t) ELSE m
    /\ UNCHANGED <<reserved, disk, deleting, cleanups, calls>>

-----------------------------------------------------------------------------
RunStep(r) ==
    \/ Reserve(r) \/ Open(r) \/ Check(r) \/ Announce(r)
    \/ Notice(r) \/ Succeed(r) \/ Fail(r)

UserStep ==
    \/ \E t \in Tasks :
        \/ Create(t) \/ PauseTask(t) \/ ResumeTask(t) \/ CancelTask(t)
        \/ RestartTask(t) \/ SetPriorityTask(t) \/ DeleteTask(t)
    \/ SetMaxConcurrent
    \/ Crash

\* What goes on by itself.
SystemStep ==
    \/ \E r \in m.runs : RunStep(r)
    \/ \E r \in m.runs : OnTaskDone(r)
    \/ \E aborted \in BOOLEAN : FinishDelete(aborted)
    \/ \E t \in Tasks : RetryFires(t)
    \/ \E c \in cleanups : DeferredCleanup(c)

LifecycleNext == SystemStep \/ UserStep

\* As long as a run can move (its network calls time out) or a message waits
\* for the actor, something of it happens.
LifecycleFairness == WF_vars(SystemStep)

LifecycleSpec == LifecycleInit /\ [][LifecycleNext]_vars /\ LifecycleFairness

-----------------------------------------------------------------------------
(* Properties                                                              *)

Run == [gen : Nat, task : Tasks, resumed : BOOLEAN, cancelled : BOOLEAN,
        phase : Phases, file : {NoName} \cup ({BaseName[t] : t \in Tasks} \X Nat)]

\* The variables keep their types, and the generations of the runs are distinct.
LifecycleTypeOK ==
    /\ m.status \in [Tasks -> Statuses]
    /\ m.active \in [Tasks -> Nat]
    /\ m.pending \in Seq([task : Tasks, resume : BOOLEAN])
    /\ m.retries \in [Tasks -> 0 .. MaxRetries]
    /\ m.scheduled \subseteq Tasks /\ m.autoPaused \subseteq Tasks
    /\ m.priority \in Tasks \cup {NoTask}
    /\ m.limit \in Limits
    /\ m.runs \subseteq Run
    /\ \A r, q \in m.runs : r.task = q.task /\ r.gen = q.gen => r = q
    /\ calls \in 0 .. MaxCalls

\* An entry of active_tasks belongs to a run of that task that was not
\* cancelled and whose TaskDone has not been received: no concurrency slot is
\* held by a run that is gone.
SlotsAreLive ==
    \A t \in Active(m) : \E r \in m.runs :
        r.gen = m.active[t] /\ r.task = t /\ ~r.cancelled

\* A task waits in the queue only while the global limit or the limit of its
\* queue is reached: every handler that frees a slot fills it again.
NoIdleSlot == Idle => \A t \in Tasks : Queued(m, t) => ~MayStart(m, t)

\* Nothing waits twice or waits while it runs, and what waits has a row.
QueueIsSound ==
    /\ \A i, j \in DOMAIN m.pending : m.pending[i].task = m.pending[j].task => i = j
    /\ \A t \in Tasks : Queued(m, t) => m.active[t] = 0 /\ m.status[t] \notin Gone

\* An entry of a task whose row is not final leaves, or gives way to another,
\* only with its run cancelled or over: no TaskDone of an earlier run removes it.
EntriesLeaveWithTheirRun ==
    [][\A r \in m.runs :
        LET t == r.task IN
        /\ m.active[t] = r.gen /\ m.status[t] \notin Terminal
        /\ m'.active[t] # r.gen
        => \A q \in m'.runs : q.task = t /\ q.gen = r.gen => q.cancelled]_vars

\* The reservations are the names of the runs that took one, until their
\* TaskDone is received; no two of them have the same.
ReservationsExact ==
    LET holders == {r \in m.runs : ~r.resumed /\ r.phase # "naming"} IN
    /\ reserved = {r.file : r \in holders}
    /\ \A r, q \in holders : r.file = q.file => r = q

\* The entry of the boosted task does not go away alone: with it ends the
\* boost, which resumes what was paused for it, unless the task is put into the
\* queue (resumed before its TaskDone was received) or is being deleted, and
\* the second half of delete_task ends the boost.  (Without cancel_task, which
\* leaves the boost on.)
BoostEndsWithItsRun ==
    [][\A t \in Tasks : m'.priority = t =>
        \/ m'.active[t] # 0 \/ Queued(m', t)
        \/ deleting'.task = t
        \/ m.priority = t /\ m.active[t] = 0 /\ deleting.task # t]_vars

\* A handler spawns no run beyond the limits.  (Without the
\* boost, which starts its target without a look at them.)
StartsWithinLimits ==
    [][\A t \in Tasks : m'.active[t] \notin {0, m.active[t]} =>
        /\ m'.limit # 0 => Cardinality(Active(m')) <= m'.limit
        /\ LET most == QueueMax[QueueOf[t]] IN
           most # 0 => Cardinality({u \in Active(m') : QueueOf[u] = QueueOf[t]}) <= most]_vars

\* Whoever waits in the queue is started or taken out of it.
QueueMoves == \A t \in Tasks : Queued(m, t) ~> ~Queued(m, t)

\* No two runs of different tasks write the same temporary file.
OneWriterPerFile ==
    \A r, q \in m.runs :
        r.task # q.task /\ {r.phase, q.phase} = {"writing"} => r.file # q.file
=============================================================================
