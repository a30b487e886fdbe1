---------------------------- MODULE RampController ----------------------------
(***************************************************************************)
(* How many connections a download of a host may use: it starts with a     *)
(* few, doubles them while that pays, freezes or rolls back when it does   *)
(* not, halves them when the host degrades or refuses, and leaves what it  *)
(* has learnt to the later downloads of the host.                          *)
(*                                                                         *)
(* One download, `run', is modelled in full; the others of the same host   *)
(* act on it through the record of the host only.                          *)
(***************************************************************************)
EXTENDS ConnPolicy, FiniteSetsExt

CONSTANTS
    Plans,          \* initial_segment_count of a download, at most MAX_SEGMENTS
    FirstWorkers,   \* RAMP_INITIAL_WORKERS
    ShrinkStrikes,  \* RAMP_SHRINK_STRIKES
    Cooldown,       \* RAMP_SOFT_PROBE_COOLDOWN_TICKS
    MaxAttempts,    \* RAMP_SOFT_PROBE_MAX_ATTEMPTS
    ProbeBudget,    \* RAMP_SOFT_PROBE_TASK_BUDGET
    MaxExpansions,  \* MAX_SIZE_EXPANSIONS
    Elsewhere,      \* the caps and hints other downloads record
    MaxRuns, MaxEvents, MaxClock    \* bounds

ASSUME RampAssumption ==
    /\ Plans \subseteq Nat \ {0} /\ FirstWorkers \in Nat \ {0}
    /\ ShrinkStrikes \in Nat \ {0} /\ Cooldown \in Nat \ {0}
    /\ MaxAttempts \in Nat \ {0} /\ ProbeBudget \in Nat /\ MaxExpansions \in Nat
    /\ Elsewhere \subseteq Nat \ {0}
    /\ MaxRuns \in Nat /\ MaxEvents \in Nat /\ MaxClock \in Nat

VARIABLES
    policy,     \* the entry of the host in DOMAIN_CONN_CAPS
    snapshots,  \* those written to the config table: the writes are not waited
                \* for and may fail, so that any one may be what it holds
    clock,      \* in parts of the time to live
    run,        \* the control variables of the download, if one runs
    refusals,   \* history: the fresh refusals since the program started or was
                \* told that the network has changed
    runs, events    \* counters of the bounds

vars == <<policy, snapshots, clock, run, refusals, runs, events>>

Idle == [state |-> "idle"]
Running == run.state = "running"

Active == [kind |-> "active"]
Hard == [kind |-> "hard"]
Soft(waited, cooldown, attempts) ==
    [kind |-> "soft", waited |-> waited, cooldown |-> cooldown, attempts |-> attempts]

\* What earlier downloads may have left for this start of the program.
Left == {NoEntry} \cup {[NoEntry EXCEPT !.hint = n] : n \in {h \in Elsewhere : h > FirstWorkers}}

RampInit ==
    /\ \E e \in Left : snapshots = {e} /\ policy = Merged(NoEntry, e, 0)
    /\ clock = 0
    /\ run = Idle
    /\ refusals = {}
    /\ runs = 0 /\ events = 0

\* Every record is followed by a snapshot for the database.
Recorded(e) == policy' = Pruned(e, clock) /\ snapshots' = snapshots \cup {Pruned(e, clock)}

Refused(n) == refusals' = refusals \cup {[cap |-> n, at |-> clock]}

-----------------------------------------------------------------------------
(* The beginning and the end of a download                                 *)

InitialAllowance(cap, hint) == Max({1, Min({cap, Max({FirstWorkers, hint})})})

Start(plan, allow, verified) ==
    /\ ~Running /\ runs < MaxRuns /\ runs' = runs + 1
    /\ LET cap == WorkerCap(policy, clock, plan, allow)
           hint == HintOf(policy, clock)
           allowed == InitialAllowance(cap, hint)
       IN \E alive \in {1, allowed} :
            run' = [state |-> "running", cap |-> cap, hint |-> hint,
                    allowed |-> allowed, alive |-> alive,
                    range |-> IF verified THEN "supported" ELSE "unknown",
                    tail |-> FALSE, expansions |-> 0,
                    freeze |-> Active, rejects |-> 0, serial |-> FALSE, sensitive |-> FALSE,
                    awaiting |-> FALSE, probe |-> FALSE, probes |-> 0,
                    preGrow |-> 0, strikes |-> 0,
                    proven |-> 0, beneficial |-> allowed,
                    frozenAt |-> 0]
    /\ policy' = Pruned(policy, clock)
    /\ UNCHANGED <<snapshots, clock, refusals, events>>

HintScale(r) == Min({r.proven, r.beneficial})

EarnsHint(r) ==
    HintScale(r) > FirstWorkers /\ r.rejects = 0 /\ ~r.serial /\ ~r.sensitive

Succeed ==
    /\ Running
    /\ IF EarnsHint(run) THEN Recorded(RecordHint(policy, HintScale(run), clock))
                         ELSE UNCHANGED <<policy, snapshots>>
    /\ run' = Idle
    /\ UNCHANGED <<clock, refusals, runs, events>>

\* It fails or is paused.
Stop ==
    /\ Running
    /\ run' = Idle
    /\ UNCHANGED <<policy, snapshots, clock, refusals, runs, events>>

-----------------------------------------------------------------------------
(* The ramp tick.  A window is seen only through three comparisons: whether *)
(* bytes have arrived, how it compares with the window before the growth   *)
(* under evaluation, and whether it is far below the decaying peak.        *)

Judges(r) == r.awaiting /\ ~r.tail

Windows(r) ==
    {w \in [bytes : BOOLEAN, verdict : {"improved", "freeze", "collapse", "none"}, low : BOOLEAN] :
        /\ w.verdict = "none" <=> ~Judges(r)
        /\ w.verdict = "improved" => w.bytes}

Waited(freeze) == [freeze EXCEPT !.waited = @ + 1]

Observed(r, w) ==
    [r EXCEPT
        !.proven = IF w.bytes /\ r.rejects = 0 /\ ~r.serial /\ ~r.sensitive
                   THEN Max({@, r.alive}) ELSE @,
        !.freeze = IF ~r.awaiting /\ @.kind = "soft" /\ @.waited < @.cooldown
                   THEN Waited(@) ELSE @]

\* preGrow is read only while a growth is evaluated, and 0 otherwise.
Rollback(r) ==
    [r EXCEPT !.allowed = r.preGrow, !.beneficial = Min({@, r.preGrow})]

\* Mutant of JudgeProbe: a probe that gained nothing keeps its connection.
JudgeProbeKeeps(r, verdict) ==
    IF verdict = "improved" THEN [r EXCEPT !.freeze = Active, !.beneficial = r.allowed]
    ELSE IF verdict = "collapse" \/ r.freeze.attempts + 1 >= MaxAttempts
         THEN [Rollback(r) EXCEPT !.freeze = Hard]
         ELSE [r EXCEPT !.freeze = Soft(0, 2 * r.freeze.cooldown, r.freeze.attempts + 1)]

JudgeProbe(r, verdict) ==
    IF verdict = "improved" THEN [r EXCEPT !.freeze = Active, !.beneficial = r.allowed]
    ELSE IF verdict = "collapse" \/ r.freeze.attempts + 1 >= MaxAttempts
         THEN [Rollback(r) EXCEPT !.freeze = Hard]
         ELSE [Rollback(r) EXCEPT !.freeze = Soft(0, 2 * r.freeze.cooldown, r.freeze.attempts + 1)]

\* Growth without gain stays, unless it went beyond the hint of the host.
JudgeGrowth(r, verdict) ==
    IF verdict = "improved" THEN [r EXCEPT !.beneficial = r.allowed]
    ELSE IF verdict = "collapse"
         THEN [Rollback(r) EXCEPT !.freeze = Hard]
         ELSE LET s == IF r.hint > 0 /\ r.preGrow >= r.hint THEN Rollback(r) ELSE r IN
              [s EXCEPT !.freeze = IF r.probes >= ProbeBudget THEN Hard ELSE Soft(0, Cooldown, 0),
                        !.frozenAt = s.allowed]

\* In the tail a growth under evaluation is left as it is.
Judged(r, verdict) ==
    LET s == [r EXCEPT !.awaiting = FALSE, !.probe = FALSE]
        j == IF ~Judges(r) THEN s
             ELSE IF r.probe THEN JudgeProbe(s, verdict) ELSE JudgeGrowth(s, verdict)
    IN [j EXCEPT !.preGrow = 0]

Degraded(r, w) ==
    /\ w.low /\ ~r.tail
    /\ r.freeze # Active \/ r.allowed >= r.cap
    /\ r.allowed > 1 /\ r.alive = r.allowed

Shrinks(r, w) == Degraded(r, w) /\ r.strikes + 1 >= ShrinkStrikes

Shrunk(r, w) ==
    IF ~Degraded(r, w) THEN [r EXCEPT !.strikes = 0]
    ELSE IF ~Shrinks(r, w) THEN [r EXCEPT !.strikes = @ + 1]
    ELSE LET half == Max({1, r.allowed \div 2}) IN
         [r EXCEPT !.strikes = 0, !.allowed = half, !.beneficial = Min({@, half}),
                   !.freeze = IF @.kind = "soft" THEN Hard ELSE @]

\* As many workers are started as the allowance leaves room and the map has
\* work for.
Filled(r) == {[r EXCEPT !.alive = n] : n \in r.alive .. Max({r.alive, r.allowed})}

ProbeReady(r) ==
    /\ r.freeze.kind = "soft"
    /\ r.freeze.waited >= r.freeze.cooldown
    /\ r.freeze.attempts < MaxAttempts
    /\ ~r.sensitive /\ r.rejects = 0
    /\ r.alive >= r.allowed /\ r.allowed < r.cap
    /\ r.probes < ProbeBudget

MayExpand(r) ==
    r.freeze = Active /\ ~r.sensitive /\ r.alive >= r.allowed /\ r.allowed < r.cap

\* Mutant of Expanded: the doubled allowance is not bounded.
ExpandedUnbounded(r) ==
    [r EXCEPT !.preGrow = r.allowed, !.awaiting = TRUE, !.probe = FALSE, !.allowed = 2 * @]

Expanded(r) ==
    [r EXCEPT !.preGrow = r.allowed, !.awaiting = TRUE, !.probe = FALSE,
              !.allowed = Min({2 * @, r.cap})]

Grown(r) ==
    IF ProbeReady(r)
    THEN {[r EXCEPT !.preGrow = r.allowed, !.awaiting = TRUE, !.probe = TRUE,
                    !.probes = @ + 1, !.allowed = @ + 1]}
    ELSE IF MayExpand(r) THEN {Expanded(r)} ELSE {}

\* At most one growth in a tick, none in the tail or after a shrink.
Topped(r, still) ==
    LET full == Filled(r) IN
    IF r.tail \/ still THEN full
    ELSE UNION {IF Grown(f) = {} THEN {f} ELSE UNION {Filled(g) : g \in Grown(f)} : f \in full}

\* A collapse after a growth, not after a probe, is a refusal of the host.
PolicyAfter(judged, verdict) ==
    IF verdict = "collapse" /\ ~run.probe
    THEN Recorded(RecordCap(policy, judged.allowed, clock)) /\ Refused(judged.allowed)
    ELSE UNCHANGED <<policy, snapshots, refusals>>

\* Nothing is left to do when no worker is alive: the loop ends.
Continued(r) == IF r.alive = 0 THEN Idle ELSE r

Adapts(r) == r.range = "supported" /\ ~r.serial

Tick(w) ==
    /\ LET seen == Observed(run, w)
           judged == Judged(seen, w.verdict)
           shrunk == Shrunk(judged, w)
       IN IF Adapts(run)
          THEN /\ \E r \in Topped(shrunk, Shrinks(judged, w)) : run' = Continued(r)
               /\ PolicyAfter(judged, w.verdict)
          ELSE run' = Continued(seen) /\ UNCHANGED <<policy, snapshots, refusals>>
    /\ UNCHANGED <<clock, runs, events>>

\* The tick that follows the first answer at once: nothing is measured.
ShortTick ==
    /\ Running
    /\ \E r \in IF Adapts(run) THEN Filled(run) ELSE {run} : run' = Continued(r)
    /\ UNCHANGED <<policy, snapshots, clock, refusals, runs, events>>

-----------------------------------------------------------------------------
(* What happens to the download between two ticks                          *)

\* The remaining bytes have become few; a larger size makes them many again.
ReachTail ==
    /\ Running /\ ~run.tail
    /\ run' = [run EXCEPT !.tail = TRUE]
    /\ UNCHANGED <<policy, snapshots, clock, refusals, runs, events>>

Enlarge ==
    /\ Running /\ run.expansions < MaxExpansions
    /\ run' = [run EXCEPT !.expansions = @ + 1, !.tail = FALSE]
    /\ UNCHANGED <<policy, snapshots, clock, refusals, runs, events>>

\* A worker finds nothing to do, or there are more than are allowed.
Retire ==
    /\ Running /\ run.alive > 0
    /\ run' = [run EXCEPT !.alive = @ - 1]
    /\ UNCHANGED <<policy, snapshots, clock, refusals, runs, events>>

RangeVerdict(supports) ==
    /\ Running /\ run.range = "unknown"
    /\ run' = IF supports THEN [run EXCEPT !.range = "supported"]
              ELSE [run EXCEPT !.range = "unsupported", !.freeze = Hard, !.sensitive = TRUE]
    /\ UNCHANGED <<policy, snapshots, clock, refusals, runs, events>>

\* A worker's range was ignored; before any byte has arrived that is a host
\* without ranges.
RangeIgnored(nothingYet) ==
    /\ Running
    /\ nothingYet => run.proven = 0
    /\ run' = [run EXCEPT !.sensitive = TRUE]
    /\ IF nothingYet THEN Recorded(RecordCap(policy, 1, clock)) /\ Refused(1)
                     ELSE UNCHANGED <<policy, snapshots, refusals>>
    /\ UNCHANGED <<clock, runs, events>>

\* Mutant of Half: only the refused worker is given up.
HalfLess(alive) == Max({1, alive - 1})

Half(alive) == Max({1, alive \div 2})

\* A connection is refused while others work: with 403 or 429 the host is
\* remembered, after a 400 or a full answer it is not.
Reject(byServer) ==
    /\ Running /\ run.alive > 0
    /\ run.rejects <= 2     \* bound: nothing changes after the second
    /\ LET halves == ~run.serial /\ run.rejects = 0 /\ run.alive > 2
           cap == IF halves THEN Half(run.alive) ELSE 1
           r == [run EXCEPT !.rejects = @ + 1, !.freeze = Hard,
                            !.awaiting = FALSE, !.probe = FALSE, !.preGrow = 0,
                            !.allowed = IF halves THEN cap ELSE @,
                            !.serial = ~halves, !.alive = @ - 1]
       IN /\ run' = Continued(r)
          /\ IF byServer /\ ~run.serial
             THEN Recorded(RecordCap(policy, cap, clock)) /\ Refused(cap)
             ELSE UNCHANGED <<policy, snapshots, refusals>>
    /\ UNCHANGED <<clock, runs, events>>

-----------------------------------------------------------------------------
(* The host's record                                                       *)

Event == events < MaxEvents /\ events' = events + 1

RefusedElsewhere(n) ==
    /\ Event
    /\ Recorded(RecordCap(policy, n, clock)) /\ Refused(n)
    /\ UNCHANGED <<clock, run, runs>>

HintedElsewhere(n) ==
    /\ Event
    /\ n > FirstWorkers
    /\ Recorded(RecordHint(policy, n, clock))
    /\ UNCHANGED <<clock, run, refusals, runs>>

\* A change of the proxy forgets what another way out has learnt.
Clear ==
    /\ Event
    /\ policy # NoEntry
    /\ policy' = NoEntry
    /\ snapshots' = snapshots \cup {NoEntry}
    /\ refusals' = {}
    /\ UNCHANGED <<clock, run, runs>>

Restart ==
    /\ Event
    /\ \E e \in snapshots :
        /\ snapshots' = {e}
        /\ policy' = Merged(NoEntry, e, clock)
    /\ run' = Idle /\ refusals' = {}
    /\ UNCHANGED <<clock, runs>>

Pass ==
    /\ clock < MaxClock
    /\ clock' = clock + 1
    /\ refusals' = {r \in refusals : Fresh(r.at, clock + 1)}
    /\ UNCHANGED <<policy, snapshots, run, runs, events>>

-----------------------------------------------------------------------------
RampNext ==
    \/ \E plan \in Plans, allow \in BOOLEAN, verified \in BOOLEAN : Start(plan, allow, verified)
    \/ Running /\ \E w \in Windows(run) : Tick(w)
    \/ ShortTick \/ ReachTail \/ Enlarge \/ Retire \/ Succeed \/ Stop
    \/ \E b \in BOOLEAN : RangeVerdict(b) \/ RangeIgnored(b) \/ Reject(b)
    \/ \E n \in Elsewhere : RefusedElsewhere(n) \/ HintedElsewhere(n)
    \/ Clear \/ Restart \/ Pass

RampSpec == RampInit /\ [][RampNext]_vars

-----------------------------------------------------------------------------
(* Properties                                                              *)

\* The allowance stays between one connection and the cap of the download, and
\* so do the workers alive, those included that are still to retire.
RampTypeOK ==
    /\ clock \in 0 .. MaxClock /\ runs \in 0 .. MaxRuns /\ events \in 0 .. MaxEvents
    /\ snapshots \cup {policy} \subseteq [cap : Nat, capTs : 0 .. clock, hint : Nat, hintTs : 0 .. clock]
    /\ Running =>
        /\ run.allowed \in 1 .. run.cap /\ run.preGrow \in 0 .. run.cap
        /\ run.beneficial \in 1 .. run.cap /\ run.proven \in 0 .. run.cap
        /\ run.alive \in 0 .. run.cap
        /\ run.freeze.kind \in {"active", "soft", "hard"}
        /\ run.probe => run.awaiting
        /\ run.strikes \in 0 .. ShrinkStrikes - 1

\* A download starts within every refusal of its host that is younger than the
\* time to live, whatever else other downloads have refused, proved or renewed
\* meanwhile, and however far a hint would lift its limit.
StartsUnderRefusals ==
    [][~Running /\ run'.state = "running" =>
        \A r \in refusals : run'.cap <= r.cap]_vars

\* After a hard freeze (a refusal, a collapse, spent probes) the allowance never
\* grows again: when a refusal halves the connections that are alive, the ones
\* a rollback or a shrink has left over do not make that more than was allowed.
HardNeverGrows ==
    [][Running /\ run'.state = "running" /\ run.freeze = Hard => run'.allowed <= run.allowed]_vars

\* A download frozen softly does not creep up by its probes: it stays within one
\* connection of the scale it was frozen at.  Only a tail that is entered while
\* a probe is evaluated, and left because the file has grown, keeps one more.
SoftNeverCreeps ==
    Running /\ run.freeze.kind = "soft" => run.allowed <= run.frozenAt + 1 + run.expansions

=============================================================================
