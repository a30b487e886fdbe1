------------------------ MODULE TaskLifecycle_proofs ------------------------
(***************************************************************************)
(* Proofs about TaskLifecycle.  The handlers of the manager call each      *)
(* other and iterate over the queue and over sets of tasks; each is an     *)
(* operator on the record `m', and each gets a lemma that says what it     *)
(* keeps of a record and how the record it returns follows from it.        *)
(***************************************************************************)
EXTENDS TaskLifecycle, FiniteSetTheorems, SequenceTheorems, WellFoundedInduction, TLAPS

-----------------------------------------------------------------------------
(***************************************************************************)
(* Iteration.  FoldLeft is a recursive function on sets of positions; it   *)
(* exists because the positions are finitely many.                         *)
(***************************************************************************)

\* A nonempty set of numbers has a least element.
LEMMA LeastOf ==
    ASSUME NEW T \in SUBSET Nat, T # {}
    PROVE  \E k \in T : \A j \in T : k <= j
<1>1. PICK k \in T : \A j \in T : ~(<<j, k>> \in OpToRel(<, Nat))
  BY WFMin, NatLessThanWellFounded
<1>2. \A j \in T : ~(j < k)
  BY <1>1 DEF OpToRel
<1> QED BY <1>2

\* A nonempty set of positions has a greatest element.
LEMMA LastOf ==
    ASSUME NEW n \in Nat, NEW S \in SUBSET (1 .. n), S # {}
    PROVE  Max(S) \in S /\ \A y \in S : Max(S) >= y
<1> DEFINE T == {n - x : x \in S}
<1>1. PICK t \in T : \A y \in T : t <= y
  <2>1. \A x \in S : n - x \in Nat
    OBVIOUS
  <2>2. T \in SUBSET Nat
    BY <2>1
  <2>3. T # {}
    OBVIOUS
  <2> HIDE DEF T
  <2> QED BY <2>2, <2>3, LeastOf
<1>2. PICK x \in S : t = n - x
  OBVIOUS
<1>3. \A y \in S : n - x <= n - y
  BY <1>1, <1>2
<1>4. \A y \in S : x >= y
  BY <1>3
<1> QED BY <1>4 DEF Max

\* A property of the first position that passes from each to the next.
LEMMA EveryPosition ==
    ASSUME NEW n \in Nat, NEW J, 0 \in J, \A i \in 1 .. n : i - 1 \in J => i \in J
    PROVE  \A i \in 0 .. n : i \in J
<1> DEFINE T == {i \in 0 .. n : i \notin J}
<1> SUFFICES ASSUME T # {}
             PROVE  FALSE
  OBVIOUS
<1>1. PICK k \in T : \A j \in T : k <= j
  <2>1. T \in SUBSET Nat
    OBVIOUS
  <2> HIDE DEF T
  <2> QED BY <2>1, LeastOf
<1>2. k \in 1 .. n /\ k - 1 \notin T
  BY <1>1
<1> QED BY <1>1, <1>2

\* What the fold does with the positions in s, when g is the fold of fewer.
FoldStep(op, base, g, s) == IF s = {} THEN base ELSE op[<<Max(s), g[s \ {Max(s)}]>>]

IsFold(op, base, n, g) == g = [s \in SUBSET (1 .. n) |-> FoldStep(op, base, g, s)]

StaysIn(A, n, op) == \A i \in 1 .. n : \A a \in A : op[<<i, a>>] \in A

FoldIn(A, op, base, n) ==
    \E g : IsFold(op, base, n, g) /\ \A s \in SUBSET (1 .. n) : g[s] \in A

\* The fold of op exists, and stays where op stays.
LEMMA FoldExists ==
    ASSUME NEW A, NEW n \in Nat, NEW base \in A, NEW op, StaysIn(A, n, op)
    PROVE  FoldIn(A, op, base, n)
<1> USE DEF StaysIn
<1> DEFINE Folds(g, k) == /\ g = [s \in SUBSET (1 .. k) |-> FoldStep(op, base, g, s)]
                          /\ \A s \in SUBSET (1 .. k) : g[s] \in A
           J == {k \in 0 .. n : \E g : Folds(g, k)}
<1>1. 0 \in J
  <2> DEFINE g == [s \in SUBSET (1 .. 0) |-> base]
  <2>1. \A s \in SUBSET (1 .. 0) : FoldStep(op, base, g, s) = base
    BY DEF FoldStep
  <2>2. g = [s \in SUBSET (1 .. 0) |-> FoldStep(op, base, g, s)]
    BY <2>1
  <2>3. Folds(g, 0)
    BY <2>2
  <2> HIDE DEF g, Folds
  <2> QED BY <2>3
<1>2. ASSUME NEW k \in 1 .. n, k - 1 \in J
      PROVE  k \in J
  <2>1. PICK g : Folds(g, k - 1)
    BY <1>2
  <2> DEFINE h == [s \in SUBSET (1 .. k) |-> IF k \in s THEN op[<<k, g[s \ {k}]>>] ELSE g[s]]
  <2>2. ASSUME NEW s \in SUBSET (1 .. k)
        PROVE  h[s] = FoldStep(op, base, h, s) /\ h[s] \in A
    <3>1. \A r \in SUBSET (1 .. k) : k \notin r => r \in SUBSET (1 .. k - 1) /\ h[r] = g[r]
      OBVIOUS
    <3>2. CASE s = {}
      BY <2>1, <3>1, <3>2 DEF FoldStep
    <3>3. CASE s # {} /\ k \in s
      <4>1. Max(s) \in s /\ Max(s) >= k
        BY <3>3, LastOf
      <4>2. \A j \in 1 .. k : j >= k => j = k
        OBVIOUS
      <4>3. Max(s) \in 1 .. k
        BY <4>1
      <4>4. Max(s) = k
        BY <4>1, <4>2, <4>3, Zenon
      <4>5. s \ {k} \in SUBSET (1 .. k - 1)
        OBVIOUS
      <4>6. h[s] = op[<<k, h[s \ {k}]>>] /\ h[s \ {k}] \in A
        BY <2>1, <3>1, <3>3, <4>5
      <4> HIDE DEF h
      <4> QED BY <3>3, <4>4, <4>6 DEF FoldStep
    <3>4. CASE s # {} /\ k \notin s
      <4>1. s \in SUBSET (1 .. k - 1) /\ h[s] = g[s]
        BY <3>1, <3>4
      <4>2. h[s \ {Max(s)}] = g[s \ {Max(s)}]
        BY <3>1, <3>4
      <4> HIDE DEF h
      <4> QED BY <2>1, <4>1, <4>2 DEF FoldStep
    <3> QED BY <3>2, <3>3, <3>4
  <2>3. h = [s \in SUBSET (1 .. k) |-> h[s]]
    OBVIOUS
  <2> HIDE DEF h
  <2>4. Folds(h, k)
    BY <2>2, <2>3
  <2> HIDE DEF Folds
  <2> QED BY <2>4
<1> HIDE DEF J
<1>3. \A k \in 0 .. n : k \in J
  BY <1>1, <1>2, EveryPosition
<1>4. n \in J
  BY <1>3
<1> QED BY <1>4 DEF J, IsFold, FoldIn

\* The positions before and at i.
LEMMA Positions ==
    \A i \in Nat : i # 0 => 1 .. i # {} /\ Max(1 .. i) = i /\ (1 .. i) \ {i} = 1 .. i - 1
<1> SUFFICES ASSUME NEW i \in Nat, i # 0
             PROVE  1 .. i # {} /\ Max(1 .. i) = i /\ (1 .. i) \ {i} = 1 .. i - 1
  OBVIOUS
<1>1. i \in 1 .. i
  OBVIOUS
<1>2. Max(1 .. i) \in 1 .. i /\ Max(1 .. i) >= i
  BY <1>1, LastOf
<1> QED BY <1>1, <1>2

-----------------------------------------------------------------------------
(***************************************************************************)
(* Records of the manager.                                                 *)
(***************************************************************************)

Names == {BaseName[t] : t \in Tasks} \X Nat

Entry == [task : Tasks, resume : BOOLEAN]

\* The type of `m'.
State == [status : [Tasks -> Statuses], name : [Tasks -> Names], active : [Tasks -> Nat],
          pending : Seq(Entry), retries : [Tasks -> 0 .. MaxRetries],
          scheduled : SUBSET Tasks, priority : Tasks \cup {NoTask},
          autoPaused : SUBSET Tasks, limit : Limits, runs : SUBSET Run]

\* A generation is that of one run, and none is 0; a run is about to take a
\* name, or has one.
RunsSound(s) ==
    /\ \A r, q \in s.runs : r.task = q.task /\ r.gen = q.gen => r = q
    /\ \A r \in s.runs : r.gen # 0
    /\ \A r \in s.runs : IF r.phase = "naming" THEN ~r.resumed ELSE r.file \in Names

\* Every entry is that of a run which is not cancelled.
Live(s) ==
    \A t \in Tasks : s.active[t] # 0 =>
        \E r \in s.runs : r.task = t /\ r.gen = s.active[t] /\ ~r.cancelled

\* A task without a row has no entry.
Rowed(s) == \A t \in Tasks : s.status[t] \in Gone => s.active[t] = 0

Core(s) == s \in State /\ IsFiniteSet(s.runs) /\ RunsSound(s) /\ Live(s) /\ Rowed(s)

\* No task waits twice.
Once(s) == \A i, j \in DOMAIN s.pending : s.pending[i].task = s.pending[j].task => i = j

\* What waits has a row and does not run.
Waits(s) == \A i \in DOMAIN s.pending :
    s.active[s.pending[i].task] = 0 /\ s.status[s.pending[i].task] \notin Gone

Good(s) == Core(s) /\ Once(s) /\ Waits(s)

\* The runs that took a name, and the name.
Taken(s) == {<<r.task, r.gen, r.file>> : r \in {q \in s.runs : ~q.resumed /\ q.phase # "naming"}}

\* The generation g of t goes on without an entry and is not cancelled.
Orphan(s, t, g) ==
    \E q \in s.runs : q.task = t /\ q.gen = g /\ ~q.cancelled /\ s.active[t] # g

\* From s to x no run becomes an orphan ...
Fewer(s, x) == \A t \in Tasks : \A g \in Nat : Orphan(x, t, g) => Orphan(s, t, g)

\* ... and here none of a task whose row is not final.
Follows(s, x) ==
    \A t \in Tasks : s.status[t] \notin Terminal =>
        /\ x.status[t] \notin Terminal
        /\ \A g \in Nat : Orphan(x, t, g) => Orphan(s, t, g)

\* What every handler keeps.
Keeps(s, x) == Taken(x) = Taken(s) /\ Follows(s, x)

\* Nobody is queued who was not.
QueueShrinks(s, x) == \A t \in Tasks : Queued(x, t) => Queued(s, t)

LEMMA KeepsSelf == \A s : Keeps(s, s) /\ Fewer(s, s) /\ QueueShrinks(s, s)
BY DEF Keeps, Follows, Fewer, QueueShrinks

LEMMA KeepsThrough == \A s, x, y : Keeps(s, x) /\ Keeps(x, y) => Keeps(s, y)
BY DEF Keeps, Follows

LEMMA FewerThrough == \A s, x, y : Fewer(s, x) /\ Fewer(x, y) => Fewer(s, y)
BY DEF Fewer

\* A step that makes no orphan and writes no final status.
LEMMA KeepsFewer ==
    \A s, x : /\ Taken(x) = Taken(s)
              /\ Fewer(s, x)
              /\ \A t \in Tasks : s.status[t] \notin Terminal => x.status[t] \notin Terminal
              => Keeps(s, x)
BY DEF Keeps, Follows, Fewer

\* Records that differ in nothing the conditions speak of.
Alike(s, x) == /\ x.runs = s.runs /\ x.active = s.active /\ x.status = s.status
               /\ x.pending = s.pending

LEMMA AlikeKeeps ==
    \A s, x : Alike(s, x) => Keeps(s, x) /\ Fewer(s, x) /\ QueueShrinks(s, x)
<1> SUFFICES ASSUME NEW s, NEW x, Alike(s, x)
             PROVE  Keeps(s, x) /\ Fewer(s, x) /\ QueueShrinks(s, x)
  OBVIOUS
<1>1. Taken(x) = Taken(s)
  BY DEF Alike, Taken
<1>2. \A t, g : Orphan(x, t, g) = Orphan(s, t, g)
  BY DEF Alike, Orphan
<1>3. \A t : Queued(x, t) = Queued(s, t)
  BY DEF Alike, Queued
<1> QED BY <1>1, <1>2, <1>3 DEF Alike, Keeps, Follows, Fewer, QueueShrinks

LEMMA AlikeGood ==
    \A s, x : Alike(s, x) /\ x \in State /\ Good(s) => Good(x)
BY DEF Alike, Good, Core, RunsSound, Live, Rowed, Once, Waits

-----------------------------------------------------------------------------
(***************************************************************************)
(* Generations.  The runs are finitely many, so a number is left for the   *)
(* next one, and a least one.                                              *)
(***************************************************************************)

LEMMA LeastUnused ==
    ASSUME NEW used, IsFiniteSet(used)
    PROVE  \E g \in 1 .. Cardinality(used) + 1 :
               g \notin used /\ \A h \in 1 .. g - 1 : h \in used
<1> DEFINE n == Cardinality(used)
           T == {g \in 1 .. n + 1 : g \notin used}
<1>1. n \in Nat
  BY FS_CardinalityType
<1> HIDE DEF n
<1>2. T # {}
  <2> SUFFICES ASSUME \A g \in 1 .. n + 1 : g \in used
               PROVE  FALSE
    OBVIOUS
  <2>1. (1 .. n + 1) \subseteq used
    OBVIOUS
  <2>2. Cardinality(1 .. n + 1) <= n
    BY <2>1, FS_Subset DEF n
  <2>3. Cardinality(1 .. n + 1) = n + 1
    BY <1>1, FS_Interval
  <2> QED BY <1>1, <2>2, <2>3
<1>3. T \in SUBSET Nat
  BY <1>1
<1>4. PICK g \in T : \A j \in T : g <= j
  <2> HIDE DEF T
  <2> QED BY <1>2, <1>3, LeastOf
<1>5. \A h \in 1 .. g - 1 : h \in 1 .. n + 1 /\ ~(g <= h)
  BY <1>1, <1>4
<1>6. \A h \in 1 .. g - 1 : h \in used
  BY <1>4, <1>5
<1> QED BY <1>4, <1>6 DEF n

\* The values of a function on a finite set are finitely many.
LEMMA FiniteImage ==
    ASSUME NEW S, IsFiniteSet(S), NEW f
    PROVE  IsFiniteSet({f[x] : x \in S})
<1> DEFINE T == {f[x] : x \in S}
           h == [x \in S |-> f[x]]
<1>1. h \in Surjection(S, T)
  BY DEF Surjection
<1> HIDE DEF h, T
<1>2. IsFiniteSet(T)
  BY <1>1, FS_Surjection
<1> QED BY <1>2 DEF T

LEMMA GenerationFacts ==
    ASSUME NEW s, Core(s), NEW t \in Tasks
    PROVE  /\ NewGeneration(s, t) \in Nat \ {0}
           /\ \A r \in s.runs : r.task = t => r.gen # NewGeneration(s, t)
<1> DEFINE used == {r.gen : r \in {q \in s.runs : q.task = t}}
<1>1. IsFiniteSet(used)
  <2>1. IsFiniteSet({q \in s.runs : q.task = t})
    BY FS_Subset DEF Core
  <2> DEFINE S == {q \in s.runs : q.task = t}
             f == [r \in S |-> r.gen]
  <2>2. used = {f[r] : r \in S}
    OBVIOUS
  <2> HIDE DEF f, S, used
  <2>3. IsFiniteSet({f[r] : r \in S})
    BY <2>1, FiniteImage DEF S
  <2> QED BY <2>2, <2>3
<1>2. Cardinality(used) \in Nat
  BY <1>1, FS_CardinalityType
<1>3. \E g \in 1 .. Cardinality(used) + 1 : g \notin used /\ \A h \in 1 .. g - 1 : h \in used
  <2> HIDE DEF used
  <2> QED BY <1>1, LeastUnused
<1>4. NewGeneration(s, t) = CHOOSE g \in 1 .. Cardinality(used) + 1 :
          g \notin used /\ \A h \in 1 .. g - 1 : h \in used
  BY DEF NewGeneration
<1>5. NewGeneration(s, t) \in 1 .. Cardinality(used) + 1 /\ NewGeneration(s, t) \notin used
  <2> HIDE DEF used
  <2> QED BY <1>3, <1>4
<1>6. \A r \in s.runs : r.task = t => r.gen \in used
  OBVIOUS
<1> HIDE DEF used
<1> QED BY <1>2, <1>5, <1>6

-----------------------------------------------------------------------------
(***************************************************************************)
(* The small operators.                                                    *)
(***************************************************************************)

\* The run a start or a resume adds.
NewRun(s, t, resume) ==
    [gen |-> NewGeneration(s, t), task |-> t, resumed |-> resume, cancelled |-> FALSE,
     phase |-> IF resume THEN "opening" ELSE "naming",
     file |-> IF resume THEN s.name[t] ELSE NoName]

\* A record with another set of runs and other entries.
Changed(s, R, a) == [s EXCEPT !.runs = R, !.active = a]

LEMMA WithRuns ==
    ASSUME NEW s \in State, NEW R \in SUBSET Run, NEW a \in [Tasks -> Nat], NEW x,
           x = Changed(s, R, a)
    PROVE  /\ x \in State /\ x.runs = R /\ x.active = a
           /\ x.status = s.status /\ x.name = s.name /\ x.pending = s.pending
           /\ x.retries = s.retries /\ x.scheduled = s.scheduled
           /\ x.priority = s.priority /\ x.autoPaused = s.autoPaused /\ x.limit = s.limit
<1> DEFINE y == [s EXCEPT !.runs = R]
<1>1. /\ y \in State /\ y.runs = R /\ y.active = s.active
      /\ y.status = s.status /\ y.name = s.name /\ y.pending = s.pending
      /\ y.retries = s.retries /\ y.scheduled = s.scheduled
      /\ y.priority = s.priority /\ y.autoPaused = s.autoPaused /\ y.limit = s.limit
  BY DEF State
<1>2. x = [y EXCEPT !.active = a]
  BY DEF Changed
<1> HIDE DEF y
<1>3. /\ x \in State /\ x.runs = y.runs /\ x.active = a
      /\ x.status = y.status /\ x.name = y.name /\ x.pending = y.pending
      /\ x.retries = y.retries /\ x.scheduled = y.scheduled
      /\ x.priority = y.priority /\ x.autoPaused = y.autoPaused /\ x.limit = y.limit
  BY <1>1, <1>2 DEF State
<1> QED BY <1>1, <1>3

LEMMA SpawnIs ==
    ASSUME NEW s, Core(s), NEW t \in Tasks, NEW resume \in BOOLEAN, s.status[t] \notin Gone
    PROVE  /\ NewRun(s, t, resume) \in Run
           /\ Spawn(s, t, resume) =
                Changed(s, s.runs \cup {NewRun(s, t, resume)},
                        [s.active EXCEPT ![t] = NewGeneration(s, t)])
<1>1. NewGeneration(s, t) \in Nat \ {0}
  BY GenerationFacts
<1>2. s \in State
  BY DEF Core
<1>3. s.name[t] \in Names
  BY <1>2 DEF State
<1>4. NewRun(s, t, resume) \in Run
  BY <1>1, <1>3 DEF NewRun, Run, Phases, Names, NoName
<1>5. Spawn(s, t, resume) =
        [s EXCEPT !.active[t] = NewGeneration(s, t), !.runs = @ \cup {NewRun(s, t, resume)}]
  BY DEF Spawn, NewRun
<1> HIDE DEF NewRun
<1>6. [s EXCEPT !.active[t] = NewGeneration(s, t), !.runs = @ \cup {NewRun(s, t, resume)}] =
        Changed(s, s.runs \cup {NewRun(s, t, resume)},
                [s.active EXCEPT ![t] = NewGeneration(s, t)])
  BY <1>2 DEF State, Changed
<1> QED BY <1>4, <1>5, <1>6

\* A new run of an idle task.
LEMMA SpawnKeeps ==
    ASSUME NEW s, Core(s), NEW t \in Tasks, NEW resume \in BOOLEAN, s.active[t] = 0,
           NEW x, x = Spawn(s, t, resume)
    PROVE  /\ Core(x)
           /\ Keeps(s, x) /\ Fewer(s, x)
           /\ x.status = s.status /\ x.pending = s.pending /\ x.priority = s.priority
           /\ x.autoPaused = s.autoPaused /\ x.limit = s.limit
           /\ \A u \in Tasks \ {t} : x.active[u] = s.active[u]
<1>1. CASE s.status[t] \in Gone
  <2>1. x = s
    BY <1>1 DEF Spawn
  <2> QED BY <2>1, KeepsSelf
<1>2. CASE s.status[t] \notin Gone
  <2> DEFINE g == NewGeneration(s, t)
             r == NewRun(s, t, resume)
             a == [s.active EXCEPT ![t] = g]
  <2>1. /\ g \in Nat \ {0}
        /\ \A q \in s.runs : q.task = t => q.gen # g
    BY GenerationFacts
  <2>2. r \in Run /\ x = Changed(s, s.runs \cup {r}, a)
    BY <1>2, SpawnIs
  <2>3. /\ r.gen = g /\ r.task = t /\ ~r.cancelled /\ r.resumed = resume
        /\ r.phase = IF resume THEN "opening" ELSE "naming"
    BY DEF NewRun
  <2>14. IF r.phase = "naming" THEN ~r.resumed ELSE r.file \in Names
    BY DEF NewRun, Core, State
  <2>4. s \in State /\ s.runs \in SUBSET Run /\ s.active \in [Tasks -> Nat]
    BY DEF Core, State
  <2> HIDE DEF g, r
  <2>5. s.runs \cup {r} \in SUBSET Run /\ a \in [Tasks -> Nat]
    BY <2>1, <2>2, <2>4
  <2>6. /\ x \in State /\ x.runs = s.runs \cup {r} /\ x.active = a
        /\ x.status = s.status /\ x.name = s.name /\ x.pending = s.pending
        /\ x.priority = s.priority /\ x.autoPaused = s.autoPaused /\ x.limit = s.limit
    <3> HIDE DEF a
    <3> QED BY <2>2, <2>4, <2>5, WithRuns
  <2>7. a[t] = g /\ \A u \in Tasks \ {t} : a[u] = s.active[u]
    BY <2>4
  <2> HIDE DEF a
  <2>8. IsFiniteSet(x.runs)
    BY <2>6, FS_AddElement DEF Core
  <2>9. RunsSound(x)
    BY <2>1, <2>3, <2>6, <2>14 DEF Core, RunsSound
  <2>10. Live(x)
    BY <2>3, <2>6, <2>7 DEF Core, Live
  <2>11. Rowed(x)
    BY <1>2, <2>6, <2>7 DEF Core, Rowed
  <2>12. Taken(x) = Taken(s)
    <3>1. {q \in x.runs : ~q.resumed /\ q.phase # "naming"} =
            {q \in s.runs : ~q.resumed /\ q.phase # "naming"}
      BY <2>3, <2>6
    <3> QED BY <3>1 DEF Taken
  <2>13. Fewer(s, x)
    <3> SUFFICES ASSUME NEW u \in Tasks, NEW k \in Nat, Orphan(x, u, k)
                 PROVE  Orphan(s, u, k)
      BY DEF Fewer
    <3>1. PICK q \in s.runs \cup {r} : q.task = u /\ q.gen = k /\ ~q.cancelled
      BY <2>6 DEF Orphan
    <3>2. a[u] # k
      BY <2>6 DEF Orphan
    <3>3. q \in s.runs
      BY <2>3, <2>7, <3>1, <3>2
    <3>4. k # 0
      BY <3>1, <3>3 DEF Core, RunsSound
    <3>5. s.active[u] # k
      BY <2>7, <3>2, <3>4
    <3> QED BY <3>1, <3>3, <3>5 DEF Orphan
  <2> QED BY <2>6, <2>7, <2>8, <2>9, <2>10, <2>11, <2>12, <2>13, KeepsFewer DEF Core
<1> QED BY <1>1, <1>2

\* The entry of a task goes, and its run is cancelled.
LEMMA CancelledKeeps ==
    ASSUME NEW s, Core(s), NEW t \in Tasks, NEW x, x = Cancelled(s, t)
    PROVE  /\ Core(x)
           /\ Keeps(s, x) /\ Fewer(s, x)
           /\ x.status = s.status /\ x.pending = s.pending /\ x.priority = s.priority
           /\ x.autoPaused = s.autoPaused /\ x.limit = s.limit
           /\ x.active[t] = 0
           /\ \A u \in Tasks \ {t} : x.active[u] = s.active[u]
<1> DEFINE c(r) == IF r.task = t /\ r.gen = s.active[t] THEN [r EXCEPT !.cancelled = TRUE] ELSE r
           R == {c(r) : r \in s.runs}
           a == [s.active EXCEPT ![t] = 0]
<1>1. s \in State /\ s.runs \in SUBSET Run /\ s.active \in [Tasks -> Nat]
  BY DEF Core, State
<1>2. x = Changed(s, R, a)
  BY <1>1 DEF Cancelled, State, Changed
<1>3. \A r \in s.runs : /\ c(r) \in Run /\ c(r).task = r.task /\ c(r).gen = r.gen
                        /\ c(r).file = r.file /\ c(r).resumed = r.resumed /\ c(r).phase = r.phase
                        /\ r.cancelled => c(r).cancelled
                        /\ r.task = t /\ r.gen = s.active[t] => c(r).cancelled
                        /\ ~(r.task = t /\ r.gen = s.active[t]) => c(r) = r
  BY <1>1 DEF Run
<1>4. \A q \in R : \E r \in s.runs : q = c(r)
  OBVIOUS
<1>5. \A r \in s.runs : c(r) \in R
  OBVIOUS
<1>6. IsFiniteSet(R)
  <2> DEFINE f == [r \in s.runs |-> c(r)]
  <2>1. R = {f[r] : r \in s.runs}
    OBVIOUS
  <2>2. IsFiniteSet(s.runs)
    BY DEF Core
  <2> HIDE DEF f, R
  <2>3. IsFiniteSet({f[r] : r \in s.runs})
    BY <2>2, FiniteImage
  <2> QED BY <2>1, <2>3
<1> HIDE DEF c
<1>7. R \in SUBSET Run /\ a \in [Tasks -> Nat]
  BY <1>1, <1>3
<1>8. a[t] = 0 /\ \A u \in Tasks \ {t} : a[u] = s.active[u]
  BY <1>1
<1> HIDE DEF R, a
<1>9. /\ x \in State /\ x.runs = R /\ x.active = a
      /\ x.status = s.status /\ x.name = s.name /\ x.pending = s.pending
      /\ x.priority = s.priority /\ x.autoPaused = s.autoPaused /\ x.limit = s.limit
  BY <1>1, <1>2, <1>7, WithRuns
<1>10. RunsSound(x)
  <2>1. \A r, q \in s.runs : r.task = q.task /\ r.gen = q.gen => r = q
    BY DEF Core, RunsSound
  <2>2. \A r \in s.runs : r.gen # 0
    BY DEF Core, RunsSound
  <2>3. \A r \in s.runs : IF r.phase = "naming" THEN ~r.resumed ELSE r.file \in Names
    BY DEF Core, RunsSound
  <2> QED BY <1>3, <1>4, <1>9, <2>1, <2>2, <2>3 DEF RunsSound
<1>11. Live(x)
  <2> SUFFICES ASSUME NEW u \in Tasks, x.active[u] # 0
               PROVE  \E r \in x.runs : r.task = u /\ r.gen = x.active[u] /\ ~r.cancelled
    BY DEF Live
  <2>1. u # t /\ x.active[u] = s.active[u]
    BY <1>8, <1>9
  <2>2. PICK r \in s.runs : r.task = u /\ r.gen = s.active[u] /\ ~r.cancelled
    BY <2>1 DEF Core, Live
  <2>3. c(r) = r
    BY <1>3, <2>1, <2>2
  <2> QED BY <1>5, <1>9, <2>1, <2>2, <2>3
<1>12. Rowed(x)
  BY <1>8, <1>9 DEF Core, Rowed
<1>13. Taken(x) = Taken(s)
  <2>1. \A y : y \in Taken(x) <=> \E q \in R : ~q.resumed /\ q.phase # "naming" /\ y = <<q.task, q.gen, q.file>>
    BY <1>9 DEF Taken
  <2>2. \A y : y \in Taken(s) <=> \E q \in s.runs : ~q.resumed /\ q.phase # "naming" /\ y = <<q.task, q.gen, q.file>>
    BY DEF Taken
  <2>3. \A y : y \in Taken(x) <=> y \in Taken(s)
    BY <1>3, <1>4, <1>5, <2>1, <2>2
  <2>4. \A y \in Taken(x) : y \in Taken(s)
    BY <2>3
  <2>5. \A y \in Taken(s) : y \in Taken(x)
    BY <2>3
  <2> QED BY <2>4, <2>5
<1>14. Fewer(s, x)
  <2> SUFFICES ASSUME NEW u \in Tasks, NEW g \in Nat, Orphan(x, u, g)
               PROVE  Orphan(s, u, g)
    BY DEF Fewer
  <2>1. PICK q \in R : q.task = u /\ q.gen = g /\ ~q.cancelled
    BY <1>9 DEF Orphan
  <2>2. x.active[u] # g
    BY DEF Orphan
  <2>3. PICK r \in s.runs : q = c(r)
    BY <1>4
  <2>4. ~(r.task = t /\ r.gen = s.active[t]) /\ q = r
    BY <1>3, <2>1, <2>3
  <2>5. s.active[u] # g
    BY <1>8, <1>9, <2>1, <2>2, <2>4
  <2> QED BY <2>1, <2>4, <2>5 DEF Orphan
<1> QED BY <1>1, <1>6, <1>8, <1>9, <1>10, <1>11, <1>12, <1>13, <1>14, KeepsFewer DEF Core

-----------------------------------------------------------------------------
(***************************************************************************)
(* The row's status and the queue.                                         *)
(***************************************************************************)

\* What a record shares with one that differs in its queue only.
LEMMA WithPending ==
    ASSUME NEW s \in State, NEW p \in Seq(Entry), NEW x, x = [s EXCEPT !.pending = p]
    PROVE  /\ x \in State /\ x.pending = p
           /\ x.runs = s.runs /\ x.active = s.active /\ x.status = s.status
           /\ x.name = s.name /\ x.retries = s.retries /\ x.scheduled = s.scheduled
           /\ x.priority = s.priority /\ x.autoPaused = s.autoPaused /\ x.limit = s.limit
BY DEF State

LEMMA WithStatuses ==
    ASSUME NEW s \in State, NEW f \in [Tasks -> Statuses], NEW x, x = [s EXCEPT !.status = f]
    PROVE  /\ x \in State /\ x.status = f
           /\ x.runs = s.runs /\ x.active = s.active /\ x.pending = s.pending
           /\ x.name = s.name /\ x.retries = s.retries /\ x.scheduled = s.scheduled
           /\ x.priority = s.priority /\ x.autoPaused = s.autoPaused /\ x.limit = s.limit
BY DEF State

\* A new status of a task that keeps its row.
Restated(s, t, v) == [s EXCEPT !.status = [s.status EXCEPT ![t] = v]]

LEMMA NewStatusKeeps ==
    ASSUME NEW s, Core(s), NEW t \in Tasks, NEW v \in Statuses \ Gone,
           NEW x, x = Restated(s, t, v)
    PROVE  /\ Core(x) /\ Fewer(s, x)
           /\ v \notin Terminal \/ s.status[t] \in Terminal => Keeps(s, x)
           /\ Taken(x) = Taken(s)
           /\ x.pending = s.pending /\ x.active = s.active /\ x.runs = s.runs
           /\ x.priority = s.priority /\ x.autoPaused = s.autoPaused /\ x.limit = s.limit
           /\ x.status[t] = v
           /\ \A u \in Tasks \ {t} : x.status[u] = s.status[u]
<1> DEFINE f == [s.status EXCEPT ![t] = v]
<1>1. s \in State /\ s.status \in [Tasks -> Statuses]
  BY DEF Core, State
<1>2. f \in [Tasks -> Statuses] /\ f[t] = v /\ \A u \in Tasks \ {t} : f[u] = s.status[u]
  BY <1>1
<1>3. x = [s EXCEPT !.status = f]
  BY DEF Restated
<1> HIDE DEF f
<1>4. /\ x \in State /\ x.status = f
      /\ x.runs = s.runs /\ x.active = s.active /\ x.pending = s.pending
      /\ x.priority = s.priority /\ x.autoPaused = s.autoPaused /\ x.limit = s.limit
  BY <1>1, <1>2, <1>3, WithStatuses
<1>5. Core(x)
  <2>1. RunsSound(x) /\ Live(x) /\ IsFiniteSet(x.runs)
    BY <1>4 DEF Core, RunsSound, Live
  <2>2. Rowed(x)
    BY <1>2, <1>4 DEF Core, Rowed
  <2> QED BY <1>4, <2>1, <2>2 DEF Core
<1>6. Fewer(s, x)
  BY <1>4 DEF Fewer, Orphan
<1>7. Taken(x) = Taken(s)
  BY <1>4 DEF Taken
<1>8. v \notin Terminal \/ s.status[t] \in Terminal => Keeps(s, x)
  BY <1>2, <1>4, <1>6, <1>7 DEF Keeps, Follows, Fewer
<1> QED BY <1>2, <1>4, <1>5, <1>6, <1>7, <1>8

LEMMA StatusKeeps ==
    ASSUME NEW s, Core(s), NEW t \in Tasks, NEW v \in Statuses \ Gone,
           NEW x, x = WithStatus(s, t, v)
    PROVE  /\ Core(x) /\ Fewer(s, x)
           /\ v \notin Terminal => Keeps(s, x)
           /\ Taken(x) = Taken(s)
           /\ x.pending = s.pending /\ x.active = s.active /\ x.runs = s.runs
           /\ x.priority = s.priority /\ x.autoPaused = s.autoPaused /\ x.limit = s.limit
           /\ \A u \in Tasks : x.status[u] = s.status[u] \/ (s.status[u] \notin Gone /\ x.status[u] = v)
<1>1. CASE s.status[t] \in Gone
  <2>1. x = s
    BY <1>1 DEF WithStatus
  <2> QED BY <2>1, KeepsSelf
<1>2. CASE s.status[t] \notin Gone
  <2>1. x = Restated(s, t, v)
    BY <1>2 DEF WithStatus, Core, State, Restated
  <2>2. \A u \in Tasks : u # t => u \in Tasks \ {t}
    OBVIOUS
  <2>3. /\ Core(x) /\ Fewer(s, x)
        /\ v \notin Terminal \/ s.status[t] \in Terminal => Keeps(s, x)
        /\ Taken(x) = Taken(s)
        /\ x.pending = s.pending /\ x.active = s.active /\ x.runs = s.runs
        /\ x.priority = s.priority /\ x.autoPaused = s.autoPaused /\ x.limit = s.limit
        /\ x.status[t] = v
        /\ \A u \in Tasks \ {t} : x.status[u] = s.status[u]
    BY <2>1, NewStatusKeeps
  <2> QED BY <1>2, <2>2, <2>3
<1> QED BY <1>1, <1>2

LEMMA QueueEntries ==
    ASSUME NEW s, Core(s)
    PROVE  \A i \in DOMAIN s.pending : s.pending[i] \in Entry /\ s.pending[i].task \in Tasks
<1>1. s.pending \in Seq(Entry)
  BY DEF Core, State
<1>2. \A i \in DOMAIN s.pending : s.pending[i] \in Entry
  BY <1>1
<1> QED BY <1>2 DEF Entry

LEMMA StatusGood ==
    ASSUME NEW s, Good(s), NEW t \in Tasks, NEW v \in Statuses \ Gone,
           NEW x, x = WithStatus(s, t, v)
    PROVE  Good(x)
<1>1. /\ Core(x) /\ x.pending = s.pending /\ x.active = s.active
      /\ \A u \in Tasks : x.status[u] = s.status[u] \/ (s.status[u] \notin Gone /\ x.status[u] = v)
  BY StatusKeeps DEF Good
<1>2. \A i \in DOMAIN s.pending : s.pending[i].task \in Tasks
  BY QueueEntries DEF Good
<1> QED BY <1>1, <1>2 DEF Good, Once, Waits

\* A sequence without its i-th entry.
LEMMA Without ==
    ASSUME NEW T, NEW p \in Seq(T), NEW i \in 1 .. Len(p)
    PROVE  /\ RemoveAt(p, i) \in Seq(T)
           /\ DOMAIN RemoveAt(p, i) = 1 .. Len(p) - 1
           /\ \A j \in 1 .. Len(p) - 1 :
                /\ j < i => RemoveAt(p, i)[j] = p[j]
                /\ ~(j < i) => RemoveAt(p, i)[j] = p[j + 1]
<1> DEFINE l == SubSeq(p, 1, i - 1)
           r == SubSeq(p, i + 1, Len(p))
<1>1. /\ l \in Seq(T) /\ Len(l) = i - 1
      /\ \A j \in 1 .. i - 1 : l[j] = p[j]
  OBVIOUS
<1>2. /\ r \in Seq(T) /\ Len(r) = Len(p) - i
      /\ \A j \in 1 .. Len(p) - i : r[j] = p[i + j]
  OBVIOUS
<1>3. RemoveAt(p, i) = l \o r
  BY DEF RemoveAt
<1> HIDE DEF l, r
<1>4. /\ l \o r \in Seq(T) /\ Len(l \o r) = Len(l) + Len(r)
      /\ \A j \in 1 .. Len(l) + Len(r) :
            (l \o r)[j] = IF j <= Len(l) THEN l[j] ELSE r[j - Len(l)]
  BY <1>1, <1>2, ConcatProperties
<1>5. Len(p) \in Nat /\ Len(l) + Len(r) = Len(p) - 1
  BY <1>1, <1>2
<1>6. ASSUME NEW j \in 1 .. Len(p) - 1, j < i
      PROVE  (l \o r)[j] = p[j]
  <2>1. j \in 1 .. i - 1 /\ j <= Len(l) /\ j \in 1 .. Len(l) + Len(r)
    BY <1>1, <1>5, <1>6
  <2> QED BY <1>1, <1>4, <2>1
<1>7. ASSUME NEW j \in 1 .. Len(p) - 1, ~(j < i)
      PROVE  (l \o r)[j] = p[j + 1]
  <2>1. /\ ~(j <= Len(l)) /\ j \in 1 .. Len(l) + Len(r)
        /\ j - Len(l) \in 1 .. Len(p) - i /\ i + (j - Len(l)) = j + 1
    BY <1>1, <1>5, <1>7
  <2>2. r[j - Len(l)] = p[i + (j - Len(l))]
    BY <1>2, <2>1
  <2> QED BY <1>4, <2>1, <2>2
<1>8. DOMAIN (l \o r) = 1 .. Len(p) - 1
  BY <1>4, <1>5
<1> QED BY <1>3, <1>4, <1>6, <1>7, <1>8

\* The task leaves the queue, the others stay in order.
LEMMA UnqueuedKeeps ==
    ASSUME NEW s, Core(s), Once(s), NEW t \in Tasks, NEW x, x = Unqueued(s, t)
    PROVE  /\ Core(x) /\ Once(x)
           /\ Waits(s) => Good(x)
           /\ Keeps(s, x) /\ Fewer(s, x)
           /\ \A u \in Tasks : Queued(x, u) <=> (Queued(s, u) /\ u # t)
           /\ x.status = s.status /\ x.active = s.active /\ x.runs = s.runs
           /\ x.priority = s.priority /\ x.autoPaused = s.autoPaused /\ x.limit = s.limit
<1> DEFINE p == s.pending
<1>1. s \in State /\ p \in Seq(Entry)
  BY DEF Core, State
<1>2. CASE ~Queued(s, t)
  <2>1. ~\E i \in 1 .. Len(p) : p[i].task = t
    BY <1>1, <1>2 DEF Queued
  <2>2. x = [s EXCEPT !.pending = s.pending]
    BY <2>1 DEF Unqueued, RemoveFirstMatch
  <2>3. x = s
    BY <1>1, <2>2 DEF State
  <2> QED BY <1>2, <2>3, KeepsSelf DEF Good
<1>3. CASE Queued(s, t)
  <2> DEFINE I == {i \in 1 .. Len(p) : p[i].task = t}
             k == Min(I)
             d == RemoveAt(p, k)
  <2>1. PICK i \in 1 .. Len(p) : p[i].task = t
    BY <1>1, <1>3 DEF Queued
  <2>2. I # {} /\ I \in SUBSET Nat
    BY <2>1
  <2>3. k \in I
    <3> HIDE DEF I
    <3>1. \E y \in I : \A j \in I : y <= j
      BY <2>2, LeastOf
    <3> QED BY <3>1 DEF Min
  <2>4. x = [s EXCEPT !.pending = d]
    <3>1. SelectInSeq(p, LAMBDA q : q.task = t) = k
      BY <2>2 DEF SelectInSeq
    <3>2. RemoveFirstMatch(p, LAMBDA q : q.task = t) = d
      BY <2>1, <3>1 DEF RemoveFirstMatch
    <3> HIDE DEF d
    <3> QED BY <3>2 DEF Unqueued
  <2> DEFINE up(j) == IF j < k THEN j ELSE j + 1
  <2>21. k \in 1 .. Len(p) /\ p[k].task = t
    BY <2>3
  <2> HIDE DEF I, k
  <2>5. /\ k \in 1 .. Len(p) /\ p[k].task = t
        /\ d \in Seq(Entry) /\ DOMAIN d = 1 .. Len(p) - 1
    BY <1>1, <2>21, Without
  <2>19. \A j \in 1 .. Len(p) - 1 : /\ j < k => d[j] = p[j]
                                    /\ ~(j < k) => d[j] = p[j + 1]
    BY <1>1, <2>21, Without
  <2> HIDE DEF d
  <2>18. DOMAIN p = 1 .. Len(p) /\ Len(p) \in Nat
    BY <1>1
  <2>20. k \in 1 .. Len(p) /\ DOMAIN d = 1 .. Len(p) - 1
    BY <2>5, <2>18
  <2> HIDE DEF p
  <2>6. ASSUME NEW j \in DOMAIN d
        PROVE  up(j) \in DOMAIN p /\ up(j) # k /\ d[j] = p[up(j)]
    <3>1. j \in 1 .. Len(p) - 1
      BY <2>20
    <3>2. up(j) \in 1 .. Len(p) /\ up(j) # k
      BY <2>18, <2>20, <3>1
    <3>3. CASE j < k
      BY <2>18, <2>19, <3>1, <3>2, <3>3
    <3>4. CASE ~(j < k)
      BY <2>18, <2>19, <3>1, <3>2, <3>4
    <3> QED BY <3>3, <3>4
  <2>7. \A j, h \in DOMAIN d : up(j) = up(h) => j = h
    BY <2>18, <2>5
  <2>8. \A y \in DOMAIN p : y # k => \E j \in DOMAIN d : d[j] = p[y]
    <3> SUFFICES ASSUME NEW y \in DOMAIN p, y # k
                 PROVE  \E j \in DOMAIN d : d[j] = p[y]
      OBVIOUS
    <3>1. CASE y < k
      <4>1. y \in 1 .. Len(p) - 1
        BY <2>18, <2>20, <3>1
      <4>2. d[y] = p[y]
        BY <2>19, <3>1, <4>1
      <4> QED BY <2>20, <4>1, <4>2
    <3>2. CASE y > k
      <4>1. y - 1 \in DOMAIN d /\ ~(y - 1 < k) /\ (y - 1) + 1 = y
        BY <2>18, <2>5, <3>2
      <4>2. d[y - 1] = p[(y - 1) + 1]
        BY <2>19, <2>20, <4>1
      <4> QED BY <4>1, <4>2
    <3> QED BY <2>18, <2>5, <3>1, <3>2
  <2>9. /\ x \in State /\ x.pending = d
        /\ x.runs = s.runs /\ x.active = s.active /\ x.status = s.status
        /\ x.priority = s.priority /\ x.autoPaused = s.autoPaused /\ x.limit = s.limit
    BY <1>1, <2>4, <2>5, WithPending DEF p
  <2>10. \A i1, i2 \in DOMAIN p : p[i1].task = p[i2].task => i1 = i2
    BY DEF Once, p
  <2>11. Once(x)
    BY <2>6, <2>7, <2>9, <2>10 DEF Once
  <2>12. \A u \in Tasks : Queued(x, u) <=> (Queued(s, u) /\ u # t)
    <3>1. \A u \in Tasks : Queued(x, u) => Queued(s, u) /\ u # t
      BY <2>5, <2>6, <2>9, <2>10 DEF Queued, p
    <3>2. \A u \in Tasks : Queued(s, u) /\ u # t => Queued(x, u)
      BY <2>5, <2>8, <2>9 DEF Queued, p
    <3> QED BY <3>1, <3>2
  <2>13. Core(x)
    BY <2>9 DEF Core, RunsSound, Live, Rowed
  <2>14. Waits(s) => Waits(x)
    BY <2>6, <2>9 DEF Waits, p
  <2>15. Taken(x) = Taken(s)
    BY <2>9 DEF Taken
  <2>16. Fewer(s, x)
    BY <2>9 DEF Fewer, Orphan
  <2>17. Keeps(s, x)
    BY <2>9, <2>15, <2>16, KeepsFewer
  <2> QED BY <2>9, <2>11, <2>12, <2>13, <2>14, <2>16, <2>17 DEF Good
<1> QED BY <1>2, <1>3

-----------------------------------------------------------------------------
(***************************************************************************)
(* The queue is drained.                                                   *)
(***************************************************************************)

\* No one waits who may start.
Tight(s) == \A u \in Tasks : Queued(s, u) => ~MayStart(s, u)

\* Fewer may start when more tasks run.
LEMMA MayStartShrinks ==
    ASSUME NEW s \in State, NEW x \in State, x.limit = s.limit,
           \A u \in Tasks : s.active[u] # 0 => x.active[u] # 0
    PROVE  /\ HasCapacity(x) => HasCapacity(s)
           /\ \A t \in Tasks : MayStart(x, t) => MayStart(s, t)
<1>1. IsFiniteSet(Tasks) /\ Limits \subseteq Nat /\ \A t \in Tasks : QueueMax[QueueOf[t]] \in Nat
  BY LifecycleAssumption
<1>2. \A A, B : A \subseteq B /\ B \subseteq Tasks =>
          Cardinality(A) \in Nat /\ Cardinality(B) \in Nat /\ Cardinality(A) <= Cardinality(B)
  BY <1>1, FS_Subset, FS_CardinalityType
<1>3. Active(s) \subseteq Active(x) /\ Active(x) \subseteq Tasks
  BY DEF Active
<1>4. HasCapacity(x) => HasCapacity(s)
  <2>1. s.limit \in Nat
    BY <1>1 DEF State
  <2>2. /\ Cardinality(Active(s)) \in Nat /\ Cardinality(Active(x)) \in Nat
        /\ Cardinality(Active(s)) <= Cardinality(Active(x))
    BY <1>2, <1>3
  <2> QED BY <2>1, <2>2 DEF HasCapacity
<1>5. ASSUME NEW t \in Tasks, HasQueueCapacity(x, t)
      PROVE  HasQueueCapacity(s, t)
  <2> DEFINE A == {u \in Active(s) : QueueOf[u] = QueueOf[t]}
             B == {u \in Active(x) : QueueOf[u] = QueueOf[t]}
  <2>1. A \subseteq B /\ B \subseteq Tasks
    BY <1>3
  <2>2. QueueMax[QueueOf[t]] = 0 \/ Cardinality(B) < QueueMax[QueueOf[t]]
    BY <1>5 DEF HasQueueCapacity
  <2> HIDE DEF A, B
  <2>3. QueueMax[QueueOf[t]] = 0 \/ Cardinality(A) < QueueMax[QueueOf[t]]
    BY <1>1, <1>2, <2>1, <2>2
  <2> QED BY <2>3 DEF HasQueueCapacity, A
<1> QED BY <1>4, <1>5 DEF MayStart

\* The tasks that run, and those of the queue of t, are within the limits.
CountOK(s) == s.limit # 0 => Cardinality(Active(s)) <= s.limit

Beside(s, t) == {u \in Active(s) : QueueOf[u] = QueueOf[t]}

RoomOK(s, t) == QueueMax[QueueOf[t]] # 0 => Cardinality(Beside(s, t)) <= QueueMax[QueueOf[t]]

\* A task that has another entry in x than in s was started within the limits.
StartsOK(s, x) ==
    \A t \in Tasks : x.active[t] \notin {0, s.active[t]} => CountOK(x) /\ RoomOK(x, t)

\* From s to x no limit is passed that was not passed before, and none at all
\* that concerns a task which was started.
Within(s, x) ==
    /\ x.limit = s.limit
    /\ CountOK(s) => CountOK(x)
    /\ \A t \in Tasks : RoomOK(s, t) => RoomOK(x, t)
    /\ StartsOK(s, x)

\* From s to x no task that has an entry loses it.
StillRuns(s, x) == \A u \in Tasks : s.active[u] # 0 => x.active[u] # 0

\* The boost ends, or stays with its task, which goes on running.
KeepsBoost(s, x) ==
    \/ x.priority = NoTask
    \/ /\ x.priority = s.priority
       /\ \A u \in Tasks : s.priority = u /\ s.active[u] # 0 => x.active[u] # 0

\* From s to x no task is started.
Stops(s, x) ==
    /\ x.limit = s.limit
    /\ \A u \in Tasks : x.active[u] = 0 \/ x.active[u] = s.active[u]

LEMMA WithinSelf == \A s : Within(s, s)
BY DEF Within, StartsOK

LEMMA WithinThrough == \A s, y, x : Within(s, y) /\ Within(y, x) => Within(s, x)
<1> SUFFICES ASSUME NEW s, NEW y, NEW x, Within(s, y), Within(y, x)
             PROVE  Within(s, x)
  OBVIOUS
<1>1. ASSUME NEW t \in Tasks, x.active[t] \notin {0, s.active[t]}
      PROVE  CountOK(x) /\ RoomOK(x, t)
  <2>1. CASE x.active[t] = y.active[t]
    BY <1>1, <2>1 DEF Within, StartsOK
  <2>2. CASE x.active[t] # y.active[t]
    BY <1>1, <2>2 DEF Within, StartsOK
  <2> QED BY <2>1, <2>2
<1> QED BY <1>1 DEF Within, StartsOK

\* How many tasks run, and how many of a queue.
LEMMA Counts ==
    ASSUME NEW s \in State, NEW t \in Tasks
    PROVE  /\ IsFiniteSet(Active(s)) /\ IsFiniteSet(Beside(s, t))
           /\ Cardinality(Active(s)) \in Nat /\ Cardinality(Beside(s, t)) \in Nat
           /\ s.limit \in Nat /\ QueueMax[QueueOf[t]] \in Nat
<1>1. IsFiniteSet(Tasks) /\ Limits \subseteq Nat /\ QueueMax[QueueOf[t]] \in Nat
  BY LifecycleAssumption
<1>2. Active(s) \subseteq Tasks /\ Beside(s, t) \subseteq Active(s)
  BY DEF Active, Beside
<1>3. IsFiniteSet(Active(s)) /\ IsFiniteSet(Beside(s, t))
  BY <1>1, <1>2, FS_Subset
<1> QED BY <1>1, <1>3, FS_CardinalityType DEF State

\* Where no task is started no limit is passed.
LEMMA StopsWithin ==
    ASSUME NEW s \in State, NEW x \in State, Stops(s, x)
    PROVE  Within(s, x)
<1> USE DEF Stops
<1>1. Active(x) \subseteq Active(s)
  BY DEF Active
<1>2. CountOK(s) => CountOK(x)
  <2>1. PICK t \in Tasks : TRUE
    BY LifecycleAssumption
  <2>2. Cardinality(Active(x)) <= Cardinality(Active(s))
    BY <1>1, <2>1, Counts, FS_Subset
  <2>3. Cardinality(Active(x)) \in Nat /\ Cardinality(Active(s)) \in Nat /\ s.limit \in Nat
    BY <2>1, Counts
  <2> QED BY <2>2, <2>3 DEF CountOK
<1>3. ASSUME NEW t \in Tasks, RoomOK(s, t)
      PROVE  RoomOK(x, t)
  <2>1. Beside(x, t) \subseteq Beside(s, t)
    BY <1>1 DEF Beside
  <2>2. Cardinality(Beside(x, t)) <= Cardinality(Beside(s, t))
    BY <2>1, Counts, FS_Subset
  <2>3. Cardinality(Beside(x, t)) \in Nat /\ Cardinality(Beside(s, t)) \in Nat /\ QueueMax[QueueOf[t]] \in Nat
    BY Counts
  <2> QED BY <1>3, <2>2, <2>3 DEF RoomOK
<1> QED BY <1>2, <1>3 DEF Within, StartsOK

\* A task with a row that is spawned has an entry.
LEMMA SpawnRuns ==
    ASSUME NEW s, Core(s), NEW t \in Tasks, NEW resume \in BOOLEAN, s.status[t] \notin Gone,
           NEW x, x = Spawn(s, t, resume)
    PROVE  x.active[t] # 0
<1> DEFINE g == NewGeneration(s, t)
           a == [s.active EXCEPT ![t] = g]
           R == s.runs \cup {NewRun(s, t, resume)}
<1>1. s \in State
  BY DEF Core
<1>2. g \in Nat \ {0}
  BY GenerationFacts
<1>3. R \in SUBSET Run /\ x = Changed(s, R, a)
  <2>1. NewRun(s, t, resume) \in Run /\ x = Changed(s, R, a)
    BY SpawnIs, Zenon
  <2> QED BY <1>1, <2>1 DEF State
<1> HIDE DEF g, R
<1>4. a \in [Tasks -> Nat] /\ a[t] = g
  BY <1>1, <1>2 DEF State
<1> HIDE DEF a
<1>5. x.active = a
  BY <1>1, <1>3, <1>4, WithRuns
<1> QED BY <1>2, <1>4, <1>5

\* A task that may start is started within the limits.
LEMMA SpawnWithin ==
    ASSUME NEW s, Core(s), NEW t \in Tasks, NEW resume \in BOOLEAN, s.active[t] = 0, MayStart(s, t),
           NEW x, x = Spawn(s, t, resume)
    PROVE  Within(s, x)
<1>1. CASE s.status[t] \in Gone
  <2>1. x = s
    BY <1>1 DEF Spawn
  <2> QED BY <2>1, WithinSelf
<1>2. CASE s.status[t] \notin Gone
  <2>1. s \in State /\ x \in State /\ x.limit = s.limit /\ \A u \in Tasks \ {t} : x.active[u] = s.active[u]
    <3>1. s \in State
      BY DEF Core
    <3>2. Core(x) /\ x.limit = s.limit /\ \A u \in Tasks \ {t} : x.active[u] = s.active[u]
      BY SpawnKeeps
    <3> QED BY <3>1, <3>2 DEF Core
  <2>2. x.active[t] # 0
    BY <1>2, SpawnRuns
  <2>3. Active(x) = Active(s) \cup {t} /\ t \notin Active(s)
    BY <2>1, <2>2 DEF Active
  <2>4. CountOK(x)
    <3>1. Cardinality(Active(x)) = Cardinality(Active(s)) + 1
      BY <2>1, <2>3, Counts, FS_AddElement, Zenon
    <3>2. s.limit = 0 \/ Cardinality(Active(s)) < s.limit
      BY DEF MayStart, HasCapacity
    <3>3. Cardinality(Active(s)) \in Nat /\ s.limit \in Nat
      BY <2>1, Counts
    <3> QED BY <2>1, <3>1, <3>2, <3>3 DEF CountOK
  <2>5. ASSUME NEW u \in Tasks, QueueOf[u] = QueueOf[t]
        PROVE  RoomOK(x, u)
    <3>1. Beside(x, u) = Beside(s, t) \cup {t} /\ t \notin Beside(s, t)
      BY <2>3, <2>5 DEF Beside
    <3>2. Cardinality(Beside(x, u)) = Cardinality(Beside(s, t)) + 1
      BY <2>1, <3>1, Counts, FS_AddElement, Zenon
    <3>3. QueueMax[QueueOf[t]] = 0 \/ Cardinality(Beside(s, t)) < QueueMax[QueueOf[t]]
      BY DEF MayStart, HasQueueCapacity, Beside
    <3>4. Cardinality(Beside(s, t)) \in Nat /\ QueueMax[QueueOf[t]] \in Nat
      BY <2>1, Counts
    <3> QED BY <2>5, <3>2, <3>3, <3>4 DEF RoomOK
  <2>6. ASSUME NEW u \in Tasks, QueueOf[u] # QueueOf[t], RoomOK(s, u)
        PROVE  RoomOK(x, u)
    <3>1. Beside(x, u) = Beside(s, u)
      BY <2>3, <2>6 DEF Beside
    <3> QED BY <2>6, <3>1 DEF RoomOK
  <2>7. \A u \in Tasks : x.active[u] \notin {0, s.active[u]} => u = t
    BY <2>1
  <2> QED BY <2>1, <2>4, <2>5, <2>6, <2>7 DEF Within, StartsOK
<1> QED BY <1>1, <1>2

\* What is gathered while the queue is walked through.
Accs == [s : {x \in State : Core(x)}, kept : Seq(Entry), full : BOOLEAN]

\* One entry of the queue.
LEMMA ConsiderIs ==
    ASSUME NEW acc \in Accs, NEW q \in Entry
    PROVE  /\ acc.full \/ ~HasCapacity(acc.s) =>
                 Consider(acc, q) = [s |-> acc.s, kept |-> Append(acc.kept, q), full |-> TRUE]
           /\ ~acc.full /\ HasCapacity(acc.s) /\ acc.s.active[q.task] # 0 => Consider(acc, q) = acc
           /\ ~acc.full /\ HasCapacity(acc.s) /\ acc.s.active[q.task] = 0 /\ ~HasQueueCapacity(acc.s, q.task) =>
                 Consider(acc, q) = [s |-> acc.s, kept |-> Append(acc.kept, q), full |-> acc.full]
           /\ ~acc.full /\ HasCapacity(acc.s) /\ acc.s.active[q.task] = 0 /\ HasQueueCapacity(acc.s, q.task) =>
                 Consider(acc, q) = [s |-> Spawn(acc.s, q.task, q.resume), kept |-> acc.kept, full |-> acc.full]
BY DEF Consider, Accs

LEMMA AccsFacts ==
    ASSUME NEW acc \in Accs
    PROVE  acc.s \in State /\ Core(acc.s) /\ acc.kept \in Seq(Entry) /\ acc.full \in BOOLEAN
BY DEF Accs

LEMMA ConsiderStays ==
    ASSUME NEW acc \in Accs, NEW q \in Entry
    PROVE  Consider(acc, q) \in Accs
<1>1. acc.s \in State /\ Core(acc.s) /\ acc.kept \in Seq(Entry) /\ acc.full \in BOOLEAN
  BY AccsFacts
<1>2. Append(acc.kept, q) \in Seq(Entry)
  BY <1>1
<1>3. q.task \in Tasks /\ q.resume \in BOOLEAN
  BY DEF Entry
<1>4. acc.s.active[q.task] = 0 => Core(Spawn(acc.s, q.task, q.resume))
  BY <1>1, <1>3, SpawnKeeps
<1>5. acc.s.active[q.task] = 0 => Spawn(acc.s, q.task, q.resume) \in State
  BY <1>4 DEF Core
<1>6. \A y, k, f : y \in State /\ Core(y) /\ k \in Seq(Entry) /\ f \in BOOLEAN =>
          [s |-> y, kept |-> k, full |-> f] \in Accs
  BY DEF Accs
<1>7. CASE acc.full \/ ~HasCapacity(acc.s)
  <2>1. Consider(acc, q) = [s |-> acc.s, kept |-> Append(acc.kept, q), full |-> TRUE]
    BY <1>7, ConsiderIs
  <2> QED BY <1>1, <1>2, <1>6, <2>1
<1>8. CASE ~acc.full /\ HasCapacity(acc.s) /\ acc.s.active[q.task] # 0
  BY <1>8, ConsiderIs
<1>9. CASE ~acc.full /\ HasCapacity(acc.s) /\ acc.s.active[q.task] = 0 /\ ~HasQueueCapacity(acc.s, q.task)
  <2>1. Consider(acc, q) = [s |-> acc.s, kept |-> Append(acc.kept, q), full |-> acc.full]
    BY <1>9, ConsiderIs
  <2> QED BY <1>1, <1>2, <1>6, <2>1
<1>10. CASE ~acc.full /\ HasCapacity(acc.s) /\ acc.s.active[q.task] = 0 /\ HasQueueCapacity(acc.s, q.task)
  <2>1. Consider(acc, q) = [s |-> Spawn(acc.s, q.task, q.resume), kept |-> acc.kept, full |-> acc.full]
    BY <1>10, ConsiderIs
  <2> QED BY <1>1, <1>4, <1>5, <1>6, <1>10, <2>1
<1> QED BY <1>7, <1>8, <1>9, <1>10

\* What holds when the first i entries of s have been looked at.
DrainAt(s, i, acc) ==
    /\ acc \in Accs
    /\ Keeps(s, acc.s) /\ Fewer(s, acc.s) /\ Within(s, acc.s) /\ StillRuns(s, acc.s)
    /\ acc.s.status = s.status /\ acc.s.pending = s.pending /\ acc.s.priority = s.priority
    /\ acc.s.autoPaused = s.autoPaused /\ acc.s.limit = s.limit
    /\ acc.full => ~HasCapacity(acc.s)
    /\ \A k, h \in DOMAIN acc.kept : acc.kept[k].task = acc.kept[h].task => k = h
    /\ \A k \in DOMAIN acc.kept :
         /\ acc.s.active[acc.kept[k].task] = 0 /\ ~MayStart(acc.s, acc.kept[k].task)
         /\ \E j \in DOMAIN s.pending : j <= i /\ acc.kept[k] = s.pending[j]
    /\ \A j \in DOMAIN s.pending : j > i => acc.s.active[s.pending[j].task] = 0

LEMMA DrainStep ==
    ASSUME NEW s, Good(s), NEW i \in DOMAIN s.pending, NEW acc, DrainAt(s, i - 1, acc)
    PROVE  DrainAt(s, i, Consider(acc, s.pending[i]))
<1> DEFINE q == s.pending[i]
           t == q.task
<1>1. /\ acc \in Accs /\ acc.s \in State /\ Core(acc.s) /\ acc.kept \in Seq(Entry) /\ acc.full \in BOOLEAN
      /\ Keeps(s, acc.s) /\ Fewer(s, acc.s) /\ Within(s, acc.s) /\ StillRuns(s, acc.s)
      /\ acc.s.status = s.status /\ acc.s.pending = s.pending /\ acc.s.priority = s.priority
      /\ acc.s.autoPaused = s.autoPaused /\ acc.s.limit = s.limit
      /\ acc.full => ~HasCapacity(acc.s)
  BY AccsFacts DEF DrainAt
<1>2. \A k, h \in DOMAIN acc.kept : acc.kept[k].task = acc.kept[h].task => k = h
  BY DEF DrainAt
<1>3. \A k \in DOMAIN acc.kept :
        /\ acc.s.active[acc.kept[k].task] = 0 /\ ~MayStart(acc.s, acc.kept[k].task)
        /\ \E j \in DOMAIN s.pending : j <= i - 1 /\ acc.kept[k] = s.pending[j]
  BY DEF DrainAt
<1>4. \A j \in DOMAIN s.pending : j > i - 1 => acc.s.active[s.pending[j].task] = 0
  BY DEF DrainAt
<1>5. s.pending \in Seq(Entry) /\ i \in Nat /\ DOMAIN s.pending \subseteq Nat
  BY DEF Good, Core, State
<1>6. q \in Entry /\ t \in Tasks /\ q.resume \in BOOLEAN
  BY QueueEntries DEF Good, Entry
<1>7. \A j \in DOMAIN s.pending : s.pending[j].task = t => j = i
  BY DEF Good, Once
<1>8. acc.s.active[t] = 0
  BY <1>4, <1>5
<1>9. \A k \in DOMAIN acc.kept : acc.kept[k].task # t /\ acc.kept[k] \in Entry /\ acc.kept[k].task \in Tasks
  <2>1. \A k \in DOMAIN acc.kept : acc.kept[k] \in Entry
    BY <1>1
  <2>2. \A k \in DOMAIN acc.kept : acc.kept[k].task # t
    BY <1>3, <1>5, <1>7
  <2> QED BY <2>1, <2>2 DEF Entry
<1>10. \A j \in DOMAIN s.pending : j > i => s.pending[j].task # t /\ s.pending[j].task \in Tasks
  BY <1>5, <1>7, QueueEntries DEF Good
<1>11. \A j \in DOMAIN s.pending : (j > i => j > i - 1) /\ (j <= i - 1 => j <= i)
  BY <1>5
<1>12. i <= i
  BY <1>5
<1>13. Consider(acc, q) \in Accs
  BY <1>1, <1>6, ConsiderStays
<1> HIDE DEF q, t
\* The entry is kept.
<1>14. ASSUME NEW full \in BOOLEAN, ~MayStart(acc.s, t), full => ~HasCapacity(acc.s),
              Consider(acc, q) = [s |-> acc.s, kept |-> Append(acc.kept, q), full |-> full]
       PROVE  DrainAt(s, i, Consider(acc, q))
  <2> DEFINE c == Consider(acc, q)
             n == Len(acc.kept)
  <2>1. c.s = acc.s /\ c.kept = Append(acc.kept, q) /\ c.full = full
    BY <1>14
  <2>2. /\ n \in Nat /\ DOMAIN acc.kept = 1 .. n
        /\ DOMAIN c.kept = 1 .. n + 1
        /\ c.kept[n + 1] = q
        /\ \A k \in 1 .. n : c.kept[k] = acc.kept[k]
    BY <1>1, <1>6, <2>1
  <2>3. \A k \in 1 .. n + 1 : k = n + 1 \/ k \in 1 .. n
    BY <2>2
  <2> HIDE DEF c, n
  <2>4. \A k, h \in DOMAIN c.kept : c.kept[k].task = c.kept[h].task => k = h
    BY <1>2, <1>9, <2>2, <2>3 DEF t
  <2>5. ASSUME NEW k \in DOMAIN c.kept
        PROVE  /\ c.s.active[c.kept[k].task] = 0 /\ ~MayStart(c.s, c.kept[k].task)
               /\ \E j \in DOMAIN s.pending : j <= i /\ c.kept[k] = s.pending[j]
    <3>1. CASE k = n + 1
      BY <1>8, <1>12, <1>14, <2>1, <2>2, <3>1 DEF q, t
    <3>2. CASE k \in 1 .. n
      BY <1>3, <1>11, <2>1, <2>2, <3>2
    <3> QED BY <2>2, <2>3, <3>1, <3>2
  <2>6. \A j \in DOMAIN s.pending : j > i => c.s.active[s.pending[j].task] = 0
    BY <1>4, <1>11, <2>1
  <2> QED BY <1>1, <1>13, <1>14, <2>1, <2>4, <2>5, <2>6 DEF DrainAt, c
<1>15. CASE acc.full \/ ~HasCapacity(acc.s)
  <2>1. ~HasCapacity(acc.s)
    BY <1>1, <1>15
  <2>2. ~MayStart(acc.s, t)
    BY <2>1 DEF MayStart
  <2>3. Consider(acc, q) = [s |-> acc.s, kept |-> Append(acc.kept, q), full |-> TRUE]
    BY <1>1, <1>6, <1>15, ConsiderIs
  <2> QED BY <1>14, <2>1, <2>2, <2>3 DEF q
<1>16. CASE ~acc.full /\ HasCapacity(acc.s) /\ ~HasQueueCapacity(acc.s, t)
  <2>1. ~MayStart(acc.s, t)
    BY <1>16 DEF MayStart
  <2>2. Consider(acc, q) = [s |-> acc.s, kept |-> Append(acc.kept, q), full |-> acc.full]
    BY <1>1, <1>6, <1>8, <1>16, ConsiderIs DEF t
  <2> QED BY <1>1, <1>14, <2>1, <2>2 DEF q
<1>17. CASE ~acc.full /\ HasCapacity(acc.s) /\ HasQueueCapacity(acc.s, t)
  <2> DEFINE c == Consider(acc, q)
             y == Spawn(acc.s, t, q.resume)
  <2>1. c = [s |-> y, kept |-> acc.kept, full |-> acc.full]
    BY <1>1, <1>6, <1>8, <1>17, ConsiderIs DEF t
  <2>2. c.s = y /\ c.kept = acc.kept /\ c.full = acc.full
    BY <2>1
  <2>3. /\ Core(y) /\ Keeps(acc.s, y) /\ Fewer(acc.s, y)
        /\ y.status = acc.s.status /\ y.pending = acc.s.pending /\ y.priority = acc.s.priority
        /\ y.autoPaused = acc.s.autoPaused /\ y.limit = acc.s.limit
        /\ \A u \in Tasks \ {t} : y.active[u] = acc.s.active[u]
    BY <1>1, <1>6, <1>8, SpawnKeeps
  <2> HIDE DEF c, y
  <2>4. \A u \in Tasks : acc.s.active[u] # 0 => y.active[u] # 0
    BY <1>8, <2>3
  <2>5. \A u \in Tasks : MayStart(y, u) => MayStart(acc.s, u)
    <3>1. y \in State
      BY <2>3 DEF Core
    <3> QED BY <1>1, <2>3, <2>4, <3>1, MayStartShrinks
  <2>6. Keeps(s, y) /\ Fewer(s, y) /\ Within(s, y) /\ StillRuns(s, y)
    <3>1. Keeps(s, y) /\ Fewer(s, y)
      BY <1>1, <2>3, KeepsThrough, FewerThrough
    <3>2. MayStart(acc.s, t)
      BY <1>17 DEF MayStart
    <3>3. Within(acc.s, y)
      BY <1>1, <1>6, <1>8, <3>2, SpawnWithin DEF y
    <3>4. StillRuns(s, y)
      BY <1>1, <2>4 DEF StillRuns
    <3> QED BY <1>1, <3>1, <3>3, <3>4, WithinThrough
  <2>7. ASSUME NEW k \in DOMAIN c.kept
        PROVE  /\ c.s.active[c.kept[k].task] = 0 /\ ~MayStart(c.s, c.kept[k].task)
               /\ \E j \in DOMAIN s.pending : j <= i /\ c.kept[k] = s.pending[j]
    <3>1. acc.kept[k].task \in Tasks \ {t}
      BY <1>9, <2>2
    <3>2. y.active[acc.kept[k].task] = 0 /\ ~MayStart(y, acc.kept[k].task)
      BY <1>3, <2>2, <2>3, <2>5, <3>1
    <3>3. \E j \in DOMAIN s.pending : j <= i /\ acc.kept[k] = s.pending[j]
      BY <1>3, <1>11, <2>2
    <3> QED BY <2>2, <3>2, <3>3
  <2>8. \A j \in DOMAIN s.pending : j > i => c.s.active[s.pending[j].task] = 0
    BY <1>4, <1>10, <1>11, <2>2, <2>3
  <2>9. \A k, h \in DOMAIN c.kept : c.kept[k].task = c.kept[h].task => k = h
    BY <1>2, <2>2
  <2> QED BY <1>1, <1>13, <1>17, <2>2, <2>3, <2>6, <2>7, <2>8, <2>9 DEF DrainAt, c, q
<1>18. \/ acc.full \/ ~HasCapacity(acc.s)
       \/ ~acc.full /\ HasCapacity(acc.s) /\ ~HasQueueCapacity(acc.s, t)
       \/ ~acc.full /\ HasCapacity(acc.s) /\ HasQueueCapacity(acc.s, t)
  BY Zenon
<1> QED BY <1>15, <1>16, <1>17, <1>18, Zenon

\* The walk through the queue, seen as a recursive function.
DrainFold(s) == CHOOSE g :
    g = [r \in SUBSET DOMAIN s.pending |->
           IF r = {} THEN [s |-> s, kept |-> <<>>, full |-> FALSE]
           ELSE Consider(g[r \ {Max(r)}], s.pending[Max(r)])]

LEMMA DrainIsFold ==
    \A s : LET end == DrainFold(s)[DOMAIN s.pending]
           IN  DrainQueue(s) = [end.s EXCEPT !.pending = end.kept]
BY DEF DrainQueue, FoldLeft, MapThenFoldSet, DrainFold

LEMMA DrainFoldExists ==
    ASSUME NEW s, Core(s)
    PROVE  DrainFold(s) = [r \in SUBSET DOMAIN s.pending |->
               IF r = {} THEN [s |-> s, kept |-> <<>>, full |-> FALSE]
               ELSE Consider(DrainFold(s)[r \ {Max(r)}], s.pending[Max(r)])]
<1> DEFINE n == Len(s.pending)
           base == [s |-> s, kept |-> <<>>, full |-> FALSE]
           op == [x \in (1 .. n) \X Accs |-> Consider(x[2], s.pending[x[1]])]
           F(g) == g = [r \in SUBSET (1 .. n) |->
                          IF r = {} THEN base ELSE Consider(g[r \ {Max(r)}], s.pending[Max(r)])]
<1>1. n \in Nat /\ DOMAIN s.pending = 1 .. n
  BY DEF Core, State
<1>2. base \in Accs
  BY DEF Accs, Core
<1>3. \A i \in 1 .. n : s.pending[i] \in Entry
  BY <1>1, QueueEntries
<1>4. \A i \in 1 .. n : \A a \in Accs : op[<<i, a>>] = Consider(a, s.pending[i])
  OBVIOUS
<1>5. StaysIn(Accs, n, op)
  BY <1>3, <1>4, ConsiderStays DEF StaysIn
<1> HIDE DEF op, base
<1>6. PICK g : /\ g = [r \in SUBSET (1 .. n) |-> FoldStep(op, base, g, r)]
               /\ \A r \in SUBSET (1 .. n) : g[r] \in Accs
  <2> HIDE DEF n
  <2>1. n \in Nat
    BY <1>1
  <2>2. FoldIn(Accs, op, base, n)
    BY <2>1, <1>2, <1>5, FoldExists
  <2> QED BY <2>2 DEF FoldIn, IsFold
<1>7. ASSUME NEW r \in SUBSET (1 .. n)
      PROVE  FoldStep(op, base, g, r) =
               IF r = {} THEN base ELSE Consider(g[r \ {Max(r)}], s.pending[Max(r)])
  <2>1. CASE r = {}
    BY <2>1 DEF FoldStep
  <2>2. CASE r # {}
    <3>1. Max(r) \in 1 .. n
      BY <1>1, <2>2, LastOf
    <3>2. g[r \ {Max(r)}] \in Accs
      BY <1>6
    <3> QED BY <1>4, <2>2, <3>1, <3>2 DEF FoldStep
  <2> QED BY <2>1, <2>2
<1>8. F(g)
  BY <1>6, <1>7
<1> HIDE DEF F
<1>9. F(CHOOSE h : F(h))
  BY <1>8
<1>10. DrainFold(s) = CHOOSE h : F(h)
  BY <1>1 DEF DrainFold, F, base
<1> QED BY <1>1, <1>9, <1>10 DEF F, base

LEMMA DrainWalk ==
    ASSUME NEW s, Good(s)
    PROVE  DrainAt(s, Len(s.pending), DrainFold(s)[DOMAIN s.pending])
<1> DEFINE n == Len(s.pending)
           g == DrainFold(s)
           base == [s |-> s, kept |-> <<>>, full |-> FALSE]
           J == {i \in 0 .. n : DrainAt(s, i, g[1 .. i])}
<1>1. n \in Nat /\ DOMAIN s.pending = 1 .. n
  BY DEF Good, Core, State
<1>2. g = [r \in SUBSET (1 .. n) |->
             IF r = {} THEN base ELSE Consider(g[r \ {Max(r)}], s.pending[Max(r)])]
  BY <1>1, DrainFoldExists DEF Good
<1> HIDE DEF g
<1>3. 0 \in J
  <2>1. g[1 .. 0] = base
    <3>1. 1 .. 0 = {} /\ 1 .. 0 \in SUBSET (1 .. n)
      OBVIOUS
    <3> QED BY <1>2, <3>1
  <2>2. base \in Accs
    BY DEF Good, Core, Accs
  <2>3. base.s = s /\ base.kept = <<>> /\ base.full = FALSE
    OBVIOUS
  <2>4. \A j \in DOMAIN s.pending : s.active[s.pending[j].task] = 0
    BY DEF Good, Waits
  <2>5. \A k \in DOMAIN base.kept : FALSE
    BY <2>3
  <2> HIDE DEF base
  <2>6. DrainAt(s, 0, base)
    BY <2>2, <2>3, <2>4, <2>5, KeepsSelf, WithinSelf DEF DrainAt, StillRuns
  <2> QED BY <1>1, <2>1, <2>6
<1>4. ASSUME NEW i \in 1 .. n, i - 1 \in J
      PROVE  i \in J
  <2>1. 1 .. i # {} /\ Max(1 .. i) = i /\ (1 .. i) \ {i} = 1 .. i - 1 /\ 1 .. i \in SUBSET (1 .. n)
    BY <1>1, Positions
  <2>2. g[1 .. i] = Consider(g[1 .. i - 1], s.pending[i])
    BY <1>2, <2>1
  <2>3. DrainAt(s, i - 1, g[1 .. i - 1])
    BY <1>4
  <2>4. DrainAt(s, i, g[1 .. i])
    BY <1>1, <2>2, <2>3, DrainStep
  <2> QED BY <1>1, <2>4
<1> HIDE DEF J
<1>5. \A i \in 0 .. n : i \in J
  BY <1>1, <1>3, <1>4, EveryPosition
<1>6. n \in J
  BY <1>1, <1>5
<1> QED BY <1>1, <1>6 DEF J, g

\* Draining the queue starts what may start and keeps everything else.
LEMMA DrainKeeps ==
    ASSUME NEW s, Good(s), NEW x, x = DrainQueue(s)
    PROVE  /\ Good(x) /\ Tight(x)
           /\ Keeps(s, x) /\ Fewer(s, x) /\ QueueShrinks(s, x) /\ Within(s, x) /\ StillRuns(s, x)
           /\ x.status = s.status /\ x.priority = s.priority
           /\ x.autoPaused = s.autoPaused /\ x.limit = s.limit
<1> DEFINE end == DrainFold(s)[DOMAIN s.pending]
           y == end.s
           n == Len(s.pending)
<1>1. DrainAt(s, n, end)
  BY DrainWalk
<1>2. x = [y EXCEPT !.pending = end.kept]
  BY DrainIsFold
<1> HIDE DEF end, n
<1>3. /\ y \in State /\ Core(y) /\ end.kept \in Seq(Entry)
      /\ Keeps(s, y) /\ Fewer(s, y) /\ Within(s, y) /\ StillRuns(s, y)
      /\ y.status = s.status /\ y.pending = s.pending /\ y.priority = s.priority
      /\ y.autoPaused = s.autoPaused /\ y.limit = s.limit
  BY <1>1, AccsFacts DEF DrainAt
<1>4. \A k, h \in DOMAIN end.kept : end.kept[k].task = end.kept[h].task => k = h
  BY <1>1 DEF DrainAt
<1>5. \A k \in DOMAIN end.kept :
        /\ y.active[end.kept[k].task] = 0 /\ ~MayStart(y, end.kept[k].task)
        /\ \E j \in DOMAIN s.pending : end.kept[k] = s.pending[j]
  BY <1>1 DEF DrainAt
<1> HIDE DEF y
<1>6. /\ x \in State /\ x.pending = end.kept
      /\ x.runs = y.runs /\ x.active = y.active /\ x.status = y.status
      /\ x.priority = y.priority /\ x.autoPaused = y.autoPaused /\ x.limit = y.limit
  BY <1>2, <1>3, WithPending
<1>7. Core(x)
  BY <1>3, <1>6 DEF Core, RunsSound, Live, Rowed
<1>8. Once(x)
  BY <1>4, <1>6 DEF Once
<1>9. Waits(x)
  <2>1. \A j \in DOMAIN s.pending : s.status[s.pending[j].task] \notin Gone
    BY DEF Good, Waits
  <2> QED BY <1>3, <1>5, <1>6, <2>1 DEF Waits
<1>10. \A u \in Tasks : MayStart(x, u) = MayStart(y, u)
  BY <1>6 DEF MayStart, HasCapacity, HasQueueCapacity, Active
<1>11. Tight(x)
  BY <1>5, <1>6, <1>10 DEF Tight, Queued
<1>12. QueueShrinks(s, x)
  BY <1>5, <1>6 DEF QueueShrinks, Queued
<1>13. Keeps(y, x) /\ Fewer(y, x)
  <2>1. Taken(x) = Taken(y)
    BY <1>6 DEF Taken
  <2>2. Fewer(y, x)
    BY <1>6 DEF Fewer, Orphan
  <2> QED BY <1>6, <2>1, <2>2, KeepsFewer
<1>14. Keeps(s, x) /\ Fewer(s, x)
  BY <1>3, <1>13, KeepsThrough, FewerThrough
<1>15. Within(s, x)
  <2>1. Within(y, x)
    BY <1>3, <1>6, StopsWithin DEF Stops
  <2> QED BY <1>3, <2>1, WithinThrough
<1>16. StillRuns(s, x)
  BY <1>3, <1>6 DEF StillRuns
<1> QED BY <1>3, <1>6, <1>7, <1>8, <1>9, <1>11, <1>12, <1>14, <1>15, <1>16 DEF Good

-----------------------------------------------------------------------------
(***************************************************************************)
(* Resuming a task.                                                        *)
(***************************************************************************)

\* Records that differ in their retry marks, the boost or the limit only.
LEMMA Aside ==
    ASSUME NEW s \in State, NEW t \in Tasks, NEW k \in 0 .. MaxRetries,
           NEW S \in SUBSET Tasks, NEW p \in Tasks \cup {NoTask}, NEW l \in Limits
    PROVE  /\ LET x == [s EXCEPT !.scheduled = S] IN
              /\ x \in State /\ Alike(s, x)
              /\ x.priority = s.priority /\ x.autoPaused = s.autoPaused /\ x.limit = s.limit
           /\ LET x == [s EXCEPT !.retries[t] = k] IN
              /\ x \in State /\ Alike(s, x)
              /\ x.priority = s.priority /\ x.autoPaused = s.autoPaused /\ x.limit = s.limit
           /\ LET x == [s EXCEPT !.priority = p] IN
              /\ x \in State /\ Alike(s, x)
              /\ x.priority = p /\ x.autoPaused = s.autoPaused /\ x.limit = s.limit
           /\ LET x == [s EXCEPT !.autoPaused = S] IN
              /\ x \in State /\ Alike(s, x)
              /\ x.priority = s.priority /\ x.autoPaused = S /\ x.limit = s.limit
           /\ LET x == [s EXCEPT !.limit = l] IN
              /\ x \in State /\ Alike(s, x)
              /\ x.priority = s.priority /\ x.autoPaused = s.autoPaused /\ x.limit = l
<1>1. LET x == [s EXCEPT !.scheduled = S] IN
      /\ x \in State /\ Alike(s, x)
      /\ x.priority = s.priority /\ x.autoPaused = s.autoPaused /\ x.limit = s.limit
  BY DEF State, Alike
<1>2. LET x == [s EXCEPT !.retries[t] = k] IN
      /\ x \in State /\ Alike(s, x)
      /\ x.priority = s.priority /\ x.autoPaused = s.autoPaused /\ x.limit = s.limit
  BY DEF State, Alike
<1>3. LET x == [s EXCEPT !.priority = p] IN
      /\ x \in State /\ Alike(s, x)
      /\ x.priority = p /\ x.autoPaused = s.autoPaused /\ x.limit = s.limit
  BY DEF State, Alike
<1>4. LET x == [s EXCEPT !.autoPaused = S] IN
      /\ x \in State /\ Alike(s, x)
      /\ x.priority = s.priority /\ x.autoPaused = S /\ x.limit = s.limit
  BY DEF State, Alike
<1>5. LET x == [s EXCEPT !.limit = l] IN
      /\ x \in State /\ Alike(s, x)
      /\ x.priority = s.priority /\ x.autoPaused = s.autoPaused /\ x.limit = l
  BY DEF State, Alike
<1> QED BY <1>1, <1>2, <1>3, <1>4, <1>5

\* The entry of a task is taken away; the run goes on.
Dropped(s, t) == [s EXCEPT !.active[t] = 0]

LEMMA DroppedKeeps ==
    ASSUME NEW s, Good(s), NEW t \in Tasks, NEW x, x = Dropped(s, t)
    PROVE  /\ Good(x) /\ x.active[t] = 0
           /\ s.active[t] = 0 \/ s.status[t] \in Terminal => Keeps(s, x)
           /\ x.status = s.status /\ x.pending = s.pending /\ x.runs = s.runs
           /\ x.priority = s.priority /\ x.autoPaused = s.autoPaused /\ x.limit = s.limit
<1>1. s \in State
  BY DEF Good, Core
<1>2. /\ x \in State
      /\ x.status = s.status /\ x.pending = s.pending /\ x.runs = s.runs
      /\ x.priority = s.priority /\ x.autoPaused = s.autoPaused /\ x.limit = s.limit
      /\ x.active[t] = 0 /\ \A u \in Tasks \ {t} : x.active[u] = s.active[u]
  BY <1>1 DEF Dropped, State
<1>3. \A u \in Tasks : x.active[u] = 0 \/ x.active[u] = s.active[u]
  BY <1>2
<1>4. Core(x)
  <2>1. Live(x)
    BY <1>2, <1>3 DEF Good, Core, Live
  <2>2. Rowed(x)
    BY <1>2, <1>3 DEF Good, Core, Rowed
  <2> QED BY <1>2, <2>1, <2>2 DEF Good, Core, RunsSound
<1>5. Waits(x)
  <2>1. \A i \in DOMAIN s.pending : s.pending[i].task \in Tasks
    BY QueueEntries DEF Good
  <2> QED BY <1>2, <1>3, <2>1 DEF Good, Waits
<1>6. Once(x)
  BY <1>2 DEF Good, Once
<1>7. ASSUME s.active[t] = 0 \/ s.status[t] \in Terminal
      PROVE  Keeps(s, x)
  <2>1. Taken(x) = Taken(s)
    BY <1>2 DEF Taken
  <2>2. \A u \in Tasks : s.status[u] \notin Terminal => x.active[u] = s.active[u]
    BY <1>2, <1>7
  <2> QED BY <1>2, <2>1, <2>2 DEF Keeps, Follows, Orphan
<1> QED BY <1>2, <1>4, <1>5, <1>6, <1>7 DEF Good

\* A task with a row joins the queue.
LEMMA EnqueueKeeps ==
    ASSUME NEW s, Good(s), NEW e \in Entry, ~Queued(s, e.task),
           s.active[e.task] = 0, s.status[e.task] \notin Gone,
           NEW x, x = [s EXCEPT !.pending = Append(s.pending, e)]
    PROVE  /\ Good(x) /\ Keeps(s, x) /\ Fewer(s, x)
           /\ x.status = s.status /\ x.active = s.active /\ x.runs = s.runs
           /\ x.priority = s.priority /\ x.autoPaused = s.autoPaused /\ x.limit = s.limit
<1> DEFINE p == Append(s.pending, e)
           n == Len(s.pending)
<1>1. s \in State /\ s.pending \in Seq(Entry) /\ e.task \in Tasks
  BY DEF Good, Core, State, Entry
<1>2. /\ p \in Seq(Entry) /\ n \in Nat /\ DOMAIN s.pending = 1 .. n /\ DOMAIN p = 1 .. n + 1
      /\ p[n + 1] = e /\ \A k \in 1 .. n : p[k] = s.pending[k]
  BY <1>1
<1>11. x = [s EXCEPT !.pending = p]
  OBVIOUS
<1> HIDE DEF p, n
<1>3. /\ x \in State /\ x.pending = p
      /\ x.runs = s.runs /\ x.active = s.active /\ x.status = s.status
      /\ x.priority = s.priority /\ x.autoPaused = s.autoPaused /\ x.limit = s.limit
  <2>1. s \in State /\ p \in Seq(Entry)
    BY <1>1, <1>2
  <2> QED BY ONLY <1>11, <2>1, WithPending
<1>4. \A k \in 1 .. n + 1 : k = n + 1 \/ k \in 1 .. n
  BY <1>2
<1>5. \A k \in 1 .. n : s.pending[k].task # e.task
  BY <1>2 DEF Queued
<1>6. Once(x)
  BY <1>2, <1>3, <1>4, <1>5 DEF Good, Once
<1>7. Waits(x)
  BY <1>2, <1>3, <1>4 DEF Good, Waits
<1>8. Core(x)
  BY <1>3 DEF Good, Core, RunsSound, Live, Rowed
<1>9. Taken(x) = Taken(s) /\ Fewer(s, x)
  BY <1>3 DEF Taken, Fewer, Orphan
<1>10. Keeps(s, x)
  BY <1>3, <1>9, KeepsFewer
<1> QED BY <1>3, <1>6, <1>7, <1>8, <1>9, <1>10 DEF Good

\* A new status of a task, in a record whose queue is in order.
LEMMA NewStatusGood ==
    ASSUME NEW s, Good(s), NEW t \in Tasks, NEW v \in Statuses \ Gone,
           NEW x, x = Restated(s, t, v)
    PROVE  Good(x)
<1>1. /\ Core(x) /\ x.pending = s.pending /\ x.active = s.active /\ x.status[t] = v
      /\ \A u \in Tasks \ {t} : x.status[u] = s.status[u]
  BY NewStatusKeeps DEF Good
<1>2. \A i \in DOMAIN s.pending : s.pending[i].task \in Tasks
  BY QueueEntries DEF Good
<1> QED BY <1>1, <1>2 DEF Good, Once, Waits

LEMMA ResumeInnerKeeps ==
    ASSUME NEW s, Good(s), NEW t \in Tasks, NEW x, x = ResumeInner(s, t)
    PROVE  /\ Good(x) /\ Keeps(s, x)
           /\ x.priority = s.priority /\ x.autoPaused = s.autoPaused /\ x.limit = s.limit
<1> DEFINE s1 == [s EXCEPT !.scheduled = @ \ {t}]
           s2 == Dropped(s1, t)
<1>1. /\ Good(s1) /\ Keeps(s, s1)
      /\ s1.priority = s.priority /\ s1.autoPaused = s.autoPaused /\ s1.limit = s.limit
  <2>1. s \in State /\ s.scheduled \ {t} \in SUBSET Tasks
    BY DEF Good, Core, State
  <2>2. s1 = [s EXCEPT !.scheduled = s.scheduled \ {t}]
    OBVIOUS
  <2> HIDE DEF s1
  <2>3. /\ s1 \in State /\ Alike(s, s1)
        /\ s1.priority = s.priority /\ s1.autoPaused = s.autoPaused /\ s1.limit = s.limit
    <3>1. \E k : k \in 0 .. MaxRetries
      BY LifecycleAssumption
    <3>2. \E l : l \in Limits
      BY <2>1 DEF State
    <3> QED BY <2>1, <2>2, <3>1, <3>2, Aside
  <2> QED BY <2>3, AlikeGood, AlikeKeeps
<1>2. /\ Good(s2) /\ s2.active[t] = 0
      /\ s1.active[t] = 0 \/ s1.status[t] \in Terminal => Keeps(s1, s2)
      /\ s2.status = s1.status
      /\ s2.priority = s1.priority /\ s2.autoPaused = s1.autoPaused /\ s2.limit = s1.limit
  <2> HIDE DEF s1
  <2> QED BY <1>1, DroppedKeeps
<1>3. x = IF s1.active[t] # 0 /\ s1.status[t] \notin Terminal THEN s1
          ELSE IF Queued(s2, t) THEN s2
          ELSE IF MayStart(s2, t) THEN DrainQueue(Spawn(s2, t, TRUE))
          ELSE IF s2.status[t] \in Gone THEN s2
          ELSE [s2 EXCEPT !.status[t] = IF @ = "completed" THEN @ ELSE "pending",
                          !.pending = Append(@, [task |-> t, resume |-> TRUE])]
  BY DEF ResumeInner, Dropped
<1> HIDE DEF s1, s2
<1>4. CASE s1.active[t] # 0 /\ s1.status[t] \notin Terminal
  BY <1>1, <1>3, <1>4
<1>5. CASE s1.active[t] = 0 \/ s1.status[t] \in Terminal
  <2>1. Keeps(s, s2)
    BY <1>1, <1>2, <1>5, KeepsThrough
  <2>2. CASE Queued(s2, t) \/ (~MayStart(s2, t) /\ s2.status[t] \in Gone)
    BY <1>1, <1>2, <1>3, <1>5, <2>1, <2>2
  <2>3. CASE ~Queued(s2, t) /\ MayStart(s2, t)
    <3> DEFINE b == TRUE
               y == Spawn(s2, t, b)
    <3>1. x = DrainQueue(y)
      BY <1>3, <1>5, <2>3
    <3>7. b \in BOOLEAN
      OBVIOUS
    <3> HIDE DEF b
    <3>2. /\ Core(y) /\ Keeps(s2, y)
          /\ y.status = s2.status /\ y.pending = s2.pending /\ y.priority = s2.priority
          /\ y.autoPaused = s2.autoPaused /\ y.limit = s2.limit
          /\ \A u \in Tasks \ {t} : y.active[u] = s2.active[u]
      <4>1. Core(s2)
        BY <1>2 DEF Good
      <4> QED BY <1>2, <3>7, <4>1, SpawnKeeps
    <3> HIDE DEF y
    <3>3. \A i \in DOMAIN s2.pending : s2.pending[i].task \in Tasks \ {t}
      BY <1>2, <2>3, QueueEntries DEF Good, Queued
    <3>4. Good(y)
      BY <1>2, <3>2, <3>3 DEF Good, Once, Waits
    <3>5. /\ Good(x) /\ Keeps(y, x)
          /\ x.priority = y.priority /\ x.autoPaused = y.autoPaused /\ x.limit = y.limit
      BY <3>1, <3>4, DrainKeeps
    <3>6. Keeps(s, x)
      BY <2>1, <3>2, <3>5, KeepsThrough
    <3> QED BY <1>1, <1>2, <3>2, <3>5, <3>6
  <2>4. CASE ~Queued(s2, t) /\ ~MayStart(s2, t) /\ s2.status[t] \notin Gone
    <3> DEFINE v == IF s2.status[t] = "completed" THEN "completed" ELSE "pending"
               y == Restated(s2, t, v)
               e == [task |-> t, resume |-> TRUE]
    <3>1. x = [y EXCEPT !.pending = Append(y.pending, e)]
      <4>1. s2 \in State
        BY <1>2 DEF Good, Core
      <4>2. x = [s2 EXCEPT !.status[t] = IF @ = "completed" THEN @ ELSE "pending",
                           !.pending = Append(@, e)]
        BY <1>3, <1>5, <2>4
      <4>3. y.pending = s2.pending
        BY <4>1 DEF Restated, State
      <4> QED BY <4>1, <4>2, <4>3 DEF Restated, State
    <3>2. v \in Statuses \ Gone /\ (v \notin Terminal \/ s2.status[t] \in Terminal)
      BY DEF Statuses, Gone, Terminal
    <3> HIDE DEF v
    <3>3. /\ Core(y) /\ Keeps(s2, y)
          /\ y.pending = s2.pending /\ y.active = s2.active
          /\ y.priority = s2.priority /\ y.autoPaused = s2.autoPaused /\ y.limit = s2.limit
          /\ y.status[t] = v
      BY <1>2, <3>2, NewStatusKeeps DEF Good
    <3>4. Good(y)
      BY <1>2, <3>2, NewStatusGood
    <3>5. e \in Entry /\ e.task = t
      BY DEF Entry
    <3> HIDE DEF y, e
    <3>6. ~Queued(y, t)
      BY <2>4, <3>3 DEF Queued
    <3>7. /\ Good(x) /\ Keeps(y, x)
          /\ x.priority = y.priority /\ x.autoPaused = y.autoPaused /\ x.limit = y.limit
      BY <1>2, <3>1, <3>2, <3>3, <3>4, <3>5, <3>6, EnqueueKeeps
    <3>8. Keeps(s, x)
      BY <2>1, <3>3, <3>7, KeepsThrough
    <3> QED BY <1>1, <1>2, <3>3, <3>7, <3>8
  <2> QED BY <2>2, <2>3, <2>4
<1> QED BY <1>4, <1>5

\* Resuming a task by hand forgets its retries.
LEMMA ResumeKeeps ==
    ASSUME NEW s, Good(s), NEW t \in Tasks, NEW x, x = Resume(s, t)
    PROVE  /\ Good(x) /\ Keeps(s, x)
           /\ x.priority = s.priority /\ x.autoPaused = s.autoPaused /\ x.limit = s.limit
<1> DEFINE y == [s EXCEPT !.retries[t] = 0]
<1>1. s \in State /\ 0 \in 0 .. MaxRetries
  BY LifecycleAssumption DEF Good, Core
<1>2. /\ y \in State /\ Alike(s, y)
      /\ y.priority = s.priority /\ y.autoPaused = s.autoPaused /\ y.limit = s.limit
  BY <1>1 DEF State, Alike
<1>3. x = ResumeInner(y, t)
  BY DEF Resume
<1> HIDE DEF y
<1>4. Good(y) /\ Keeps(s, y)
  BY <1>2, AlikeGood, AlikeKeeps
<1>5. /\ Good(x) /\ Keeps(y, x)
      /\ x.priority = y.priority /\ x.autoPaused = y.autoPaused /\ x.limit = y.limit
  BY <1>3, <1>4, ResumeInnerKeeps
<1> QED BY <1>2, <1>4, <1>5, KeepsThrough

-----------------------------------------------------------------------------
(***************************************************************************)
(* The end of the boost: the tasks it paused are resumed in turn.          *)
(***************************************************************************)

\* What resuming some tasks leaves of a record.
Resumed(s, x) ==
    /\ Good(x) /\ Keeps(s, x)
    /\ x.priority = s.priority /\ x.autoPaused = s.autoPaused /\ x.limit = s.limit

LEMMA ResumedGoesOn ==
    ASSUME NEW s, NEW y, Resumed(s, y), NEW t \in Tasks
    PROVE  Resumed(s, ResumeUnlessDone(y, t))
<1> DEFINE x == Resume(y, t)
<1>1. Good(y) /\ Keeps(s, y)
      /\ y.priority = s.priority /\ y.autoPaused = s.autoPaused /\ y.limit = s.limit
  BY DEF Resumed
<1>2. /\ Good(x) /\ Keeps(y, x)
      /\ x.priority = y.priority /\ x.autoPaused = y.autoPaused /\ x.limit = y.limit
  BY <1>1, ResumeKeeps
<1>3. ResumeUnlessDone(y, t) = IF y.status[t] = "completed" THEN y ELSE x
  BY DEF ResumeUnlessDone
<1> HIDE DEF x
<1>4. Resumed(s, x)
  BY <1>1, <1>2, KeepsThrough DEF Resumed
<1> QED BY <1>3, <1>4

\* The step of the walk, and the walk seen as a recursive function.
ResumeIf(S, y, t) == IF t \in S THEN ResumeUnlessDone(y, t) ELSE y

ResumeFold(s, S, order) == CHOOSE g :
    g = [r \in SUBSET DOMAIN order |->
           IF r = {} THEN s ELSE ResumeIf(S, g[r \ {Max(r)}], order[Max(r)])]

LEMMA ResumeIsFold ==
    \A s, S, order : InTurn(ResumeUnlessDone, s, S, order) = ResumeFold(s, S, order)[DOMAIN order]
BY DEF InTurn, FoldLeft, MapThenFoldSet, ResumeFold, ResumeIf

LEMMA ResumeInTurn ==
    ASSUME NEW s, Good(s), NEW S, NEW order \in Seq(Tasks),
           NEW x, x = InTurn(ResumeUnlessDone, s, S, order)
    PROVE  Resumed(s, x)
<1> DEFINE n == Len(order)
           A == {y \in State : Resumed(s, y)}
           op == [p \in (1 .. n) \X A |-> ResumeIf(S, p[2], order[p[1]])]
           F(g) == g = [r \in SUBSET (1 .. n) |->
                          IF r = {} THEN s ELSE ResumeIf(S, g[r \ {Max(r)}], order[Max(r)])]
<1>1. n \in Nat /\ DOMAIN order = 1 .. n /\ \A i \in 1 .. n : order[i] \in Tasks
  OBVIOUS
<1>2. \A y : y \in A <=> Resumed(s, y)
  BY DEF Resumed, Good, Core
<1>3. Resumed(s, s)
  BY KeepsSelf DEF Resumed
<1>4. \A i \in 1 .. n : \A a \in A : op[<<i, a>>] = ResumeIf(S, a, order[i])
  OBVIOUS
<1> HIDE DEF A, op
<1>5. \A a \in A : \A t \in Tasks : ResumeIf(S, a, t) \in A
  BY <1>2, ResumedGoesOn DEF ResumeIf
<1>6. StaysIn(A, n, op)
  BY <1>1, <1>4, <1>5 DEF StaysIn
<1> HIDE DEF n
<1>7. PICK g : IsFold(op, s, n, g) /\ \A r \in SUBSET (1 .. n) : g[r] \in A
  <2>1. s \in A
    BY <1>2, <1>3
  <2>2. FoldIn(A, op, s, n)
    BY <1>1, <1>6, <2>1, FoldExists
  <2> QED BY <2>2 DEF FoldIn
<1>8. ASSUME NEW r \in SUBSET (1 .. n)
      PROVE  FoldStep(op, s, g, r) =
               IF r = {} THEN s ELSE ResumeIf(S, g[r \ {Max(r)}], order[Max(r)])
  <2>1. CASE r = {}
    BY <2>1 DEF FoldStep
  <2>2. CASE r # {}
    <3>1. Max(r) \in 1 .. n
      BY <1>1, <2>2, LastOf
    <3>2. g[r \ {Max(r)}] \in A
      BY <1>7
    <3> QED BY <1>4, <2>2, <3>1, <3>2 DEF FoldStep
  <2> QED BY <2>1, <2>2
<1>9. F(g)
  BY <1>7, <1>8 DEF IsFold
<1> DEFINE h == ResumeFold(s, S, order)
<1>10. F(h)
  <2> HIDE DEF F
  <2>1. F(CHOOSE f : F(f))
    BY <1>9
  <2>2. h = CHOOSE f : F(f)
    BY <1>1 DEF ResumeFold, F
  <2> QED BY <2>1, <2>2
<1>11. x = h[1 .. n]
  BY <1>1, ResumeIsFold
<1> HIDE DEF h
<1> DEFINE J == {i \in 0 .. n : h[1 .. i] \in A}
<1>12. 0 \in J
  <2>1. 1 .. 0 = {} /\ 1 .. 0 \in SUBSET (1 .. n)
    OBVIOUS
  <2> QED BY <1>1, <1>2, <1>3, <1>10, <2>1
<1>13. ASSUME NEW i \in 1 .. n, i - 1 \in J
       PROVE  i \in J
  <2>1. 1 .. i # {} /\ Max(1 .. i) = i /\ (1 .. i) \ {i} = 1 .. i - 1 /\ 1 .. i \in SUBSET (1 .. n)
    BY <1>1, Positions
  <2>2. h[1 .. i] = ResumeIf(S, h[1 .. i - 1], order[i])
    BY <1>10, <2>1
  <2>3. order[i] \in Tasks /\ h[1 .. i - 1] \in A
    BY <1>1, <1>13
  <2> QED BY <1>1, <1>5, <2>2, <2>3
<1> HIDE DEF J
<1>14. \A i \in 0 .. n : i \in J
  BY <1>1, <1>12, <1>13, EveryPosition
<1>15. h[1 .. n] \in A
  BY <1>1, <1>14 DEF J
<1> QED BY <1>2, <1>11, <1>15

\* The boost is over: no task has it, and what it paused is resumed.
LEMMA ClearPriorityKeeps ==
    ASSUME NEW s, Good(s), NEW order \in Seq(Tasks), NEW x, x = ClearPriority(s, order)
    PROVE  Good(x) /\ Keeps(s, x) /\ x.priority = NoTask /\ x.limit = s.limit
<1> DEFINE y == [s EXCEPT !.priority = NoTask]
           z == [y EXCEPT !.autoPaused = {}]
<1>1. s \in State
  BY DEF Good, Core
<1>2. y \in State /\ Alike(s, y) /\ y.priority = NoTask /\ y.limit = s.limit
  BY <1>1 DEF State, Alike
<1>3. z = [s EXCEPT !.priority = NoTask, !.autoPaused = {}]
  BY <1>1 DEF State
<1> HIDE DEF y
<1>4. z \in State /\ Alike(y, z) /\ z.priority = y.priority /\ z.limit = y.limit
  BY <1>2 DEF State, Alike
<1>5. x = InTurn(ResumeUnlessDone, z, s.autoPaused, order)
  BY <1>3 DEF ClearPriority
<1> HIDE DEF z
<1>6. Good(z) /\ Keeps(s, z)
  BY <1>2, <1>4, AlikeGood, AlikeKeeps, KeepsThrough
<1>7. Resumed(z, x)
  BY <1>5, <1>6, ResumeInTurn
<1> QED BY <1>2, <1>4, <1>6, <1>7, KeepsThrough DEF Resumed

LEMMA EndBoostKeeps ==
    ASSUME NEW s, Good(s), NEW t, NEW order \in Seq(Tasks), NEW x, x = EndBoostOf(s, t, order)
    PROVE  /\ Good(x) /\ Keeps(s, x) /\ x.limit = s.limit
           /\ x.priority # t \/ t = NoTask
           /\ x.priority = s.priority \/ x.priority = NoTask
           /\ s.priority # t => x = s
<1>1. CASE s.priority = t
  BY <1>1, ClearPriorityKeeps DEF EndBoostOf
<1>2. CASE s.priority # t
  BY <1>2, KeepsSelf DEF EndBoostOf
<1> QED BY <1>1, <1>2

-----------------------------------------------------------------------------
(***************************************************************************)
(* Pausing, and the start of the boost.                                    *)
(***************************************************************************)

\* The retry mark of a task is taken away.
Unmarked(s, t) == [s EXCEPT !.scheduled = s.scheduled \ {t}]

LEMMA UnmarkedKeeps ==
    ASSUME NEW s, Good(s), NEW t \in Tasks, NEW x, x = Unmarked(s, t)
    PROVE  /\ Good(x) /\ Keeps(s, x) /\ Fewer(s, x) /\ QueueShrinks(s, x) /\ Alike(s, x)
           /\ x.priority = s.priority /\ x.autoPaused = s.autoPaused /\ x.limit = s.limit
<1>1. s \in State
  BY DEF Good, Core
<1>2. /\ x \in State /\ Alike(s, x)
      /\ x.priority = s.priority /\ x.autoPaused = s.autoPaused /\ x.limit = s.limit
  BY <1>1 DEF Unmarked, State, Alike
<1> QED BY <1>2, AlikeGood, AlikeKeeps

\* Cancelling the run of a task takes its entry away and no one's place.
LEMMA CancelledGood ==
    ASSUME NEW s, Good(s), NEW t \in Tasks, NEW x, x = Cancelled(s, t)
    PROVE  Good(x) /\ QueueShrinks(s, x)
<1>1. /\ Core(x) /\ x.status = s.status /\ x.pending = s.pending
      /\ x.active[t] = 0 /\ \A u \in Tasks \ {t} : x.active[u] = s.active[u]
  BY CancelledKeeps DEF Good
<1>2. \A i \in DOMAIN s.pending : s.pending[i].task \in Tasks
  BY QueueEntries DEF Good
<1> QED BY <1>1, <1>2 DEF Good, Once, Waits, QueueShrinks, Queued

\* What pausing t leaves of a record.
Paused(s, x, t) ==
    /\ Good(x) /\ Keeps(s, x) /\ x.limit = s.limit
    /\ s.priority # t => QueueShrinks(s, x) /\ x.priority = s.priority
    /\ x.priority = s.priority \/ x.priority = NoTask

LEMMA PauseInnerKeeps ==
    ASSUME NEW s, Good(s), NEW t \in Tasks, NEW order \in Seq(Tasks),
           NEW x, x = PauseInner(s, t, order)
    PROVE  Paused(s, x, t)
<1> DEFINE s1 == Unmarked(s, t)
           v == "paused"
<1>1. /\ Good(s1) /\ Keeps(s, s1) /\ QueueShrinks(s, s1)
      /\ s1.priority = s.priority /\ s1.limit = s.limit
  BY UnmarkedKeeps
<1>2. x = IF Queued(s1, t) THEN WithStatus(Unqueued(s1, t), t, v)
          ELSE IF s1.active[t] = 0 THEN s1
          ELSE EndBoostOf(DrainQueue(WithStatus(Cancelled(s1, t), t, v)), t, order)
  BY DEF PauseInner, Unmarked
<1>3. v \in Statuses \ Gone /\ v \notin Terminal
  BY DEF Statuses, Gone, Terminal
<1> HIDE DEF s1, v
<1>4. CASE Queued(s1, t)
  <2> DEFINE y == Unqueued(s1, t)
  <2>1. /\ Good(y) /\ Keeps(s1, y) /\ QueueShrinks(s1, y)
        /\ y.priority = s1.priority /\ y.limit = s1.limit
    BY <1>1, UnqueuedKeeps DEF Good, QueueShrinks
  <2>2. x = WithStatus(y, t, v)
    BY <1>2, <1>4
  <2> HIDE DEF y
  <2>3. Core(y)
    BY <2>1 DEF Good
  <2>4. /\ Keeps(y, x) /\ x.pending = y.pending /\ x.priority = y.priority /\ x.limit = y.limit
    BY <1>3, <2>2, <2>3, StatusKeeps
  <2>5. Good(x)
    BY <1>3, <2>1, <2>2, StatusGood
  <2>6. Keeps(s, x)
    BY <1>1, <2>1, <2>4, KeepsThrough
  <2>7. QueueShrinks(s, x)
    BY <1>1, <2>1, <2>4 DEF QueueShrinks, Queued
  <2> QED BY <1>1, <2>1, <2>4, <2>5, <2>6, <2>7 DEF Paused
<1>5. CASE ~Queued(s1, t) /\ s1.active[t] = 0
  BY <1>1, <1>2, <1>5 DEF Paused
<1>6. CASE ~Queued(s1, t) /\ s1.active[t] # 0
  <2> DEFINE y == Cancelled(s1, t)
             z == WithStatus(y, t, v)
             d == DrainQueue(z)
  <2>1. /\ Good(y) /\ Keeps(s1, y) /\ QueueShrinks(s1, y)
        /\ y.priority = s1.priority /\ y.limit = s1.limit
    <3>1. Core(s1)
      BY <1>1 DEF Good
    <3>2. Keeps(s1, y) /\ y.priority = s1.priority /\ y.limit = s1.limit
      BY <3>1, CancelledKeeps
    <3>3. Good(y) /\ QueueShrinks(s1, y)
      BY <1>1, CancelledGood
    <3> QED BY <3>2, <3>3
  <2>2. x = EndBoostOf(d, t, order)
    BY <1>2, <1>6
  <2> HIDE DEF y
  <2>3. Core(y)
    BY <2>1 DEF Good
  <2>4. Keeps(y, z) /\ z.pending = y.pending /\ z.priority = y.priority /\ z.limit = y.limit
    BY <1>3, <2>3, StatusKeeps
  <2>5. Good(z)
    BY <1>3, <2>1, StatusGood
  <2> HIDE DEF z
  <2>6. Good(d) /\ Keeps(z, d) /\ QueueShrinks(z, d) /\ d.priority = z.priority /\ d.limit = z.limit
    BY <2>5, DrainKeeps
  <2> HIDE DEF d
  <2>7. /\ Good(x) /\ Keeps(d, x) /\ x.limit = d.limit
        /\ x.priority = d.priority \/ x.priority = NoTask
        /\ d.priority # t => x = d
    BY <2>2, <2>6, EndBoostKeeps
  <2>8. Keeps(s, x)
    BY <1>1, <2>1, <2>4, <2>6, <2>7, KeepsThrough
  <2>9. QueueShrinks(s, d)
    BY <1>1, <2>1, <2>4, <2>6 DEF QueueShrinks, Queued
  <2> QED BY <1>1, <2>1, <2>4, <2>6, <2>7, <2>8, <2>9 DEF Paused
<1> QED BY <1>4, <1>5, <1>6

\* While no task has the boost: what pausing some of them leaves of a record.
Quietened(s, x) ==
    /\ Good(x) /\ Keeps(s, x) /\ QueueShrinks(s, x)
    /\ x.priority = NoTask /\ x.limit = s.limit

PauseNoted(y, t, order) == PauseInner([y EXCEPT !.autoPaused = @ \cup {t}], t, order)

LEMMA QuietenedGoesOn ==
    ASSUME NEW s, NEW y, Quietened(s, y), NEW t \in Tasks, NEW order \in Seq(Tasks)
    PROVE  Quietened(s, PauseNoted(y, t, order))
<1> DEFINE z == [y EXCEPT !.autoPaused = y.autoPaused \cup {t}]
           x == PauseInner(z, t, order)
<1>1. /\ Good(y) /\ Keeps(s, y) /\ QueueShrinks(s, y)
      /\ y.priority = NoTask /\ y.limit = s.limit
  BY DEF Quietened
<1>2. y \in State
  BY <1>1 DEF Good, Core
<1>3. z \in State /\ Alike(y, z) /\ z.priority = y.priority /\ z.limit = y.limit
  BY <1>2 DEF State, Alike
<1>4. PauseNoted(y, t, order) = x
  BY DEF PauseNoted
<1> HIDE DEF z
<1>5. Good(z) /\ Keeps(y, z) /\ QueueShrinks(y, z)
  BY <1>1, <1>3, AlikeGood, AlikeKeeps
<1>6. Paused(z, x, t)
  BY <1>5, PauseInnerKeeps
<1> HIDE DEF x
<1>7. NoTask # t
  BY LifecycleAssumption
<1>8. /\ Good(x) /\ Keeps(z, x) /\ QueueShrinks(z, x)
      /\ x.priority = z.priority /\ x.limit = z.limit
  BY <1>1, <1>3, <1>6, <1>7 DEF Paused
<1>9. Keeps(s, x)
  BY <1>1, <1>5, <1>8, KeepsThrough
<1>10. QueueShrinks(s, x)
  BY <1>1, <1>5, <1>8 DEF QueueShrinks
<1>11. Quietened(s, x)
  BY <1>1, <1>3, <1>8, <1>9, <1>10 DEF Quietened
<1> QED BY <1>4, <1>11

PauseIf(S, y, t, order) == IF t \in S THEN PauseNoted(y, t, order) ELSE y

PauseFold(s, S, order) == CHOOSE g :
    g = [r \in SUBSET DOMAIN order |->
           IF r = {} THEN s ELSE PauseIf(S, g[r \ {Max(r)}], order[Max(r)], order)]

LEMMA PauseIsFold ==
    \A s, S, order : AutoPause(s, S, order) = PauseFold(s, S, order)[DOMAIN order]
BY DEF AutoPause, InTurn, FoldLeft, MapThenFoldSet, PauseFold, PauseIf, PauseNoted

LEMMA AutoPauseKeeps ==
    ASSUME NEW s, Good(s), s.priority = NoTask, NEW S, NEW order \in Seq(Tasks),
           NEW x, x = AutoPause(s, S, order)
    PROVE  Quietened(s, x)
<1> DEFINE n == Len(order)
           A == {y \in State : Quietened(s, y)}
           op == [p \in (1 .. n) \X A |-> PauseIf(S, p[2], order[p[1]], order)]
           F(g) == g = [r \in SUBSET (1 .. n) |->
                          IF r = {} THEN s ELSE PauseIf(S, g[r \ {Max(r)}], order[Max(r)], order)]
<1>1. n \in Nat /\ DOMAIN order = 1 .. n /\ \A i \in 1 .. n : order[i] \in Tasks
  OBVIOUS
<1>2. \A y : y \in A <=> Quietened(s, y)
  BY DEF Quietened, Good, Core
<1>3. Quietened(s, s)
  BY KeepsSelf DEF Quietened
<1>4. \A i \in 1 .. n : \A a \in A : op[<<i, a>>] = PauseIf(S, a, order[i], order)
  OBVIOUS
<1> HIDE DEF A, op
<1>5. \A a \in A : \A t \in Tasks : PauseIf(S, a, t, order) \in A
  BY <1>2, QuietenedGoesOn DEF PauseIf
<1>6. StaysIn(A, n, op)
  BY <1>1, <1>4, <1>5 DEF StaysIn
<1> HIDE DEF n
<1>7. PICK g : IsFold(op, s, n, g) /\ \A r \in SUBSET (1 .. n) : g[r] \in A
  <2>1. s \in A
    BY <1>2, <1>3
  <2>2. FoldIn(A, op, s, n)
    BY <1>1, <1>6, <2>1, FoldExists
  <2> QED BY <2>2 DEF FoldIn
<1>8. ASSUME NEW r \in SUBSET (1 .. n)
      PROVE  FoldStep(op, s, g, r) =
               IF r = {} THEN s ELSE PauseIf(S, g[r \ {Max(r)}], order[Max(r)], order)
  <2>1. CASE r = {}
    BY <2>1 DEF FoldStep
  <2>2. CASE r # {}
    <3>1. Max(r) \in 1 .. n
      BY <1>1, <2>2, LastOf
    <3>2. g[r \ {Max(r)}] \in A
      BY <1>7
    <3> QED BY <1>4, <2>2, <3>1, <3>2 DEF FoldStep
  <2> QED BY <2>1, <2>2
<1>9. F(g)
  BY <1>7, <1>8 DEF IsFold
<1> DEFINE h == PauseFold(s, S, order)
<1>10. F(h)
  <2> HIDE DEF F
  <2>1. F(CHOOSE f : F(f))
    BY <1>9
  <2>2. h = CHOOSE f : F(f)
    BY <1>1 DEF PauseFold, F
  <2> QED BY <2>1, <2>2
<1>11. x = h[1 .. n]
  BY <1>1, PauseIsFold
<1> HIDE DEF h
<1> DEFINE J == {i \in 0 .. n : h[1 .. i] \in A}
<1>12. 0 \in J
  <2>1. 1 .. 0 = {} /\ 1 .. 0 \in SUBSET (1 .. n)
    OBVIOUS
  <2> QED BY <1>1, <1>2, <1>3, <1>10, <2>1
<1>13. ASSUME NEW i \in 1 .. n, i - 1 \in J
       PROVE  i \in J
  <2>1. 1 .. i # {} /\ Max(1 .. i) = i /\ (1 .. i) \ {i} = 1 .. i - 1 /\ 1 .. i \in SUBSET (1 .. n)
    BY <1>1, Positions
  <2>2. h[1 .. i] = PauseIf(S, h[1 .. i - 1], order[i], order)
    BY <1>10, <2>1
  <2>3. order[i] \in Tasks /\ h[1 .. i - 1] \in A
    BY <1>1, <1>13
  <2> QED BY <1>1, <1>5, <2>2, <2>3
<1> HIDE DEF J
<1>14. \A i \in 0 .. n : i \in J
  BY <1>1, <1>12, <1>13, EveryPosition
<1>15. h[1 .. n] \in A
  BY <1>1, <1>14 DEF J
<1> QED BY <1>2, <1>11, <1>15

\* A task that does not wait starts beyond the limits.
LEMMA SpawnGood ==
    ASSUME NEW s, Good(s), NEW t \in Tasks, NEW b \in BOOLEAN, s.active[t] = 0, ~Queued(s, t),
           NEW x, x = Spawn(s, t, b)
    PROVE  /\ Good(x) /\ Keeps(s, x)
           /\ x.status = s.status /\ x.pending = s.pending
           /\ x.priority = s.priority /\ x.autoPaused = s.autoPaused /\ x.limit = s.limit
<1>1. Core(s)
  BY DEF Good
<1>2. /\ Core(x) /\ Keeps(s, x)
      /\ x.status = s.status /\ x.pending = s.pending /\ x.priority = s.priority
      /\ x.autoPaused = s.autoPaused /\ x.limit = s.limit
      /\ \A u \in Tasks \ {t} : x.active[u] = s.active[u]
  BY <1>1, SpawnKeeps
<1>3. \A i \in DOMAIN s.pending : s.pending[i].task \in Tasks \ {t}
  BY <1>1, QueueEntries DEF Queued
<1> QED BY <1>2, <1>3 DEF Good, Once, Waits

LEMMA SetPriorityKeeps ==
    ASSUME NEW s, Good(s), NEW t \in Tasks, NEW order \in Seq(Tasks),
           NEW x, x = SetPriority(s, t, order)
    PROVE  /\ Good(x) /\ Keeps(s, x) /\ x.limit = s.limit
           /\ x.priority = NoTask \/ (x.priority = t /\ x.active[t] # 0)
<1> DEFINE q == Unqueued(s, t)
           a == [q EXCEPT !.autoPaused = q.autoPaused \ {t}]
           s1 == [a EXCEPT !.priority = NoTask]
           s2 == AutoPause(s1, Active(s1) \ {t}, order)
           s3 == AutoPause(s2, {u \in Tasks \ {t} : Queued(s2, u)}, order)
           s4 == AutoPause(s3, Active(s3) \ (s3.autoPaused \cup {t}), order)
           s5 == [s4 EXCEPT !.priority = t]
           b == TRUE
           s6 == IF s5.active[t] # 0 THEN s5
                 ELSE IF Queued(s, t) THEN Spawn(s5, t, b)
                 ELSE Resume(s5, t)
<1>1. /\ Good(q) /\ Keeps(s, q) /\ q.limit = s.limit
      /\ \A u \in Tasks : Queued(q, u) <=> (Queued(s, u) /\ u # t)
  BY UnqueuedKeeps DEF Good
<1>2. q \in State
  BY <1>1 DEF Good, Core
<1>3. s1 = [Unqueued(s, t) EXCEPT !.autoPaused = @ \ {t}, !.priority = NoTask]
  BY <1>2 DEF State
<1>4. x = IF s.priority = t THEN ClearPriority(s, order)
          ELSE IF s6.active[t] = 0 THEN ClearPriority(s6, order) ELSE s6
  BY <1>3 DEF SetPriority
<1> HIDE DEF q
<1>5. a \in State /\ Alike(q, a) /\ a.limit = q.limit
  BY <1>2 DEF State, Alike
<1> HIDE DEF a
<1>6. s1 \in State /\ Alike(a, s1) /\ s1.priority = NoTask /\ s1.limit = a.limit
  BY <1>5 DEF State, Alike
<1> HIDE DEF s1
<1>7. Good(s1) /\ Keeps(s, s1) /\ s1.limit = s.limit /\ ~Queued(s1, t)
  <2>1. Good(a) /\ Keeps(q, a) /\ QueueShrinks(q, a)
    BY <1>1, <1>5, AlikeGood, AlikeKeeps
  <2>2. Good(s1) /\ Keeps(a, s1) /\ QueueShrinks(a, s1)
    BY <1>6, <2>1, AlikeGood, AlikeKeeps
  <2>3. Keeps(s, s1)
    BY <1>1, <2>1, <2>2, KeepsThrough
  <2> QED BY <1>1, <1>5, <1>6, <2>1, <2>2, <2>3 DEF QueueShrinks
<1>8. Quietened(s1, s2)
  BY <1>6, <1>7, AutoPauseKeeps
<1> HIDE DEF s2
<1>9. Quietened(s2, s3)
  BY <1>8, AutoPauseKeeps DEF Quietened
<1> HIDE DEF s3
<1>10. Quietened(s3, s4)
  BY <1>9, AutoPauseKeeps DEF Quietened
<1> HIDE DEF s4
<1>11. Good(s4) /\ Keeps(s, s4) /\ s4.limit = s.limit /\ ~Queued(s4, t)
  <2>1. Keeps(s, s4)
    BY <1>7, <1>8, <1>9, <1>10, KeepsThrough DEF Quietened
  <2> QED BY <1>7, <1>8, <1>9, <1>10, <2>1 DEF Quietened, QueueShrinks
<1>12. s4 \in State
  BY <1>11 DEF Good, Core
<1>13. s5 \in State /\ Alike(s4, s5) /\ s5.limit = s4.limit /\ s5.priority = t
  BY <1>12 DEF State, Alike
<1> HIDE DEF s5
<1>14. Good(s5) /\ Keeps(s, s5) /\ s5.limit = s.limit /\ ~Queued(s5, t)
  BY <1>11, <1>13, AlikeGood, AlikeKeeps, KeepsThrough DEF QueueShrinks
<1>15. b \in BOOLEAN
  OBVIOUS
<1> HIDE DEF b
<1>16. Good(s6) /\ Keeps(s, s6) /\ s6.limit = s.limit /\ s6.priority = t
  <2>1. CASE s5.active[t] # 0
    BY <1>13, <1>14, <2>1
  <2>2. CASE s5.active[t] = 0 /\ Queued(s, t)
    <3> DEFINE y == Spawn(s5, t, b)
    <3>1. Good(y) /\ Keeps(s5, y) /\ y.limit = s5.limit /\ y.priority = s5.priority
      BY <1>14, <1>15, <2>2, SpawnGood
    <3>2. s6 = y
      BY <2>2
    <3> HIDE DEF y, s6
    <3> QED BY <1>13, <1>14, <3>1, <3>2, KeepsThrough
  <2>3. CASE s5.active[t] = 0 /\ ~Queued(s, t)
    <3> DEFINE y == Resume(s5, t)
    <3>1. Good(y) /\ Keeps(s5, y) /\ y.limit = s5.limit /\ y.priority = s5.priority
      BY <1>14, ResumeKeeps
    <3>2. s6 = y
      BY <2>3
    <3> HIDE DEF y, s6
    <3> QED BY <1>13, <1>14, <3>1, <3>2, KeepsThrough
  <2> QED BY <2>1, <2>2, <2>3
<1> HIDE DEF s6
<1>17. CASE s.priority = t
  BY <1>4, <1>17, ClearPriorityKeeps
<1>18. CASE s.priority # t /\ s6.active[t] = 0
  <2> DEFINE y == ClearPriority(s6, order)
  <2>1. Good(y) /\ Keeps(s6, y) /\ y.limit = s6.limit /\ y.priority = NoTask
    BY <1>16, ClearPriorityKeeps
  <2>2. x = y
    BY <1>4, <1>18
  <2> HIDE DEF y
  <2> QED BY <1>16, <2>1, <2>2, KeepsThrough
<1>19. CASE s.priority # t /\ s6.active[t] # 0
  BY <1>4, <1>16, <1>19
<1> QED BY <1>17, <1>18, <1>19

-----------------------------------------------------------------------------
(***************************************************************************)
(* The requests, as operators on records.                                  *)
(***************************************************************************)

\* The orders of a set of tasks are sequences of tasks.
LEMMA OrdersAreSequences ==
    ASSUME NEW S \in SUBSET Tasks, NEW order \in Orders(S)
    PROVE  order \in Seq(Tasks)
<1> DEFINE n == Cardinality(S)
<1>1. n \in Nat
  BY LifecycleAssumption, FS_Subset, FS_CardinalityType
<1>2. order \in [1 .. n -> S]
  BY DEF Orders, SetToSeqs
<1> HIDE DEF n
<1>3. order \in [1 .. n -> Tasks]
  BY <1>2
<1> QED BY <1>1, <1>3

\* The entry of a task, past a step, is left behind by no run that goes on.
Leaves(s, x) ==
    \A t \in Tasks : s.status[t] \notin Terminal =>
        \A g \in Nat : Orphan(x, t, g) => Orphan(s, t, g)

\* What a request leaves of a record.
Served(s, x) == Good(x) /\ Taken(x) = Taken(s) /\ Leaves(s, x)

LEMMA KeepsServed ==
    \A s, x : Good(x) /\ Keeps(s, x) => Served(s, x)
BY DEF Keeps, Follows, Served, Leaves

LEMMA FewerServed ==
    \A s, x : Good(x) /\ Taken(x) = Taken(s) /\ Fewer(s, x) => Served(s, x)
BY DEF Fewer, Served, Leaves

LEMMA CreateServes ==
    ASSUME NEW s, Good(s), NEW t \in Tasks, s.status[t] = "absent", NEW row,
           row = [s EXCEPT !.status[t] = "pending"], NEW x,
           \/ x = IF MayStart(row, t) THEN DrainQueue(Spawn(row, t, FALSE))
                  ELSE [row EXCEPT !.pending = Append(@, [task |-> t, resume |-> FALSE])]
           \/ x = WithStatus(row, t, "paused")
    PROVE  Served(s, x)
<1> DEFINE v == "pending"
           w == "paused"
           b == FALSE
           e == [task |-> t, resume |-> b]
<1>1. Core(s) /\ Once(s) /\ Waits(s) /\ s \in State
  BY DEF Good, Core
<1>2. s.active[t] = 0 /\ ~Queued(s, t)
  BY <1>1 DEF Core, Rowed, Waits, Queued, Gone
<1>3. row = Restated(s, t, v)
  BY <1>1 DEF Restated, State
<1>4. v \in Statuses \ Gone /\ v \notin Terminal /\ w \in Statuses \ Gone /\ w \notin Terminal
  BY DEF Statuses, Gone, Terminal
<1>5. b \in BOOLEAN /\ e \in Entry /\ e.task = t
  BY DEF Entry
<1>6. \/ MayStart(row, t) /\ x = DrainQueue(Spawn(row, t, b))
      \/ x = [row EXCEPT !.pending = Append(row.pending, e)]
      \/ x = WithStatus(row, t, w)
  OBVIOUS
<1> HIDE DEF v, w, b, e
<1>7. /\ Good(row) /\ Keeps(s, row) /\ row.pending = s.pending /\ row.active = s.active
      /\ row.status[t] = v
  <2>1. Good(row)
    BY ONLY Good(s), t \in Tasks, <1>3, <1>4, NewStatusGood
  <2>2. v \in Statuses \ Gone
    BY <1>4
  <2>3. /\ v \notin Terminal \/ s.status[t] \in Terminal => Keeps(s, row)
        /\ row.pending = s.pending /\ row.active = s.active /\ row.status[t] = v
    BY ONLY <1>1, t \in Tasks, <1>3, <2>2, NewStatusKeeps
  <2> QED BY <1>4, <2>1, <2>3
<1>8. row.active[t] = 0 /\ ~Queued(row, t) /\ row.status[t] \notin Gone
  BY <1>2, <1>4, <1>7 DEF Queued
<1>9. CASE x = DrainQueue(Spawn(row, t, b))
  <2> DEFINE y == Spawn(row, t, b)
  <2>1. Good(y) /\ Keeps(row, y)
    BY <1>5, <1>7, <1>8, SpawnGood
  <2>2. x = DrainQueue(y)
    BY <1>9
  <2> HIDE DEF y
  <2>3. Good(x) /\ Keeps(y, x)
    BY <2>1, <2>2, DrainKeeps
  <2> QED BY <1>7, <2>1, <2>3, KeepsThrough, KeepsServed
<1>10. CASE x = [row EXCEPT !.pending = Append(row.pending, e)]
  <2>1. Good(x) /\ Keeps(row, x)
    BY <1>5, <1>7, <1>8, <1>10, EnqueueKeeps
  <2> QED BY <1>7, <2>1, KeepsThrough, KeepsServed
<1>11. CASE x = WithStatus(row, t, w)
  <2>1. Core(row)
    BY <1>7 DEF Good
  <2>2. Keeps(row, x)
    BY <1>4, <1>11, <2>1, StatusKeeps
  <2>3. Good(x)
    BY <1>4, <1>7, <1>11, StatusGood
  <2> QED BY <1>7, <2>2, <2>3, KeepsThrough, KeepsServed
<1> QED BY <1>6, <1>9, <1>10, <1>11

\* The retries of a task are forgotten.
Forgotten(s, t) == [s EXCEPT !.retries[t] = 0]

LEMMA ForgottenKeeps ==
    ASSUME NEW s, Good(s), NEW t \in Tasks, NEW x, x = Forgotten(s, t)
    PROVE  Good(x) /\ Keeps(s, x) /\ Fewer(s, x) /\ Alike(s, x)
<1>1. s \in State /\ 0 \in 0 .. MaxRetries
  BY LifecycleAssumption DEF Good, Core
<1>2. x \in State /\ Alike(s, x)
  BY <1>1 DEF Forgotten, State, Alike
<1> QED BY <1>2, AlikeGood, AlikeKeeps

\* What a request that cancels leaves of a record.
Cut(s, x) == Good(x) /\ Taken(x) = Taken(s) /\ Fewer(s, x)

LEMMA CutThrough ==
    \A s, x, y : Cut(s, x) /\ Cut(x, y) => Cut(s, y)
BY FewerThrough DEF Cut

\* Cancelling the run of a task, if it has one.
LEMMA StoppedKeeps ==
    ASSUME NEW s, Good(s), NEW t \in Tasks, NEW x,
           x = IF s.active[t] = 0 THEN s ELSE Cancelled(s, t)
    PROVE  Cut(s, x) /\ QueueShrinks(s, x) /\ x.active[t] = 0
<1>1. CASE s.active[t] = 0
  BY <1>1, KeepsSelf DEF Cut
<1>2. CASE s.active[t] # 0
  <2> DEFINE y == Cancelled(s, t)
  <2>1. Core(s)
    BY DEF Good
  <2>2. Keeps(s, y) /\ Fewer(s, y) /\ y.active[t] = 0
    BY <2>1, CancelledKeeps
  <2>3. Good(y) /\ QueueShrinks(s, y)
    BY CancelledGood
  <2>4. x = y
    BY <1>2
  <2> HIDE DEF y
  <2> QED BY <2>2, <2>3, <2>4 DEF Cut, Keeps
<1> QED BY <1>1, <1>2

LEMMA CancelServes ==
    ASSUME NEW s, Good(s), NEW t \in Tasks, NEW x,
           x = LET y == Unqueued([s EXCEPT !.retries[t] = 0], t) IN
               DrainQueue(WithStatus(IF y.active[t] = 0 THEN y ELSE Cancelled(y, t), t, "cancelled"))
    PROVE  Served(s, x)
<1> DEFINE f == Forgotten(s, t)
           y == Unqueued(f, t)
           z == IF y.active[t] = 0 THEN y ELSE Cancelled(y, t)
           v == "cancelled"
           w == WithStatus(z, t, v)
<1>1. x = DrainQueue(w)
  BY DEF Forgotten
<1>2. Cut(s, f)
  BY ForgottenKeeps DEF Cut, Keeps
<1> HIDE DEF f
<1>3. Cut(f, y)
  <2>1. Core(f) /\ Once(f) /\ Waits(f)
    BY <1>2 DEF Cut, Good
  <2>2. Good(y) /\ Keeps(f, y) /\ Fewer(f, y)
    BY <2>1, UnqueuedKeeps
  <2> QED BY <2>2 DEF Cut, Keeps
<1> HIDE DEF y
<1>4. Cut(y, z)
  BY <1>3, StoppedKeeps DEF Cut
<1> HIDE DEF z
<1>5. v \in Statuses \ Gone
  BY DEF Statuses, Gone, Terminal
<1> HIDE DEF v
<1>6. Cut(z, w)
  <2>1. Good(z) /\ Core(z)
    BY <1>4 DEF Cut, Good
  <2>2. Taken(w) = Taken(z) /\ Fewer(z, w)
    BY <1>5, <2>1, StatusKeeps
  <2>3. Good(w)
    BY <1>5, <2>1, StatusGood
  <2> QED BY <2>2, <2>3 DEF Cut
<1> HIDE DEF w
<1>7. Cut(w, x)
  <2>1. Good(w)
    BY <1>6 DEF Cut
  <2>2. Good(x) /\ Keeps(w, x) /\ Fewer(w, x)
    BY <1>1, <2>1, DrainKeeps
  <2> QED BY <2>2 DEF Cut, Keeps
<1>8. Cut(s, x)
  BY <1>2, <1>3, <1>4, <1>6, <1>7, CutThrough
<1> QED BY <1>8, FewerServed DEF Cut

LEMMA RestartServes ==
    ASSUME NEW s, Good(s), NEW t \in Tasks, NEW order \in Seq(Tasks), NEW p,
           p = s \/ p = PauseInner(s, t, order),
           NEW x, x = Resume([p EXCEPT !.status[t] = "pending", !.scheduled = @ \ {t}], t)
    PROVE  Served(s, x)
<1> DEFINE v == "pending"
           y == Restated(p, t, v)
           z == Unmarked(y, t)
<1>1. Good(p) /\ Keeps(s, p)
  BY KeepsSelf, PauseInnerKeeps DEF Paused
<1>2. p \in State /\ Core(p)
  BY <1>1 DEF Good, Core
<1>3. z = [p EXCEPT !.status[t] = "pending", !.scheduled = @ \ {t}]
  BY <1>2 DEF Unmarked, Restated, State
<1>4. x = Resume(z, t)
  BY <1>3
<1>5. v \in Statuses \ Gone /\ v \notin Terminal
  BY DEF Statuses, Gone, Terminal
<1> HIDE DEF v
<1>6. Good(y) /\ Keeps(p, y)
  <2>1. Good(y)
    BY <1>1, <1>5, NewStatusGood
  <2>2. v \in Statuses \ Gone
    BY <1>5
  <2>3. v \notin Terminal \/ p.status[t] \in Terminal => Keeps(p, y)
    BY <1>2, <2>2, NewStatusKeeps
  <2> QED BY <1>5, <2>1, <2>3
<1> HIDE DEF y
<1>7. Good(z) /\ Keeps(y, z)
  BY <1>6, UnmarkedKeeps
<1> HIDE DEF z
<1>8. Good(x) /\ Keeps(z, x)
  BY <1>4, <1>7, ResumeKeeps
<1> QED BY <1>1, <1>6, <1>7, <1>8, KeepsThrough, KeepsServed

LEMMA DeleteServes ==
    ASSUME NEW s, Good(s), NEW t \in Tasks, NEW x,
           x = LET y == Unqueued([s EXCEPT !.retries[t] = 0, !.scheduled = @ \ {t}], t) IN
               IF y.active[t] = 0 THEN y ELSE Cancelled(y, t)
    PROVE  Served(s, x) /\ x.active[t] = 0 /\ ~Queued(x, t)
<1> DEFINE f == Forgotten(s, t)
           u == Unmarked(f, t)
           y == Unqueued(u, t)
<1>1. Good(f) /\ Fewer(s, f) /\ Keeps(s, f)
  BY ForgottenKeeps
<1>2. [s EXCEPT !.retries[t] = 0, !.scheduled = @ \ {t}] = u
  BY DEF Good, Core, State, Forgotten, Unmarked
<1>3. x = IF y.active[t] = 0 THEN y ELSE Cancelled(y, t)
  BY <1>2
<1> HIDE DEF f
<1>4. Good(u) /\ Fewer(f, u) /\ Keeps(f, u)
  BY <1>1, UnmarkedKeeps
<1> HIDE DEF u
<1>5. Good(y) /\ Fewer(u, y) /\ Keeps(u, y) /\ ~Queued(y, t)
  <2>1. Core(u) /\ Once(u) /\ Waits(u)
    BY <1>4 DEF Good
  <2> QED BY <2>1, UnqueuedKeeps
<1> HIDE DEF y
<1>6. Cut(y, x) /\ QueueShrinks(y, x) /\ x.active[t] = 0
  BY <1>3, <1>5, StoppedKeeps
<1>7. Cut(s, x)
  BY <1>1, <1>4, <1>5, <1>6, CutThrough DEF Cut, Keeps
<1> QED BY <1>5, <1>6, <1>7, FewerServed DEF Cut, QueueShrinks

LEMMA LimitServes ==
    ASSUME NEW s, Good(s), NEW n \in Limits, NEW x, x = DrainQueue([s EXCEPT !.limit = n])
    PROVE  Served(s, x)
<1> DEFINE y == [s EXCEPT !.limit = n]
<1>1. s \in State
  BY DEF Good, Core
<1>2. y \in State /\ Alike(s, y)
  BY <1>1 DEF State, Alike
<1> HIDE DEF y
<1>3. Good(y) /\ Keeps(s, y)
  BY <1>2, AlikeGood, AlikeKeeps
<1>4. Good(x) /\ Keeps(y, x)
  BY <1>3, DrainKeeps DEF y
<1> QED BY <1>3, <1>4, KeepsThrough, KeepsServed

LEMMA FollowsThrough == \A s, x, y : Follows(s, x) /\ Follows(x, y) => Follows(s, y)
BY DEF Follows

\* The row of a task goes, and of the runs R are left.
Erased(s, t, R) == [s EXCEPT !.status[t] = "deleted", !.autoPaused = @ \ {t}, !.runs = R]

\* The row of a task goes for which nothing runs and nothing waits.
LEMMA FinishServes ==
    ASSUME NEW s, Good(s), NEW t \in Tasks, s.active[t] = 0, ~Queued(s, t),
           NEW order \in Seq(Tasks),
           NEW R \in SUBSET s.runs, \A r \in s.runs : r.task = t \/ r \in R,
           NEW y, y = Erased(s, t, R),
           NEW x, x = DrainQueue(EndBoostOf(y, t, order))
    PROVE  /\ Good(x) /\ Leaves(s, x) /\ x.limit = s.limit
           /\ R = s.runs => Taken(x) = Taken(s)
           /\ Good(y) /\ y.active = s.active /\ y.limit = s.limit /\ y.priority = s.priority
           /\ KeepsBoost(s, x) /\ x.priority # t
<1>1. Core(s) /\ s \in State
  BY DEF Good, Core
<1>2. /\ y \in State /\ y.runs = R /\ y.active = s.active /\ y.pending = s.pending
      /\ y.limit = s.limit /\ y.priority = s.priority
      /\ y.status[t] = "deleted" /\ \A u \in Tasks \ {t} : y.status[u] = s.status[u]
  <2> DEFINE a == [s.status EXCEPT ![t] = "deleted"]
             b == [s EXCEPT !.status = a]
             c == [b EXCEPT !.autoPaused = s.autoPaused \ {t}]
  <2>1. y = [c EXCEPT !.runs = R]
    BY <1>1 DEF State, Erased
  <2>2. a \in [Tasks -> Statuses] /\ a[t] = "deleted" /\ \A u \in Tasks \ {t} : a[u] = s.status[u]
    BY <1>1 DEF State, Statuses, Gone
  <2> HIDE DEF a
  <2>3. /\ b \in State /\ b.runs = s.runs /\ b.active = s.active /\ b.pending = s.pending
        /\ b.limit = s.limit /\ b.priority = s.priority /\ b.status = a
    BY <1>1, <2>2 DEF State
  <2> HIDE DEF b
  <2>4. /\ c \in State /\ c.runs = s.runs /\ c.active = s.active /\ c.pending = s.pending
        /\ c.limit = s.limit /\ c.priority = s.priority /\ c.status = a
    BY <1>1, <2>3 DEF State
  <2> HIDE DEF c
  <2>5. R \in SUBSET Run
    BY <1>1 DEF State
  <2>6. /\ y \in State /\ y.runs = R /\ y.active = s.active /\ y.pending = s.pending
        /\ y.limit = s.limit /\ y.priority = s.priority /\ y.status = a
    BY <2>1, <2>4, <2>5 DEF State
  <2> QED BY <2>2, <2>6
<1>3. IsFiniteSet(R)
  BY <1>1, FS_Subset DEF Core
<1>4. RunsSound(y)
  BY <1>1, <1>2 DEF Core, RunsSound
<1>5. Live(y)
  <2> SUFFICES ASSUME NEW u \in Tasks, y.active[u] # 0
               PROVE  \E r \in y.runs : r.task = u /\ r.gen = y.active[u] /\ ~r.cancelled
    BY DEF Live
  <2>1. PICK r \in s.runs : r.task = u /\ r.gen = s.active[u] /\ ~r.cancelled
    BY <1>1, <1>2 DEF Core, Live
  <2>2. u # t
    BY <1>2
  <2>3. r \in R
    BY <2>1, <2>2
  <2> QED BY <1>2, <2>1, <2>3
<1>6. Rowed(y)
  BY <1>1, <1>2 DEF Core, Rowed
<1>7. \A i \in DOMAIN s.pending : s.pending[i].task \in Tasks \ {t}
  BY <1>1, QueueEntries DEF Queued
<1>8. Good(y)
  BY <1>2, <1>3, <1>4, <1>5, <1>6, <1>7 DEF Good, Core, Once, Waits
<1>9. Follows(s, y)
  <2>1. \A u \in Tasks : s.status[u] \notin Terminal => y.status[u] \notin Terminal
    BY <1>2 DEF Terminal
  <2>2. \A u \in Tasks : \A g \in Nat : Orphan(y, u, g) => Orphan(s, u, g)
    BY <1>2 DEF Orphan
  <2> QED BY <2>1, <2>2 DEF Follows
<1> DEFINE z == EndBoostOf(y, t, order)
<1>10. /\ Good(z) /\ Keeps(y, z) /\ z.limit = y.limit
       /\ z.priority # t \/ t = NoTask
       /\ z.priority = y.priority \/ z.priority = NoTask
       /\ y.priority # t => z = y
  <2>1. z = EndBoostOf(y, t, order)
    OBVIOUS
  <2> HIDE DEF z
  <2> QED BY ONLY <1>8, <2>1, order \in Seq(Tasks), EndBoostKeeps
<1>11. x = DrainQueue(z)
  OBVIOUS
<1> HIDE DEF z
<1>12. /\ Good(x) /\ Keeps(z, x) /\ x.limit = z.limit
       /\ x.priority = z.priority /\ StillRuns(z, x)
  BY <1>10, <1>11, DrainKeeps
<1>13. Leaves(s, x)
  BY <1>9, <1>10, <1>12, FollowsThrough DEF Keeps, Leaves, Follows
<1>14. R = s.runs => Taken(y) = Taken(s)
  BY <1>2 DEF Taken
<1>15. KeepsBoost(s, x) /\ x.priority # t
  <2>1. t # NoTask
    BY LifecycleAssumption
  <2>2. CASE s.priority = t
    BY <1>2, <1>10, <1>12, <2>1, <2>2 DEF KeepsBoost
  <2>3. CASE s.priority # t
    BY <1>2, <1>10, <1>12, <2>3 DEF KeepsBoost, StillRuns
  <2> QED BY <2>2, <2>3
<1> QED BY <1>2, <1>8, <1>10, <1>12, <1>13, <1>14, <1>15 DEF Keeps

\* A run is gone, and the entry of its task if it was its own.
WithoutRun(s, r) == [s EXCEPT !.runs = @ \ {r}]

Freed(s, r, order) ==
    IF s.active[r.task] = r.gen
    THEN EndBoostOf(Dropped(WithoutRun(s, r), r.task), r.task, order)
    ELSE WithoutRun(s, r)

LEMMA DoneServes ==
    ASSUME NEW s, Good(s), NEW r \in s.runs, NEW order \in Seq(Tasks),
           NEW n, n = DrainQueue(Freed(s, r, order))
    PROVE  /\ Good(n) /\ Leaves(s, n) /\ Taken(n) = Taken(WithoutRun(s, r)) /\ KeepsBoost(s, n)
           /\ s.priority # r.task => \E f : /\ n = DrainQueue(f) /\ Stops(s, f)
                                          /\ Good(f) /\ f.priority = s.priority
<1> DEFINE t == r.task
           y == WithoutRun(s, r)
           freed == Freed(s, r, order)
           R == s.runs \ {r}
           a == IF s.active[t] = r.gen THEN [s.active EXCEPT ![t] = 0] ELSE s.active
           z == Changed(s, R, a)
<1>1. Core(s) /\ s \in State /\ t \in Tasks /\ r.gen \in Nat
  BY DEF Good, Core, State, Run
<1>2. R \in SUBSET Run /\ a \in [Tasks -> Nat]
  BY <1>1 DEF State
<1>3. /\ \A u \in Tasks : a[u] = s.active[u] \/ (u = t /\ s.active[t] = r.gen /\ a[u] = 0)
      /\ s.active[t] = r.gen => a[t] = 0
  BY <1>1 DEF State
<1>4. /\ s.active[t] = r.gen => Dropped(y, t) = z
      /\ s.active[t] # r.gen => y = z
  BY <1>1 DEF State, Changed, WithoutRun, Dropped
<1>5. \A u : u \in Taken(y) <=> u \in Taken(z)
  <2>1. y.runs = R /\ z.runs = R
    BY <1>1 DEF State, Changed, WithoutRun
  <2> QED BY <2>1 DEF Taken
<1>6. R \subseteq s.runs /\ \A q \in s.runs : q # r => q \in R
  OBVIOUS
<1> HIDE DEF R, a
<1>7. /\ z \in State /\ z.runs = R /\ z.active = a
      /\ z.status = s.status /\ z.pending = s.pending
      /\ z.priority = s.priority /\ z.limit = s.limit
  BY <1>1, <1>2, WithRuns
<1> HIDE DEF z
<1>8. IsFiniteSet(R) /\ RunsSound(z)
  BY <1>1, <1>6, <1>7, FS_Subset DEF Core, RunsSound
<1>9. Live(z)
  <2> SUFFICES ASSUME NEW u \in Tasks, z.active[u] # 0
               PROVE  \E q \in z.runs : q.task = u /\ q.gen = z.active[u] /\ ~q.cancelled
    BY DEF Live
  <2>1. a[u] = s.active[u] /\ s.active[u] # 0
    BY <1>3, <1>7
  <2>2. PICK q \in s.runs : q.task = u /\ q.gen = s.active[u] /\ ~q.cancelled
    BY <1>1, <2>1 DEF Core, Live
  <2>3. q # r
    BY <1>3, <1>7, <2>1, <2>2
  <2> QED BY <1>6, <1>7, <2>1, <2>2, <2>3
<1>10. Rowed(z)
  BY <1>1, <1>3, <1>7 DEF Core, Rowed
<1>11. Good(z)
  <2>1. \A i \in DOMAIN s.pending : s.pending[i].task \in Tasks
    BY <1>1, QueueEntries
  <2>2. Waits(z)
    BY <1>3, <1>7, <2>1 DEF Good, Waits
  <2> QED BY <1>7, <1>8, <1>9, <1>10, <2>2 DEF Good, Core, Once
<1>12. Follows(s, z)
  <2> SUFFICES ASSUME NEW u \in Tasks, NEW g \in Nat, Orphan(z, u, g)
               PROVE  Orphan(s, u, g)
    BY <1>7 DEF Follows
  <2>1. PICK q \in R : q.task = u /\ q.gen = g /\ ~q.cancelled /\ a[u] # g
    BY <1>7 DEF Orphan
  <2>2. q \in s.runs
    BY <1>6
  <2>3. s.active[u] # g
    <3>1. CASE a[u] = s.active[u]
      BY <2>1, <3>1
    <3>2. CASE u = t /\ s.active[t] = r.gen /\ a[u] = 0
      <4> SUFFICES ASSUME g = r.gen PROVE FALSE
        BY <3>2
      <4>1. q = r
        BY <1>1, <2>1, <2>2, <3>2 DEF Core, RunsSound
      <4> QED BY <4>1 DEF R
    <3> QED BY <1>3, <3>1, <3>2
  <2> QED BY <2>1, <2>2, <2>3 DEF Orphan
<1>13. Good(freed) /\ Keeps(z, freed)
  <2>1. CASE s.active[t] = r.gen
    <3>1. freed = EndBoostOf(z, t, order)
      BY <1>4, <2>1 DEF Freed
    <3> QED BY ONLY <1>11, <3>1, order \in Seq(Tasks), EndBoostKeeps
  <2>2. CASE s.active[t] # r.gen
    BY <1>4, <1>11, <2>2, KeepsSelf DEF Freed
  <2> QED BY <2>1, <2>2
<1>17. s.priority # t => freed = z
  <2>1. CASE s.active[t] = r.gen
    <3>1. freed = EndBoostOf(z, t, order)
      BY <1>4, <2>1 DEF Freed
    <3> QED BY <1>7, <3>1 DEF EndBoostOf
  <2>2. CASE s.active[t] # r.gen
    BY <1>4, <2>2 DEF Freed
  <2> QED BY <2>1, <2>2
<1>18. s.priority # t => n = DrainQueue(freed) /\ Stops(s, freed)
                         /\ Good(freed) /\ freed.priority = s.priority
  <2>1. n = DrainQueue(freed)
    OBVIOUS
  <2> HIDE DEF freed
  <2>2. Stops(s, z)
    BY <1>1, <1>3, <1>7 DEF Stops
  <2> QED BY <1>7, <1>11, <1>17, <2>1, <2>2
<1>19. freed.priority = NoTask \/ freed = z
  <2>1. CASE s.active[t] = r.gen
    <3>1. freed = EndBoostOf(z, t, order)
      BY <1>4, <2>1 DEF Freed
    <3>2. /\ freed.priority # t \/ t = NoTask
          /\ freed.priority = z.priority \/ freed.priority = NoTask
          /\ z.priority # t => freed = z
      BY ONLY <1>11, <3>1, order \in Seq(Tasks), EndBoostKeeps
    <3>3. t # NoTask
      BY <1>1, LifecycleAssumption
    <3> HIDE DEF freed, t
    <3> QED BY <3>2, <3>3
  <2>2. CASE s.active[t] # r.gen
    BY <1>4, <2>2 DEF Freed
  <2> QED BY <2>1, <2>2
<1>20. s.priority # t \/ s.active[t] # r.gen => KeepsBoost(s, z)
  BY <1>1, <1>3, <1>7 DEF KeepsBoost
<1>21. s.priority = t /\ s.active[t] = r.gen => freed.priority = NoTask
  <2> SUFFICES ASSUME s.priority = t, s.active[t] = r.gen
               PROVE  freed.priority = NoTask
    OBVIOUS
  <2>1. freed = EndBoostOf(z, t, order)
    BY <1>4 DEF Freed
  <2>2. freed.priority # t \/ t = NoTask
    BY ONLY <1>11, <2>1, order \in Seq(Tasks), EndBoostKeeps
  <2>3. t # NoTask
    BY <1>1, LifecycleAssumption
  <2> HIDE DEF freed
  <2> QED BY <1>7, <1>19, <2>2, <2>3
<1>14. /\ Good(n) /\ Keeps(freed, n)
       /\ n.priority = freed.priority /\ StillRuns(freed, n)
  <2>1. n = DrainQueue(freed)
    OBVIOUS
  <2> HIDE DEF freed
  <2> QED BY ONLY <1>13, <2>1, DrainKeeps
<1>15. Leaves(s, n)
  BY <1>12, <1>13, <1>14, FollowsThrough DEF Keeps, Leaves, Follows
<1>16. Taken(y) = Taken(z)
  <2>1. \A u \in Taken(y) : u \in Taken(z)
    BY <1>5
  <2>2. \A u \in Taken(z) : u \in Taken(y)
    BY <1>5
  <2> QED BY <2>1, <2>2
<1> HIDE DEF freed
<1>22. KeepsBoost(s, n)
  BY <1>14, <1>19, <1>20, <1>21 DEF KeepsBoost, StillRuns
<1> QED BY <1>13, <1>14, <1>15, <1>16, <1>18, <1>22 DEF Keeps

\* The program ends.
LEMMA CrashServes ==
    ASSUME NEW s, Good(s), NEW x,
           x = [s EXCEPT !.status = [t \in Tasks |->
                          IF @[t] \in {"pending", "preparing", "downloading"} THEN "paused" ELSE @[t]],
                      !.active = [t \in Tasks |-> 0], !.pending = <<>>,
                      !.retries = [t \in Tasks |-> 0], !.scheduled = {},
                      !.priority = NoTask, !.autoPaused = {}, !.runs = {}]
    PROVE  Good(x) /\ Leaves(s, x) /\ x.runs = {}
<1> DEFINE f == [t \in Tasks |->
                   IF s.status[t] \in {"pending", "preparing", "downloading"} THEN "paused" ELSE s.status[t]]
<1>1. s \in State
  BY DEF Good, Core
<1>2. f \in [Tasks -> Statuses]
  BY <1>1 DEF State, Statuses
<1> HIDE DEF f
<1>3. /\ x.status = f /\ x.active = [t \in Tasks |-> 0] /\ x.pending = <<>>
      /\ x.retries = [t \in Tasks |-> 0] /\ x.scheduled = {} /\ x.priority = NoTask
      /\ x.autoPaused = {} /\ x.runs = {} /\ x.name = s.name /\ x.limit = s.limit
      /\ x = [status |-> x.status, name |-> x.name, active |-> x.active, pending |-> x.pending,
              retries |-> x.retries, scheduled |-> x.scheduled, priority |-> x.priority,
              autoPaused |-> x.autoPaused, limit |-> x.limit, runs |-> x.runs]
  BY <1>1 DEF State, f
<1>4. 0 \in 0 .. MaxRetries
  BY LifecycleAssumption
<1>5. /\ x.status \in [Tasks -> Statuses] /\ x.name \in [Tasks -> Names]
      /\ x.active \in [Tasks -> Nat] /\ x.pending \in Seq(Entry)
      /\ x.retries \in [Tasks -> 0 .. MaxRetries] /\ x.scheduled \in SUBSET Tasks
      /\ x.priority \in Tasks \cup {NoTask} /\ x.autoPaused \in SUBSET Tasks
      /\ x.limit \in Limits /\ x.runs \in SUBSET Run
  BY <1>1, <1>2, <1>3, <1>4 DEF State
<1>6. x \in State
  BY <1>3, <1>5 DEF State
<1>7. Good(x)
  BY <1>3, <1>6, FS_EmptySet DEF Good, Core, RunsSound, Live, Rowed, Once, Waits
<1>8. Leaves(s, x)
  BY <1>3 DEF Leaves, Orphan
<1> QED BY <1>3, <1>7, <1>8

-----------------------------------------------------------------------------
(***************************************************************************)
(* The steps of a run.                                                     *)
(***************************************************************************)

\* One run of the record gives way to its next state.
Stepped(s, r, q) == [s EXCEPT !.runs = (s.runs \ {r}) \cup {q}]

LEMMA SteppedKeeps ==
    ASSUME NEW s, Good(s), NEW r \in s.runs, NEW q \in Run,
           q.task = r.task, q.gen = r.gen, q.cancelled = r.cancelled, q.resumed = r.resumed,
           q.phase # "naming", q.file \in Names,
           NEW x, x = Stepped(s, r, q)
    PROVE  /\ Good(x) /\ Fewer(s, x)
           /\ x.runs = (s.runs \ {r}) \cup {q}
           /\ x.status = s.status /\ x.active = s.active /\ x.pending = s.pending /\ x.name = s.name
           /\ r.phase # "naming" /\ q.file = r.file => Taken(x) = Taken(s)
<1> DEFINE R == (s.runs \ {r}) \cup {q}
<1>1. s \in State /\ Core(s)
  BY DEF Good, Core
<1>2. R \in SUBSET Run
  BY <1>1 DEF State
<1>3. \A p \in R : p = q \/ (p \in s.runs /\ p # r)
  OBVIOUS
<1>4. q \in R /\ \A p \in s.runs : p # r => p \in R
  OBVIOUS
<1>5. IsFiniteSet(R)
  <2>1. IsFiniteSet(s.runs \ {r})
    BY <1>1, FS_Subset DEF Core
  <2> QED BY <2>1, FS_AddElement
<1> HIDE DEF R
<1>6. x = [s EXCEPT !.runs = R]
  BY DEF Stepped, R
<1>7. /\ x \in State /\ x.runs = R
      /\ x.status = s.status /\ x.active = s.active /\ x.pending = s.pending /\ x.name = s.name
  BY <1>1, <1>2, <1>6 DEF State
<1>8. RunsSound(x)
  BY <1>1, <1>3, <1>7 DEF Core, RunsSound
<1>9. Live(x)
  <2> SUFFICES ASSUME NEW u \in Tasks, s.active[u] # 0
               PROVE  \E p \in R : p.task = u /\ p.gen = s.active[u] /\ ~p.cancelled
    BY <1>7 DEF Live
  <2>1. PICK p \in s.runs : p.task = u /\ p.gen = s.active[u] /\ ~p.cancelled
    BY <1>1 DEF Core, Live
  <2> QED BY <1>4, <2>1
<1>10. Good(x)
  BY <1>1, <1>5, <1>7, <1>8, <1>9 DEF Good, Core, Rowed, Once, Waits
<1>11. Fewer(s, x)
  BY <1>3, <1>7 DEF Fewer, Orphan
<1>12. ASSUME r.phase # "naming", q.file = r.file
       PROVE  Taken(x) = Taken(s)
  <2>1. \A y : y \in Taken(x) <=> \E p \in R : ~p.resumed /\ p.phase # "naming" /\ y = <<p.task, p.gen, p.file>>
    BY <1>7 DEF Taken
  <2>2. \A y : y \in Taken(s) <=> \E p \in s.runs : ~p.resumed /\ p.phase # "naming" /\ y = <<p.task, p.gen, p.file>>
    BY DEF Taken
  <2>3. \A y : y \in Taken(x) => y \in Taken(s)
    BY <1>3, <1>12, <2>1, <2>2
  <2>4. \A y : y \in Taken(s) => y \in Taken(x)
    BY <1>4, <1>12, <2>1, <2>2
  <2> QED BY <2>3, <2>4
<1> QED BY <1>7, <1>10, <1>11, <1>12 DEF R

\* Another phase of a run that is past naming.
LEMMA MovedKeeps ==
    ASSUME NEW s, Good(s), NEW r \in s.runs, r.phase # "naming",
           NEW phase \in Phases, phase # "naming",
           NEW x, x = [s EXCEPT !.runs = (@ \ {r}) \cup {[r EXCEPT !.phase = phase]}]
    PROVE  /\ Good(x) /\ Fewer(s, x) /\ Taken(x) = Taken(s)
           /\ x.status = s.status /\ x.name = s.name
           /\ x.active = s.active /\ x.pending = s.pending
           /\ r.task \in Tasks /\ r.file \in Names
<1> DEFINE q == [r EXCEPT !.phase = phase]
<1>1. r \in Run /\ r.file \in Names
  BY DEF Good, Core, State, RunsSound
<1>2. /\ q \in Run /\ q.task = r.task /\ q.gen = r.gen /\ q.cancelled = r.cancelled
      /\ q.resumed = r.resumed /\ q.phase = phase /\ q.file = r.file
  BY <1>1 DEF Run
<1>3. x = Stepped(s, r, q)
  BY DEF Stepped
<1>4. r.task \in Tasks
  BY <1>1 DEF Run
<1> HIDE DEF q
<1>5. q.phase # "naming" /\ q.file \in Names
  BY <1>1, <1>2
<1>6. /\ Good(x) /\ Fewer(s, x)
      /\ x.status = s.status /\ x.name = s.name
      /\ x.active = s.active /\ x.pending = s.pending
      /\ r.phase # "naming" /\ q.file = r.file => Taken(x) = Taken(s)
  BY ONLY Good(s), r \in s.runs, <1>2, <1>3, <1>5, SteppedKeeps
<1> QED BY <1>1, <1>2, <1>4, <1>6

\* ... with a new status of the task and, maybe, a new name.
LEMMA ReportKeeps ==
    ASSUME NEW s, Good(s), NEW t \in Tasks, NEW v \in Statuses \ Gone, NEW name \in Names,
           NEW w, w = WithStatus(s, t, v),
           NEW x, x = w \/ x = [w EXCEPT !.name[t] = name]
    PROVE  Cut(s, x) /\ x.active = s.active /\ x.pending = s.pending
<1>1. Core(s)
  BY DEF Good
<1>2. /\ Good(w) /\ Taken(w) = Taken(s) /\ Fewer(s, w)
      /\ w.active = s.active /\ w.pending = s.pending
  BY <1>1, StatusKeeps, StatusGood
<1>3. CASE x = w
  BY <1>2, <1>3 DEF Cut
<1>4. CASE x = [w EXCEPT !.name[t] = name]
  <2>1. w \in State
    BY <1>2 DEF Good, Core
  <2>2. x \in State /\ Alike(w, x)
    BY <1>4, <2>1 DEF State, Alike
  <2>3. Good(x) /\ Keeps(w, x) /\ Fewer(w, x)
    BY <1>2, <2>2, AlikeGood, AlikeKeeps
  <2> QED BY <1>2, <2>2, <2>3, FewerThrough DEF Cut, Keeps, Alike
<1> QED BY <1>3, <1>4

\* The first free variant is a name, and it is free.
LEMMA FreeNameIsFree ==
    ASSUME NEW t \in Tasks, NEW taken, IsFiniteSet(taken)
    PROVE  FreeName(t, taken) \in Names /\ FreeName(t, taken) \notin taken
<1> DEFINE S == {x \in taken : \E i \in Nat : x = Variant(t, i)}
           f == [x \in S |-> x[2] + 1]
           used == {f[x] : x \in S}
           n == Cardinality(taken)
<1>1. IsFiniteSet(S) /\ Cardinality(S) <= n /\ Cardinality(S) \in Nat /\ n \in Nat
  BY FS_Subset, FS_CardinalityType
<1>2. \A i \in Nat : Variant(t, i) \in taken <=> i + 1 \in used
  <2>1. \A i \in Nat : Variant(t, i)[2] = i
    BY DEF Variant
  <2>2. \A i \in Nat : Variant(t, i) \in taken => i + 1 \in used
    BY <2>1
  <2>3. \A i \in Nat : i + 1 \in used => Variant(t, i) \in taken
    <3> SUFFICES ASSUME NEW i \in Nat, i + 1 \in used
                 PROVE  Variant(t, i) \in taken
      OBVIOUS
    <3>1. PICK x \in S : f[x] = i + 1
      OBVIOUS
    <3>2. PICK j \in Nat : x = Variant(t, j)
      OBVIOUS
    <3>3. f[x] = j + 1
      BY <2>1, <3>2
    <3> QED BY <3>1, <3>2, <3>3
  <2> QED BY <2>2, <2>3
<1>3. IsFiniteSet(used) /\ Cardinality(used) \in Nat /\ Cardinality(used) <= n
  <2>1. f \in Surjection(S, used)
    BY DEF Surjection
  <2> HIDE DEF f, used, S, n
  <2>2. IsFiniteSet(used) /\ Cardinality(used) <= Cardinality(S)
    BY <1>1, <2>1, FS_Surjection
  <2> QED BY <1>1, <2>2, FS_CardinalityType
<1> HIDE DEF used, S, f, n
<1>4. PICK g \in 1 .. Cardinality(used) + 1 : g \notin used /\ \A h \in 1 .. g - 1 : h \in used
  BY <1>3, LeastUnused
<1>5. g - 1 \in 0 .. n /\ g - 1 \in Nat /\ (g - 1) + 1 = g
  BY <1>1, <1>3, <1>4
<1>6. Variant(t, g - 1) \notin taken
  BY <1>2, <1>4, <1>5
<1>7. \A j \in 0 .. (g - 1) - 1 : j \in Nat /\ j + 1 \in 1 .. g - 1
  BY <1>3, <1>4
<1>8. \A j \in 0 .. (g - 1) - 1 : Variant(t, j) \in taken
  BY <1>2, <1>4, <1>7
<1> DEFINE Free(i) == Variant(t, i) \notin taken /\ \A j \in 0 .. i - 1 : Variant(t, j) \in taken
           c == CHOOSE i \in 0 .. n : Free(i)
<1>9. FreeName(t, taken) = Variant(t, c)
  BY DEF FreeName, n
<1>10. c \in 0 .. n /\ Free(c)
  <2>1. Free(g - 1)
    BY <1>6, <1>8
  <2> HIDE DEF Free
  <2> QED BY <1>5, <2>1
<1> HIDE DEF c
<1> QED BY <1>1, <1>9, <1>10 DEF Variant, Names

-----------------------------------------------------------------------------
(***************************************************************************)
(* The steps of the specification.                                         *)
(***************************************************************************)

\* While a task is being deleted it has no entry and does not wait.
DeletedAlone ==
    ~Idle => /\ deleting.task \in Tasks
             /\ m.active[deleting.task] = 0
             /\ ~Queued(m, deleting.task)

FilesFinite == IsFiniteSet(reserved) /\ IsFiniteSet(temp) /\ IsFiniteSet(final)

LifecycleInv == Good(m) /\ DeletedAlone /\ FilesFinite /\ calls \in 0 .. MaxCalls

\* Sets of tasks that are iterated: those the boost paused, or all.
LEMMA SomeOrder ==
    ASSUME Good(m)
    PROVE  /\ \A order \in Orders(m.autoPaused) : order \in Seq(Tasks)
           /\ \A order \in Orders(Tasks) : order \in Seq(Tasks)
<1>1. m.autoPaused \in SUBSET Tasks /\ Tasks \in SUBSET Tasks
  BY DEF Good, Core, State
<1>2. \A S \in SUBSET Tasks : \A order \in Orders(S) : order \in Seq(Tasks)
  BY OrdersAreSequences
<1> QED BY <1>1, <1>2

\* The requests that leave the actor where it was.
LEMMA RequestServes ==
    ASSUME Good(m), NEW t \in Tasks,
           \/ Create(t) \/ PauseTask(t) \/ ResumeTask(t) \/ CancelTask(t)
           \/ RestartTask(t) \/ SetPriorityTask(t)
    PROVE  Served(m, m') /\ reserved' = reserved /\ Idle /\ deleting' = deleting
<1>1. CASE Create(t)
  <2>1. \A s, x, row : /\ Good(s) /\ s.status[t] = "absent" /\ row = [s EXCEPT !.status[t] = "pending"]
                       /\ \/ x = IF MayStart(row, t) THEN DrainQueue(Spawn(row, t, FALSE))
                                 ELSE [row EXCEPT !.pending = Append(@, [task |-> t, resume |-> FALSE])]
                          \/ x = WithStatus(row, t, "paused")
                       => Served(s, x)
    BY CreateServes
  <2>2. PICK row : /\ row = [m EXCEPT !.status[t] = "pending"]
                   /\ \/ m' = IF MayStart(row, t) THEN DrainQueue(Spawn(row, t, FALSE))
                              ELSE [row EXCEPT !.pending = Append(@, [task |-> t, resume |-> FALSE])]
                      \/ m' = WithStatus(row, t, "paused")
    BY <1>1 DEF Create
  <2>3. m.status[t] = "absent" /\ reserved' = reserved /\ Idle /\ deleting' = deleting
    BY <1>1 DEF Create
  <2>4. Served(m, m')
    BY <2>1, <2>2, <2>3
  <2> QED BY <2>3, <2>4
<1>2. CASE PauseTask(t)
  <2>1. \A s, x : \A order \in Seq(Tasks) :
          Good(s) /\ x = PauseInner(s, t, order) => Good(x) /\ Keeps(s, x)
    BY PauseInnerKeeps DEF Paused
  <2>2. PICK order \in Orders(m.autoPaused) : m' = PauseInner(m, t, order)
    BY <1>2 DEF PauseTask
  <2>3. order \in Seq(Tasks)
    BY SomeOrder
  <2>4. Good(m') /\ Keeps(m, m')
    BY <2>1, <2>2, <2>3
  <2>5. reserved' = reserved /\ Idle /\ deleting' = deleting
    BY <1>2 DEF PauseTask, Request
  <2> QED BY <2>4, <2>5, KeepsServed
<1>3. CASE ResumeTask(t)
  <2>1. \A s, x : Good(s) /\ x = Resume(s, t) => Good(x) /\ Keeps(s, x)
    BY ResumeKeeps
  <2>2. m' = Resume(m, t) /\ reserved' = reserved /\ Idle /\ deleting' = deleting
    BY <1>3 DEF ResumeTask, Request
  <2>3. Good(m') /\ Keeps(m, m')
    BY <2>1, <2>2
  <2> QED BY <2>2, <2>3, KeepsServed
<1>4. CASE CancelTask(t)
  <2>1. \A s, x : /\ Good(s)
                  /\ x = LET y == Unqueued([s EXCEPT !.retries[t] = 0], t) IN
                         DrainQueue(WithStatus(IF y.active[t] = 0 THEN y ELSE Cancelled(y, t), t, "cancelled"))
                  => Served(s, x)
    BY CancelServes
  <2>2. m' = LET y == Unqueued([m EXCEPT !.retries[t] = 0], t) IN
             DrainQueue(WithStatus(IF y.active[t] = 0 THEN y ELSE Cancelled(y, t), t, "cancelled"))
    BY <1>4 DEF CancelTask
  <2>3. reserved' = reserved /\ Idle /\ deleting' = deleting
    BY <1>4 DEF CancelTask, Request
  <2>4. Served(m, m')
    BY <2>1, <2>2
  <2> QED BY <2>3, <2>4
<1>5. CASE RestartTask(t)
  <2>1. \A s, x, p : \A order \in Seq(Tasks) :
          /\ Good(s) /\ (p = s \/ p = PauseInner(s, t, order))
          /\ x = Resume([p EXCEPT !.status[t] = "pending", !.scheduled = @ \ {t}], t)
          => Served(s, x)
    BY RestartServes
  <2>2. PICK order \in Orders(m.autoPaused) :
          \E p : /\ p = m \/ p = PauseInner(m, t, order)
                 /\ m' = Resume([p EXCEPT !.status[t] = "pending", !.scheduled = @ \ {t}], t)
    BY <1>5 DEF RestartTask
  <2>3. order \in Seq(Tasks)
    BY SomeOrder
  <2>4. Served(m, m')
    BY <2>1, <2>2, <2>3
  <2>5. reserved' = reserved /\ Idle /\ deleting' = deleting
    BY <1>5 DEF RestartTask, Request
  <2> QED BY <2>4, <2>5
<1>6. CASE SetPriorityTask(t)
  <2>1. \A s, x : \A order \in Seq(Tasks) :
          Good(s) /\ x = SetPriority(s, t, order) => Good(x) /\ Keeps(s, x)
    BY SetPriorityKeeps
  <2>2. PICK order \in Orders(Tasks) : m' = SetPriority(m, t, order)
    BY <1>6 DEF SetPriorityTask
  <2>3. order \in Seq(Tasks)
    BY SomeOrder
  <2>4. Good(m') /\ Keeps(m, m')
    BY <2>1, <2>2, <2>3
  <2>5. reserved' = reserved /\ Idle /\ deleting' = deleting
    BY <1>6 DEF SetPriorityTask, Request
  <2> QED BY <2>4, <2>5, KeepsServed
<1> QED BY <1>1, <1>2, <1>3, <1>4, <1>5, <1>6

LEMMA SetMaxConcurrentServes ==
    ASSUME Good(m), SetMaxConcurrent
    PROVE  Served(m, m') /\ reserved' = reserved /\ Idle /\ deleting' = deleting
<1>1. \A s, x : \A n \in Limits : Good(s) /\ x = DrainQueue([s EXCEPT !.limit = n]) => Served(s, x)
  BY LimitServes
<1>2. PICK n \in Limits : m' = DrainQueue([m EXCEPT !.limit = n])
  BY DEF SetMaxConcurrent
<1>3. reserved' = reserved /\ Idle /\ deleting' = deleting
  BY DEF SetMaxConcurrent, Request
<1>4. Served(m, m')
  BY <1>1, <1>2
<1> QED BY <1>3, <1>4

LEMMA DeleteTaskServes ==
    ASSUME Good(m), NEW t \in Tasks, DeleteTask(t)
    PROVE  Served(m, m') /\ reserved' = reserved /\ DeletedAlone'
<1>1. \A s, x : /\ Good(s)
                /\ x = LET y == Unqueued([s EXCEPT !.retries[t] = 0, !.scheduled = @ \ {t}], t) IN
                       IF y.active[t] = 0 THEN y ELSE Cancelled(y, t)
                => Served(s, x) /\ x.active[t] = 0 /\ ~Queued(x, t)
  BY DeleteServes
<1>2. m' = LET y == Unqueued([m EXCEPT !.retries[t] = 0, !.scheduled = @ \ {t}], t) IN
           IF y.active[t] = 0 THEN y ELSE Cancelled(y, t)
  BY DEF DeleteTask
<1>3. reserved' = reserved /\ deleting'.task = t
  BY DEF DeleteTask
<1>4. Served(m, m') /\ m'.active[t] = 0 /\ ~Queued(m', t)
  BY <1>1, <1>2
<1>5. Queued(m', t) = Queued(m, t)'
  BY DEF Queued
<1>6. DeletedAlone'
  BY <1>3, <1>4 DEF DeletedAlone, Queued
<1> QED BY <1>3, <1>4, <1>6

LEMMA CrashStepServes ==
    ASSUME Good(m), Crash
    PROVE  Good(m') /\ Leaves(m, m') /\ Taken(m') = {} /\ reserved' = {} /\ Idle'
<1>1. \A s, x : /\ Good(s)
                /\ x = [s EXCEPT !.status = [t \in Tasks |->
                             IF @[t] \in {"pending", "preparing", "downloading"} THEN "paused" ELSE @[t]],
                         !.active = [t \in Tasks |-> 0], !.pending = <<>>,
                         !.retries = [t \in Tasks |-> 0], !.scheduled = {},
                         !.priority = NoTask, !.autoPaused = {}, !.runs = {}]
                => Good(x) /\ Leaves(s, x) /\ x.runs = {}
  BY CrashServes
<1>2. Good(m') /\ Leaves(m, m') /\ m'.runs = {}
  BY <1>1 DEF Crash
<1>3. Taken(m') = {}
  BY <1>2 DEF Taken
<1> QED BY <1>2, <1>3 DEF Crash, Idle

LEMMA FinishDeleteServes ==
    ASSUME LifecycleInv, NEW aborted \in BOOLEAN, FinishDelete(aborted)
    PROVE  /\ Good(m') /\ Leaves(m, m') /\ Idle'
           /\ aborted => SlowExit
           /\ ~aborted => Taken(m') = Taken(m) /\ reserved' = reserved
<1> DEFINE t == deleting.task
           handle == {r \in m.runs : r.task = t /\ r.gen = deleting.gen}
           R == IF aborted THEN m.runs \ handle ELSE m.runs
<1>1. Good(m) /\ t \in Tasks /\ m.active[t] = 0 /\ ~Queued(m, t)
  BY DEF LifecycleInv, DeletedAlone, FinishDelete
<1>2. \A s, x, y : \A order \in Seq(Tasks) : \A S \in SUBSET s.runs :
        /\ Good(s) /\ s.active[t] = 0 /\ ~Queued(s, t)
        /\ \A r \in s.runs : r.task = t \/ r \in S
        /\ y = Erased(s, t, S)
        /\ x = DrainQueue(EndBoostOf(y, t, order))
        => Good(x) /\ Leaves(s, x) /\ (S = s.runs => Taken(x) = Taken(s))
  <2> HIDE DEF t
  <2> QED BY <1>1, FinishServes
<1>3. PICK order \in Orders(m.autoPaused) :
        \E y : /\ y = Erased(m, t, R)
               /\ m' = DrainQueue(EndBoostOf(y, t, order))
  <2>1. PICK o \in Orders(m.autoPaused) :
          m' = DrainQueue(EndBoostOf(
                 [m EXCEPT !.status[t] = "deleted", !.autoPaused = @ \ {t},
                           !.runs = IF aborted THEN @ \ handle ELSE @], t, o))
    BY DEF FinishDelete
  <2>2. [m EXCEPT !.status[t] = "deleted", !.autoPaused = @ \ {t},
                  !.runs = IF aborted THEN @ \ handle ELSE @] =
          Erased(m, t, R)
    BY DEF Erased
  <2> QED BY <2>1, <2>2
<1>4. order \in Seq(Tasks)
  BY <1>1, SomeOrder
<1>5. R \in SUBSET m.runs /\ (\A r \in m.runs : r.task = t \/ r \in R) /\ (~aborted => R = m.runs)
  OBVIOUS
<1>6. /\ aborted => SlowExit
      /\ ~aborted => reserved' = reserved
      /\ deleting' = NoDelete
  BY DEF FinishDelete
<1> HIDE DEF R, t, handle
<1>7. Good(m') /\ Leaves(m, m') /\ (R = m.runs => Taken(m') = Taken(m))
  BY <1>1, <1>2, <1>3, <1>4, <1>5
<1> QED BY <1>5, <1>6, <1>7 DEF Idle

\* What the manager does of its own with a run that has ended.
LEMMA OnTaskDoneServes ==
    ASSUME Good(m), NEW r \in m.runs, OnTaskDone(r)
    PROVE  /\ Good(m') /\ Leaves(m, m') /\ Idle /\ deleting' = deleting
           /\ r.phase = "ended" /\ reserved' = Released(r)
           /\ \E y : y.runs = m.runs \ {r} /\ Taken(m') = Taken(y)
<1> DEFINE t == r.task
           y == WithoutRun(m, r)
<1>1. \A s, x : \A p \in s.runs : \A o \in Seq(Tasks) :
        Good(s) /\ x = DrainQueue(Freed(s, p, o))
        => Good(x) /\ Leaves(s, x) /\ Taken(x) = Taken(WithoutRun(s, p))
  BY DoneServes
<1>2. PICK order \in Orders(m.autoPaused) :
        LET n == DrainQueue(Freed(m, r, order)) IN
        \/ /\ n.retries[t] < MaxRetries
           /\ m' = [n EXCEPT !.retries[t] = @ + 1, !.scheduled = @ \cup {t}]
        \/ m' = [n EXCEPT !.retries[t] = 0]
        \/ m' = n
  BY DEF OnTaskDone, Matches, Freed, WithoutRun, Dropped
<1>3. order \in Seq(Tasks)
  BY SomeOrder
<1> DEFINE n == DrainQueue(Freed(m, r, order))
<1>4. \/ n.retries[t] < MaxRetries /\ m' = [n EXCEPT !.retries[t] = @ + 1, !.scheduled = @ \cup {t}]
      \/ m' = [n EXCEPT !.retries[t] = 0]
      \/ m' = n
  BY <1>2
<1> HIDE DEF n, y
<1>12. Good(n) /\ Leaves(m, n) /\ Taken(n) = Taken(y)
  BY <1>1, <1>3 DEF n, y
<1>5. m \in State /\ t \in Tasks
  BY DEF Good, Core, State, Run
<1>6. y.runs = m.runs \ {r}
  BY <1>5 DEF State, y, WithoutRun
<1> HIDE DEF t
<1>7. m' \in State /\ Alike(n, m')
  <2>1. n \in State /\ MaxRetries \in Nat
    BY <1>12, LifecycleAssumption DEF Good, Core
  <2>2. CASE n.retries[t] < MaxRetries /\ m' = [n EXCEPT !.retries[t] = @ + 1, !.scheduled = @ \cup {t}]
    <3>1. n.retries[t] + 1 \in 0 .. MaxRetries
      BY <1>5, <2>1, <2>2 DEF State
    <3> DEFINE k == n.retries[t] + 1
               a == [n EXCEPT !.retries[t] = k]
    <3>2. m' = [a EXCEPT !.scheduled = n.scheduled \cup {t}]
      BY <2>1, <2>2 DEF State
    <3> HIDE DEF k
    <3>3. a \in State /\ Alike(n, a) /\ a.scheduled = n.scheduled
      BY <1>5, <2>1, <3>1 DEF State, Alike, k
    <3> HIDE DEF a
    <3>4. n.scheduled \cup {t} \in SUBSET Tasks
      BY <1>5, <2>1 DEF State
    <3>5. m' \in State /\ Alike(a, m')
      BY <3>2, <3>3, <3>4 DEF State, Alike
    <3> QED BY <3>3, <3>5 DEF Alike
  <2>3. CASE m' = [n EXCEPT !.retries[t] = 0]
    <3>1. 0 \in 0 .. MaxRetries
      BY <2>1
    <3> QED BY <1>5, <2>1, <2>3, <3>1 DEF State, Alike
  <2>4. CASE m' = n
    BY <2>1, <2>4 DEF Alike
  <2> QED BY <1>4, <2>2, <2>3, <2>4
<1>8. Good(m') /\ Keeps(n, m') /\ Fewer(n, m')
  BY <1>7, <1>12, AlikeGood, AlikeKeeps
<1>9. Leaves(m, m')
  BY <1>8, <1>12 DEF Leaves, Fewer
<1>10. Taken(m') = Taken(y)
  BY <1>8, <1>12 DEF Keeps
<1>11. Idle /\ deleting' = deleting /\ r.phase = "ended" /\ reserved' = Released(r)
  BY DEF OnTaskDone
<1> QED BY <1>6, <1>8, <1>9, <1>10, <1>11

LEMMA RetryFiresServes ==
    ASSUME Good(m), NEW t \in Tasks, RetryFires(t)
    PROVE  Served(m, m') /\ reserved' = reserved /\ Idle /\ deleting' = deleting
<1>1. \A s, x : Good(s) /\ x = ResumeInner(s, t) => Good(x) /\ Keeps(s, x)
  BY ResumeInnerKeeps
<1>2. /\ m' = ResumeInner(m, t) \/ m' = m
      /\ reserved' = reserved /\ Idle /\ deleting' = deleting
  BY DEF RetryFires
<1>3. CASE m' = ResumeInner(m, t)
  <2>1. Good(m') /\ Keeps(m, m')
    BY <1>1, <1>3
  <2> QED BY <1>2, <2>1, KeepsServed
<1>4. CASE m' = m
  <2>1. Keeps(m, m')
    BY <1>4, KeepsSelf
  <2> QED BY <1>2, <1>4, <2>1, KeepsServed
<1> QED BY <1>2, <1>3, <1>4

\* What the step of a run leaves of the record.
Ran(s, x) == Cut(s, x) /\ x.active = s.active /\ x.pending = s.pending

LEMMA RanServed == \A s, x : Ran(s, x) => Served(s, x)
BY FewerServed DEF Ran, Cut

LEMMA MoveRan ==
    ASSUME Good(m), NEW r \in m.runs, r.phase # "naming", NEW phase \in Phases, phase # "naming"
    PROVE  /\ Good(Moved(r, phase)) /\ Ran(m, Moved(r, phase))
           /\ r.task \in Tasks /\ r.file \in Names
<1>1. \A s, x : \A p \in s.runs :
        /\ Good(s) /\ p.phase # "naming"
        /\ x = [s EXCEPT !.runs = (@ \ {p}) \cup {[p EXCEPT !.phase = phase]}]
        => /\ Good(x) /\ Fewer(s, x) /\ Taken(x) = Taken(s)
           /\ x.active = s.active /\ x.pending = s.pending
           /\ p.task \in Tasks /\ p.file \in Names
  BY MovedKeeps
<1> DEFINE x == Moved(r, phase)
<1>2. x = [m EXCEPT !.runs = (@ \ {r}) \cup {[r EXCEPT !.phase = phase]}]
  BY DEF Moved
<1> HIDE DEF x
<1>3. /\ Good(x) /\ Fewer(m, x) /\ Taken(x) = Taken(m)
      /\ x.active = m.active /\ x.pending = m.pending
      /\ r.task \in Tasks /\ r.file \in Names
  BY <1>1, <1>2
<1> QED BY <1>3 DEF Ran, Cut, x

LEMMA ReportRan ==
    ASSUME Good(m), NEW r \in m.runs, r.phase # "naming", NEW phase \in Phases, phase # "naming",
           NEW v \in Statuses \ Gone, NEW name \in Names, NEW x,
           \/ x = WithStatus(Moved(r, phase), r.task, v)
           \/ x = [WithStatus(Moved(r, phase), r.task, v) EXCEPT !.name[r.task] = name]
    PROVE  Ran(m, x)
<1> DEFINE y == Moved(r, phase)
           w == WithStatus(y, r.task, v)
<1>1. Good(y) /\ Ran(m, y) /\ r.task \in Tasks
  BY MoveRan
<1>2. x = w \/ x = [w EXCEPT !.name[r.task] = name]
  OBVIOUS
<1> HIDE DEF y
<1>3. \A s, z, u : \A t \in Tasks :
        Good(s) /\ u = WithStatus(s, t, v) /\ (z = u \/ z = [u EXCEPT !.name[t] = name])
        => Cut(s, z) /\ z.active = s.active /\ z.pending = s.pending
  BY ReportKeeps
<1>4. Cut(y, x) /\ x.active = y.active /\ x.pending = y.pending
  BY <1>1, <1>2, <1>3
<1> QED BY <1>1, <1>4, CutThrough DEF Ran

\* A run takes a name no other has.
LEMMA ReserveServes ==
    ASSUME Good(m), FilesFinite, NEW r \in m.runs, Reserve(r)
    PROVE  /\ Good(m') /\ Fewer(m, m') /\ m'.active = m.active /\ m'.pending = m.pending
           /\ ~r.resumed /\ r.phase = "naming"
           /\ \E name \in Names : \E q \in Run :
                /\ name \notin reserved /\ reserved' = reserved \cup {name}
                /\ m'.runs = (m.runs \ {r}) \cup {q}
                /\ q.task = r.task /\ q.gen = r.gen /\ ~q.resumed /\ q.phase = "opening" /\ q.file = name
<1> DEFINE name == FreeName(r.task, reserved \cup temp \cup final)
           q == [r EXCEPT !.phase = "opening", !.file = name]
<1>1. r \in Run /\ r.task \in Tasks /\ r.phase = "naming" /\ ~r.resumed
  BY DEF Good, Core, State, Run, RunsSound, Reserve
<1>2. name \in Names /\ name \notin reserved
  <2>1. IsFiniteSet(reserved \cup temp \cup final)
    BY FS_Union DEF FilesFinite
  <2> QED BY <1>1, <2>1, FreeNameIsFree
<1>3. m' = [m EXCEPT !.runs = (@ \ {r}) \cup {q}] /\ reserved' = reserved \cup {name}
  BY DEF Reserve
<1> HIDE DEF name
<1>4. /\ q \in Run /\ q.task = r.task /\ q.gen = r.gen /\ q.cancelled = r.cancelled
      /\ q.resumed = r.resumed /\ q.phase = "opening" /\ q.file = name
  BY <1>1, <1>2 DEF Run, Phases, Names
<1> HIDE DEF q
<1>5. m' = Stepped(m, r, q)
  BY <1>3 DEF Stepped
<1>6. \A s, x : \A p \in s.runs : \A u \in Run :
        /\ Good(s) /\ u.task = p.task /\ u.gen = p.gen /\ u.cancelled = p.cancelled
        /\ u.resumed = p.resumed /\ u.phase # "naming" /\ u.file \in Names
        /\ x = Stepped(s, p, u)
        => /\ Good(x) /\ Fewer(s, x) /\ x.runs = (s.runs \ {p}) \cup {u}
           /\ x.active = s.active /\ x.pending = s.pending
  BY SteppedKeeps
<1>7. /\ Good(m') /\ Fewer(m, m') /\ m'.runs = (m.runs \ {r}) \cup {q}
      /\ m'.active = m.active /\ m'.pending = m.pending
  BY <1>2, <1>4, <1>5, <1>6
<1> QED BY <1>1, <1>2, <1>3, <1>4, <1>7

LEMMA RunServes ==
    ASSUME Good(m), FilesFinite, NEW r \in m.runs,
           \/ Open(r) \/ Check(r) \/ Announce(r) \/ Notice(r) \/ Succeed(r) \/ Fail(r)
    PROVE  Ran(m, m') /\ reserved' = reserved /\ deleting' = deleting
<1> DEFINE Past(p) == p \in Phases /\ p # "naming"
<1>1. Past("probing") /\ Past("ready") /\ Past("writing") /\ Past("ended")
  BY DEF Phases
<1>2. r.phase # "naming"
  BY DEF Open, Check, Announce, Notice, Succeed, Fail
<1>3. r.task \in Tasks /\ r.file \in Names
  BY <1>1, <1>2, MoveRan
<1>4. \A p : Past(p) => Ran(m, Moved(r, p))
  BY <1>2, MoveRan
<1>5. \A p, x, v : \A name \in Names :
        /\ Past(p) /\ v \in Statuses \ Gone
        /\ \/ x = WithStatus(Moved(r, p), r.task, v)
           \/ x = [WithStatus(Moved(r, p), r.task, v) EXCEPT !.name[r.task] = name]
        => Ran(m, x)
  BY <1>2, ReportRan
<1> HIDE DEF Past
<1>6. CASE Open(r)
  <2>1. m' = [WithStatus(Moved(r, "probing"), r.task, "preparing") EXCEPT !.name[r.task] = r.file]
    BY <1>6 DEF Open
  <2>2. "preparing" \in Statuses \ Gone
    BY DEF Statuses, Gone, Terminal
  <2>3. Ran(m, m')
    BY <1>1, <1>3, <1>5, <2>1, <2>2
  <2> QED BY <1>6, <2>3 DEF Open
<1>7. CASE Check(r)
  BY <1>1, <1>4, <1>7 DEF Check
<1>8. CASE Announce(r)
  <2>1. m' = WithStatus(Moved(r, "writing"), r.task, "downloading")
    BY <1>8 DEF Announce
  <2>2. "downloading" \in Statuses \ Gone
    BY DEF Statuses, Gone, Terminal
  <2>3. Ran(m, m')
    BY <1>1, <1>3, <1>5, <2>1, <2>2
  <2> QED BY <1>8, <2>3 DEF Announce
<1>9. CASE Notice(r)
  BY <1>1, <1>4, <1>9 DEF Notice
<1>10. CASE Succeed(r)
  <2> DEFINE name == IF r.file \in final THEN FreeName(r.task, temp \cup final) ELSE r.file
             w == WithStatus(Moved(r, "ended"), r.task, "completed")
             k == IF name = r.file THEN w.name[r.task] ELSE name
  <2>1. m' = [w EXCEPT !.name[r.task] = k]
    BY <1>10 DEF Succeed
  <2>2. name \in Names
    <3>1. IsFiniteSet(temp \cup final)
      BY FS_Union DEF FilesFinite
    <3>2. FreeName(r.task, temp \cup final) \in Names
      BY <1>3, <3>1, FreeNameIsFree
    <3> QED BY <1>3, <3>2
  <2>3. "completed" \in Statuses \ Gone
    BY DEF Statuses, Gone, Terminal
  <2>4. w.name[r.task] \in Names
    <3>1. Ran(m, w)
      BY <1>1, <1>3, <1>5, <2>3
    <3> HIDE DEF w
    <3> QED BY <1>3, <3>1 DEF Ran, Cut, Good, Core, State
  <2>5. k \in Names
    BY <2>2, <2>4
  <2> HIDE DEF k, name
  <2>6. Ran(m, m')
    BY <1>1, <1>5, <2>1, <2>3, <2>5
  <2> QED BY <1>10, <2>6 DEF Succeed
<1>11. CASE Fail(r)
  <2>1. PICK v \in Errors : m' = WithStatus(Moved(r, "ended"), r.task, v)
    BY <1>11 DEF Fail
  <2>2. v \in Statuses \ Gone
    BY LifecycleAssumption DEF Statuses, Gone, Terminal
  <2>3. Ran(m, m')
    BY <1>1, <1>3, <1>5, <2>1, <2>2
  <2> QED BY <1>11, <2>3 DEF Fail
<1> QED BY <1>6, <1>7, <1>8, <1>9, <1>10, <1>11

-----------------------------------------------------------------------------
(***************************************************************************)
(* The invariant and what follows from it.                                 *)
(***************************************************************************)

\* Each step adds at most one name to each set.
LEMMA FilesStayFinite ==
    ASSUME FilesFinite, [LifecycleNext]_vars
    PROVE  FilesFinite'
<1>1. \A S, T, x : IsFiniteSet(S) /\ (T = S \/ T = S \cup {x} \/ T = S \ {x} \/ T = {}) => IsFiniteSet(T)
  <2> SUFFICES ASSUME NEW S, NEW T, NEW x, IsFiniteSet(S),
                      T = S \/ T = S \cup {x} \/ T = S \ {x} \/ T = {}
               PROVE  IsFiniteSet(T)
    OBVIOUS
  <2>1. IsFiniteSet(S \cup {x})
    BY FS_AddElement
  <2>2. IsFiniteSet(S \ {x})
    BY FS_RemoveElement
  <2> QED BY <2>1, <2>2, FS_EmptySet
<1> DEFINE Near(S, T) == \E x : T = S \/ T = S \cup {x} \/ T = S \ {x} \/ T = {}
<1>2. Near(reserved, reserved') /\ Near(temp, temp') /\ Near(final, final')
  <2>1. CASE \E t \in Tasks : \/ Create(t) \/ PauseTask(t) \/ ResumeTask(t) \/ CancelTask(t)
                              \/ SetPriorityTask(t) \/ DeleteTask(t)
    BY <2>1 DEF Create, PauseTask, ResumeTask, CancelTask, SetPriorityTask, DeleteTask, disk
  <2>2. CASE \E t \in Tasks : RestartTask(t)
    BY <2>2 DEF RestartTask
  <2>3. CASE SetMaxConcurrent \/ Crash
    BY <2>3 DEF SetMaxConcurrent, Crash, disk
  <2>4. CASE \E r \in m.runs : Reserve(r) \/ Open(r) \/ Check(r) \/ Notice(r) \/ Fail(r)
    BY <2>4 DEF Reserve, Open, Check, Notice, Fail, disk
  <2>5. CASE \E r \in m.runs : Announce(r) \/ Succeed(r)
    BY <2>5 DEF Announce, Succeed
  <2>6. CASE \E r \in m.runs : OnTaskDone(r)
    BY <2>6 DEF OnTaskDone, Released, disk
  <2>7. CASE \E aborted \in BOOLEAN : FinishDelete(aborted)
    BY <2>7 DEF FinishDelete
  <2>8. CASE \E t \in Tasks : RetryFires(t)
    BY <2>8 DEF RetryFires, disk
  <2>9. CASE \E c \in cleanups : DeferredCleanup(c)
    BY <2>9 DEF DeferredCleanup
  <2>10. CASE UNCHANGED vars
    BY <2>10 DEF vars
  <2> QED BY <2>1, <2>2, <2>3, <2>4, <2>5, <2>6, <2>7, <2>8, <2>9, <2>10
          DEF LifecycleNext, SystemStep, UserStep, RunStep
<1> QED BY <1>1, <1>2 DEF FilesFinite

LEMMA CallsStayBounded ==
    ASSUME calls \in 0 .. MaxCalls, [LifecycleNext]_vars
    PROVE  calls' \in 0 .. MaxCalls
<1>1. calls' = calls \/ (calls < MaxCalls /\ calls' = calls + 1)
  BY DEF LifecycleNext, SystemStep, UserStep, RunStep, Create, PauseTask, ResumeTask, CancelTask,
         RestartTask, SetPriorityTask, SetMaxConcurrent, DeleteTask, Request, Crash, Reserve, Open,
         Check, Announce, Notice, Succeed, Fail, OnTaskDone, FinishDelete, RetryFires,
         DeferredCleanup, vars
<1> QED BY <1>1, LifecycleAssumption

LEMMA InitInv == LifecycleInit => LifecycleInv
<1> SUFFICES ASSUME LifecycleInit
             PROVE  LifecycleInv
  OBVIOUS
<1>1. PICK n \in InitialLimits :
        m = [status |-> [t \in Tasks |-> "absent"],
             name |-> [t \in Tasks |-> Variant(t, 0)],
             active |-> [t \in Tasks |-> 0],
             pending |-> <<>>,
             retries |-> [t \in Tasks |-> 0],
             scheduled |-> {},
             priority |-> NoTask,
             autoPaused |-> {},
             limit |-> n,
             runs |-> {}]
  BY DEF LifecycleInit
<1>2. m \in State
  <2>1. n \in Limits /\ 0 \in 0 .. MaxRetries
    BY LifecycleAssumption
  <2>2. [t \in Tasks |-> "absent"] \in [Tasks -> Statuses]
    BY DEF Statuses, Gone
  <2>3. [t \in Tasks |-> Variant(t, 0)] \in [Tasks -> Names]
    BY DEF Variant, Names
  <2> QED BY <1>1, <2>1, <2>2, <2>3 DEF State
<1>3. m.runs = {} /\ m.active = [t \in Tasks |-> 0] /\ m.pending = <<>>
  BY <1>1
<1>4. Good(m)
  BY <1>2, <1>3, FS_EmptySet DEF Good, Core, RunsSound, Live, Rowed, Once, Waits
<1>5. DeletedAlone /\ FilesFinite /\ calls \in 0 .. MaxCalls
  BY FS_EmptySet, LifecycleAssumption DEF LifecycleInit, DeletedAlone, FilesFinite, Idle
<1> QED BY <1>4, <1>5 DEF LifecycleInv

\* Nothing of the record is lost by any step, and no run is left behind.
LEMMA NextServes ==
    ASSUME LifecycleInv, [LifecycleNext]_vars
    PROVE  Good(m') /\ Leaves(m, m') /\ DeletedAlone'
<1>1. Good(m) /\ FilesFinite
  BY DEF LifecycleInv
<1>2. Idle' => DeletedAlone'
  BY DEF DeletedAlone
<1>3. Idle /\ deleting' = deleting => Idle'
  BY DEF Idle
<1>4. m'.active = m.active /\ m'.pending = m.pending /\ deleting' = deleting => DeletedAlone'
  BY DEF LifecycleInv, DeletedAlone, Idle, Queued
<1>5. Served(m, m') => Good(m') /\ Leaves(m, m')
  BY DEF Served
<1>6. CASE \E t \in Tasks : \/ Create(t) \/ PauseTask(t) \/ ResumeTask(t) \/ CancelTask(t)
                            \/ RestartTask(t) \/ SetPriorityTask(t)
  BY <1>1, <1>2, <1>3, <1>5, <1>6, RequestServes
<1>7. CASE \E t \in Tasks : DeleteTask(t)
  BY <1>1, <1>5, <1>7, DeleteTaskServes
<1>8. CASE SetMaxConcurrent
  BY <1>1, <1>2, <1>3, <1>5, <1>8, SetMaxConcurrentServes
<1>9. CASE Crash
  BY <1>1, <1>2, <1>9, CrashStepServes
<1>10. CASE \E r \in m.runs : Reserve(r)
  <2>1. PICK r \in m.runs : Reserve(r)
    BY <1>10
  <2>2. Good(m') /\ Fewer(m, m') /\ m'.active = m.active /\ m'.pending = m.pending
    BY <1>1, <2>1, ReserveServes
  <2>3. deleting' = deleting
    BY <2>1 DEF Reserve
  <2>4. Leaves(m, m')
    BY <2>2 DEF Leaves, Fewer
  <2> QED BY <1>4, <2>2, <2>3, <2>4
<1>11. CASE \E r \in m.runs : \/ Open(r) \/ Check(r) \/ Announce(r)
                              \/ Notice(r) \/ Succeed(r) \/ Fail(r)
  <2>1. Ran(m, m') /\ deleting' = deleting
    BY <1>1, <1>11, RunServes
  <2>2. Served(m, m')
    BY <2>1, RanServed
  <2> QED BY <1>4, <1>5, <2>1, <2>2 DEF Ran
<1>12. CASE \E r \in m.runs : OnTaskDone(r)
  BY <1>1, <1>2, <1>3, <1>12, OnTaskDoneServes
<1>13. CASE \E aborted \in BOOLEAN : FinishDelete(aborted)
  BY <1>2, <1>13, FinishDeleteServes
<1>14. CASE \E t \in Tasks : RetryFires(t)
  BY <1>1, <1>2, <1>3, <1>5, <1>14, RetryFiresServes
<1>15. CASE (\E c \in cleanups : DeferredCleanup(c)) \/ UNCHANGED vars
  <2>1. m' = m /\ deleting' = deleting
    BY <1>15 DEF DeferredCleanup, vars
  <2> QED BY <1>1, <1>4, <2>1 DEF Leaves
<1> QED BY <1>6, <1>7, <1>8, <1>9, <1>10, <1>11, <1>12, <1>13, <1>14, <1>15
        DEF LifecycleNext, SystemStep, UserStep, RunStep

LEMMA NextInv == LifecycleInv /\ [LifecycleNext]_vars => LifecycleInv'
<1> SUFFICES ASSUME LifecycleInv, [LifecycleNext]_vars
             PROVE  LifecycleInv'
  OBVIOUS
<1>1. Good(m') /\ DeletedAlone'
  BY NextServes
<1>2. FilesFinite' /\ calls' \in 0 .. MaxCalls
  BY FilesStayFinite, CallsStayBounded DEF LifecycleInv
<1>3. Good(m)'
  BY <1>1 DEF Good, Core, RunsSound, Live, Rowed, Once, Waits
<1> QED BY <1>1, <1>2, <1>3 DEF LifecycleInv

\* The invariant of the manager.
THEOREM LifecycleSafe == LifecycleSpec => []LifecycleInv
BY InitInv, NextInv, PTL DEF LifecycleSpec

\* The types hold of every configuration.
THEOREM LifecycleTypes == LifecycleSpec => []LifecycleTypeOK
<1>1. LifecycleInv => LifecycleTypeOK
  BY DEF LifecycleInv, Good, Core, State, Entry, RunsSound, LifecycleTypeOK
<1> QED BY <1>1, LifecycleSafe, PTL

\* No concurrency slot is held by a run that is gone or was told to stop, in
\* whatever order pauses, deletions, restarts, crashes and reports come.
THEOREM NoDeadSlots == LifecycleSpec => []SlotsAreLive
<1>1. LifecycleInv => SlotsAreLive
  <2> SUFFICES ASSUME LifecycleInv, NEW t \in Tasks, m.active[t] # 0
               PROVE  \E r \in m.runs : r.gen = m.active[t] /\ r.task = t /\ ~r.cancelled
    BY DEF SlotsAreLive, Active
  <2> QED BY DEF LifecycleInv, Good, Core, Live
<1> QED BY <1>1, LifecycleSafe, PTL

\* No task waits twice, or waits while it runs or without a row.
THEOREM TheQueueIsSound == LifecycleSpec => []QueueIsSound
<1>1. LifecycleInv => QueueIsSound
  BY DEF LifecycleInv, Good, Once, Waits, QueueIsSound, Queued
<1> QED BY <1>1, LifecycleSafe, PTL

\* A TaskDone of an earlier run never takes the entry of a later one.
THEOREM NoEntryIsStolen == LifecycleSpec => EntriesLeaveWithTheirRun
<1> DEFINE A == \A r \in m.runs :
                  LET t == r.task IN
                  /\ m.active[t] = r.gen /\ m.status[t] \notin Terminal
                  /\ m'.active[t] # r.gen
                  => \A q \in m'.runs : q.task = t /\ q.gen = r.gen => q.cancelled
<1>1. LifecycleInv /\ [LifecycleNext]_vars => A
  <2> SUFFICES ASSUME LifecycleInv, [LifecycleNext]_vars, NEW r \in m.runs,
                      m.active[r.task] = r.gen, m.status[r.task] \notin Terminal,
                      m'.active[r.task] # r.gen,
                      NEW q \in m'.runs, q.task = r.task, q.gen = r.gen, ~q.cancelled
               PROVE  FALSE
    OBVIOUS
  <2>1. Leaves(m, m')
    BY NextServes
  <2>2. r.task \in Tasks /\ r.gen \in Nat
    BY DEF LifecycleInv, Good, Core, State, Run
  <2>3. Orphan(m', r.task, r.gen)
    BY DEF Orphan
  <2>4. Orphan(m, r.task, r.gen)
    BY <2>1, <2>2, <2>3 DEF Leaves
  <2> QED BY <2>4 DEF Orphan
<1>2. LifecycleInv /\ [LifecycleNext]_vars => [A]_vars
  BY <1>1
<1> HIDE DEF A
<1>3. LifecycleSpec => [][A]_vars
  BY <1>2, LifecycleSafe, PTL DEF LifecycleSpec
<1> QED BY <1>3 DEF EntriesLeaveWithTheirRun, A

-----------------------------------------------------------------------------
(***************************************************************************)
(* The reservations of names.  Only delete_task, when it aborts a run that *)
(* has not ended, releases a name whose run may come back to it; the       *)
(* theorem is about a manager whose cancelled runs end in time.            *)
(***************************************************************************)

\* What is reserved is what was taken, and nothing was taken twice.
NamesTaken ==
    /\ \A x \in Taken(m) : x[3] \in reserved
    /\ \A name \in reserved : \E x \in Taken(m) : x[3] = name
    /\ \A x, y \in Taken(m) : x[3] = y[3] => x = y

LEMMA TakenIs ==
    \A s, x : x \in Taken(s) <=>
        \E r \in s.runs : ~r.resumed /\ r.phase # "naming" /\ x = <<r.task, r.gen, r.file>>
BY DEF Taken

LEMMA NextTakes ==
    ASSUME LifecycleInv, NamesTaken, ~SlowExit, [LifecycleNext]_vars
    PROVE  NamesTaken'
<1>1. Good(m) /\ FilesFinite
  BY DEF LifecycleInv
<1>2. Taken(m)' = Taken(m')
  BY DEF Taken
<1>3. Taken(m') = Taken(m) /\ reserved' = reserved => NamesTaken'
  BY <1>2 DEF NamesTaken
<1>4. Served(m, m') => Taken(m') = Taken(m)
  BY DEF Served
<1>5. CASE \E t \in Tasks : \/ Create(t) \/ PauseTask(t) \/ ResumeTask(t) \/ CancelTask(t)
                            \/ RestartTask(t) \/ SetPriorityTask(t)
  BY <1>1, <1>3, <1>4, <1>5, RequestServes
<1>6. CASE \E t \in Tasks : DeleteTask(t)
  BY <1>1, <1>3, <1>4, <1>6, DeleteTaskServes
<1>7. CASE SetMaxConcurrent
  BY <1>1, <1>3, <1>4, <1>7, SetMaxConcurrentServes
<1>8. CASE Crash
  <2>1. Taken(m') = {} /\ reserved' = {}
    BY <1>1, <1>8, CrashStepServes
  <2> QED BY <1>2, <2>1 DEF NamesTaken
<1>9. CASE \E r \in m.runs : Reserve(r)
  <2>1. PICK r \in m.runs : Reserve(r)
    BY <1>9
  <2>2. ~r.resumed /\ r.phase = "naming"
    BY <1>1, <2>1, ReserveServes
  <2>3. PICK name \in Names, q \in Run :
          /\ name \notin reserved /\ reserved' = reserved \cup {name}
          /\ m'.runs = (m.runs \ {r}) \cup {q}
          /\ q.task = r.task /\ q.gen = r.gen /\ ~q.resumed /\ q.phase = "opening" /\ q.file = name
    BY <1>1, <2>1, ReserveServes
  <2> DEFINE new == <<q.task, q.gen, q.file>>
  <2>4. new[3] = name
    BY <2>3
  <2>5. \A x : x \in Taken(m') <=> x \in Taken(m) \/ x = new
    <3>1. \A x : x \in Taken(m') => x \in Taken(m) \/ x = new
      BY <2>3, TakenIs
    <3>2. new \in Taken(m')
      BY <2>3, TakenIs
    <3>3. \A x : x \in Taken(m) => x \in Taken(m')
      BY <2>2, <2>3, TakenIs
    <3> QED BY <3>1, <3>2, <3>3
  <2> HIDE DEF new
  <2>6. \A x \in Taken(m) : x[3] # name
    BY <2>3 DEF NamesTaken
  <2> QED BY <1>2, <2>3, <2>4, <2>5, <2>6 DEF NamesTaken
<1>10. CASE \E r \in m.runs : \/ Open(r) \/ Check(r) \/ Announce(r)
                              \/ Notice(r) \/ Succeed(r) \/ Fail(r)
  <2>1. Ran(m, m') /\ reserved' = reserved
    BY <1>1, <1>10, RunServes
  <2> QED BY <1>3, <1>4, <2>1, RanServed
<1>11. CASE \E r \in m.runs : OnTaskDone(r)
  <2>1. PICK r \in m.runs : OnTaskDone(r)
    BY <1>11
  <2>2. r.phase = "ended" /\ reserved' = Released(r)
    BY <1>1, <2>1, OnTaskDoneServes
  <2>3. PICK y : y.runs = m.runs \ {r} /\ Taken(m') = Taken(y)
    BY <1>1, <2>1, OnTaskDoneServes
  <2>4. CASE r.resumed
    <3>1. \A x : x \in Taken(y) <=> x \in Taken(m)
      BY <2>3, <2>4, TakenIs
    <3>2. reserved' = reserved
      BY <2>2, <2>4 DEF Released
    <3> QED BY <1>2, <2>3, <3>1, <3>2 DEF NamesTaken
  <2>5. CASE ~r.resumed
    <3> DEFINE old == <<r.task, r.gen, r.file>>
    <3>1. \A q \in m.runs : q.task = r.task /\ q.gen = r.gen => q = r
      BY <1>1 DEF Good, Core, RunsSound
    <3>2. \A x : x \in Taken(y) => x \in Taken(m) /\ x # old
      BY <2>3, <3>1, TakenIs
    <3>3. \A x : x \in Taken(m) /\ x # old => x \in Taken(y)
      BY <2>3, TakenIs
    <3>4. old \in Taken(m) /\ old[3] = r.file
      BY <2>2, <2>5, TakenIs
    <3>5. reserved' = reserved \ {r.file}
      BY <2>2, <2>5 DEF Released
    <3> HIDE DEF old
    <3> QED BY <1>2, <2>3, <3>2, <3>3, <3>4, <3>5 DEF NamesTaken
  <2> QED BY <2>4, <2>5
<1>12. CASE \E aborted \in BOOLEAN : FinishDelete(aborted)
  BY <1>3, <1>12, FinishDeleteServes
<1>13. CASE \E t \in Tasks : RetryFires(t)
  BY <1>1, <1>3, <1>4, <1>13, RetryFiresServes
<1>14. CASE (\E c \in cleanups : DeferredCleanup(c)) \/ UNCHANGED vars
  BY <1>3, <1>14 DEF DeferredCleanup, vars
<1> QED BY <1>5, <1>6, <1>7, <1>8, <1>9, <1>10, <1>11, <1>12, <1>13, <1>14
        DEF LifecycleNext, SystemStep, UserStep, RunStep

\* Where cancelled runs end in time, a name is reserved exactly for the one run
\* that took it, until its TaskDone is received: no two runs that take a name
\* get the same, and none is reserved for ever.
THEOREM NamesAreReservedExactly ==
    ASSUME ~SlowExit
    PROVE  LifecycleSpec => []ReservationsExact
<1>1. LifecycleInit => NamesTaken
  <2> SUFFICES ASSUME LifecycleInit
               PROVE  NamesTaken
    OBVIOUS
  <2>1. m.runs = {} /\ reserved = {}
    BY DEF LifecycleInit
  <2>2. \A x : x \notin Taken(m)
    BY <2>1, TakenIs
  <2> QED BY <2>1, <2>2 DEF NamesTaken
<1>2. LifecycleInv /\ NamesTaken /\ [LifecycleNext]_vars => NamesTaken'
  BY NextTakes
<1>3. LifecycleSpec => []NamesTaken
  BY <1>1, <1>2, LifecycleSafe, PTL DEF LifecycleSpec
<1>4. LifecycleInv /\ NamesTaken => ReservationsExact
  <2> SUFFICES ASSUME LifecycleInv, NamesTaken
               PROVE  ReservationsExact
    OBVIOUS
  <2> DEFINE holders == {r \in m.runs : ~r.resumed /\ r.phase # "naming"}
             x(r) == <<r.task, r.gen, r.file>>
  <2>1. \A r \in holders : x(r) \in Taken(m) /\ x(r)[3] = r.file
    BY TakenIs
  <2>2. \A y \in Taken(m) : \E r \in holders : y = x(r)
    BY TakenIs
  <2>3. \A r, q \in holders : x(r) = x(q) => r = q
    BY DEF LifecycleInv, Good, Core, RunsSound
  <2> HIDE DEF holders
  <2>4. \A name : name \in reserved <=> \E r \in holders : name = r.file
    <3> HIDE DEF x
    <3>1. \A r \in holders : r.file \in reserved
      BY <2>1 DEF NamesTaken
    <3>2. \A name \in reserved : \E r \in holders : name = r.file
      BY <2>1, <2>2 DEF NamesTaken
    <3> QED BY <3>1, <3>2
  <2>5. reserved = {r.file : r \in holders}
    BY <2>4
  <2>6. \A r, q \in holders : r.file = q.file => r = q
    BY <2>1, <2>3 DEF NamesTaken
  <2> QED BY <2>5, <2>6 DEF ReservationsExact, holders
<1> QED BY <1>3, <1>4, LifecycleSafe, PTL

-----------------------------------------------------------------------------
(***************************************************************************)
(* Slots.  Without the boost no task runs beyond the limit of its queue,   *)
(* and no task waits that may start.  A handler that may free a slot ends  *)
(* by draining the queue, except resume_task when it drops the entry of a  *)
(* run that is over: it puts the task back into the queue only if the      *)
(* global limit is still reached, for its own queue has room again.        *)
(***************************************************************************)

Settled(s) == Good(s) /\ s.priority = NoTask /\ \A u \in Tasks : RoomOK(s, u)

Orderly(s) == Settled(s) /\ Tight(s)

\* A step that starts within the limits, and one that leaves no slot idle.
Calms(s, x) == Settled(x) /\ Within(s, x)
Fills(s, x) == Orderly(x) /\ Within(s, x)

LEMMA CalmsFills ==
    \A s, y, x : Calms(s, y) /\ Fills(y, x) => Fills(s, x)
BY WithinThrough DEF Calms, Fills

LEMMA CalmsThrough ==
    \A s, y, x : Calms(s, y) /\ Calms(y, x) => Calms(s, x)
BY WithinThrough DEF Calms

LEMMA FillsCalms ==
    \A s, x : Fills(s, x) => Calms(s, x)
BY DEF Calms, Fills, Orderly

LEMMA FillsSelf ==
    \A s : Orderly(s) => Fills(s, s)
BY WithinSelf DEF Fills

\* Where no task is started.
LEMMA StopCalms ==
    ASSUME NEW s, Settled(s), NEW x, Good(x), Stops(s, x), x.priority = s.priority
    PROVE  Calms(s, x)
<1>1. s \in State /\ x \in State
  BY DEF Settled, Good, Core
<1>2. Within(s, x)
  BY <1>1, StopsWithin
<1> QED BY <1>2 DEF Calms, Settled, Within

\* Where nothing starts or stops and nobody joins the queue.
LEMMA QuietFills ==
    ASSUME NEW s, Orderly(s), NEW x, Good(x), QueueShrinks(s, x),
           x.active = s.active, x.limit = s.limit, x.priority = s.priority
    PROVE  Fills(s, x)
<1>1. s \in State /\ x \in State
  BY DEF Orderly, Settled, Good, Core
<1>2. Calms(s, x)
  BY StopCalms DEF Orderly, Stops
<1>3. \A u \in Tasks : MayStart(x, u) => MayStart(s, u)
  BY <1>1, MayStartShrinks
<1>4. Tight(x)
  BY <1>3 DEF Orderly, Tight, QueueShrinks
<1> QED BY <1>2, <1>4 DEF Calms, Fills, Orderly

\* The same, when the queue is as it was.
LEMMA SameFills ==
    ASSUME NEW s, Orderly(s), NEW x, Good(x), x.pending = s.pending,
           x.active = s.active, x.limit = s.limit, x.priority = s.priority
    PROVE  Fills(s, x)
<1>1. QueueShrinks(s, x)
  BY DEF QueueShrinks, Queued
<1> QED BY <1>1, QuietFills

LEMMA DrainFills ==
    ASSUME NEW s, Settled(s), NEW x, x = DrainQueue(s)
    PROVE  Fills(s, x)
<1>1. Good(x) /\ Tight(x) /\ Within(s, x) /\ x.priority = s.priority
  BY DrainKeeps DEF Settled
<1> QED BY <1>1 DEF Fills, Orderly, Settled, Within

\* A task that may start is started, and the queue is drained.
LEMMA StartFills ==
    ASSUME NEW s, Settled(s), NEW t \in Tasks, NEW b \in BOOLEAN, s.active[t] = 0,
           ~Queued(s, t), MayStart(s, t), NEW x, x = DrainQueue(Spawn(s, t, b))
    PROVE  Fills(s, x)
<1> DEFINE y == Spawn(s, t, b)
<1>1. Good(s) /\ Core(s)
  BY DEF Settled, Good
<1>2. Good(y) /\ y.priority = s.priority
  BY <1>1, SpawnGood
<1>3. Within(s, y)
  BY <1>1, SpawnWithin
<1>4. x = DrainQueue(y)
  OBVIOUS
<1> HIDE DEF y
<1>5. Calms(s, y)
  BY <1>2, <1>3 DEF Calms, Settled, Within
<1>6. Fills(y, x)
  BY <1>4, <1>5, DrainFills DEF Calms
<1> QED BY <1>5, <1>6, CalmsFills

\* A task that may not start joins the queue.
LEMMA JoinFills ==
    ASSUME NEW s, Orderly(s), NEW e \in Entry, ~Queued(s, e.task), s.active[e.task] = 0,
           s.status[e.task] \notin Gone, ~MayStart(s, e.task),
           NEW x, x = [s EXCEPT !.pending = Append(s.pending, e)]
    PROVE  Fills(s, x)
<1>1. Good(s) /\ s \in State /\ s.pending \in Seq(Entry)
  BY DEF Orderly, Settled, Good, Core, State
<1>2. /\ Good(x) /\ x.active = s.active /\ x.priority = s.priority /\ x.limit = s.limit
  BY <1>1, EnqueueKeeps
<1>3. Calms(s, x)
  BY <1>2, StopCalms DEF Orderly, Stops
<1>4. x \in State /\ x.pending = Append(s.pending, e)
  BY <1>1, <1>2 DEF Good, Core, State
<1>5. \A u \in Tasks : Queued(x, u) => Queued(s, u) \/ u = e.task
  BY <1>1, <1>4 DEF Queued
<1>6. \A u \in Tasks : MayStart(x, u) => MayStart(s, u)
  BY <1>1, <1>2, <1>4, MayStartShrinks
<1>7. Tight(x)
  BY <1>5, <1>6 DEF Orderly, Tight
<1> QED BY <1>3, <1>7 DEF Calms, Fills, Orderly

\* The entry of a run that is over goes: its queue has room again, if it had none.
LEMMA RoomAgain ==
    ASSUME NEW s, Settled(s), NEW t \in Tasks, s.active[t] # 0, NEW x, x = Dropped(s, t)
    PROVE  HasQueueCapacity(x, t)
<1>1. Good(s) /\ s \in State
  BY DEF Settled, Good, Core
<1>2. x \in State /\ x.active[t] = 0 /\ \A u \in Tasks \ {t} : x.active[u] = s.active[u]
  BY <1>1 DEF Dropped, State
<1>3. Beside(s, t) = Beside(x, t) \cup {t} /\ t \notin Beside(x, t)
  BY <1>2 DEF Beside, Active
<1>4. Cardinality(Beside(s, t)) = Cardinality(Beside(x, t)) + 1
  <2>1. IsFiniteSet(Beside(x, t))
    BY <1>2, Counts
  <2> QED BY <1>3, <2>1, FS_AddElement, Zenon
<1>5. Cardinality(Beside(x, t)) \in Nat /\ QueueMax[QueueOf[t]] \in Nat
  BY <1>2, Counts
<1>6. QueueMax[QueueOf[t]] = 0 \/ Cardinality(Beside(x, t)) < QueueMax[QueueOf[t]]
  BY <1>4, <1>5 DEF Settled, RoomOK
<1> QED BY <1>6 DEF HasQueueCapacity, Beside

LEMMA ResumeInnerFills ==
    ASSUME NEW s, Orderly(s), NEW t \in Tasks, NEW x, x = ResumeInner(s, t)
    PROVE  Fills(s, x)
<1> DEFINE s1 == Unmarked(s, t)
           s2 == Dropped(s1, t)
<1>1. Good(s) /\ s.priority = NoTask
  BY DEF Orderly, Settled
<1>2. x = IF s1.active[t] # 0 /\ s1.status[t] \notin Terminal THEN s1
          ELSE IF Queued(s2, t) THEN s2
          ELSE IF MayStart(s2, t) THEN DrainQueue(Spawn(s2, t, TRUE))
          ELSE IF s2.status[t] \in Gone THEN s2
          ELSE [s2 EXCEPT !.status[t] = IF @ = "completed" THEN @ ELSE "pending",
                          !.pending = Append(@, [task |-> t, resume |-> TRUE])]
  BY DEF ResumeInner, Unmarked, Dropped
<1>3. Fills(s, s1)
  <2>1. /\ Good(s1) /\ QueueShrinks(s, s1) /\ Alike(s, s1)
        /\ s1.priority = s.priority /\ s1.limit = s.limit
    BY <1>1, UnmarkedKeeps
  <2> HIDE DEF s1
  <2> QED BY <2>1, QuietFills DEF Alike
<1> HIDE DEF s1
<1>4. Orderly(s1) /\ Settled(s1) /\ Good(s1) /\ s1 \in State
  BY <1>3 DEF Fills, Orderly, Settled, Good, Core
<1>5. /\ Good(s2) /\ s2.active[t] = 0
      /\ s2.status = s1.status /\ s2.pending = s1.pending
      /\ s2.priority = s1.priority /\ s2.limit = s1.limit
  BY <1>4, DroppedKeeps
<1>6. \A u \in Tasks : s2.active[u] = 0 \/ s2.active[u] = s1.active[u]
  BY <1>4 DEF Dropped, State
<1>7. Calms(s1, s2)
  BY <1>4, <1>5, <1>6, StopCalms DEF Stops
<1>8. Calms(s, s2)
  BY <1>3, <1>7, CalmsThrough, FillsCalms
<1>9. s1.active[t] # 0 => HasQueueCapacity(s2, t)
  BY <1>4, RoomAgain
<1>10. s1.active[t] = 0 => s2 = s1
  BY <1>4 DEF Dropped, State
<1>11. Queued(s2, t) => s1.active[t] = 0
  BY <1>4, <1>5 DEF Good, Waits, Queued
<1>12. s2.status[t] \in Gone => s1.active[t] = 0
  BY <1>4, <1>5 DEF Good, Core, Rowed
<1> HIDE DEF s2
<1>13. CASE s1.active[t] # 0 /\ s1.status[t] \notin Terminal
  BY <1>2, <1>3, <1>13
<1>14. CASE Queued(s2, t) \/ (~MayStart(s2, t) /\ s2.status[t] \in Gone)
  BY <1>2, <1>3, <1>10, <1>11, <1>12, <1>14
<1>15. CASE /\ s1.active[t] = 0 \/ s1.status[t] \in Terminal
            /\ ~Queued(s2, t) /\ MayStart(s2, t)
  <2> DEFINE b == TRUE
  <2>1. x = DrainQueue(Spawn(s2, t, b)) /\ b \in BOOLEAN
    BY <1>2, <1>15
  <2> HIDE DEF b
  <2>2. Fills(s2, x)
    BY <1>5, <1>7, <1>15, <2>1, StartFills DEF Calms
  <2> QED BY <1>8, <2>2, CalmsFills
<1>16. CASE /\ s1.active[t] = 0 \/ s1.status[t] \in Terminal
            /\ ~Queued(s2, t) /\ ~MayStart(s2, t) /\ s2.status[t] \notin Gone
  <2> DEFINE v == IF s2.status[t] = "completed" THEN "completed" ELSE "pending"
             y == Restated(s2, t, v)
             e == [task |-> t, resume |-> TRUE]
  <2>1. x = [y EXCEPT !.pending = Append(y.pending, e)]
    <3>1. s2 \in State
      BY <1>5 DEF Good, Core
    <3>2. x = [s2 EXCEPT !.status[t] = IF @ = "completed" THEN @ ELSE "pending",
                         !.pending = Append(@, e)]
      BY <1>2, <1>16
    <3>3. y.pending = s2.pending
      BY <3>1 DEF Restated, State
    <3> QED BY <3>1, <3>2, <3>3 DEF Restated, State
  <2>2. v \in Statuses \ Gone
    BY DEF Statuses, Gone, Terminal
  <2> HIDE DEF v
  <2>3. /\ y.pending = s2.pending /\ y.active = s2.active
        /\ y.priority = s2.priority /\ y.limit = s2.limit /\ y.status[t] = v
    BY <1>5, <2>2, NewStatusKeeps DEF Good
  <2>4. Good(y)
    BY <1>5, <2>2, NewStatusGood
  <2>5. e \in Entry /\ e.task = t
    BY DEF Entry
  <2> HIDE DEF y, e
  <2>6. Tight(s2)
    <3>1. CASE s1.active[t] = 0
      BY <1>4, <1>10, <3>1 DEF Orderly
    <3>2. CASE s1.active[t] # 0
      <4>1. ~HasCapacity(s2)
        BY <1>9, <1>16, <3>2 DEF MayStart
      <4> QED BY <4>1 DEF Tight, MayStart
    <3> QED BY <3>1, <3>2
  <2>7. Orderly(s2)
    BY <1>7, <2>6 DEF Calms, Orderly
  <2>8. Fills(s2, y)
    BY <2>3, <2>4, <2>7, SameFills
  <2>9. ~MayStart(y, t) /\ ~Queued(y, t) /\ y.active[t] = 0 /\ y.status[t] \notin Gone
    BY <1>5, <1>16, <2>2, <2>3 DEF MayStart, HasCapacity, HasQueueCapacity, Active, Queued
  <2>10. Fills(y, x)
    BY <2>1, <2>5, <2>8, <2>9, JoinFills DEF Fills
  <2> QED BY <1>8, <2>8, <2>10, CalmsFills, FillsCalms, CalmsThrough
<1> QED BY <1>13, <1>14, <1>15, <1>16

LEMMA ResumeFills ==
    ASSUME NEW s, Orderly(s), NEW t \in Tasks, NEW x, x = Resume(s, t)
    PROVE  Fills(s, x)
<1> DEFINE y == Forgotten(s, t)
<1>1. Good(s) /\ s \in State
  BY DEF Orderly, Settled, Good, Core
<1>2. Good(y) /\ Alike(s, y)
  BY <1>1, ForgottenKeeps
<1>3. y.priority = s.priority /\ y.limit = s.limit
  BY <1>1 DEF Forgotten, State
<1>4. x = ResumeInner(y, t)
  BY DEF Resume, Forgotten
<1> HIDE DEF y
<1>5. Fills(s, y)
  BY <1>2, <1>3, SameFills DEF Alike
<1>6. Fills(y, x)
  BY <1>4, <1>5, ResumeInnerFills DEF Fills
<1> QED BY <1>5, <1>6, CalmsFills, FillsCalms

\* The run of a task is cancelled, if it has one, and the task has a new status.
LEMMA CancelCalms ==
    ASSUME NEW s, Settled(s), NEW t \in Tasks, NEW y,
           y = s \/ y = Cancelled(s, t),
           NEW v \in Statuses \ Gone, NEW x, x = WithStatus(y, t, v)
    PROVE  Calms(s, y) /\ Calms(s, x)
<1>1. Good(s) /\ Core(s)
  BY DEF Settled, Good
<1>2. Calms(s, y)
  <2>1. CASE y = s
    BY <2>1, WithinSelf DEF Calms
  <2>2. CASE y = Cancelled(s, t)
    <3>1. Good(y)
      BY <1>1, <2>2, CancelledGood
    <3>2. /\ y.priority = s.priority /\ y.limit = s.limit
          /\ y.active[t] = 0 /\ \A u \in Tasks \ {t} : y.active[u] = s.active[u]
      BY <1>1, <2>2, CancelledKeeps
    <3> QED BY <3>1, <3>2, StopCalms DEF Stops
  <2> QED BY <2>1, <2>2
<1>3. Settled(y) /\ Good(y) /\ Core(y)
  BY <1>2 DEF Calms, Settled, Good
<1>4. x.active = y.active /\ x.priority = y.priority /\ x.limit = y.limit
  BY <1>3, StatusKeeps
<1>5. Good(x)
  BY <1>3, StatusGood
<1>6. Calms(y, x)
  BY <1>3, <1>4, <1>5, StopCalms DEF Stops
<1> QED BY <1>2, <1>6, CalmsThrough

LEMMA PauseInnerFills ==
    ASSUME NEW s, Orderly(s), NEW t \in Tasks, NEW order \in Seq(Tasks),
           NEW x, x = PauseInner(s, t, order)
    PROVE  Fills(s, x)
<1> DEFINE s1 == Unmarked(s, t)
           v == "paused"
<1>1. Good(s) /\ s.priority = NoTask /\ NoTask # t
  BY LifecycleAssumption DEF Orderly, Settled
<1>2. x = IF Queued(s1, t) THEN WithStatus(Unqueued(s1, t), t, v)
          ELSE IF s1.active[t] = 0 THEN s1
          ELSE EndBoostOf(DrainQueue(WithStatus(Cancelled(s1, t), t, v)), t, order)
  BY DEF PauseInner, Unmarked
<1>3. v \in Statuses \ Gone
  BY DEF Statuses, Gone, Terminal
<1>4. Fills(s, s1)
  <2>1. /\ Good(s1) /\ QueueShrinks(s, s1) /\ Alike(s, s1)
        /\ s1.priority = s.priority /\ s1.limit = s.limit
    BY <1>1, UnmarkedKeeps
  <2> HIDE DEF s1
  <2> QED BY <2>1, QuietFills DEF Alike
<1> HIDE DEF s1, v
<1>5. Orderly(s1) /\ Settled(s1) /\ Core(s1) /\ Once(s1) /\ Waits(s1)
  BY <1>4 DEF Fills, Orderly, Settled, Good
<1>6. CASE Queued(s1, t)
  <2> DEFINE y == Unqueued(s1, t)
  <2>1. /\ Good(y) /\ QueueShrinks(s1, y) /\ y.active = s1.active
        /\ y.priority = s1.priority /\ y.limit = s1.limit
    BY <1>5, UnqueuedKeeps DEF QueueShrinks
  <2>2. x = WithStatus(y, t, v)
    BY <1>2, <1>6
  <2> HIDE DEF y
  <2>3. Fills(s1, y)
    BY <1>5, <2>1, QuietFills
  <2>4. Core(y)
    BY <2>1 DEF Good
  <2>5. x.pending = y.pending /\ x.active = y.active /\ x.priority = y.priority /\ x.limit = y.limit
    BY <1>3, <2>2, <2>4, StatusKeeps
  <2>6. Good(x)
    BY <1>3, <2>1, <2>2, StatusGood
  <2>7. Fills(y, x)
    BY <2>3, <2>5, <2>6, SameFills DEF Fills
  <2> QED BY <1>4, <2>3, <2>7, CalmsFills, FillsCalms
<1>7. CASE ~Queued(s1, t) /\ s1.active[t] = 0
  BY <1>2, <1>4, <1>7
<1>8. CASE ~Queued(s1, t) /\ s1.active[t] # 0
  <2> DEFINE y == Cancelled(s1, t)
             z == WithStatus(y, t, v)
             d == DrainQueue(z)
  <2>1. x = EndBoostOf(d, t, order)
    BY <1>2, <1>8
  <2>2. Calms(s1, z)
    <3> HIDE DEF y
    <3>1. y = Cancelled(s1, t)
      BY DEF y
    <3> QED BY <1>3, <1>5, <3>1, CancelCalms
  <2> HIDE DEF z
  <2>3. Fills(z, d)
    BY <2>2, DrainFills DEF Calms
  <2> HIDE DEF d
  <2>4. x = d
    BY <1>1, <2>1, <2>3 DEF EndBoostOf, Fills, Orderly, Settled
  <2> QED BY <1>4, <2>2, <2>3, <2>4, CalmsFills, FillsCalms
<1> QED BY <1>6, <1>7, <1>8

LEMMA CreateFills ==
    ASSUME NEW s, Orderly(s), NEW t \in Tasks, s.status[t] = "absent", NEW row,
           row = [s EXCEPT !.status[t] = "pending"], NEW x,
           \/ x = IF MayStart(row, t) THEN DrainQueue(Spawn(row, t, FALSE))
                  ELSE [row EXCEPT !.pending = Append(@, [task |-> t, resume |-> FALSE])]
           \/ x = WithStatus(row, t, "paused")
    PROVE  Fills(s, x)
<1> DEFINE v == "pending"
           w == "paused"
           b == FALSE
           e == [task |-> t, resume |-> b]
<1>1. Good(s) /\ Core(s) /\ Waits(s) /\ s \in State
  BY DEF Orderly, Settled, Good, Core
<1>2. s.active[t] = 0 /\ ~Queued(s, t)
  BY <1>1 DEF Core, Rowed, Waits, Queued, Gone
<1>3. row = Restated(s, t, v)
  BY <1>1 DEF Restated, State
<1>4. v \in Statuses \ Gone /\ w \in Statuses \ Gone
  BY DEF Statuses, Gone, Terminal
<1>5. b \in BOOLEAN /\ e \in Entry /\ e.task = t
  BY DEF Entry
<1>6. \/ MayStart(row, t) /\ x = DrainQueue(Spawn(row, t, b))
      \/ ~MayStart(row, t) /\ x = [row EXCEPT !.pending = Append(row.pending, e)]
      \/ x = WithStatus(row, t, w)
  OBVIOUS
<1> HIDE DEF v, w, b, e
<1>7. Good(row)
  BY ONLY <1>1, t \in Tasks, <1>3, <1>4, NewStatusGood
<1>8. /\ row.pending = s.pending /\ row.active = s.active /\ row.status[t] = v
      /\ row.priority = s.priority /\ row.limit = s.limit
  <2>1. v \in Statuses \ Gone
    BY <1>4
  <2> QED BY ONLY <1>1, t \in Tasks, <1>3, <2>1, NewStatusKeeps
<1>9. Fills(s, row)
  BY <1>7, <1>8, SameFills
<1>10. /\ Orderly(row) /\ Settled(row) /\ Core(row)
       /\ row.active[t] = 0 /\ ~Queued(row, t) /\ row.status[t] \notin Gone
  BY <1>2, <1>4, <1>7, <1>8, <1>9 DEF Queued, Fills, Orderly, Good
<1>11. CASE MayStart(row, t) /\ x = DrainQueue(Spawn(row, t, b))
  <2>1. Fills(row, x)
    BY ONLY t \in Tasks, <1>5, <1>10, <1>11, StartFills
  <2> QED BY <1>9, <2>1, CalmsFills, FillsCalms
<1>12. CASE ~MayStart(row, t) /\ x = [row EXCEPT !.pending = Append(row.pending, e)]
  <2>1. Fills(row, x)
    BY ONLY t \in Tasks, <1>5, <1>10, <1>12, JoinFills
  <2> QED BY <1>9, <2>1, CalmsFills, FillsCalms
<1>13. CASE x = WithStatus(row, t, w)
  <2>1. x.pending = row.pending /\ x.active = row.active /\ x.priority = row.priority /\ x.limit = row.limit
    BY ONLY t \in Tasks, <1>4, <1>10, <1>13, StatusKeeps
  <2>2. Good(x)
    BY ONLY t \in Tasks, <1>4, <1>7, <1>13, StatusGood
  <2>3. Fills(row, x)
    BY <1>10, <2>1, <2>2, SameFills
  <2> QED BY <1>9, <2>3, CalmsFills, FillsCalms
<1> QED BY <1>6, <1>11, <1>12, <1>13

\* The retries of a task are forgotten and it leaves the queue.
LEMMA LeaveFills ==
    ASSUME NEW s, Orderly(s), NEW t \in Tasks, NEW y, y = Unqueued(s, t)
    PROVE  Fills(s, y)
<1>1. Core(s) /\ Once(s) /\ Waits(s)
  BY DEF Orderly, Settled, Good
<1>2. /\ Good(y) /\ QueueShrinks(s, y) /\ y.active = s.active
      /\ y.priority = s.priority /\ y.limit = s.limit
  BY <1>1, UnqueuedKeeps DEF QueueShrinks
<1> QED BY <1>2, QuietFills

LEMMA ForgetFills ==
    ASSUME NEW s, Orderly(s), NEW t \in Tasks, NEW y, y = Forgotten(s, t) \/ y = Unmarked(s, t)
    PROVE  Fills(s, y)
<1>1. Good(s) /\ s \in State
  BY DEF Orderly, Settled, Good, Core
<1>2. Good(y) /\ Alike(s, y) /\ y.priority = s.priority /\ y.limit = s.limit
  <2>1. CASE y = Forgotten(s, t)
    <3>1. y.priority = s.priority /\ y.limit = s.limit
      BY <1>1, <2>1 DEF Forgotten, State
    <3> QED BY <1>1, <2>1, <3>1, ForgottenKeeps
  <2>2. CASE y = Unmarked(s, t)
    BY <1>1, <2>2, UnmarkedKeeps
  <2> QED BY <2>1, <2>2
<1> QED BY <1>2, SameFills DEF Alike

LEMMA CancelFills ==
    ASSUME NEW s, Orderly(s), NEW t \in Tasks, NEW x,
           x = LET y == Unqueued([s EXCEPT !.retries[t] = 0], t) IN
               DrainQueue(WithStatus(IF y.active[t] = 0 THEN y ELSE Cancelled(y, t), t, "cancelled"))
    PROVE  Fills(s, x)
<1> DEFINE f == Forgotten(s, t)
           y == Unqueued(f, t)
           z == IF y.active[t] = 0 THEN y ELSE Cancelled(y, t)
           v == "cancelled"
           w == WithStatus(z, t, v)
<1>1. x = DrainQueue(w)
  BY DEF Forgotten
<1>2. Fills(s, f)
  BY ForgetFills
<1> HIDE DEF f
<1>3. Fills(f, y)
  BY <1>2, LeaveFills DEF Fills
<1>4. v \in Statuses \ Gone
  BY DEF Statuses, Gone, Terminal
<1>5. z = y \/ z = Cancelled(y, t)
  OBVIOUS
<1>6. w = WithStatus(z, t, v)
  OBVIOUS
<1> HIDE DEF y, z, v, w
<1>7. Calms(y, w)
  <2>1. Settled(y)
    BY <1>3 DEF Fills, Orderly
  <2> QED BY <1>4, <1>5, <1>6, <2>1, CancelCalms
<1>8. Fills(w, x)
  BY <1>1, <1>7, DrainFills DEF Calms
<1> QED BY <1>2, <1>3, <1>7, <1>8, CalmsFills, FillsCalms

LEMMA RestartFills ==
    ASSUME NEW s, Orderly(s), NEW t \in Tasks, NEW order \in Seq(Tasks), NEW p,
           p = s \/ p = PauseInner(s, t, order),
           NEW x, x = Resume([p EXCEPT !.status[t] = "pending", !.scheduled = @ \ {t}], t)
    PROVE  Fills(s, x)
<1> DEFINE v == "pending"
           y == Restated(p, t, v)
           z == Unmarked(y, t)
<1>1. Fills(s, p)
  BY FillsSelf, PauseInnerFills
<1>2. Orderly(p) /\ Good(p) /\ Core(p) /\ p \in State
  BY <1>1 DEF Fills, Orderly, Settled, Good, Core
<1>3. z = [p EXCEPT !.status[t] = "pending", !.scheduled = @ \ {t}]
  BY <1>2 DEF Unmarked, Restated, State
<1>4. x = Resume(z, t)
  BY <1>3
<1>5. v \in Statuses \ Gone
  BY DEF Statuses, Gone, Terminal
<1> HIDE DEF v
<1>6. Fills(p, y)
  <2>1. Good(y)
    BY <1>2, <1>5, NewStatusGood
  <2>2. y.pending = p.pending /\ y.active = p.active /\ y.priority = p.priority /\ y.limit = p.limit
    BY <1>2, <1>5, NewStatusKeeps
  <2> HIDE DEF y
  <2> QED BY <1>2, <2>1, <2>2, SameFills
<1> HIDE DEF y
<1>7. Fills(y, z)
  BY <1>6, ForgetFills DEF Fills
<1> HIDE DEF z
<1>8. Fills(z, x)
  BY <1>4, <1>7, ResumeFills DEF Fills
<1> QED BY <1>1, <1>6, <1>7, <1>8, CalmsFills, FillsCalms

\* The queue is drained only when the deletion is finished.
LEMMA DeleteCalms ==
    ASSUME NEW s, Orderly(s), NEW t \in Tasks, NEW x,
           x = LET y == Unqueued([s EXCEPT !.retries[t] = 0, !.scheduled = @ \ {t}], t) IN
               IF y.active[t] = 0 THEN y ELSE Cancelled(y, t)
    PROVE  Calms(s, x)
<1> DEFINE f == Forgotten(s, t)
           u == Unmarked(f, t)
           y == Unqueued(u, t)
           v == "paused"
<1>1. [s EXCEPT !.retries[t] = 0, !.scheduled = @ \ {t}] = u
  BY DEF Orderly, Settled, Good, Core, State, Forgotten, Unmarked
<1>2. x = y \/ x = Cancelled(y, t)
  BY <1>1
<1>3. Fills(s, f)
  BY ForgetFills
<1> HIDE DEF f
<1>4. Fills(f, u)
  BY <1>3, ForgetFills DEF Fills
<1> HIDE DEF u
<1>5. Fills(u, y)
  BY <1>4, LeaveFills DEF Fills
<1> HIDE DEF y
<1>6. v \in Statuses \ Gone
  BY DEF Statuses, Gone, Terminal
<1> HIDE DEF v
<1>7. Calms(y, x)
  <2>1. Settled(y)
    BY <1>5 DEF Fills, Orderly
  <2> QED BY <1>2, <1>6, <2>1, CancelCalms
<1> QED BY <1>3, <1>4, <1>5, <1>7, CalmsFills, FillsCalms, CalmsThrough

LEMMA LimitFills ==
    ASSUME NEW s, Orderly(s), NEW n \in Limits, NEW x, x = DrainQueue([s EXCEPT !.limit = n])
    PROVE  Orderly(x) /\ StartsOK(s, x)
<1> DEFINE y == [s EXCEPT !.limit = n]
<1>1. s \in State /\ Good(s)
  BY DEF Orderly, Settled, Good, Core
<1>2. y \in State /\ Alike(s, y) /\ y.priority = s.priority /\ y.active = s.active
  BY <1>1 DEF State, Alike
<1>3. x = DrainQueue(y)
  OBVIOUS
<1> HIDE DEF y
<1>4. Good(y)
  BY <1>1, <1>2, AlikeGood
<1>5. \A u \in Tasks : RoomOK(y, u) = RoomOK(s, u)
  BY <1>2 DEF RoomOK, Beside, Active
<1>6. Settled(y)
  BY <1>2, <1>4, <1>5 DEF Orderly, Settled
<1>7. Fills(y, x)
  BY <1>3, <1>6, DrainFills
<1> QED BY <1>2, <1>7 DEF Fills, Within, StartsOK

LEMMA FinishFills ==
    ASSUME NEW s, Settled(s), NEW t \in Tasks, s.active[t] = 0, ~Queued(s, t),
           NEW order \in Seq(Tasks),
           NEW R \in SUBSET s.runs, \A r \in s.runs : r.task = t \/ r \in R,
           NEW y, y = Erased(s, t, R),
           NEW x, x = DrainQueue(EndBoostOf(y, t, order))
    PROVE  Fills(s, x)
<1>1. Good(s) /\ s.priority = NoTask /\ NoTask # t
  BY LifecycleAssumption DEF Settled
<1>2. Good(y) /\ y.active = s.active /\ y.limit = s.limit /\ y.priority = s.priority
  BY <1>1, FinishServes
<1>3. x = DrainQueue(y)
  BY <1>1, <1>2 DEF EndBoostOf
<1>4. Calms(s, y)
  BY <1>2, StopCalms DEF Stops
<1>5. Fills(y, x)
  BY <1>3, <1>4, DrainFills DEF Calms
<1> QED BY <1>4, <1>5, CalmsFills

LEMMA DoneFills ==
    ASSUME NEW s, Settled(s), NEW r \in s.runs, NEW order \in Seq(Tasks),
           NEW n, n = DrainQueue(Freed(s, r, order))
    PROVE  Fills(s, n)
<1>1. Good(s) /\ r.task \in Tasks
  BY DEF Settled, Good, Core, State, Run
<1>2. s.priority # r.task
  BY <1>1, LifecycleAssumption DEF Settled
<1>3. PICK f : n = DrainQueue(f) /\ Stops(s, f) /\ Good(f) /\ f.priority = s.priority
  BY <1>1, <1>2, DoneServes
<1>4. Calms(s, f)
  BY <1>3, StopCalms
<1>5. Fills(f, n)
  BY <1>3, <1>4, DrainFills DEF Calms
<1> QED BY <1>4, <1>5, CalmsFills

LEMMA CrashFills ==
    ASSUME NEW s, Good(s), NEW x, Good(x),
           x.active = [t \in Tasks |-> 0], x.pending = <<>>, x.priority = NoTask
    PROVE  Orderly(x) /\ StartsOK(s, x)
<1>1. \A u \in Tasks : ~Queued(x, u)
  BY DEF Queued
<1>2. \A u \in Tasks : Beside(x, u) = {}
  BY DEF Beside, Active
<1>3. ASSUME NEW u \in Tasks
      PROVE  RoomOK(x, u)
  <2>1. QueueMax[QueueOf[u]] \in Nat
    BY LifecycleAssumption
  <2>2. Cardinality(Beside(x, u)) = 0
    BY <1>2, FS_EmptySet, Zenon
  <2> QED BY <2>1, <2>2 DEF RoomOK
<1> QED BY <1>1, <1>3 DEF Orderly, Settled, Tight, StartsOK

\* The steps of a run start and stop nothing.
LEMMA RunFills ==
    ASSUME LifecycleInv, NEW r \in m.runs, RunStep(r)
    PROVE  /\ Good(m') /\ m'.active = m.active /\ m'.pending = m.pending
           /\ m'.limit = m.limit /\ m'.priority = m.priority /\ deleting' = deleting
<1>1. Good(m) /\ FilesFinite /\ m \in State
  BY DEF LifecycleInv, Good, Core
<1>2. CASE Reserve(r)
  <2>1. Good(m') /\ m'.active = m.active /\ m'.pending = m.pending
    BY <1>1, <1>2, ReserveServes
  <2>2. m'.limit = m.limit /\ m'.priority = m.priority /\ deleting' = deleting
    BY <1>1, <1>2 DEF Reserve, State
  <2> QED BY <2>1, <2>2
<1>3. CASE Open(r) \/ Check(r) \/ Announce(r) \/ Notice(r) \/ Succeed(r) \/ Fail(r)
  <2>1. Ran(m, m') /\ deleting' = deleting
    BY <1>1, <1>3, RunServes
  <2>2. \A s, x, t, name : s \in State /\ x = [s EXCEPT !.name[t] = name]
          => x.limit = s.limit /\ x.priority = s.priority
    BY DEF State
  <2>3. \A phase : /\ Moved(r, phase).limit = m.limit /\ Moved(r, phase).priority = m.priority
    BY <1>1 DEF Moved, State
  <2>4. /\ r.phase # "naming"
        /\ "probing" \in Phases /\ "ready" \in Phases /\ "writing" \in Phases /\ "ended" \in Phases
    BY <1>3 DEF Open, Check, Announce, Notice, Succeed, Fail, Phases
  <2>5. /\ "preparing" \in Statuses \ Gone /\ "downloading" \in Statuses \ Gone
        /\ "completed" \in Statuses \ Gone /\ \A v \in Errors : v \in Statuses \ Gone
    BY LifecycleAssumption DEF Statuses, Gone, Terminal
  <2> DEFINE w(phase, v) == WithStatus(Moved(r, phase), r.task, v)
  <2>6. ASSUME NEW phase \in Phases, phase # "naming", NEW v \in Statuses \ Gone
        PROVE  /\ w(phase, v) \in State
               /\ w(phase, v).limit = m.limit /\ w(phase, v).priority = m.priority
    <3>1. Core(Moved(r, phase)) /\ r.task \in Tasks
      BY <1>1, <2>4, <2>6, MoveRan DEF Good
    <3>2. \A s, x : \A t \in Tasks : Core(s) /\ x = WithStatus(s, t, v)
            => Core(x) /\ x.limit = s.limit /\ x.priority = s.priority
      BY StatusKeeps
    <3> QED BY <2>3, <3>1, <3>2 DEF Core
  <2>7. \E phase \in Phases \ {"naming"} :
          \/ m' = Moved(r, phase)
          \/ \E v \in Statuses \ Gone : \E name : m' = w(phase, v) \/ m' = [w(phase, v) EXCEPT !.name[r.task] = name]
    <3>1. CASE Open(r)
      <4>1. m' = [w("probing", "preparing") EXCEPT !.name[r.task] = r.file]
        BY <3>1 DEF Open
      <4> HIDE DEF w
      <4> QED BY <2>4, <2>5, <4>1
    <3>2. CASE Check(r)
      BY <2>4, <3>2 DEF Check
    <3>3. CASE Announce(r)
      <4>1. m' = w("writing", "downloading")
        BY <3>3 DEF Announce
      <4> HIDE DEF w
      <4> QED BY <2>4, <2>5, <4>1
    <3>4. CASE Notice(r)
      BY <2>4, <3>4 DEF Notice
    <3>5. CASE Succeed(r)
      <4> DEFINE name == IF r.file \in final THEN FreeName(r.task, temp \cup final) ELSE r.file
                 k == IF name = r.file THEN w("ended", "completed").name[r.task] ELSE name
      <4>1. m' = [w("ended", "completed") EXCEPT !.name[r.task] = k]
        BY <3>5 DEF Succeed
      <4> HIDE DEF k, w
      <4> QED BY <2>4, <2>5, <4>1
    <3>6. CASE Fail(r)
      <4>1. PICK v \in Errors : m' = w("ended", v)
        BY <3>6 DEF Fail
      <4> HIDE DEF w
      <4> QED BY <2>4, <2>5, <4>1
    <3> QED BY <1>3, <3>1, <3>2, <3>3, <3>4, <3>5, <3>6
  <2> HIDE DEF w
  <2>8. m'.limit = m.limit /\ m'.priority = m.priority
    <3>1. PICK phase \in Phases \ {"naming"} :
            \/ m' = Moved(r, phase)
            \/ \E v \in Statuses \ Gone : \E name : m' = w(phase, v) \/ m' = [w(phase, v) EXCEPT !.name[r.task] = name]
      BY <2>7
    <3>2. CASE m' = Moved(r, phase)
      BY <2>3, <3>2
    <3>3. ASSUME NEW v \in Statuses \ Gone, NEW name,
                 m' = w(phase, v) \/ m' = [w(phase, v) EXCEPT !.name[r.task] = name]
          PROVE  m'.limit = m.limit /\ m'.priority = m.priority
      <4> DEFINE y == w(phase, v)
      <4>1. y \in State /\ y.limit = m.limit /\ y.priority = m.priority
        BY <2>6
      <4>2. m' = y \/ m' = [y EXCEPT !.name[r.task] = name]
        BY <3>3
      <4> HIDE DEF y
      <4> QED BY <4>1, <4>2 DEF State
    <3> QED BY <3>1, <3>2, <3>3
  <2> QED BY <2>1, <2>8 DEF Ran, Cut
<1> QED BY <1>2, <1>3 DEF RunStep

\* What a request leaves of the slots.
LEMMA RequestFills ==
    ASSUME LifecycleInv, Orderly(m), NEW t \in Tasks,
           \/ Create(t) \/ PauseTask(t) \/ ResumeTask(t) \/ CancelTask(t) \/ RestartTask(t)
    PROVE  Fills(m, m')
<1>1. Good(m)
  BY DEF LifecycleInv
<1>2. CASE Create(t)
  <2>1. \A s, x, row : /\ Orderly(s) /\ s.status[t] = "absent" /\ row = [s EXCEPT !.status[t] = "pending"]
                       /\ \/ x = IF MayStart(row, t) THEN DrainQueue(Spawn(row, t, FALSE))
                                 ELSE [row EXCEPT !.pending = Append(@, [task |-> t, resume |-> FALSE])]
                          \/ x = WithStatus(row, t, "paused")
                       => Fills(s, x)
    BY CreateFills
  <2>2. PICK row : /\ row = [m EXCEPT !.status[t] = "pending"]
                   /\ \/ m' = IF MayStart(row, t) THEN DrainQueue(Spawn(row, t, FALSE))
                              ELSE [row EXCEPT !.pending = Append(@, [task |-> t, resume |-> FALSE])]
                      \/ m' = WithStatus(row, t, "paused")
    BY <1>2 DEF Create
  <2>3. m.status[t] = "absent"
    BY <1>2 DEF Create
  <2> QED BY <2>1, <2>2, <2>3
<1>3. CASE PauseTask(t)
  <2>1. \A s, x : \A order \in Seq(Tasks) : Orderly(s) /\ x = PauseInner(s, t, order) => Fills(s, x)
    BY PauseInnerFills
  <2>2. PICK order \in Orders(m.autoPaused) : m' = PauseInner(m, t, order)
    BY <1>3 DEF PauseTask
  <2>3. order \in Seq(Tasks)
    BY <1>1, SomeOrder
  <2> QED BY <2>1, <2>2, <2>3
<1>4. CASE ResumeTask(t)
  <2>1. \A s, x : Orderly(s) /\ x = Resume(s, t) => Fills(s, x)
    BY ResumeFills
  <2> QED BY <1>4, <2>1 DEF ResumeTask
<1>5. CASE CancelTask(t)
  <2>1. \A s, x : /\ Orderly(s)
                  /\ x = LET y == Unqueued([s EXCEPT !.retries[t] = 0], t) IN
                         DrainQueue(WithStatus(IF y.active[t] = 0 THEN y ELSE Cancelled(y, t), t, "cancelled"))
                  => Fills(s, x)
    BY CancelFills
  <2>2. m' = LET y == Unqueued([m EXCEPT !.retries[t] = 0], t) IN
             DrainQueue(WithStatus(IF y.active[t] = 0 THEN y ELSE Cancelled(y, t), t, "cancelled"))
    BY <1>5 DEF CancelTask
  <2> QED BY <2>1, <2>2
<1>6. CASE RestartTask(t)
  <2>1. \A s, x, p : \A order \in Seq(Tasks) :
          /\ Orderly(s) /\ (p = s \/ p = PauseInner(s, t, order))
          /\ x = Resume([p EXCEPT !.status[t] = "pending", !.scheduled = @ \ {t}], t)
          => Fills(s, x)
    BY RestartFills
  <2>2. PICK order \in Orders(m.autoPaused) :
          \E p : /\ p = m \/ p = PauseInner(m, t, order)
                 /\ m' = Resume([p EXCEPT !.status[t] = "pending", !.scheduled = @ \ {t}], t)
    BY <1>6 DEF RestartTask
  <2>3. order \in Seq(Tasks)
    BY <1>1, SomeOrder
  <2> QED BY <2>1, <2>2, <2>3
<1> QED BY <1>2, <1>3, <1>4, <1>5, <1>6

LEMMA FinishDeleteFills ==
    ASSUME LifecycleInv, Settled(m), NEW aborted \in BOOLEAN, FinishDelete(aborted)
    PROVE  Fills(m, m')
<1> DEFINE t == deleting.task
           handle == {r \in m.runs : r.task = t /\ r.gen = deleting.gen}
           R == IF aborted THEN m.runs \ handle ELSE m.runs
<1>1. Good(m) /\ t \in Tasks /\ m.active[t] = 0 /\ ~Queued(m, t)
  BY DEF LifecycleInv, DeletedAlone, FinishDelete
<1>2. \A s, x, y : \A order \in Seq(Tasks) : \A S \in SUBSET s.runs :
        /\ Settled(s) /\ s.active[t] = 0 /\ ~Queued(s, t)
        /\ \A r \in s.runs : r.task = t \/ r \in S
        /\ y = Erased(s, t, S)
        /\ x = DrainQueue(EndBoostOf(y, t, order))
        => Fills(s, x)
  <2> HIDE DEF t
  <2> QED BY <1>1, FinishFills
<1>3. PICK order \in Orders(m.autoPaused) :
        \E y : /\ y = Erased(m, t, R)
               /\ m' = DrainQueue(EndBoostOf(y, t, order))
  <2>1. PICK o \in Orders(m.autoPaused) :
          m' = DrainQueue(EndBoostOf(
                 [m EXCEPT !.status[t] = "deleted", !.autoPaused = @ \ {t},
                           !.runs = IF aborted THEN @ \ handle ELSE @], t, o))
    BY DEF FinishDelete
  <2>2. [m EXCEPT !.status[t] = "deleted", !.autoPaused = @ \ {t},
                  !.runs = IF aborted THEN @ \ handle ELSE @] =
          Erased(m, t, R)
    BY DEF Erased
  <2> QED BY <2>1, <2>2
<1>4. order \in Seq(Tasks)
  BY <1>1, SomeOrder
<1>5. R \in SUBSET m.runs /\ (\A r \in m.runs : r.task = t \/ r \in R)
  OBVIOUS
<1> HIDE DEF R, t, handle
<1> QED BY <1>1, <1>2, <1>3, <1>4, <1>5

LEMMA OnTaskDoneFills ==
    ASSUME LifecycleInv, Settled(m), NEW r \in m.runs, OnTaskDone(r)
    PROVE  Fills(m, m')
<1> DEFINE t == r.task
<1>1. \A s, x : \A p \in s.runs : \A o \in Seq(Tasks) :
        Settled(s) /\ x = DrainQueue(Freed(s, p, o)) => Fills(s, x)
  BY DoneFills
<1>2. Good(m)
  BY DEF LifecycleInv
<1>3. PICK order \in Orders(m.autoPaused) :
        LET n == DrainQueue(Freed(m, r, order)) IN
        \/ m' = [n EXCEPT !.retries[t] = @ + 1, !.scheduled = @ \cup {t}]
        \/ m' = [n EXCEPT !.retries[t] = 0]
        \/ m' = n
  BY DEF OnTaskDone, Matches, Freed, WithoutRun, Dropped
<1>4. order \in Seq(Tasks)
  BY <1>2, SomeOrder
<1> DEFINE n == DrainQueue(Freed(m, r, order))
<1>5. \/ m' = [n EXCEPT !.retries[t] = @ + 1, !.scheduled = @ \cup {t}]
      \/ m' = [n EXCEPT !.retries[t] = 0]
      \/ m' = n
  BY <1>3
<1> HIDE DEF n
<1>6. Fills(m, n)
  BY <1>1, <1>4 DEF n
<1>7. Orderly(n) /\ n \in State
  BY <1>6 DEF Fills, Orderly, Settled, Good, Core
<1>8. /\ m'.active = n.active /\ m'.pending = n.pending
      /\ m'.limit = n.limit /\ m'.priority = n.priority
  BY <1>5, <1>7 DEF State
<1>9. Good(m')
  BY <1>2, OnTaskDoneServes
<1>10. \A s, x : /\ Orderly(s) /\ Good(x) /\ x.pending = s.pending
                 /\ x.active = s.active /\ x.limit = s.limit /\ x.priority = s.priority
                 => Fills(s, x)
  BY SameFills
<1>11. Fills(n, m')
  BY <1>7, <1>8, <1>9, <1>10
<1> QED BY <1>6, <1>11, CalmsFills, FillsCalms

\* No limit is passed, and no one waits who may start except while a task is
\* being deleted.
SlotInv == Settled(m) /\ (Idle => Tight(m))

LEMMA NextFills ==
    ASSUME "boost" \notin Ops, LifecycleInv, SlotInv, [LifecycleNext]_vars
    PROVE  Settled(m') /\ (Idle' => Tight(m')) /\ StartsOK(m, m')
<1>1. Settled(m) /\ Good(m) /\ (Idle => Orderly(m))
  BY DEF SlotInv, LifecycleInv, Orderly
<1>2. \A s, x : Fills(s, x) => Settled(x) /\ Tight(x) /\ StartsOK(s, x)
  BY DEF Fills, Orderly, Within
<1>3. CASE \E t \in Tasks : Create(t) \/ PauseTask(t) \/ ResumeTask(t) \/ CancelTask(t) \/ RestartTask(t)
  <2>1. Idle
    BY <1>3 DEF Create, PauseTask, ResumeTask, CancelTask, RestartTask, Request
  <2>2. Fills(m, m')
    BY <1>1, <1>3, <2>1, RequestFills
  <2> QED BY <1>2, <2>2
<1>4. CASE \E t \in Tasks : DeleteTask(t)
  <2>1. PICK t \in Tasks : DeleteTask(t)
    BY <1>4
  <2>2. \A s, x : /\ Orderly(s)
                  /\ x = LET y == Unqueued([s EXCEPT !.retries[t] = 0, !.scheduled = @ \ {t}], t) IN
                         IF y.active[t] = 0 THEN y ELSE Cancelled(y, t)
                  => Calms(s, x)
    BY DeleteCalms
  <2>3. m' = LET y == Unqueued([m EXCEPT !.retries[t] = 0, !.scheduled = @ \ {t}], t) IN
             IF y.active[t] = 0 THEN y ELSE Cancelled(y, t)
    BY <2>1 DEF DeleteTask
  <2>4. Idle /\ ~Idle'
    <3>1. Idle /\ deleting'.task = t
      BY <2>1 DEF DeleteTask, Request
    <3>2. NoDelete.task = NoTask
      BY DEF NoDelete
    <3> QED BY <3>1, <3>2, LifecycleAssumption DEF Idle, NoDelete
  <2>5. Calms(m, m')
    BY <1>1, <2>2, <2>3, <2>4
  <2> QED BY <2>4, <2>5 DEF Calms, Within
<1>5. CASE SetMaxConcurrent
  <2>1. \A s, x : \A n \in Limits :
          Orderly(s) /\ x = DrainQueue([s EXCEPT !.limit = n]) => Orderly(x) /\ StartsOK(s, x)
    BY LimitFills
  <2>2. PICK n \in Limits : m' = DrainQueue([m EXCEPT !.limit = n])
    BY <1>5 DEF SetMaxConcurrent
  <2>3. Idle
    BY <1>5 DEF SetMaxConcurrent, Request
  <2>4. Orderly(m') /\ StartsOK(m, m')
    BY <1>1, <2>1, <2>2, <2>3
  <2> QED BY <2>4 DEF Orderly
<1>6. CASE Crash
  <2>1. Good(m')
    BY <1>1, <1>6, CrashStepServes
  <2>2. m'.active = [t \in Tasks |-> 0] /\ m'.pending = <<>> /\ m'.priority = NoTask
    <3>1. m \in State
      BY <1>1 DEF Good, Core
    <3> QED BY <1>6, <3>1 DEF Crash, State
  <2>3. \A s, x : /\ Good(s) /\ Good(x)
                  /\ x.active = [t \in Tasks |-> 0] /\ x.pending = <<>> /\ x.priority = NoTask
                  => Orderly(x) /\ StartsOK(s, x)
    BY CrashFills
  <2>4. Orderly(m') /\ StartsOK(m, m')
    BY <1>1, <2>1, <2>2, <2>3
  <2> QED BY <2>4 DEF Orderly
<1>7. ASSUME /\ Good(m') /\ m'.active = m.active /\ m'.pending = m.pending
             /\ m'.limit = m.limit /\ m'.priority = m.priority /\ deleting' = deleting
      PROVE  Settled(m') /\ (Idle' => Tight(m')) /\ StartsOK(m, m')
  <2>1. \A s, x : /\ Settled(s) /\ Good(x) /\ Stops(s, x) /\ x.priority = s.priority
                  => Calms(s, x)
    BY StopCalms
  <2>2. Stops(m, m')
    BY <1>7 DEF Stops
  <2>3. Calms(m, m')
    BY <1>1, <1>7, <2>1, <2>2
  <2>4. Idle' = Idle
    BY <1>7 DEF Idle
  <2>5. \A s, x : /\ Tight(s) /\ x.active = s.active /\ x.pending = s.pending /\ x.limit = s.limit
                  => Tight(x)
    BY DEF Tight, Queued, MayStart, HasCapacity, HasQueueCapacity, Active
  <2>6. Idle' => Tight(m')
    BY <1>1, <1>7, <2>4, <2>5 DEF Orderly
  <2> QED BY <2>3, <2>6 DEF Calms, Within
<1>8. CASE \E r \in m.runs : RunStep(r)
  BY <1>7, <1>8, RunFills
<1>9. CASE \E r \in m.runs : OnTaskDone(r)
  <2>1. Fills(m, m')
    BY <1>1, <1>9, OnTaskDoneFills
  <2> QED BY <1>2, <2>1
<1>10. CASE \E aborted \in BOOLEAN : FinishDelete(aborted)
  <2>1. Fills(m, m')
    BY <1>1, <1>10, FinishDeleteFills
  <2> QED BY <1>2, <2>1
<1>11. CASE \E t \in Tasks : RetryFires(t)
  <2>1. PICK t \in Tasks : RetryFires(t)
    BY <1>11
  <2>2. Idle /\ (m' = ResumeInner(m, t) \/ m' = m)
    BY <2>1 DEF RetryFires
  <2>3. \A s, x : Orderly(s) /\ x = ResumeInner(s, t) => Fills(s, x)
    BY ResumeInnerFills
  <2>4. \A s, x : Orderly(s) /\ x = s => Fills(s, x)
    BY FillsSelf
  <2>5. Fills(m, m')
    BY <1>1, <2>2, <2>3, <2>4
  <2> QED BY <1>2, <2>5
<1>12. CASE (\E c \in cleanups : DeferredCleanup(c)) \/ UNCHANGED vars
  <2>1. m' = m /\ deleting' = deleting
    BY <1>12 DEF DeferredCleanup, vars
  <2> QED BY <1>1, <1>7, <2>1
<1>13. ~\E t \in Tasks : SetPriorityTask(t)
  BY DEF SetPriorityTask, Request
<1> QED BY <1>3, <1>4, <1>5, <1>6, <1>8, <1>9, <1>10, <1>11, <1>12, <1>13
        DEF LifecycleNext, SystemStep, UserStep

LEMMA SlotsAreKept ==
    ASSUME "boost" \notin Ops
    PROVE  LifecycleSpec => []SlotInv
<1>1. LifecycleInit => SlotInv
  <2> SUFFICES ASSUME LifecycleInit
               PROVE  SlotInv
    OBVIOUS
  <2>1. Good(m)
    BY InitInv DEF LifecycleInv
  <2>2. m.active = [t \in Tasks |-> 0] /\ m.pending = <<>> /\ m.priority = NoTask
    BY DEF LifecycleInit
  <2>3. Orderly(m)
    BY <2>1, <2>2, CrashFills
  <2> QED BY <2>3 DEF Orderly, SlotInv
<1>2. LifecycleInv /\ SlotInv /\ [LifecycleNext]_vars => SlotInv'
  <2> SUFFICES ASSUME LifecycleInv, SlotInv, [LifecycleNext]_vars
               PROVE  SlotInv'
    OBVIOUS
  <2>1. Settled(m') /\ (Idle' => Tight(m'))
    BY NextFills
  <2>2. Settled(m)'
    BY <2>1 DEF Settled, RoomOK, Beside, Active, Good, Core, RunsSound, Live, Rowed, Once, Waits
  <2>3. Idle' => Tight(m)'
    BY <2>1 DEF Tight, Queued, MayStart, HasCapacity, HasQueueCapacity, Active
  <2> QED BY <2>2, <2>3 DEF SlotInv
<1> QED BY <1>1, <1>2, LifecycleSafe, PTL DEF LifecycleSpec

\* Whatever the limits, the queues and the order of requests and reports, no
\* task waits that may start: every handler that frees a slot fills it.  (The
\* boost starts a task beyond the limits; then it need not hold.)
THEOREM SlotsAreFilled ==
    ASSUME "boost" \notin Ops
    PROVE  LifecycleSpec => []NoIdleSlot
<1>1. SlotInv => NoIdleSlot
  BY DEF SlotInv, Tight, NoIdleSlot
<1> QED BY <1>1, SlotsAreKept, PTL

\* No handler starts a task beyond the global limit or that of its queue.
THEOREM LimitsAreKept ==
    ASSUME "boost" \notin Ops
    PROVE  LifecycleSpec => StartsWithinLimits
<1> DEFINE A == \A t \in Tasks : m'.active[t] \notin {0, m.active[t]} =>
                  /\ m'.limit # 0 => Cardinality(Active(m')) <= m'.limit
                  /\ LET most == QueueMax[QueueOf[t]] IN
                     most # 0 => Cardinality({u \in Active(m') : QueueOf[u] = QueueOf[t]}) <= most
<1>1. LifecycleInv /\ SlotInv /\ [LifecycleNext]_vars => A
  <2> SUFFICES ASSUME LifecycleInv, SlotInv, [LifecycleNext]_vars
               PROVE  A
    OBVIOUS
  <2>1. StartsOK(m, m')
    BY NextFills
  <2> QED BY <2>1 DEF StartsOK, CountOK, RoomOK, Beside
<1>2. LifecycleInv /\ SlotInv /\ [LifecycleNext]_vars => [A]_vars
  BY <1>1
<1>3. StartsWithinLimits <=> [][A]_vars
  BY DEF StartsWithinLimits
<1> HIDE DEF A
<1> QED BY <1>2, <1>3, SlotsAreKept, LifecycleSafe, PTL DEF LifecycleSpec

-----------------------------------------------------------------------------
(***************************************************************************)
(* The boost.  No handler but cancel_task takes the entry of the boosted   *)
(* task away and leaves the boost on, unless the task waits in the queue   *)
(* or is being deleted.                                                    *)
(***************************************************************************)

\* The boost ends, or stays with its task, which goes on running or waits.
Minds(s, x) ==
    \/ x.priority = NoTask
    \/ /\ x.priority = s.priority
       /\ \A u \in Tasks : s.priority = u /\ s.active[u] # 0 => x.active[u] # 0 \/ Queued(x, u)

LEMMA KeepsBoostMinds == \A s, x : KeepsBoost(s, x) => Minds(s, x)
BY DEF KeepsBoost, Minds

LEMMA BoostThrough == \A s, y, x : KeepsBoost(s, y) /\ KeepsBoost(y, x) => KeepsBoost(s, x)
BY DEF KeepsBoost

LEMMA MindsThrough == \A s, y, x : KeepsBoost(s, y) /\ Minds(y, x) => Minds(s, x)
BY DEF KeepsBoost, Minds

LEMMA RunsKeepBoost ==
    \A s, x : x.priority = s.priority /\ StillRuns(s, x) => KeepsBoost(s, x)
BY DEF KeepsBoost, StillRuns

LEMMA SameKeepsBoost ==
    \A s, x : x.priority = s.priority /\ x.active = s.active => KeepsBoost(s, x)
BY DEF KeepsBoost

LEMMA DrainBoost ==
    ASSUME NEW s, Good(s), NEW x, x = DrainQueue(s)
    PROVE  KeepsBoost(s, x)
<1>1. x.priority = s.priority /\ StillRuns(s, x)
  BY DrainKeeps
<1> QED BY <1>1, RunsKeepBoost

\* A resume drops the entry of a run that is over: its task is started again or
\* put into the queue.
LEMMA ResumeInnerMinds ==
    ASSUME NEW s, Good(s), NEW t \in Tasks, NEW x, x = ResumeInner(s, t)
    PROVE  Minds(s, x)
<1> DEFINE s1 == Unmarked(s, t)
           s2 == Dropped(s1, t)
           b == TRUE
           e == [task |-> t, resume |-> b]
           v == IF s2.status[t] = "completed" THEN "completed" ELSE "pending"
<1>1. Good(s1) /\ s1.priority = s.priority /\ s1.active = s.active /\ s1.status = s.status
  BY UnmarkedKeeps DEF Alike
<1>2. x = IF s1.active[t] # 0 /\ s1.status[t] \notin Terminal THEN s1
          ELSE IF Queued(s2, t) THEN s2
          ELSE IF MayStart(s2, t) THEN DrainQueue(Spawn(s2, t, b))
          ELSE IF s2.status[t] \in Gone THEN s2
          ELSE [s2 EXCEPT !.status[t] = IF @ = "completed" THEN @ ELSE "pending",
                          !.pending = Append(@, e)]
  BY DEF ResumeInner, Dropped, Unmarked
<1>3. /\ Good(s2) /\ s2.active[t] = 0 /\ s2.priority = s.priority /\ s2.status = s.status
      /\ \A u \in Tasks \ {t} : s2.active[u] = s.active[u]
  <2>1. s1 \in State
    BY <1>1 DEF Good, Core
  <2>2. \A u \in Tasks \ {t} : s2.active[u] = s1.active[u]
    BY <2>1 DEF Dropped, State
  <2> HIDE DEF s1
  <2>3. Good(s2) /\ s2.active[t] = 0 /\ s2.priority = s1.priority /\ s2.status = s1.status
    BY <1>1, DroppedKeeps
  <2> QED BY <1>1, <2>2, <2>3
<1>4. b \in BOOLEAN
  OBVIOUS
<1> HIDE DEF s1, s2, b
<1>5. s.active[t] # 0 => s.status[t] \notin Gone
  BY DEF Good, Core, Rowed
<1>6. CASE s1.active[t] # 0 /\ s1.status[t] \notin Terminal
  <2>1. x = s1
    BY <1>2, <1>6
  <2> QED BY <1>1, <2>1 DEF Minds
<1>7. CASE ~(s1.active[t] # 0 /\ s1.status[t] \notin Terminal) /\ Queued(s2, t)
  <2>1. x = s2
    BY <1>2, <1>7
  <2> QED BY <1>3, <1>7, <2>1 DEF Minds
<1>8. CASE ~(s1.active[t] # 0 /\ s1.status[t] \notin Terminal) /\ ~Queued(s2, t) /\ MayStart(s2, t)
  <2> DEFINE y == Spawn(s2, t, b)
  <2>1. x = DrainQueue(y)
    BY <1>2, <1>8
  <2>2. Good(y) /\ y.priority = s2.priority
    BY <1>3, <1>4, <1>8, SpawnGood
  <2>3. Core(s2)
    BY <1>3 DEF Good
  <2>4. \A u \in Tasks \ {t} : y.active[u] = s2.active[u]
    BY <1>3, <1>4, <2>3, SpawnKeeps
  <2>5. s2.status[t] \notin Gone => y.active[t] # 0
    BY <1>4, <2>3, SpawnRuns
  <2> HIDE DEF y
  <2>6. KeepsBoost(s, y)
    BY <1>3, <1>5, <2>2, <2>4, <2>5 DEF KeepsBoost
  <2>7. KeepsBoost(y, x)
    BY <2>1, <2>2, DrainBoost
  <2> QED BY <2>6, <2>7, BoostThrough, KeepsBoostMinds
<1>9. CASE ~(s1.active[t] # 0 /\ s1.status[t] \notin Terminal) /\ ~Queued(s2, t) /\ ~MayStart(s2, t)
  <2>1. CASE s2.status[t] \in Gone
    <3>1. x = s2
      BY <1>2, <1>9, <2>1
    <3> QED BY <1>3, <1>5, <2>1, <3>1 DEF Minds
  <2>2. CASE s2.status[t] \notin Gone
    <3> DEFINE y == Restated(s2, t, v)
    <3>1. s2 \in State
      BY <1>3 DEF Good, Core
    <3>2. x = [y EXCEPT !.pending = Append(y.pending, e)]
      <4>1. x = [s2 EXCEPT !.status[t] = IF @ = "completed" THEN @ ELSE "pending",
                           !.pending = Append(@, e)]
        BY <1>2, <1>9, <2>2
      <4>2. y.pending = s2.pending
        BY <3>1 DEF Restated, State
      <4> QED BY <3>1, <4>1, <4>2 DEF Restated, State
    <3>3. v \in Statuses \ Gone
      BY DEF Statuses, Gone, Terminal
    <3> HIDE DEF v
    <3>4. Core(y) /\ y.active = s2.active /\ y.priority = s2.priority
      BY <1>3, <3>3, NewStatusKeeps DEF Good
    <3>5. e \in Entry /\ e.task = t
      BY <1>4 DEF Entry
    <3> HIDE DEF y, e
    <3>6. y \in State /\ y.pending \in Seq(Entry)
      BY <3>4 DEF Core, State
    <3>7. x.active = y.active /\ x.priority = y.priority /\ x.pending = Append(y.pending, e)
      BY <3>2, <3>6 DEF State
    <3>8. Queued(x, t)
      <4>1. LET p == Append(y.pending, e) IN
            Len(y.pending) + 1 \in DOMAIN p /\ p[Len(y.pending) + 1] = e
        BY <3>5, <3>6
      <4> QED BY <3>5, <3>7, <4>1 DEF Queued
    <3> QED BY <1>3, <3>4, <3>7, <3>8 DEF Minds
  <2> QED BY <2>1, <2>2
<1> QED BY <1>6, <1>7, <1>8, <1>9

LEMMA ResumeMinds ==
    ASSUME NEW s, Good(s), NEW t \in Tasks, NEW x, x = Resume(s, t)
    PROVE  Minds(s, x)
<1> DEFINE y == Forgotten(s, t)
<1>1. s \in State
  BY DEF Good, Core
<1>2. y.priority = s.priority
  BY <1>1 DEF Forgotten, State
<1>3. x = ResumeInner(y, t)
  BY DEF Resume, Forgotten
<1>4. Good(y) /\ y.active = s.active
  BY ForgottenKeeps DEF Alike
<1> HIDE DEF y
<1>5. KeepsBoost(s, y)
  BY <1>2, <1>4, SameKeepsBoost
<1>6. Minds(y, x)
  BY <1>3, <1>4, ResumeInnerMinds
<1> QED BY <1>5, <1>6, MindsThrough

\* Pausing the boosted task ends the boost, unless the task waits.
LEMMA PauseBoost ==
    ASSUME NEW s, Good(s), NEW t \in Tasks, NEW order \in Seq(Tasks),
           NEW x, x = PauseInner(s, t, order)
    PROVE  KeepsBoost(s, x)
<1> DEFINE s1 == Unmarked(s, t)
           v == "paused"
<1>1. Good(s1) /\ s1.priority = s.priority /\ s1.active = s.active
  BY UnmarkedKeeps DEF Alike
<1>2. x = IF Queued(s1, t) THEN WithStatus(Unqueued(s1, t), t, v)
          ELSE IF s1.active[t] = 0 THEN s1
          ELSE EndBoostOf(DrainQueue(WithStatus(Cancelled(s1, t), t, v)), t, order)
  BY DEF PauseInner, Unmarked
<1>3. v \in Statuses \ Gone
  BY DEF Statuses, Gone, Terminal
<1> HIDE DEF s1, v
<1>4. CASE Queued(s1, t)
  <2> DEFINE y == Unqueued(s1, t)
  <2>1. Core(y) /\ y.active = s1.active /\ y.priority = s1.priority
    BY <1>1, UnqueuedKeeps DEF Good
  <2>2. x = WithStatus(y, t, v)
    BY <1>2, <1>4
  <2> HIDE DEF y
  <2>3. x.active = y.active /\ x.priority = y.priority
    BY <1>3, <2>1, <2>2, StatusKeeps
  <2> QED BY <1>1, <2>1, <2>3, SameKeepsBoost
<1>5. CASE ~Queued(s1, t) /\ s1.active[t] = 0
  BY <1>1, <1>2, <1>5, SameKeepsBoost
<1>6. CASE ~Queued(s1, t) /\ s1.active[t] # 0
  <2> DEFINE y == Cancelled(s1, t)
             z == WithStatus(y, t, v)
             d == DrainQueue(z)
  <2>1. Good(y)
    BY <1>1, CancelledGood
  <2>2. y.priority = s1.priority /\ \A u \in Tasks \ {t} : y.active[u] = s1.active[u]
    BY <1>1, CancelledKeeps DEF Good
  <2>3. x = EndBoostOf(d, t, order)
    BY <1>2, <1>6
  <2> HIDE DEF y
  <2>4. z.active = y.active /\ z.priority = y.priority
    BY <1>3, <2>1, StatusKeeps DEF Good
  <2>5. Good(z)
    BY <1>3, <2>1, StatusGood
  <2> HIDE DEF z
  <2>6. Good(d) /\ d.priority = z.priority /\ StillRuns(z, d)
    BY <2>5, DrainKeeps
  <2> HIDE DEF d
  <2>7. /\ x.priority # t \/ t = NoTask
        /\ x.priority = d.priority \/ x.priority = NoTask
        /\ d.priority # t => x = d
    BY <2>3, <2>6, EndBoostKeeps
  <2>8. CASE s.priority = t
    BY <1>1, <2>2, <2>4, <2>6, <2>7, <2>8 DEF KeepsBoost
  <2>9. CASE s.priority # t
    BY <1>1, <2>2, <2>4, <2>6, <2>7, <2>9 DEF KeepsBoost, StillRuns
  <2> QED BY <2>8, <2>9
<1> QED BY <1>4, <1>5, <1>6

LEMMA CreateBoost ==
    ASSUME NEW s, Good(s), NEW t \in Tasks, s.status[t] = "absent", NEW row,
           row = [s EXCEPT !.status[t] = "pending"], NEW x,
           \/ x = IF MayStart(row, t) THEN DrainQueue(Spawn(row, t, FALSE))
                  ELSE [row EXCEPT !.pending = Append(@, [task |-> t, resume |-> FALSE])]
           \/ x = WithStatus(row, t, "paused")
    PROVE  KeepsBoost(s, x)
<1> DEFINE v == "pending"
           w == "paused"
           b == FALSE
           e == [task |-> t, resume |-> b]
<1>1. s \in State /\ Core(s) /\ s.active[t] = 0 /\ ~Queued(s, t)
  BY DEF Good, Core, Rowed, Waits, Queued, Gone
<1>2. row = Restated(s, t, v)
  BY <1>1 DEF Restated, State
<1>3. v \in Statuses \ Gone /\ w \in Statuses \ Gone
  BY DEF Statuses, Gone, Terminal
<1>11. b \in BOOLEAN
  OBVIOUS
<1>4. \/ x = DrainQueue(Spawn(row, t, b))
      \/ x = [row EXCEPT !.pending = Append(row.pending, e)]
      \/ x = WithStatus(row, t, w)
  OBVIOUS
<1> HIDE DEF v, w, b, e
<1>5. Good(row)
  BY ONLY Good(s), t \in Tasks, <1>2, <1>3, NewStatusGood
<1>6. row.pending = s.pending /\ row.active = s.active /\ row.priority = s.priority
  BY ONLY <1>1, t \in Tasks, <1>2, <1>3, NewStatusKeeps
<1>7. row.active[t] = 0 /\ ~Queued(row, t) /\ Core(row) /\ row \in State
  BY <1>1, <1>5, <1>6 DEF Queued, Good, Core
<1>8. CASE x = DrainQueue(Spawn(row, t, b))
  <2> DEFINE y == Spawn(row, t, b)
  <2>1. Good(y) /\ y.priority = row.priority
    BY ONLY <1>5, <1>7, <1>11, t \in Tasks, SpawnGood
  <2>2. \A u \in Tasks \ {t} : y.active[u] = row.active[u]
    BY ONLY <1>7, <1>11, t \in Tasks, SpawnKeeps
  <2>3. x = DrainQueue(y)
    BY <1>8
  <2> HIDE DEF y
  <2>4. KeepsBoost(s, y)
    BY <1>1, <1>6, <2>1, <2>2 DEF KeepsBoost
  <2>5. KeepsBoost(y, x)
    BY <2>1, <2>3, DrainBoost
  <2> QED BY <2>4, <2>5, BoostThrough
<1>9. CASE x = [row EXCEPT !.pending = Append(row.pending, e)]
  <2>1. x.active = row.active /\ x.priority = row.priority
    BY <1>7, <1>9 DEF State
  <2> QED BY <1>6, <2>1, SameKeepsBoost
<1>10. CASE x = WithStatus(row, t, w)
  <2>1. x.active = row.active /\ x.priority = row.priority
    BY ONLY <1>3, <1>7, <1>10, t \in Tasks, StatusKeeps
  <2> QED BY <1>6, <2>1, SameKeepsBoost
<1> QED BY <1>4, <1>8, <1>9, <1>10

LEMMA RestartMinds ==
    ASSUME NEW s, Good(s), NEW t \in Tasks, NEW order \in Seq(Tasks), NEW p,
           p = s \/ p = PauseInner(s, t, order),
           NEW x, x = Resume([p EXCEPT !.status[t] = "pending", !.scheduled = @ \ {t}], t)
    PROVE  Minds(s, x)
<1> DEFINE v == "pending"
           y == Restated(p, t, v)
           z == Unmarked(y, t)
<1>1. Good(p) /\ KeepsBoost(s, p)
  BY SameKeepsBoost, PauseBoost, PauseInnerKeeps DEF Paused
<1>2. p \in State /\ Core(p)
  BY <1>1 DEF Good, Core
<1>3. z = [p EXCEPT !.status[t] = "pending", !.scheduled = @ \ {t}]
  BY <1>2 DEF Unmarked, Restated, State
<1>4. x = Resume(z, t)
  BY <1>3
<1>5. v \in Statuses \ Gone
  BY DEF Statuses, Gone, Terminal
<1> HIDE DEF v
<1>6. Good(y) /\ y.active = p.active /\ y.priority = p.priority
  <2>1. Good(y)
    BY <1>1, <1>5, NewStatusGood
  <2>2. y.active = p.active /\ y.priority = p.priority
    BY <1>2, <1>5, NewStatusKeeps
  <2> QED BY <2>1, <2>2
<1> HIDE DEF y
<1>7. Good(z) /\ z.active = y.active /\ z.priority = y.priority
  BY <1>6, UnmarkedKeeps DEF Alike
<1> HIDE DEF z
<1>8. KeepsBoost(p, z)
  BY <1>6, <1>7, SameKeepsBoost
<1>9. KeepsBoost(s, z)
  BY <1>1, <1>8, BoostThrough
<1>10. Minds(z, x)
  BY <1>4, <1>7, ResumeMinds
<1> QED BY <1>9, <1>10, MindsThrough

\* No entry is touched but that of t, nor the boost.
OnlyOf(s, x, t) ==
    x.priority = s.priority /\ \A u \in Tasks : u # t => x.active[u] = s.active[u]

\* The first half of delete_task takes the entry of its own task only.
LEMMA DeleteBoost ==
    ASSUME NEW s, Good(s), NEW t \in Tasks, NEW x,
           x = LET y == Unqueued([s EXCEPT !.retries[t] = 0, !.scheduled = @ \ {t}], t) IN
               IF y.active[t] = 0 THEN y ELSE Cancelled(y, t)
    PROVE  OnlyOf(s, x, t)
<1> DEFINE f == Forgotten(s, t)
           w == Unmarked(f, t)
           y == Unqueued(w, t)
<1>1. s \in State
  BY DEF Good, Core
<1>2. [s EXCEPT !.retries[t] = 0, !.scheduled = @ \ {t}] = w /\ f.priority = s.priority
  BY <1>1 DEF State, Forgotten, Unmarked
<1>3. Good(f) /\ f.active = s.active
  BY ForgottenKeeps DEF Alike
<1>4. x = y \/ x = Cancelled(y, t)
  BY <1>2
<1> HIDE DEF f
<1>5. Good(w) /\ w.active = f.active /\ w.priority = f.priority
  BY <1>3, UnmarkedKeeps DEF Alike
<1> HIDE DEF w
<1>6. Core(y) /\ y.active = w.active /\ y.priority = w.priority
  BY <1>5, UnqueuedKeeps DEF Good
<1> HIDE DEF y
<1>7. x.priority = y.priority /\ \A u \in Tasks \ {t} : x.active[u] = y.active[u]
  BY <1>4, <1>6, CancelledKeeps
<1> QED BY <1>2, <1>3, <1>5, <1>6, <1>7 DEF OnlyOf

LEMMA LimitBoost ==
    ASSUME NEW s, Good(s), NEW n \in Limits, NEW x, x = DrainQueue([s EXCEPT !.limit = n])
    PROVE  KeepsBoost(s, x)
<1> DEFINE y == [s EXCEPT !.limit = n]
<1>1. s \in State
  BY DEF Good, Core
<1>2. y \in State /\ Alike(s, y) /\ y.priority = s.priority /\ y.active = s.active
  BY <1>1 DEF State, Alike
<1>3. x = DrainQueue(y)
  OBVIOUS
<1> HIDE DEF y
<1>4. Good(y)
  BY <1>2, AlikeGood
<1>5. KeepsBoost(s, y) /\ KeepsBoost(y, x)
  BY <1>2, <1>3, <1>4, SameKeepsBoost, DrainBoost
<1> QED BY <1>5, BoostThrough

\* The requests that leave the boost with its task, or end it.
LEMMA RequestMinds ==
    ASSUME Good(m), NEW t \in Tasks,
           Create(t) \/ PauseTask(t) \/ ResumeTask(t) \/ RestartTask(t)
    PROVE  Minds(m, m')
<1>1. CASE Create(t)
  <2>1. \A s, x, row : /\ Good(s) /\ s.status[t] = "absent" /\ row = [s EXCEPT !.status[t] = "pending"]
                       /\ \/ x = IF MayStart(row, t) THEN DrainQueue(Spawn(row, t, FALSE))
                                 ELSE [row EXCEPT !.pending = Append(@, [task |-> t, resume |-> FALSE])]
                          \/ x = WithStatus(row, t, "paused")
                       => KeepsBoost(s, x)
    BY CreateBoost
  <2>2. PICK row : /\ row = [m EXCEPT !.status[t] = "pending"]
                   /\ \/ m' = IF MayStart(row, t) THEN DrainQueue(Spawn(row, t, FALSE))
                              ELSE [row EXCEPT !.pending = Append(@, [task |-> t, resume |-> FALSE])]
                      \/ m' = WithStatus(row, t, "paused")
    BY <1>1 DEF Create
  <2>3. m.status[t] = "absent"
    BY <1>1 DEF Create
  <2>4. KeepsBoost(m, m')
    BY <2>1, <2>2, <2>3
  <2> QED BY <2>4, KeepsBoostMinds
<1>2. CASE PauseTask(t)
  <2>1. \A s, x : \A order \in Seq(Tasks) :
          Good(s) /\ x = PauseInner(s, t, order) => KeepsBoost(s, x)
    BY PauseBoost
  <2>2. PICK order \in Orders(m.autoPaused) : m' = PauseInner(m, t, order)
    BY <1>2 DEF PauseTask
  <2>3. order \in Seq(Tasks)
    BY SomeOrder
  <2>4. KeepsBoost(m, m')
    BY <2>1, <2>2, <2>3
  <2> QED BY <2>4, KeepsBoostMinds
<1>3. CASE ResumeTask(t)
  <2>1. \A s, x : Good(s) /\ x = Resume(s, t) => Minds(s, x)
    BY ResumeMinds
  <2> QED BY <1>3, <2>1 DEF ResumeTask
<1>4. CASE RestartTask(t)
  <2>1. \A s, x, p : \A order \in Seq(Tasks) :
          /\ Good(s) /\ (p = s \/ p = PauseInner(s, t, order))
          /\ x = Resume([p EXCEPT !.status[t] = "pending", !.scheduled = @ \ {t}], t)
          => Minds(s, x)
    BY RestartMinds
  <2>2. PICK order \in Orders(m.autoPaused) :
          \E p : /\ p = m \/ p = PauseInner(m, t, order)
                 /\ m' = Resume([p EXCEPT !.status[t] = "pending", !.scheduled = @ \ {t}], t)
    BY <1>4 DEF RestartTask
  <2>3. order \in Seq(Tasks)
    BY SomeOrder
  <2> QED BY <2>1, <2>2, <2>3
<1> QED BY <1>1, <1>2, <1>3, <1>4

\* A TaskDone whose entry was that of the boosted task ends the boost.
LEMMA OnTaskDoneBoost ==
    ASSUME Good(m), NEW r \in m.runs, OnTaskDone(r)
    PROVE  KeepsBoost(m, m')
<1> DEFINE t == r.task
           N(order) == DrainQueue(Freed(m, r, order))
<1>1. PICK order \in Orders(m.autoPaused) :
        LET n == DrainQueue(Freed(m, r, order)) IN
        \/ m' = [n EXCEPT !.retries[t] = @ + 1, !.scheduled = @ \cup {t}]
        \/ m' = [n EXCEPT !.retries[t] = 0]
        \/ m' = n
  BY DEF OnTaskDone, Matches, Freed, WithoutRun, Dropped
<1>2. order \in Seq(Tasks)
  BY SomeOrder
<1> DEFINE n == DrainQueue(Freed(m, r, order))
<1>3. \/ m' = [n EXCEPT !.retries[t] = @ + 1, !.scheduled = @ \cup {t}]
      \/ m' = [n EXCEPT !.retries[t] = 0]
      \/ m' = n
  BY <1>1
<1>4. \A s, x : \A p \in s.runs : \A o \in Seq(Tasks) :
        Good(s) /\ x = DrainQueue(Freed(s, p, o)) => Good(x) /\ KeepsBoost(s, x)
  BY DoneServes
<1> HIDE DEF n
<1>5. Good(n) /\ KeepsBoost(m, n)
  BY <1>2, <1>4 DEF n
<1>6. n \in State
  BY <1>5 DEF Good, Core
<1>7. m'.active = n.active /\ m'.priority = n.priority
  BY <1>3, <1>6 DEF State
<1>8. KeepsBoost(n, m')
  BY <1>7, SameKeepsBoost
<1> QED BY <1>5, <1>8, BoostThrough

\* The second half of delete_task ends the boost of the task it deletes.
LEMMA FinishDeleteBoost ==
    ASSUME LifecycleInv, NEW aborted \in BOOLEAN, FinishDelete(aborted)
    PROVE  KeepsBoost(m, m') /\ m'.priority # deleting.task
<1> DEFINE t == deleting.task
           handle == {r \in m.runs : r.task = t /\ r.gen = deleting.gen}
           R == IF aborted THEN m.runs \ handle ELSE m.runs
<1>1. Good(m) /\ t \in Tasks /\ m.active[t] = 0 /\ ~Queued(m, t)
  BY DEF LifecycleInv, DeletedAlone, FinishDelete
<1>2. \A s, x, y : \A order \in Seq(Tasks) : \A S \in SUBSET s.runs :
        /\ Good(s) /\ s.active[t] = 0 /\ ~Queued(s, t)
        /\ \A r \in s.runs : r.task = t \/ r \in S
        /\ y = Erased(s, t, S)
        /\ x = DrainQueue(EndBoostOf(y, t, order))
        => KeepsBoost(s, x) /\ x.priority # t
  <2> HIDE DEF t
  <2> QED BY <1>1, FinishServes
<1>3. PICK order \in Orders(m.autoPaused) :
        \E y : /\ y = Erased(m, t, R)
               /\ m' = DrainQueue(EndBoostOf(y, t, order))
  <2>1. PICK o \in Orders(m.autoPaused) :
          m' = DrainQueue(EndBoostOf(
                 [m EXCEPT !.status[t] = "deleted", !.autoPaused = @ \ {t},
                           !.runs = IF aborted THEN @ \ handle ELSE @], t, o))
    BY DEF FinishDelete
  <2>2. [m EXCEPT !.status[t] = "deleted", !.autoPaused = @ \ {t},
                  !.runs = IF aborted THEN @ \ handle ELSE @] =
          Erased(m, t, R)
    BY DEF Erased
  <2> QED BY <2>1, <2>2
<1>4. order \in Seq(Tasks)
  BY <1>1, SomeOrder
<1>5. R \in SUBSET m.runs /\ (\A r \in m.runs : r.task = t \/ r \in R)
  OBVIOUS
<1>6. t = deleting.task
  OBVIOUS
<1> HIDE DEF R, t, handle
<1> QED BY <1>1, <1>2, <1>3, <1>4, <1>5, <1>6

\* What every step does for the task t that has the boost after it.
BoostRests(t) ==
    \/ m'.active[t] # 0 \/ Queued(m', t)
    \/ deleting'.task = t
    \/ m.priority = t /\ m.active[t] = 0 /\ deleting.task # t

LEMMA NextMinds ==
    ASSUME "cancel" \notin Ops, LifecycleInv, [LifecycleNext]_vars,
           NEW k \in Tasks, m'.priority = k
    PROVE  BoostRests(k)
<1>1. Good(m) /\ k # NoTask
  BY LifecycleAssumption DEF LifecycleInv
<1>2. ASSUME Minds(m, m'), deleting.task # k
      PROVE  BoostRests(k)
  BY <1>1, <1>2 DEF Minds, BoostRests
<1>3. Idle => deleting.task # k
  BY <1>1 DEF Idle, NoDelete
<1>4. CASE \E t \in Tasks : Create(t) \/ PauseTask(t) \/ ResumeTask(t) \/ RestartTask(t)
  <2>1. Idle
    BY <1>4 DEF Create, PauseTask, ResumeTask, RestartTask, Request
  <2>2. Minds(m, m')
    BY <1>1, <1>4, RequestMinds
  <2> QED BY <1>2, <1>3, <2>1, <2>2
<1>5. CASE \E t \in Tasks : SetPriorityTask(t)
  <2>1. PICK t \in Tasks : SetPriorityTask(t)
    BY <1>5
  <2>2. PICK order \in Orders(Tasks) : m' = SetPriority(m, t, order)
    BY <2>1 DEF SetPriorityTask
  <2>3. order \in Seq(Tasks)
    BY <1>1, SomeOrder
  <2>4. \A s, x : \A o \in Seq(Tasks) :
          Good(s) /\ x = SetPriority(s, t, o) => x.priority = NoTask \/ (x.priority = t /\ x.active[t] # 0)
    BY SetPriorityKeeps
  <2>5. m'.priority = NoTask \/ (m'.priority = t /\ m'.active[t] # 0)
    BY <1>1, <2>2, <2>3, <2>4
  <2> QED BY <1>1, <2>5 DEF BoostRests
<1>6. CASE \E t \in Tasks : DeleteTask(t)
  <2>1. PICK t \in Tasks : DeleteTask(t)
    BY <1>6
  <2>2. \A s, x : /\ Good(s)
                  /\ x = LET y == Unqueued([s EXCEPT !.retries[t] = 0, !.scheduled = @ \ {t}], t) IN
                         IF y.active[t] = 0 THEN y ELSE Cancelled(y, t)
                  => OnlyOf(s, x, t)
    BY DeleteBoost
  <2>3. m' = LET y == Unqueued([m EXCEPT !.retries[t] = 0, !.scheduled = @ \ {t}], t) IN
             IF y.active[t] = 0 THEN y ELSE Cancelled(y, t)
    BY <2>1 DEF DeleteTask
  <2>4. OnlyOf(m, m', t)
    BY <1>1, <2>2, <2>3
  <2>5. Idle /\ deleting'.task = t
    BY <2>1 DEF DeleteTask, Request
  <2> QED BY <1>3, <2>4, <2>5 DEF BoostRests, OnlyOf
<1>7. CASE SetMaxConcurrent
  <2>1. \A s, x : \A n \in Limits :
          Good(s) /\ x = DrainQueue([s EXCEPT !.limit = n]) => KeepsBoost(s, x)
    BY LimitBoost
  <2>2. PICK n \in Limits : m' = DrainQueue([m EXCEPT !.limit = n])
    BY <1>7 DEF SetMaxConcurrent
  <2>3. Idle
    BY <1>7 DEF SetMaxConcurrent, Request
  <2>4. KeepsBoost(m, m')
    BY <1>1, <2>1, <2>2
  <2> QED BY <1>2, <1>3, <2>3, <2>4, KeepsBoostMinds
<1>8. CASE Crash
  <2>1. m \in State
    BY <1>1 DEF Good, Core
  <2>2. m'.priority = NoTask
    BY <1>8, <2>1 DEF Crash, State
  <2> QED BY <1>1, <2>2
<1>9. ASSUME m'.active = m.active, m'.priority = m.priority, deleting' = deleting
      PROVE  BoostRests(k)
  BY <1>9 DEF BoostRests
<1>10. CASE \E r \in m.runs : RunStep(r)
  BY <1>9, <1>10, RunFills
<1>11. CASE \E r \in m.runs : OnTaskDone(r)
  <2>1. KeepsBoost(m, m') /\ Idle
    BY <1>1, <1>11, OnTaskDoneBoost DEF OnTaskDone
  <2> QED BY <1>2, <1>3, <2>1, KeepsBoostMinds
<1>12. CASE \E aborted \in BOOLEAN : FinishDelete(aborted)
  <2>1. KeepsBoost(m, m') /\ m'.priority # deleting.task
    BY <1>12, FinishDeleteBoost
  <2> QED BY <1>2, <2>1, KeepsBoostMinds
<1>13. CASE \E t \in Tasks : RetryFires(t)
  <2>1. PICK t \in Tasks : RetryFires(t)
    BY <1>13
  <2>2. Idle /\ (m' = ResumeInner(m, t) \/ m' = m)
    BY <2>1 DEF RetryFires
  <2>3. \A s, x : Good(s) /\ x = ResumeInner(s, t) => Minds(s, x)
    BY ResumeInnerMinds
  <2>4. \A s, x : x = s => Minds(s, x)
    BY DEF Minds
  <2>5. Minds(m, m')
    BY <1>1, <2>2, <2>3, <2>4
  <2> QED BY <1>2, <1>3, <2>2, <2>5
<1>14. CASE (\E c \in cleanups : DeferredCleanup(c)) \/ UNCHANGED vars
  <2>1. CASE UNCHANGED vars
    BY <1>9, <2>1 DEF vars
  <2>2. CASE \E c \in cleanups : DeferredCleanup(c)
    BY <1>9, <2>2 DEF DeferredCleanup
  <2> QED BY <1>14, <2>1, <2>2
<1>15. ~\E t \in Tasks : CancelTask(t)
  BY DEF CancelTask, Request
<1> QED BY <1>4, <1>5, <1>6, <1>7, <1>8, <1>10, <1>11, <1>12, <1>13, <1>14, <1>15
        DEF LifecycleNext, SystemStep, UserStep

\* Where nothing is cancelled, no request, report or deletion, in whatever order
\* they come, takes the entry of the boosted task away and leaves the boost on,
\* but a resume that puts the task into the queue and a deletion under way.
THEOREM BoostIsNotLost ==
    ASSUME "cancel" \notin Ops
    PROVE  LifecycleSpec => BoostEndsWithItsRun
<1> DEFINE A == \A t \in Tasks : m'.priority = t =>
                  \/ m'.active[t] # 0 \/ Queued(m', t)
                  \/ deleting'.task = t
                  \/ m.priority = t /\ m.active[t] = 0 /\ deleting.task # t
<1>1. LifecycleInv /\ [LifecycleNext]_vars => A
  BY NextMinds DEF BoostRests
<1>2. LifecycleInv /\ [LifecycleNext]_vars => [A]_vars
  BY <1>1
<1>3. BoostEndsWithItsRun <=> [][A]_vars
  BY DEF BoostEndsWithItsRun
<1> HIDE DEF A
<1> QED BY <1>2, <1>3, LifecycleSafe, PTL DEF LifecycleSpec

=============================================================================
