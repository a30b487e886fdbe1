------------------------ MODULE RampController_proofs ------------------------
(***************************************************************************)
(* Proofs about RampController, for any plans, caps and number of events.  *)
(***************************************************************************)
EXTENDS RampController, TLAPS

Freezes ==
    [kind : {"active", "hard"}]
        \cup [kind : {"soft"}, waited : Nat, cooldown : Nat, attempts : Nat]

Downloads ==
    [state : {"running"}, cap : Nat, hint : Nat, allowed : Nat, alive : Nat,
     range : {"unknown", "supported", "unsupported"}, tail : BOOLEAN, expansions : Nat,
     freeze : Freezes, rejects : Nat, serial : BOOLEAN, sensitive : BOOLEAN,
     awaiting : BOOLEAN, probe : BOOLEAN, probes : Nat, preGrow : Nat, strikes : Nat,
     proven : Nat, beneficial : Nat, frozenAt : Nat]

\* The numbers stay within the cap.
Within(r) ==
    /\ r.allowed \in 1 .. r.cap /\ r.preGrow \in 0 .. r.cap
    /\ r.beneficial \in 1 .. r.cap /\ r.proven \in 0 .. r.cap
    /\ r.alive \in 0 .. r.cap
    /\ r.strikes \in 0 .. ShrinkStrikes - 1

\* A growth under evaluation at most doubled the allowance, and is never under
\* evaluation in a hard freeze.
Evaluated(r) ==
    /\ r.probe => r.awaiting
    /\ r.awaiting =>
        /\ r.range = "supported"
        /\ IF r.probe THEN r.freeze.kind = "soft" ELSE r.freeze.kind = "active"
        /\ 1 <= r.preGrow /\ r.preGrow <= r.allowed /\ r.allowed <= 2 * r.preGrow
        /\ r.alive <= 2 * r.preGrow + 1

\* Half of the workers alive are never more than the allowance.
Halvable(r) == r.alive <= 2 * r.allowed + 1

\* What a soft freeze has added so far; a probe under evaluation adds one more.
Creep(r) ==
    r.freeze.kind = "soft" =>
        IF r.awaiting
        THEN r.preGrow <= r.frozenAt + r.expansions /\ r.allowed <= r.preGrow + 1
        ELSE r.allowed <= r.frozenAt + r.expansions + (IF r.tail THEN 1 ELSE 0)

Sane(r) == r \in Downloads /\ Within(r) /\ Evaluated(r) /\ Halvable(r) /\ Creep(r)

Entries(now) == [cap : Nat, capTs : 0 .. now, hint : Nat, hintTs : 0 .. now]

\* The record of the host is at least as strict, and as young, as every refusal
\* that still counts.
RefusalsRecorded ==
    \A x \in refusals :
        /\ Fresh(x.at, clock)
        /\ 0 < policy.cap /\ policy.cap <= x.cap /\ x.at <= policy.capTs

PolicyInv ==
    /\ snapshots \subseteq Entries(clock) /\ policy \in Entries(clock)
    /\ refusals \subseteq [cap : Nat, at : 0 .. clock]
    /\ RefusalsRecorded

RampInv ==
    /\ clock \in 0 .. MaxClock /\ runs \in 0 .. MaxRuns /\ events \in 0 .. MaxEvents
    /\ run = Idle \/ Sane(run)
    /\ PolicyInv
-----------------------------------------------------------------------------
(* Operators. *)

LEMMA MaxOfTwo ==
    ASSUME NEW a \in Nat, NEW b \in Nat
    PROVE  /\ Max({a, b}) \in {a, b}
           /\ a <= Max({a, b}) /\ b <= Max({a, b})
<1>1. \E x \in {a, b} : \A y \in {a, b} : x >= y
      OBVIOUS
<1>2. Max({a, b}) \in {a, b} /\ \A y \in {a, b} : Max({a, b}) >= y
      BY <1>1 DEF Max
<1> QED BY <1>2

LEMMA MinOfTwo ==
    ASSUME NEW a \in Nat, NEW b \in Nat
    PROVE  /\ Min({a, b}) \in {a, b}
           /\ Min({a, b}) <= a /\ Min({a, b}) <= b
<1>1. \E x \in {a, b} : \A y \in {a, b} : x =< y
      OBVIOUS
<1>2. Min({a, b}) \in {a, b} /\ \A y \in {a, b} : Min({a, b}) =< y
      BY <1>1 DEF Min
<1> QED BY <1>2

LEMMA HalfOf ==
    ASSUME NEW n \in Nat
    PROVE  /\ Max({1, n \div 2}) \in Nat \ {0}
           /\ n > 1 => Max({1, n \div 2}) < n
           /\ n > 0 => Max({1, n \div 2}) <= n
           /\ n <= 2 * Max({1, n \div 2}) + 1
           /\ \A a \in Nat : n <= 2 * a + 1 /\ a > 0 => Max({1, n \div 2}) <= a
<1>1. n \div 2 \in Nat /\ 2 * (n \div 2) <= n /\ n <= 2 * (n \div 2) + 1
      OBVIOUS
<1> DEFINE h == n \div 2
<1>2. Max({1, h}) \in {1, h} /\ 1 <= Max({1, h}) /\ h <= Max({1, h})
      BY <1>1, MaxOfTwo
<1> HIDE DEF h
<1>3. h \in Nat /\ 2 * h <= n /\ n <= 2 * h + 1
      BY <1>1 DEF h
<1>4. Max({1, h}) \in Nat
      BY <1>2, <1>3
<1>5. Max({1, h}) = 1 \/ Max({1, h}) = h
      BY <1>2
<1> DEFINE m == Max({1, h})
<1>6. m \in Nat /\ 1 <= m /\ h <= m /\ (m = 1 \/ m = h)
      BY <1>2, <1>4, <1>5
<1> HIDE DEF m
<1>7. n <= 2 * m + 1 /\ (n > 1 => m < n) /\ (n > 0 => m <= n)
      BY <1>3, <1>6
<1>8. \A a \in Nat : n <= 2 * a + 1 /\ a > 0 => m <= a
      BY <1>3, <1>6
<1>9. m = Max({1, n \div 2}) /\ m \in Nat \ {0}
      BY <1>6 DEF h, m
<1> HIDE DEF h
<1> QED BY <1>7, <1>8, <1>9

LEMMA FreezeKinds ==
    ASSUME NEW f \in Freezes
    PROVE  /\ f.kind \in {"active", "soft", "hard"}
           /\ f = Active <=> f.kind = "active"
           /\ f = Hard <=> f.kind = "hard"
           /\ f.kind = "soft" => f \in [kind : {"soft"}, waited : Nat, cooldown : Nat, attempts : Nat]
<1>1. CASE f \in [kind : {"active", "hard"}]
  <2>1. f = [kind |-> f.kind] /\ f.kind \in {"active", "hard"}
        BY <1>1
  <2>2. [kind |-> "active"].kind = "active" /\ [kind |-> "hard"].kind = "hard"
        OBVIOUS
  <2> QED BY <2>1, <2>2 DEF Active, Hard
<1>2. CASE f \in [kind : {"soft"}, waited : Nat, cooldown : Nat, attempts : Nat]
  <2>1. f.kind = "soft"
        BY <1>2
  <2>2. [kind |-> "active"].kind = "active" /\ [kind |-> "hard"].kind = "hard"
        OBVIOUS
  <2> QED BY <1>2, <2>1, <2>2 DEF Active, Hard
<1> QED BY <1>1, <1>2 DEF Freezes

LEMMA FreezeTypes ==
    /\ Active \in Freezes /\ Hard \in Freezes
    /\ Active.kind = "active" /\ Hard.kind = "hard"
    /\ \A w, c, n \in Nat : Soft(w, c, n) \in Freezes /\ Soft(w, c, n).kind = "soft"
<1>1. Active \in Freezes /\ Active.kind = "active"
      BY DEF Freezes, Active
<1>2. Hard \in Freezes /\ Hard.kind = "hard"
      BY DEF Freezes, Hard
<1>3. ASSUME NEW w \in Nat, NEW c \in Nat, NEW n \in Nat
      PROVE  Soft(w, c, n) \in Freezes /\ Soft(w, c, n).kind = "soft"
      BY DEF Freezes, Soft
<1> QED BY <1>1, <1>2, <1>3

LEMMA ObservedSane ==
    ASSUME NEW r, Sane(r), NEW w
    PROVE  /\ Sane(Observed(r, w))
           /\ Observed(r, w).freeze.kind = r.freeze.kind
           /\ \A f \in {"cap", "allowed", "alive", "range", "serial", "probe", "awaiting", "tail"} :
                 Observed(r, w)[f] = r[f]
<1> DEFINE p == IF w.bytes /\ r.rejects = 0 /\ ~r.serial /\ ~r.sensitive
                THEN Max({r.proven, r.alive}) ELSE r.proven
           z == IF ~r.awaiting /\ r.freeze.kind = "soft" /\ r.freeze.waited < r.freeze.cooldown
                THEN Waited(r.freeze) ELSE r.freeze
<1>0. r \in Downloads
      BY DEF Sane
<1>1. Observed(r, w) = [r EXCEPT !.proven = p, !.freeze = z]
      BY Zenon DEF Observed
<1>2. p \in 0 .. r.cap /\ p \in Nat
      BY <1>0, MaxOfTwo DEF Sane, Downloads, Within
<1>3. z \in Freezes /\ z.kind = r.freeze.kind
      BY <1>0, FreezeKinds DEF Downloads, Freezes, Waited
<1> HIDE DEF p, z
<1> QED BY <1>0, <1>1, <1>2, <1>3 DEF Sane, Downloads, Within, Evaluated, Halvable, Creep

LEMMA SoftTyped ==
    ASSUME NEW f \in Freezes, f.kind = "soft"
    PROVE  Soft(0, 2 * f.cooldown, f.attempts + 1) \in Freezes
<1>1. f.cooldown \in Nat /\ f.attempts \in Nat
      BY FreezeKinds
<1>2. 2 * f.cooldown \in Nat /\ f.attempts + 1 \in Nat
      BY <1>1
<1> QED BY <1>2, FreezeTypes

\* After the judgement nothing is under evaluation.
Settled(r, a, b, f, z) ==
    [r EXCEPT !.awaiting = FALSE, !.probe = FALSE, !.preGrow = 0,
              !.allowed = a, !.beneficial = b, !.freeze = f, !.frozenAt = z]

LEMMA SettledSane ==
    ASSUME NEW r, Sane(r), NEW a \in 1 .. r.cap, NEW b \in 1 .. r.cap, NEW f \in Freezes,
           NEW z \in Nat, r.alive <= 2 * a + 1,
           f.kind = "soft" => a <= z + r.expansions + (IF r.tail THEN 1 ELSE 0)
    PROVE  /\ Sane(Settled(r, a, b, f, z))
           /\ ~Settled(r, a, b, f, z).awaiting
           /\ Settled(r, a, b, f, z).allowed = a
           /\ Settled(r, a, b, f, z).freeze = f
           /\ Settled(r, a, b, f, z).cap = r.cap
<1>0. r \in Downloads /\ Within(r)
      BY DEF Sane
<1> DEFINE s == Settled(r, a, b, f, z)
<1>n. a \in Nat /\ b \in Nat
      BY <1>0 DEF Downloads
<1>1. s \in Downloads
      BY <1>0, <1>n DEF Settled, Downloads
<1>2. /\ s.awaiting = FALSE /\ s.probe = FALSE /\ s.preGrow = 0 /\ s.allowed = a
      /\ s.beneficial = b /\ s.freeze = f /\ s.frozenAt = z /\ s.cap = r.cap
      /\ s.proven = r.proven /\ s.alive = r.alive /\ s.strikes = r.strikes
      /\ s.expansions = r.expansions /\ s.tail = r.tail
      BY <1>0 DEF Settled, Downloads
<1>3. r.cap \in Nat
      BY <1>0 DEF Downloads
<1> HIDE DEF s
<1>4. Within(s)
      BY <1>0, <1>2, <1>3 DEF Within
<1>5. Evaluated(s)
      BY <1>2 DEF Evaluated
<1>6. Halvable(s)
      BY <1>2 DEF Halvable
<1>7. Creep(s)
      BY <1>2 DEF Creep
<1> QED BY <1>1, <1>2, <1>4, <1>5, <1>6, <1>7 DEF Sane, s

LEMMA JudgedSane ==
    ASSUME NEW r, Sane(r), NEW v, RampAssumption
    PROVE  \E a \in 1 .. r.allowed, b \in 1 .. r.cap, f \in Freezes, z \in Nat :
             /\ Judged(r, v) = Settled(r, a, b, f, z)
             /\ r.alive <= 2 * a + 1
             /\ f.kind = "soft" => a <= z + r.expansions + (IF r.tail THEN 1 ELSE 0)
             /\ r.freeze.kind = "hard" => f = Hard /\ a = r.allowed
<1> DEFINE s == [r EXCEPT !.awaiting = FALSE, !.probe = FALSE]
<1>0. r \in Downloads /\ Within(r) /\ Evaluated(r) /\ Halvable(r) /\ Creep(r)
      BY DEF Sane
<1>t. /\ r.cap \in Nat /\ r.allowed \in 1 .. r.cap /\ r.preGrow \in 0 .. r.cap
      /\ r.beneficial \in 1 .. r.cap /\ r.alive \in Nat /\ r.freeze \in Freezes
      /\ r.frozenAt \in Nat /\ r.expansions \in Nat /\ r.tail \in BOOLEAN
      BY <1>0 DEF Downloads, Within
<1>a. r.awaiting => /\ r.preGrow \in 1 .. r.allowed /\ r.alive <= 2 * r.preGrow + 1
                    /\ r.freeze.kind # "hard"
      BY <1>0, <1>t DEF Evaluated
<1>b. r.awaiting => Min({r.beneficial, r.preGrow}) \in 1 .. r.cap
      BY <1>t, <1>a, MinOfTwo
<1>c. /\ s.allowed = r.allowed /\ s.preGrow = r.preGrow /\ s.beneficial = r.beneficial
      /\ s.freeze = r.freeze /\ s.hint = r.hint /\ s.probes = r.probes
      BY <1>0 DEF Downloads
<1>1. CASE ~Judges(r)
  <2>1. Judged(r, v) = Settled(r, r.allowed, r.beneficial, r.freeze, r.frozenAt)
        BY <1>0, <1>1 DEF Judged, Settled, Downloads
  <2>2. r.freeze.kind = "soft"
           => r.allowed <= r.frozenAt + r.expansions + (IF r.tail THEN 1 ELSE 0)
        BY <1>0, <1>1, <1>t DEF Creep, Judges
  <2>3. r.freeze.kind = "hard" => r.freeze = Hard
        BY <1>t, FreezeKinds
  <2> QED BY <1>0, <1>t, <2>1, <2>2, <2>3 DEF Halvable
<1>2. CASE Judges(r) /\ r.probe
  <2>0. r.awaiting /\ r.freeze.kind = "soft"
        BY <1>0, <1>2 DEF Judges, Evaluated
  <2>1. CASE v = "improved"
    <3>1. Judged(r, v) = Settled(r, r.allowed, r.allowed, Active, r.frozenAt)
          BY <1>0, <1>2, <2>1 DEF Judged, JudgeProbe, Settled, Downloads
    <3>2. Active.kind = "active" /\ Active \in Freezes
          BY FreezeTypes
    <3>3. r.alive <= 2 * r.allowed + 1 /\ r.allowed \in 1 .. r.allowed
          BY <1>0, <1>t DEF Halvable
    <3> QED BY <1>t, <2>0, <3>1, <3>2, <3>3
  <2>2. CASE v # "improved" /\ (v = "collapse" \/ r.freeze.attempts + 1 >= MaxAttempts)
    <3>1. Judged(r, v) = Settled(r, r.preGrow, Min({r.beneficial, r.preGrow}), Hard, r.frozenAt)
          BY <1>0, <1>2, <2>2 DEF Judged, JudgeProbe, Rollback, Settled, Downloads
    <3>2. Hard.kind = "hard" /\ Hard \in Freezes
          BY FreezeTypes
    <3> QED BY <1>t, <1>a, <1>b, <2>0, <3>1, <3>2
  <2>3. CASE v # "improved" /\ ~(v = "collapse" \/ r.freeze.attempts + 1 >= MaxAttempts)
    <3> DEFINE f == Soft(0, 2 * r.freeze.cooldown, r.freeze.attempts + 1)
    <3>1. Judged(r, v) = Settled(r, r.preGrow, Min({r.beneficial, r.preGrow}), f, r.frozenAt)
          BY <1>0, <1>2, <2>3 DEF Judged, JudgeProbe, Rollback, Settled, Downloads
    <3>2. f \in Freezes
          BY <1>t, <2>0, SoftTyped
    <3>3. r.preGrow <= r.frozenAt + r.expansions
          BY <1>0, <2>0 DEF Creep
    <3> HIDE DEF f
    <3> QED BY <1>t, <1>a, <1>b, <2>0, <3>1, <3>2, <3>3
  <2> QED BY <2>1, <2>2, <2>3
<1>3. CASE Judges(r) /\ ~r.probe
  <2>0. r.awaiting
        BY <1>3 DEF Judges
  <2>1. CASE v = "improved"
    <3>1. Judged(r, v) = Settled(r, r.allowed, r.allowed, r.freeze, r.frozenAt)
          BY <1>0, <1>3, <2>1 DEF Judged, JudgeGrowth, Settled, Downloads
    <3>2. r.freeze.kind = "active"
          BY <1>0, <1>3, <2>0 DEF Evaluated
    <3> QED BY <1>0, <1>t, <3>1, <3>2 DEF Halvable
  <2>2. CASE v = "collapse"
    <3>1. Judged(r, v) = Settled(r, r.preGrow, Min({r.beneficial, r.preGrow}), Hard, r.frozenAt)
          BY <1>0, <1>3, <2>2 DEF Judged, JudgeGrowth, Rollback, Settled, Downloads
    <3>2. Hard.kind = "hard" /\ Hard \in Freezes
          BY FreezeTypes
    <3> QED BY <1>t, <1>a, <1>b, <2>0, <3>1, <3>2
  <2>3. CASE v # "improved" /\ v # "collapse"
    <3> DEFINE f == IF r.probes >= ProbeBudget THEN Hard ELSE Soft(0, Cooldown, 0)
               back == r.hint > 0 /\ r.preGrow >= r.hint
               a == IF back THEN r.preGrow ELSE r.allowed
               b == IF back THEN Min({r.beneficial, r.preGrow}) ELSE r.beneficial
    <3>1. Judged(r, v) = Settled(r, a, b, f, a)
          BY <1>0, <1>3, <2>3 DEF Judged, JudgeGrowth, Rollback, Settled, Downloads
    <3>2. f \in Freezes
          BY FreezeTypes DEF RampAssumption
    <3>3. a \in 1 .. r.allowed /\ a \in Nat /\ b \in 1 .. r.cap /\ r.alive <= 2 * a + 1
          BY <1>0, <1>t, <1>a, <1>b, <2>0 DEF Halvable
    <3> HIDE DEF f, a, b, back
    <3>4. a <= a + r.expansions + (IF r.tail THEN 1 ELSE 0)
          BY <1>t, <3>3
    <3> QED BY <1>a, <2>0, <3>1, <3>2, <3>3, <3>4
  <2> QED BY <2>1, <2>2, <2>3
<1> QED BY <1>1, <1>2, <1>3

\* What a step may make of a download: after a hard freeze nothing grows.
Calm(r, t) == Sane(t) /\ (r.freeze = Hard => t.freeze = Hard /\ t.allowed <= r.allowed)

LEMMA HardOrSoft == Hard \in Freezes /\ Hard.kind = "hard" /\ Active # Hard
<1>1. Active.kind # Hard.kind
      BY FreezeTypes
<1> QED BY <1>1, FreezeTypes

LEMMA ShrunkSane ==
    ASSUME NEW r, Sane(r), ~r.awaiting, NEW w, RampAssumption
    PROVE  /\ Calm(r, Shrunk(r, w))
           /\ ~Shrunk(r, w).awaiting
           /\ Shrunk(r, w).range = r.range /\ Shrunk(r, w).tail = r.tail
           /\ Shrunk(r, w).allowed <= r.allowed
<1>0. r \in Downloads /\ Within(r) /\ Evaluated(r) /\ Halvable(r) /\ Creep(r)
      BY DEF Sane
<1>t. /\ r.cap \in Nat /\ r.allowed \in 1 .. r.cap /\ r.allowed \in Nat
      /\ r.beneficial \in 1 .. r.cap /\ r.alive \in Nat /\ r.freeze \in Freezes
      /\ r.frozenAt \in Nat /\ r.expansions \in Nat /\ r.tail \in BOOLEAN
      /\ r.strikes \in 0 .. ShrinkStrikes - 1 /\ ~r.probe
      BY <1>0 DEF Downloads, Within, Evaluated
<1>1. ASSUME NEW k \in 0 .. ShrinkStrikes - 1, Shrunk(r, w) = [r EXCEPT !.strikes = k]
      PROVE  /\ Calm(r, Shrunk(r, w))
             /\ ~Shrunk(r, w).awaiting
             /\ Shrunk(r, w).range = r.range /\ Shrunk(r, w).tail = r.tail
             /\ Shrunk(r, w).allowed <= r.allowed
  <2> DEFINE s == [r EXCEPT !.strikes = k]
  <2>1. s \in Downloads
        BY <1>0, RampAssumption DEF Downloads
  <2>2. /\ s.strikes = k /\ s.cap = r.cap /\ s.allowed = r.allowed /\ s.preGrow = r.preGrow
        /\ s.beneficial = r.beneficial /\ s.proven = r.proven /\ s.alive = r.alive
        /\ s.freeze = r.freeze /\ s.frozenAt = r.frozenAt /\ s.expansions = r.expansions
        /\ s.tail = r.tail /\ s.awaiting = r.awaiting /\ s.probe = r.probe /\ s.range = r.range
        BY <1>0 DEF Downloads
  <2> HIDE DEF s
  <2>3. Within(s) /\ Evaluated(s) /\ Halvable(s)
        BY <1>0, <1>t, <2>2 DEF Within, Evaluated, Halvable
  <2>4. Creep(s)
        BY <1>0, <1>t, <2>2 DEF Creep
  <2>5. s.allowed <= r.allowed
        BY <1>t, <2>2
  <2> QED BY <1>1, <2>1, <2>2, <2>3, <2>4, <2>5 DEF Sane, Calm, s
<1>2. CASE ~Degraded(r, w)
  <2>1. 0 \in 0 .. ShrinkStrikes - 1
        BY RampAssumption
  <2> QED BY <1>1, <1>2, <2>1 DEF Shrunk
<1>3. CASE Degraded(r, w) /\ ~Shrinks(r, w)
  <2>1. r.strikes + 1 \in 0 .. ShrinkStrikes - 1
        BY <1>3, <1>t, RampAssumption DEF Shrinks
  <2>2. Shrunk(r, w) = [r EXCEPT !.strikes = r.strikes + 1]
        BY <1>3 DEF Shrunk
  <2> QED BY <1>1, <2>1, <2>2
<1>4. CASE Degraded(r, w) /\ Shrinks(r, w)
  <2> DEFINE half == Max({1, r.allowed \div 2})
             b == Min({r.beneficial, half})
             f == IF r.freeze.kind = "soft" THEN Hard ELSE r.freeze
             s == Shrunk(r, w)
  <2>1. s = [r EXCEPT !.strikes = 0, !.allowed = half, !.beneficial = b, !.freeze = f]
        BY <1>4, Zenon DEF Shrunk
  <2>2. half \in Nat \ {0} /\ half <= r.allowed /\ r.allowed <= 2 * half + 1
    <3>1. ASSUME NEW n \in Nat, n > 0
          PROVE  LET m == Max({1, n \div 2})
                 IN m \in Nat \ {0} /\ m <= n /\ n <= 2 * m + 1
          BY <3>1, HalfOf
    <3>2. r.allowed \in Nat /\ r.allowed > 0
          BY <1>t
    <3> QED BY <3>1, <3>2
  <2> HIDE DEF half
  <2>3. b \in 1 .. r.cap /\ b \in Nat
    <3>1. r.beneficial \in Nat /\ half \in Nat
          BY <1>t, <2>2
    <3>2. b \in {r.beneficial, half}
          BY <3>1, MinOfTwo
    <3> HIDE DEF b
    <3> QED BY <1>t, <2>2, <3>1, <3>2
  <2>4. f \in Freezes /\ f.kind # "soft" /\ (r.freeze = Hard => f = Hard)
        BY <1>t, HardOrSoft
  <2>5. r.alive = r.allowed
        BY <1>4 DEF Degraded
  <2> HIDE DEF b, f, s
  <2>6. s \in Downloads
        BY <1>0, <2>1, <2>2, <2>3, <2>4 DEF Downloads
  <2>7. /\ s.strikes = 0 /\ s.cap = r.cap /\ s.allowed = half /\ s.preGrow = r.preGrow
        /\ s.beneficial = b /\ s.proven = r.proven /\ s.alive = r.alive
        /\ s.freeze = f /\ s.tail = r.tail /\ s.awaiting = r.awaiting /\ s.probe = r.probe
        /\ s.range = r.range
        BY <1>0, <2>1 DEF Downloads
  <2>8. Within(s)
        BY <1>0, <1>t, <2>2, <2>3, <2>7, RampAssumption DEF Within
  <2>9. Evaluated(s) /\ Halvable(s)
        BY <1>t, <2>2, <2>5, <2>7 DEF Evaluated, Halvable
  <2>10. Creep(s)
        BY <2>4, <2>7 DEF Creep
  <2> QED BY <2>2, <2>4, <2>6, <2>7, <2>8, <2>9, <2>10 DEF Sane, Calm, s
<1> QED BY <1>2, <1>3, <1>4

LEMMA FilledSane ==
    ASSUME NEW r, Sane(r), NEW t \in Filled(r)
    PROVE  /\ Sane(t) /\ t.allowed = r.allowed /\ t.freeze = r.freeze
           /\ t.awaiting = r.awaiting /\ t.range = r.range /\ t.tail = r.tail
<1>0. r \in Downloads /\ Within(r) /\ Evaluated(r) /\ Halvable(r) /\ Creep(r)
      BY DEF Sane
<1>t. /\ r.cap \in Nat /\ r.allowed \in 1 .. r.cap /\ r.allowed \in Nat /\ r.alive \in 0 .. r.cap
      /\ r.alive \in Nat /\ r.preGrow \in Nat
      BY <1>0 DEF Downloads, Within
<1>1. PICK n \in r.alive .. Max({r.alive, r.allowed}) : t = [r EXCEPT !.alive = n]
      BY DEF Filled
<1>2. n \in 0 .. r.cap /\ n \in Nat /\ (n <= r.alive \/ n <= r.allowed)
      BY <1>t, MaxOfTwo
<1>3. t \in Downloads
      BY <1>0, <1>1, <1>2 DEF Downloads
<1>4. /\ t.alive = n /\ t.cap = r.cap /\ t.allowed = r.allowed /\ t.preGrow = r.preGrow
      /\ t.beneficial = r.beneficial /\ t.proven = r.proven /\ t.strikes = r.strikes
      /\ t.freeze = r.freeze /\ t.frozenAt = r.frozenAt /\ t.expansions = r.expansions
      /\ t.tail = r.tail /\ t.awaiting = r.awaiting /\ t.probe = r.probe /\ t.range = r.range
      BY <1>0, <1>1 DEF Downloads
<1>5. Within(t) /\ Halvable(t)
      BY <1>0, <1>t, <1>2, <1>4 DEF Within, Halvable
<1>6. Evaluated(t)
      BY <1>0, <1>t, <1>2, <1>4 DEF Evaluated
<1>7. Creep(t)
      BY <1>0, <1>4 DEF Creep
<1> QED BY <1>3, <1>4, <1>5, <1>6, <1>7 DEF Sane

LEMMA GrownSane ==
    ASSUME NEW r, Sane(r), ~r.awaiting, ~r.tail, r.range = "supported", NEW t \in Grown(r)
    PROVE  Sane(t) /\ r.freeze # Hard
<1>0. r \in Downloads /\ Within(r) /\ Evaluated(r) /\ Halvable(r) /\ Creep(r)
      BY DEF Sane
<1>t. /\ r.cap \in Nat /\ r.allowed \in 1 .. r.cap /\ r.allowed \in Nat /\ r.alive \in Nat
      /\ r.freeze \in Freezes /\ r.frozenAt \in Nat /\ r.expansions \in Nat /\ r.probes \in Nat
      /\ r.beneficial \in 1 .. r.cap
      BY <1>0 DEF Downloads, Within
<1>1. ASSUME NEW p \in BOOLEAN, NEW k \in Nat, NEW a \in Nat,
             a <= r.cap, r.allowed <= a, a <= 2 * r.allowed,
             IF p THEN r.freeze.kind = "soft" /\ a = r.allowed + 1 ELSE r.freeze.kind = "active",
             t = [r EXCEPT !.preGrow = r.allowed, !.awaiting = TRUE, !.probe = p,
                           !.probes = k, !.allowed = a]
      PROVE  Sane(t) /\ r.freeze # Hard
  <2>1. t \in Downloads
        BY <1>0, <1>t, <1>1 DEF Downloads
  <2>2. /\ t.alive = r.alive /\ t.cap = r.cap /\ t.allowed = a /\ t.preGrow = r.allowed
        /\ t.beneficial = r.beneficial /\ t.proven = r.proven /\ t.strikes = r.strikes
        /\ t.freeze = r.freeze /\ t.frozenAt = r.frozenAt /\ t.expansions = r.expansions
        /\ t.tail = r.tail /\ t.awaiting = TRUE /\ t.range = r.range
        BY <1>0, <1>1 DEF Downloads
  <2>3. t.probe <=> p
        BY <1>0, <1>1 DEF Downloads
  <2>4. Within(t)
        BY <1>0, <1>t, <1>1, <2>2 DEF Within
  <2>5. Evaluated(t)
        BY <1>0, <1>t, <1>1, <2>2, <2>3 DEF Evaluated, Halvable
  <2>6. Halvable(t)
        BY <1>0, <1>t, <1>1, <2>2 DEF Halvable
  <2>7. r.freeze.kind = "soft" => p
        BY <1>1
  <2>8. r.freeze.kind = "soft" => r.allowed <= r.frozenAt + r.expansions
        BY <1>0, <1>t DEF Creep
  <2>9. Creep(t)
        BY <1>t, <1>1, <2>2, <2>7, <2>8 DEF Creep
  <2>10. r.freeze # Hard
        BY <1>1, HardOrSoft
  <2> QED BY <2>1, <2>4, <2>5, <2>6, <2>9, <2>10 DEF Sane
<1>2. CASE ProbeReady(r)
  <2>1. t = [r EXCEPT !.preGrow = r.allowed, !.awaiting = TRUE, !.probe = TRUE,
                      !.probes = r.probes + 1, !.allowed = r.allowed + 1]
        BY <1>2 DEF Grown
  <2>2. r.freeze.kind = "soft" /\ r.allowed + 1 <= r.cap /\ r.allowed + 1 <= 2 * r.allowed
        BY <1>2, <1>t DEF ProbeReady
  <2>3. r.allowed + 1 \in Nat /\ r.probes + 1 \in Nat /\ r.allowed <= r.allowed + 1
        BY <1>t
  <2> QED BY <1>1, <2>1, <2>2, <2>3
<1>3. CASE ~ProbeReady(r)
  <2> DEFINE a == Min({2 * r.allowed, r.cap})
  <2>1. MayExpand(r) /\ t = Expanded(r)
        BY <1>3 DEF Grown
  <2>2. t = [r EXCEPT !.preGrow = r.allowed, !.awaiting = TRUE, !.probe = FALSE, !.allowed = a]
        BY <2>1, Zenon DEF Expanded
  <2>3. r.freeze.kind = "active"
        BY <2>1, FreezeTypes DEF MayExpand
  <2>4. 2 * r.allowed \in Nat
        BY <1>t
  <2>5. a \in Nat /\ a <= r.cap /\ r.allowed <= a /\ a <= 2 * r.allowed
        BY <1>t, <2>4, MinOfTwo
  <2> HIDE DEF a
  <2>6. t = [r EXCEPT !.preGrow = r.allowed, !.awaiting = TRUE, !.probe = FALSE,
                      !.probes = r.probes, !.allowed = a]
        BY <1>0, <2>2 DEF Downloads
  <2> QED BY <1>1, <1>t, <2>3, <2>5, <2>6
<1> QED BY <1>2, <1>3

LEMMA ToppedSane ==
    ASSUME NEW r, Sane(r), ~r.awaiting, r.range = "supported", NEW still \in BOOLEAN,
           NEW t \in Topped(r, still)
    PROVE  Calm(r, t)
<1>0. r.allowed \in Nat
      BY DEF Sane, Downloads
<1>1. CASE t \in Filled(r)
      BY <1>0, <1>1, FilledSane DEF Calm
<1>2. CASE t \notin Filled(r)
  <2>1. ~r.tail
        BY <1>2 DEF Topped
  <2>2. PICK f \in Filled(r) : t \in IF Grown(f) = {} THEN {f} ELSE UNION {Filled(g) : g \in Grown(f)}
        BY <1>2 DEF Topped
  <2>3. PICK g \in Grown(f) : t \in Filled(g)
        BY <1>2, <2>2
  <2>4. Sane(f) /\ f.freeze = r.freeze /\ ~f.awaiting /\ ~f.tail /\ f.range = "supported"
        BY <2>1, FilledSane
  <2>5. Sane(g) /\ f.freeze # Hard
        BY <2>4, GrownSane
  <2> QED BY <2>3, <2>4, <2>5, FilledSane DEF Calm
<1> QED BY <1>1, <1>2

LEMMA PrunedCap ==
    ASSUME NEW now \in Nat, NEW e \in Entries(now)
    PROVE  /\ Pruned(e, now) \in Entries(now)
           /\ HasCap(e, now) => Pruned(e, now).cap = e.cap /\ Pruned(e, now).capTs = e.capTs
<1>1. e.cap \in Nat /\ e.capTs \in 0 .. now /\ e.hint \in Nat /\ e.hintTs \in 0 .. now
      BY DEF Entries
<1>2. 0 \in 0 .. now
      OBVIOUS
<1> QED BY <1>1, <1>2, Zenon DEF Pruned, Entries

LEMMA MergedEntry ==
    ASSUME NEW now \in Nat, NEW e \in Entries(now)
    PROVE  Merged(NoEntry, e, now) \in Entries(now)
<1>1. /\ NoEntry.cap \in Nat /\ NoEntry.capTs \in 0 .. now
      /\ NoEntry.hint \in Nat /\ NoEntry.hintTs \in 0 .. now
      BY DEF NoEntry
<1>2. Pruned(e, now) \in Entries(now)
      BY PrunedCap
<1>3. /\ Pruned(e, now).cap \in Nat /\ Pruned(e, now).capTs \in 0 .. now
      /\ Pruned(e, now).hint \in Nat /\ Pruned(e, now).hintTs \in 0 .. now
      BY <1>2 DEF Entries
<1> QED BY <1>1, <1>3, Zenon DEF Merged, Entries

\* A refusal that still counts makes the recorded cap a fresh one.
LEMMA RefusedHasCap ==
    ASSUME clock \in Nat, PolicyInv, NEW x \in refusals
    PROVE  HasCap(policy, clock) /\ policy.cap <= x.cap
<1>1. x.at \in 0 .. clock /\ policy.capTs \in 0 .. clock /\ TTL \in Nat
      BY PolicyAssumption DEF PolicyInv, Entries
<1>2. Fresh(x.at, clock) /\ 0 < policy.cap /\ policy.cap <= x.cap /\ x.at <= policy.capTs
      BY DEF PolicyInv, RefusalsRecorded
<1>3. Fresh(policy.capTs, clock)
      BY <1>1, <1>2 DEF Fresh
<1> QED BY <1>2, <1>3 DEF HasCap

LEMMA PrunedInv ==
    ASSUME clock \in Nat, PolicyInv, policy' = Pruned(policy, clock),
           UNCHANGED <<snapshots, clock, refusals>>
    PROVE  PolicyInv'
<1>1. policy' \in Entries(clock)
      BY PrunedCap DEF PolicyInv
<1>2. ASSUME NEW x \in refusals
      PROVE  0 < policy'.cap /\ policy'.cap <= x.cap /\ x.at <= policy'.capTs
  <2>1. policy'.cap = policy.cap /\ policy'.capTs = policy.capTs
        BY <1>2, RefusedHasCap, PrunedCap DEF PolicyInv
  <2> QED BY <2>1 DEF PolicyInv, RefusalsRecorded
<1> QED BY <1>1, <1>2 DEF PolicyInv, RefusalsRecorded

LEMMA RefusedInv ==
    ASSUME clock \in Nat, PolicyInv, NEW n \in Nat \ {0}, UNCHANGED clock,
           Recorded(RecordCap(policy, n, clock)), Refused(n)
    PROVE  PolicyInv'
<1> DEFINE c == IF HasCap(policy, clock) THEN Least(policy.cap, Most(n, 1)) ELSE Most(n, 1)
           e == RecordCap(policy, n, clock)
<1>1. /\ policy \in Entries(clock) /\ policy.cap \in Nat
      /\ HasCap(policy, clock) => policy.cap > 0
      BY DEF PolicyInv, Entries, HasCap
<1>2. /\ c \in Nat /\ 0 < c /\ c <= n
      /\ HasCap(policy, clock) => c <= policy.cap
      BY <1>1 DEF Least, Most
<1>3. e = [policy EXCEPT !.cap = c, !.capTs = clock]
      BY Zenon DEF RecordCap
<1> HIDE DEF c, e
<1>4. e \in Entries(clock) /\ e.cap = c /\ e.capTs = clock
  <2>1. clock \in 0 .. clock
        OBVIOUS
  <2>2. policy \in [cap : Nat, capTs : 0 .. clock, hint : Nat, hintTs : 0 .. clock]
        BY <1>1 DEF Entries
  <2> QED BY <1>2, <1>3, <2>1, <2>2 DEF Entries
<1>5. Fresh(clock, clock)
      BY PolicyAssumption DEF Fresh
<1>6. HasCap(e, clock)
      BY <1>2, <1>4, <1>5 DEF HasCap
<1>7. policy' = Pruned(e, clock) /\ snapshots' = snapshots \cup {Pruned(e, clock)}
      BY DEF Recorded, e
<1>8. policy' \in Entries(clock) /\ policy'.cap = c /\ policy'.capTs = clock
      BY <1>4, <1>6, <1>7, PrunedCap
<1>9. refusals' = refusals \cup {[cap |-> n, at |-> clock]}
      BY DEF Refused
<1>10. refusals' \subseteq [cap : Nat, at : 0 .. clock]
      BY <1>9 DEF PolicyInv
<1>11. snapshots' \subseteq Entries(clock)
      BY <1>7, <1>8 DEF PolicyInv
<1>12. ASSUME NEW x \in refusals'
       PROVE  Fresh(x.at, clock) /\ 0 < policy'.cap /\ policy'.cap <= x.cap /\ x.at <= policy'.capTs
  <2>1. CASE x \in refusals
    <3>1. HasCap(policy, clock) /\ policy.cap <= x.cap /\ x.cap \in Nat
          BY <2>1, RefusedHasCap DEF PolicyInv
    <3>2. Fresh(x.at, clock) /\ x.at <= clock
          BY <2>1 DEF PolicyInv, RefusalsRecorded
    <3> QED BY <1>1, <1>2, <1>8, <3>1, <3>2
  <2>2. CASE x = [cap |-> n, at |-> clock]
        BY <1>2, <1>5, <1>8, <2>2
  <2> QED BY <1>9, <2>1, <2>2
<1> QED BY <1>8, <1>10, <1>11, <1>12 DEF PolicyInv, RefusalsRecorded

LEMMA HintedInv ==
    ASSUME clock \in Nat, PolicyInv, NEW n \in Nat, UNCHANGED <<clock, refusals>>,
           Recorded(RecordHint(policy, n, clock))
    PROVE  PolicyInv'
<1> DEFINE h == IF HasHint(policy, clock) THEN Most(policy.hint, Most(n, 1)) ELSE Most(n, 1)
           e == RecordHint(policy, n, clock)
<1>1. policy \in Entries(clock) /\ policy.hint \in Nat
      BY DEF PolicyInv, Entries
<1>2. h \in Nat
      BY <1>1 DEF Most
<1>3. e = [policy EXCEPT !.hint = h, !.hintTs = clock]
      BY Zenon DEF RecordHint
<1> HIDE DEF h, e
<1>4. e \in Entries(clock) /\ e.cap = policy.cap /\ e.capTs = policy.capTs
  <2>1. clock \in 0 .. clock
        OBVIOUS
  <2>2. policy \in [cap : Nat, capTs : 0 .. clock, hint : Nat, hintTs : 0 .. clock]
        BY <1>1 DEF Entries
  <2> QED BY <1>2, <1>3, <2>1, <2>2 DEF Entries
<1>5. policy' = Pruned(e, clock) /\ snapshots' = snapshots \cup {Pruned(e, clock)}
      BY DEF Recorded, e
<1>6. policy' \in Entries(clock)
      BY <1>4, <1>5, PrunedCap
<1>7. ASSUME NEW x \in refusals
      PROVE  0 < policy'.cap /\ policy'.cap <= x.cap /\ x.at <= policy'.capTs
  <2>1. HasCap(e, clock)
        BY <1>4, <1>7, RefusedHasCap DEF HasCap
  <2>2. policy'.cap = policy.cap /\ policy'.capTs = policy.capTs
        BY <1>4, <1>5, <2>1, PrunedCap
  <2> QED BY <2>2 DEF PolicyInv, RefusalsRecorded
<1> QED BY <1>5, <1>6, <1>7 DEF PolicyInv, RefusalsRecorded
-----------------------------------------------------------------------------
(* The beginning of a download. *)

LEMMA CapOfPolicy ==
    ASSUME NEW now \in Nat, NEW e \in Entries(now), NEW plan \in Nat \ {0}, NEW allow \in BOOLEAN
    PROVE  /\ WorkerCap(e, now, plan, allow) \in Nat \ {0}
           /\ HintOf(e, now) \in Nat
           /\ HasCap(e, now) => WorkerCap(e, now, plan, allow) <= e.cap
<1> DEFINE p == Pruned(e, now)
           base == IF p.cap > 0 THEN Least(plan, p.cap) ELSE plan
           lift == Least(2 * HintOf(e, now), HintCeiling)
<1>1. p \in Entries(now) /\ (HasCap(e, now) => p.cap = e.cap /\ e.cap > 0)
      BY PrunedCap DEF HasCap
<1> HIDE DEF p
<1>2. p.cap \in Nat /\ p.hint \in Nat
      BY <1>1 DEF Entries
<1>3. HintOf(e, now) \in Nat
      BY <1>2 DEF HintOf, Least, p
<1>4. base \in Nat \ {0} /\ (p.cap > 0 => base <= p.cap)
      BY <1>2 DEF Least
<1>5. lift \in Nat
      BY <1>3, PolicyAssumption DEF Least
<1> HIDE DEF lift, base
<1>6. WorkerCap(e, now, plan, allow)
         = IF ~allow \/ p.cap > 0 \/ HintOf(e, now) = 0 THEN base ELSE Most(base, lift)
      BY Zenon DEF WorkerCap, Uncapped, CapOf, p, lift, base
<1>7. Most(base, lift) \in Nat \ {0}
      BY <1>4, <1>5 DEF Most
<1>8. WorkerCap(e, now, plan, allow) \in Nat \ {0}
      BY <1>4, <1>6, <1>7, Zenon
<1>9. ASSUME HasCap(e, now)
      PROVE  WorkerCap(e, now, plan, allow) <= e.cap
      BY <1>1, <1>4, <1>6, <1>9
<1> QED BY <1>3, <1>8, <1>9

LEMMA AllowanceWithin ==
    ASSUME NEW cap \in Nat \ {0}, NEW hint \in Nat, RampAssumption
    PROVE  InitialAllowance(cap, hint) \in 1 .. cap
<1> DEFINE m == Max({FirstWorkers, hint})
           k == Min({cap, m})
<1>1. m \in Nat /\ m >= 1
  <2>1. FirstWorkers \in Nat /\ FirstWorkers >= 1
        BY RampAssumption
  <2>2. m \in {FirstWorkers, hint} /\ FirstWorkers <= m
        BY <2>1, MaxOfTwo
  <2> HIDE DEF m
  <2> QED BY <2>1, <2>2
<1> HIDE DEF m
<1>2. k \in {cap, m} /\ k <= cap
      BY <1>1, MinOfTwo
<1> HIDE DEF k
<1>3. k \in Nat /\ 1 <= k
      BY <1>1, <1>2
<1>4. Max({1, k}) \in {1, k}
      BY <1>3, MaxOfTwo
<1>5. InitialAllowance(cap, hint) = Max({1, k})
      BY DEF InitialAllowance, k, m
<1> QED BY <1>2, <1>3, <1>4, <1>5

LEMMA StartSane ==
    ASSUME RampInv, RampAssumption, NEW plan \in Plans, NEW allow \in BOOLEAN,
           NEW verified \in BOOLEAN, Start(plan, allow, verified)
    PROVE  /\ Sane(run')
           /\ run'.cap = WorkerCap(policy, clock, plan, allow)
<1> DEFINE cap == WorkerCap(policy, clock, plan, allow)
           hint == HintOf(policy, clock)
           allowed == InitialAllowance(cap, hint)
           range == IF verified THEN "supported" ELSE "unknown"
<1>1. clock \in Nat /\ policy \in Entries(clock) /\ plan \in Nat \ {0}
      BY RampAssumption DEF RampInv, PolicyInv
<1>2. cap \in Nat \ {0} /\ hint \in Nat
      BY <1>1, CapOfPolicy
<1>3. PICK alive \in {1, allowed} :
        run' = [state |-> "running", cap |-> cap, hint |-> hint,
                allowed |-> allowed, alive |-> alive,
                range |-> range,
                tail |-> FALSE, expansions |-> 0,
                freeze |-> Active, rejects |-> 0, serial |-> FALSE, sensitive |-> FALSE,
                awaiting |-> FALSE, probe |-> FALSE, probes |-> 0,
                preGrow |-> 0, strikes |-> 0,
                proven |-> 0, beneficial |-> allowed,
                frozenAt |-> 0]
      BY Zenon DEF Start
<1> HIDE DEF cap, hint
<1>4. allowed \in 1 .. cap
      BY <1>2, AllowanceWithin, RampAssumption
<1>5. range \in {"unknown", "supported", "unsupported"}
      OBVIOUS
<1> HIDE DEF allowed, range
<1>6. alive \in 1 .. cap /\ alive <= allowed /\ alive \in Nat /\ allowed \in Nat
      BY <1>2, <1>3, <1>4
<1>7. Active \in Freezes /\ Active.kind # "soft"
      BY FreezeTypes
<1>8. run' \in Downloads
      BY <1>2, <1>3, <1>5, <1>6, <1>7 DEF Downloads
<1>9. /\ run'.cap = cap /\ run'.allowed = allowed /\ run'.alive = alive
      /\ run'.preGrow = 0 /\ run'.beneficial = allowed /\ run'.proven = 0 /\ run'.strikes = 0
      /\ run'.freeze = Active /\ run'.awaiting = FALSE /\ run'.probe = FALSE
      BY <1>3
<1>10. Within(run')
      BY <1>2, <1>4, <1>6, <1>9, RampAssumption DEF Within
<1>11. Evaluated(run') /\ Halvable(run') /\ Creep(run')
      BY <1>6, <1>7, <1>9 DEF Evaluated, Halvable, Creep
<1> QED BY <1>8, <1>9, <1>10, <1>11 DEF Sane, cap
-----------------------------------------------------------------------------
(* The steps of a download. *)

RunSteps == run' = Idle \/ Calm(run, run')

LEMMA JudgedCalm ==
    ASSUME NEW r, Sane(r), NEW v, RampAssumption
    PROVE  /\ Calm(r, Judged(r, v))
           /\ ~Judged(r, v).awaiting
           /\ Judged(r, v).range = r.range
           /\ Judged(r, v).allowed \in Nat \ {0}
<1>1. PICK a \in 1 .. r.allowed, b \in 1 .. r.cap, f \in Freezes, z \in Nat :
        /\ Judged(r, v) = Settled(r, a, b, f, z)
        /\ r.alive <= 2 * a + 1
        /\ f.kind = "soft" => a <= z + r.expansions + (IF r.tail THEN 1 ELSE 0)
        /\ r.freeze.kind = "hard" => f = Hard /\ a = r.allowed
      BY JudgedSane
<1>2. r \in Downloads /\ r.cap \in Nat /\ r.allowed \in Nat /\ r.allowed <= r.cap
      BY DEF Sane, Downloads, Within
<1>3. a \in 1 .. r.cap /\ a <= r.allowed /\ a \in Nat \ {0}
      BY <1>2
<1> DEFINE s == Settled(r, a, b, f, z)
<1>4. Sane(s) /\ ~s.awaiting /\ s.allowed = a /\ s.freeze = f
      BY <1>1, <1>3, SettledSane
<1>5. s.range = r.range
      BY <1>2 DEF Settled, Downloads
<1>6. r.freeze = Hard => f = Hard
      BY <1>1, HardOrSoft
<1> HIDE DEF s
<1>7. Judged(r, v) = s
      BY <1>1 DEF s
<1> QED BY <1>3, <1>4, <1>5, <1>6, <1>7 DEF Calm

LEMMA CalmTrans ==
    ASSUME NEW r, NEW s, NEW t, Sane(r), Calm(r, s), Calm(s, t)
    PROVE  Calm(r, t)
<1>1. r.allowed \in Nat /\ s.allowed \in Nat /\ t.allowed \in Nat
      BY DEF Calm, Sane, Downloads
<1> QED BY <1>1 DEF Calm

LEMMA ObservedCalm ==
    ASSUME NEW r, Sane(r), NEW w
    PROVE  Calm(r, Observed(r, w)) /\ Observed(r, w).range = r.range
<1>1. r.allowed \in Nat /\ r.freeze \in Freezes
      BY DEF Sane, Downloads
<1>2. Sane(Observed(r, w)) /\ Observed(r, w).freeze.kind = r.freeze.kind
      BY ObservedSane
<1>3. Observed(r, w).allowed = r.allowed /\ Observed(r, w).range = r.range
      BY ObservedSane
<1>4. Observed(r, w).freeze \in Freezes
      BY <1>2 DEF Sane, Downloads
<1>5. r.freeze = Hard => Observed(r, w).freeze = Hard
      BY <1>1, <1>2, <1>4, FreezeKinds
<1> QED BY <1>1, <1>2, <1>3, <1>5 DEF Calm

LEMMA ContinuedRun ==
    ASSUME NEW r, Calm(run, r), run' = Continued(r)
    PROVE  RunSteps
BY DEF RunSteps, Continued

LEMMA TickSteps ==
    ASSUME RampInv, RampAssumption, Running, NEW w, Tick(w)
    PROVE  RunSteps /\ PolicyInv'
<1> DEFINE seen == Observed(run, w)
           judged == Judged(seen, w.verdict)
           shrunk == Shrunk(judged, w)
           still == Shrinks(judged, w)
<1>0. Sane(run) /\ clock \in Nat /\ PolicyInv
      BY RampAssumption DEF RampInv, Running, Idle
<1>1. Calm(run, seen) /\ seen.range = run.range
      BY <1>0, ObservedCalm
<1>2. /\ Calm(seen, judged) /\ ~judged.awaiting
      /\ judged.range = run.range /\ judged.allowed \in Nat \ {0}
  <2>1. Sane(seen)
        BY <1>1 DEF Calm
  <2> HIDE DEF seen
  <2> QED BY <1>1, <2>1, JudgedCalm, RampAssumption
<1>3. Calm(judged, shrunk) /\ ~shrunk.awaiting /\ shrunk.range = run.range
  <2>1. Sane(judged)
        BY <1>2 DEF Calm
  <2> HIDE DEF judged
  <2> QED BY <1>2, <2>1, ShrunkSane, RampAssumption
<1>4. CASE ~Adapts(run)
  <2>1. run' = Continued(seen) /\ UNCHANGED <<policy, snapshots, clock, refusals>>
        BY <1>4 DEF Tick
  <2>2. RunSteps
        BY <1>1, <2>1, ContinuedRun
  <2> QED BY <1>0, <2>1, <2>2 DEF PolicyInv, RefusalsRecorded
<1>5. CASE Adapts(run)
  <2>0. clock' = clock
        BY DEF Tick
  <2>1. PICK r \in Topped(shrunk, still) : run' = Continued(r)
        BY <1>5, Zenon DEF Tick
  <2>2. PolicyAfter(judged, w.verdict)
        BY <1>5, Zenon DEF Tick
  <2>3. shrunk.range = "supported"
        BY <1>3, <1>5 DEF Adapts
  <2>4. still \in BOOLEAN
        BY DEF Shrinks, Degraded
  <2> HIDE DEF seen, judged, shrunk, still
  <2>5. Sane(shrunk) /\ Sane(judged) /\ Sane(seen)
        BY <1>1, <1>2, <1>3 DEF Calm
  <2>6. Calm(shrunk, r)
        BY <1>3, <2>1, <2>3, <2>4, <2>5, ToppedSane
  <2>7. Calm(judged, r)
        BY <1>3, <2>5, <2>6, CalmTrans
  <2>8. Calm(seen, r)
        BY <1>2, <2>5, <2>7, CalmTrans
  <2>9. Calm(run, r)
        BY <1>0, <1>1, <2>8, CalmTrans
  <2>10. RunSteps
        BY <2>1, <2>9, ContinuedRun
  <2>11. CASE w.verdict = "collapse" /\ ~run.probe
    <3>1. Recorded(RecordCap(policy, judged.allowed, clock)) /\ Refused(judged.allowed)
          BY <2>2, <2>11, Zenon DEF PolicyAfter
    <3> QED BY <1>0, <1>2, <2>0, <2>10, <3>1, RefusedInv
  <2>12. CASE ~(w.verdict = "collapse" /\ ~run.probe)
    <3>1. UNCHANGED <<policy, snapshots, refusals>>
          BY <2>2, <2>12, Zenon DEF PolicyAfter
    <3> QED BY <1>0, <2>0, <2>10, <3>1 DEF PolicyInv, RefusalsRecorded
  <2> QED BY <2>11, <2>12
<1> QED BY <1>4, <1>5

LEMMA ShortTickSteps ==
    ASSUME RampInv, RampAssumption, ShortTick
    PROVE  RunSteps
<1>1. Sane(run)
      BY DEF RampInv, ShortTick, Running, Idle
<1>2. PICK r \in IF Adapts(run) THEN Filled(run) ELSE {run} : run' = Continued(r)
      BY DEF ShortTick
<1>3. run.allowed \in Nat
      BY <1>1 DEF Sane, Downloads
<1>4. CASE r \in Filled(run)
      BY <1>1, <1>2, <1>3, <1>4, FilledSane, ContinuedRun DEF Calm
<1>5. CASE r = run
      BY <1>1, <1>2, <1>3, <1>5, ContinuedRun DEF Calm
<1> QED BY <1>2, <1>4, <1>5

LEMMA SmallSteps ==
    ASSUME RampInv, RampAssumption, ReachTail \/ Enlarge \/ Retire
    PROVE  RunSteps
<1>0. /\ run \in Downloads /\ Within(run) /\ Evaluated(run) /\ Halvable(run) /\ Creep(run)
      BY DEF RampInv, Sane, ReachTail, Enlarge, Retire, Running, Idle
<1>t. /\ run.cap \in Nat /\ run.allowed \in Nat /\ run.alive \in 0 .. run.cap /\ run.alive \in Nat
      /\ run.preGrow \in Nat /\ run.frozenAt \in Nat /\ run.expansions \in Nat
      /\ run.tail \in BOOLEAN /\ run.awaiting \in BOOLEAN
      BY <1>0 DEF Downloads, Within
<1>1. ASSUME NEW n \in 0 .. run.alive, NEW b \in BOOLEAN, NEW k \in Nat,
             run.expansions <= k, run.tail /\ ~b => run.expansions + 1 <= k,
             run' = [run EXCEPT !.alive = n, !.tail = b, !.expansions = k]
      PROVE  RunSteps
  <2>1. n \in Nat /\ n \in 0 .. run.cap
        BY <1>t
  <2>2. run' \in Downloads
        BY <1>0, <1>1, <2>1 DEF Downloads
  <2>3. /\ run'.alive = n /\ run'.cap = run.cap /\ run'.allowed = run.allowed
        /\ run'.preGrow = run.preGrow /\ run'.beneficial = run.beneficial
        /\ run'.proven = run.proven /\ run'.strikes = run.strikes /\ run'.freeze = run.freeze
        /\ run'.frozenAt = run.frozenAt /\ run'.expansions = k /\ run'.awaiting = run.awaiting
        /\ run'.probe = run.probe /\ run'.range = run.range
        BY <1>0, <1>1 DEF Downloads
  <2>4. run'.tail <=> b
        BY <1>0, <1>1 DEF Downloads
  <2>5. Within(run')
        BY <1>0, <2>1, <2>3 DEF Within
  <2>6. Halvable(run')
        BY <1>0, <1>t, <2>1, <2>3 DEF Halvable
  <2>7. Evaluated(run')
        BY <1>0, <1>t, <2>1, <2>3 DEF Evaluated
  <2>8. Creep(run')
    <3> SUFFICES ASSUME run.freeze.kind = "soft"
                 PROVE  IF run.awaiting
                        THEN run.preGrow <= run.frozenAt + k /\ run.allowed <= run.preGrow + 1
                        ELSE run.allowed <= run.frozenAt + k + (IF b THEN 1 ELSE 0)
          BY <2>3, <2>4, Zenon DEF Creep
    <3>1. IF run.awaiting
          THEN run.preGrow <= run.frozenAt + run.expansions /\ run.allowed <= run.preGrow + 1
          ELSE run.allowed <= run.frozenAt + run.expansions + (IF run.tail THEN 1 ELSE 0)
          BY <1>0 DEF Creep
    <3> QED BY <1>t, <1>1, <3>1
  <2>9. run'.allowed <= run.allowed
        BY <1>t, <2>3
  <2> QED BY <2>2, <2>3, <2>5, <2>6, <2>7, <2>8, <2>9 DEF RunSteps, Calm, Sane
<1>2. CASE ReachTail
  <2>1. run' = [run EXCEPT !.alive = run.alive, !.tail = TRUE, !.expansions = run.expansions]
        BY <1>0, <1>2 DEF ReachTail, Downloads
  <2>2. run.alive \in 0 .. run.alive /\ run.expansions <= run.expansions
        BY <1>t
  <2> QED BY <1>1, <1>t, <2>1, <2>2
<1>3. CASE Enlarge
  <2>1. run' = [run EXCEPT !.alive = run.alive, !.tail = FALSE, !.expansions = run.expansions + 1]
        BY <1>0, <1>3 DEF Enlarge, Downloads
  <2>2. /\ run.expansions + 1 \in Nat /\ run.alive \in 0 .. run.alive
        /\ run.expansions <= run.expansions + 1 /\ run.expansions + 1 <= run.expansions + 1
        BY <1>t
  <2> QED BY <1>1, <1>t, <2>1, <2>2
<1>4. CASE Retire
  <2>1. run' = [run EXCEPT !.alive = run.alive - 1, !.tail = run.tail, !.expansions = run.expansions]
        BY <1>0, <1>4 DEF Retire, Downloads
  <2>2. run.alive - 1 \in 0 .. run.alive /\ run.expansions <= run.expansions
        BY <1>4, <1>t DEF Retire
  <2> QED BY <1>1, <1>t, <2>1, <2>2
<1> QED BY <1>2, <1>3, <1>4

LEMMA VerdictSteps ==
    ASSUME RampInv, RampAssumption, NEW b \in BOOLEAN, RangeVerdict(b)
    PROVE  RunSteps
<1>0. /\ run \in Downloads /\ Within(run) /\ Evaluated(run) /\ Halvable(run) /\ Creep(run)
      /\ run.range = "unknown"
      BY DEF RampInv, Sane, RangeVerdict, Running, Idle
<1>1. run.awaiting = FALSE /\ run.probe = FALSE
      BY <1>0 DEF Evaluated, Downloads
<1>2. /\ run.allowed \in Nat /\ run.allowed <= run.allowed
      BY <1>0 DEF Downloads
<1>3. CASE b
  <2>1. run' = [run EXCEPT !.range = "supported"]
        BY <1>3 DEF RangeVerdict
  <2>2. run' \in Downloads
        BY <1>0, <2>1 DEF Downloads
  <2>3. /\ run'.alive = run.alive /\ run'.cap = run.cap /\ run'.allowed = run.allowed
        /\ run'.preGrow = run.preGrow /\ run'.beneficial = run.beneficial
        /\ run'.proven = run.proven /\ run'.strikes = run.strikes /\ run'.freeze = run.freeze
        /\ run'.frozenAt = run.frozenAt /\ run'.expansions = run.expansions
        /\ run'.awaiting = run.awaiting /\ run'.probe = run.probe /\ run'.tail = run.tail
        BY <1>0, <2>1 DEF Downloads
  <2>4. Within(run') /\ Halvable(run')
        BY <1>0, <2>3 DEF Within, Halvable
  <2>5. Evaluated(run')
        BY <1>1, <2>3 DEF Evaluated
  <2>6. Creep(run')
        BY <1>0, <2>3 DEF Creep
  <2> QED BY <1>2, <2>2, <2>3, <2>4, <2>5, <2>6 DEF RunSteps, Calm, Sane
<1>4. CASE ~b
  <2>1. run' = [run EXCEPT !.range = "unsupported", !.freeze = Hard, !.sensitive = TRUE]
        BY <1>4 DEF RangeVerdict
  <2>2. run' \in Downloads
        BY <1>0, <2>1, HardOrSoft DEF Downloads
  <2>3. /\ run'.alive = run.alive /\ run'.cap = run.cap /\ run'.allowed = run.allowed
        /\ run'.preGrow = run.preGrow /\ run'.beneficial = run.beneficial
        /\ run'.proven = run.proven /\ run'.strikes = run.strikes /\ run'.freeze = Hard
        /\ run'.awaiting = run.awaiting /\ run'.probe = run.probe
        BY <1>0, <2>1 DEF Downloads
  <2>4. Within(run') /\ Halvable(run')
        BY <1>0, <2>3 DEF Within, Halvable
  <2>5. Evaluated(run')
        BY <1>1, <2>3 DEF Evaluated
  <2>6. Creep(run')
        BY <2>3, HardOrSoft DEF Creep
  <2> QED BY <1>2, <2>2, <2>3, <2>4, <2>5, <2>6 DEF RunSteps, Calm, Sane
<1> QED BY <1>3, <1>4

LEMMA IgnoredSteps ==
    ASSUME RampInv, RampAssumption, NEW b \in BOOLEAN, RangeIgnored(b)
    PROVE  RunSteps /\ PolicyInv'
<1>0. /\ run \in Downloads /\ Within(run) /\ Evaluated(run) /\ Halvable(run) /\ Creep(run)
      /\ clock \in Nat /\ PolicyInv /\ clock' = clock
      BY RampAssumption DEF RampInv, Sane, RangeIgnored, Running, Idle
<1>1. run' = [run EXCEPT !.sensitive = TRUE]
      BY DEF RangeIgnored
<1>2. run' \in Downloads
      BY <1>0, <1>1 DEF Downloads
<1>3. /\ run'.alive = run.alive /\ run'.cap = run.cap /\ run'.allowed = run.allowed
      /\ run'.preGrow = run.preGrow /\ run'.beneficial = run.beneficial
      /\ run'.proven = run.proven /\ run'.strikes = run.strikes /\ run'.freeze = run.freeze
      /\ run'.frozenAt = run.frozenAt /\ run'.expansions = run.expansions
      /\ run'.awaiting = run.awaiting /\ run'.probe = run.probe /\ run'.tail = run.tail
      /\ run'.range = run.range /\ run.allowed \in Nat
      BY <1>0, <1>1 DEF Downloads
<1>4. Within(run') /\ Halvable(run') /\ Evaluated(run')
      BY <1>0, <1>3 DEF Within, Halvable, Evaluated
<1>5. Creep(run')
      BY <1>0, <1>3 DEF Creep
<1>6. RunSteps
      BY <1>2, <1>3, <1>4, <1>5 DEF RunSteps, Calm, Sane
<1>7. CASE b
  <2>1. Recorded(RecordCap(policy, 1, clock)) /\ Refused(1)
        BY <1>7 DEF RangeIgnored
  <2> QED BY <1>0, <1>6, <2>1, RefusedInv
<1>8. CASE ~b
  <2>1. UNCHANGED <<policy, snapshots, refusals>>
        BY <1>8 DEF RangeIgnored
  <2> QED BY <1>0, <1>6, <2>1 DEF PolicyInv, RefusalsRecorded
<1> QED BY <1>7, <1>8

\* Half of the workers alive are not more than the allowance.
LEMMA RejectSteps ==
    ASSUME RampInv, RampAssumption, NEW b \in BOOLEAN, Reject(b)
    PROVE  RunSteps /\ PolicyInv'
<1> DEFINE halves == ~run.serial /\ run.rejects = 0 /\ run.alive > 2
           cap == IF halves THEN Half(run.alive) ELSE 1
           a == IF halves THEN cap ELSE run.allowed
           r == [run EXCEPT !.rejects = @ + 1, !.freeze = Hard,
                            !.awaiting = FALSE, !.probe = FALSE, !.preGrow = 0,
                            !.allowed = a, !.serial = ~halves, !.alive = @ - 1]
<1>0. /\ run \in Downloads /\ Within(run) /\ Evaluated(run) /\ Halvable(run) /\ Creep(run)
      /\ clock \in Nat /\ PolicyInv /\ clock' = clock /\ run.alive > 0
      BY RampAssumption DEF RampInv, Sane, Reject, Running, Idle
<1>1. run' = Continued(r)
      BY Zenon DEF Reject
<1>2. IF b /\ ~run.serial THEN Recorded(RecordCap(policy, cap, clock)) /\ Refused(cap)
                          ELSE UNCHANGED <<policy, snapshots, refusals>>
      BY Zenon DEF Reject
<1>3. /\ run.alive \in Nat /\ run.allowed \in Nat /\ 1 <= run.allowed /\ run.cap \in Nat
      /\ run.allowed <= run.cap /\ run.alive <= run.cap /\ run.alive <= 2 * run.allowed + 1
      BY <1>0 DEF Downloads, Within, Halvable
<1>4. /\ Half(run.alive) \in Nat \ {0} /\ Half(run.alive) <= run.allowed
      /\ run.alive <= 2 * Half(run.alive) + 1
  <2>1. ASSUME NEW n \in Nat, NEW k \in Nat, 1 <= k, n <= 2 * k + 1
        PROVE  Half(n) \in Nat \ {0} /\ Half(n) <= k /\ n <= 2 * Half(n) + 1
    <3>1. \A x \in Nat : n <= 2 * x + 1 /\ x > 0 => Max({1, n \div 2}) <= x
          BY HalfOf
    <3>2. k > 0
          BY <2>1
    <3>3. Max({1, n \div 2}) <= k
          BY <2>1, <3>1, <3>2
    <3>4. Max({1, n \div 2}) \in Nat \ {0} /\ n <= 2 * Max({1, n \div 2}) + 1
          BY HalfOf
    <3> QED BY <3>3, <3>4 DEF Half
  <2> QED BY <1>3, <2>1
<1>5. cap \in Nat \ {0} /\ a \in Nat /\ 1 <= a /\ a <= run.allowed /\ run.alive <= 2 * a + 1
      BY <1>3, <1>4
<1>6. (~halves) \in BOOLEAN
      OBVIOUS
<1> HIDE DEF cap, a, halves
<1>7. r \in Downloads
  <2>1. run.rejects + 1 \in Nat /\ run.alive - 1 \in Nat
        BY <1>0, <1>3 DEF Downloads
  <2> QED BY <1>0, <1>5, <1>6, <2>1, HardOrSoft DEF Downloads
<1>8. /\ r.alive = run.alive - 1 /\ r.cap = run.cap /\ r.allowed = a /\ r.preGrow = 0
      /\ r.beneficial = run.beneficial /\ r.proven = run.proven /\ r.strikes = run.strikes
      /\ r.freeze = Hard /\ r.awaiting = FALSE /\ r.probe = FALSE
      BY <1>0 DEF Downloads
<1> HIDE DEF r
<1>9. Within(r)
      BY <1>0, <1>3, <1>5, <1>8 DEF Within
<1>10. Halvable(r)
      BY <1>3, <1>5, <1>8 DEF Halvable
<1>11. Evaluated(r) /\ Creep(r)
      BY <1>8, HardOrSoft DEF Evaluated, Creep
<1>12. RunSteps
      BY <1>1, <1>5, <1>7, <1>8, <1>9, <1>10, <1>11, ContinuedRun DEF Calm, Sane
<1>13. CASE b /\ ~run.serial
      BY <1>0, <1>2, <1>5, <1>12, <1>13, RefusedInv
<1>14. CASE ~(b /\ ~run.serial)
      BY <1>0, <1>2, <1>12, <1>14, Zenon DEF PolicyInv, RefusalsRecorded
<1> QED BY <1>13, <1>14

LEMMA SucceedSteps ==
    ASSUME RampInv, RampAssumption, Succeed
    PROVE  run' = Idle /\ PolicyInv'
<1>1. /\ run \in Downloads /\ clock \in Nat /\ PolicyInv /\ UNCHANGED <<clock, refusals>>
      /\ run' = Idle
      BY RampAssumption DEF RampInv, Sane, Succeed, Running, Idle
<1>2. CASE EarnsHint(run)
  <2>1. run.proven \in Nat /\ run.beneficial \in Nat
        BY <1>1 DEF Downloads
  <2>2. HintScale(run) \in Nat
        BY <2>1, MinOfTwo DEF HintScale
  <2>3. Recorded(RecordHint(policy, HintScale(run), clock))
        BY <1>2, Zenon DEF Succeed
  <2> QED BY <1>1, <2>2, <2>3, HintedInv
<1>3. CASE ~EarnsHint(run)
  <2>1. UNCHANGED <<policy, snapshots>>
        BY <1>3, Zenon DEF Succeed
  <2> QED BY <1>1, <2>1 DEF PolicyInv, RefusalsRecorded
<1> QED BY <1>2, <1>3
-----------------------------------------------------------------------------
(* Every step. *)

LEMMA EventSteps ==
    ASSUME RampInv, RampAssumption, NEW n \in Elsewhere, RefusedElsewhere(n) \/ HintedElsewhere(n)
    PROVE  PolicyInv'
<1>0. clock \in Nat /\ PolicyInv /\ clock' = clock /\ n \in Nat \ {0}
      BY RampAssumption DEF RampInv, RefusedElsewhere, HintedElsewhere
<1>1. CASE RefusedElsewhere(n)
      BY <1>0, <1>1, RefusedInv DEF RefusedElsewhere
<1>2. CASE HintedElsewhere(n)
      BY <1>0, <1>2, HintedInv DEF HintedElsewhere
<1> QED BY <1>1, <1>2

LEMMA ResetSteps ==
    ASSUME RampInv, RampAssumption, Clear \/ Restart
    PROVE  PolicyInv'
<1>0. clock \in Nat /\ PolicyInv /\ clock' = clock
      BY RampAssumption DEF RampInv, Clear, Restart
<1>1. CASE Clear
  <2>1. NoEntry \in Entries(clock)
        BY <1>0 DEF NoEntry, Entries
  <2> QED BY <1>0, <1>1, <2>1 DEF Clear, PolicyInv, RefusalsRecorded
<1>2. CASE Restart
  <2>1. PICK e \in snapshots : snapshots' = {e} /\ policy' = Merged(NoEntry, e, clock)
        BY <1>2 DEF Restart
  <2>2. e \in Entries(clock)
        BY <1>0, <2>1 DEF PolicyInv
  <2>3. policy' \in Entries(clock)
        BY <1>0, <2>1, <2>2, MergedEntry
  <2>4. refusals' = {}
        BY <1>2 DEF Restart
  <2> QED BY <1>0, <2>1, <2>2, <2>3, <2>4 DEF PolicyInv, RefusalsRecorded
<1> QED BY <1>1, <1>2

LEMMA PassSteps ==
    ASSUME RampInv, RampAssumption, Pass
    PROVE  PolicyInv'
<1>1. /\ clock \in Nat /\ PolicyInv /\ clock' = clock + 1
      /\ refusals' = {r \in refusals : Fresh(r.at, clock + 1)}
      /\ UNCHANGED <<policy, snapshots>>
      BY RampAssumption DEF RampInv, Pass
<1>2. 0 .. clock \subseteq 0 .. clock'
      BY <1>1
<1>3. Entries(clock) \subseteq Entries(clock')
      BY <1>2 DEF Entries
<1>4. [cap : Nat, at : 0 .. clock] \subseteq [cap : Nat, at : 0 .. clock']
      BY <1>2
<1> HIDE DEF Entries
<1>5. snapshots' \subseteq Entries(clock') /\ policy' \in Entries(clock')
      BY <1>1, <1>3 DEF PolicyInv
<1>6. refusals' \subseteq [cap : Nat, at : 0 .. clock']
      BY <1>1, <1>4 DEF PolicyInv
<1>7. RefusalsRecorded'
      BY <1>1 DEF PolicyInv, RefusalsRecorded
<1> QED BY <1>5, <1>6, <1>7 DEF PolicyInv

LEMMA StepRuns ==
    ASSUME RampInv, RampAssumption, RampNext
    PROVE  /\ PolicyInv'
           /\ \/ run' = run \/ run' = Idle
              \/ Running /\ Calm(run, run')
              \/ /\ ~Running /\ Sane(run')
                 /\ \A x \in refusals : run'.cap <= x.cap
<1>0. PolicyInv /\ clock \in Nat
      BY RampAssumption DEF RampInv
<1>1. ASSUME NEW plan \in Plans, NEW allow \in BOOLEAN, NEW verified \in BOOLEAN,
             Start(plan, allow, verified)
      PROVE  PolicyInv' /\ ~Running /\ Sane(run') /\ \A x \in refusals : run'.cap <= x.cap
  <2>1. PolicyInv'
        BY <1>0, <1>1, PrunedInv, Zenon DEF Start
  <2>2. Sane(run') /\ run'.cap = WorkerCap(policy, clock, plan, allow)
        BY <1>1, StartSane
  <2>3. ~Running
        BY <1>1 DEF Start
  <2>4. ASSUME NEW x \in refusals
        PROVE  WorkerCap(policy, clock, plan, allow) <= x.cap
    <3>1. policy.cap \in Nat /\ x.cap \in Nat /\ plan \in Nat \ {0} /\ policy \in Entries(clock)
          BY <1>0, RampAssumption DEF PolicyInv, Entries
    <3>2. HasCap(policy, clock) /\ policy.cap <= x.cap
          BY <1>0, RefusedHasCap
    <3>3. /\ WorkerCap(policy, clock, plan, allow) \in Nat
          /\ WorkerCap(policy, clock, plan, allow) <= policy.cap
          BY <1>0, <3>1, <3>2, CapOfPolicy
    <3> QED BY <3>1, <3>2, <3>3
  <2> QED BY <2>1, <2>2, <2>3, <2>4
<1>2. ASSUME Running, NEW w, Tick(w)
      PROVE  PolicyInv' /\ RunSteps
      BY <1>2, TickSteps
<1>3. CASE ShortTick
      BY <1>0, <1>3, ShortTickSteps DEF ShortTick, RunSteps, PolicyInv, RefusalsRecorded
<1>4. CASE ReachTail \/ Enlarge \/ Retire
  <2>1. RunSteps /\ Running
        BY <1>4, SmallSteps DEF ReachTail, Enlarge, Retire
  <2>2. UNCHANGED <<policy, snapshots, clock, refusals>>
        BY <1>4 DEF ReachTail, Enlarge, Retire
  <2> QED BY <1>0, <2>1, <2>2 DEF RunSteps, PolicyInv, RefusalsRecorded
<1>5. CASE Succeed
      BY <1>5, SucceedSteps
<1>6. CASE Stop
      BY <1>0, <1>6 DEF Stop, PolicyInv, RefusalsRecorded
<1>7. ASSUME NEW b \in BOOLEAN, RangeVerdict(b) \/ RangeIgnored(b) \/ Reject(b)
      PROVE  PolicyInv' /\ Running /\ RunSteps
  <2>1. CASE RangeVerdict(b)
        BY <1>0, <2>1, VerdictSteps DEF RangeVerdict, PolicyInv, RefusalsRecorded
  <2>2. CASE RangeIgnored(b)
        BY <2>2, IgnoredSteps DEF RangeIgnored
  <2>3. CASE Reject(b)
        BY <2>3, RejectSteps DEF Reject
  <2> QED BY <1>7, <2>1, <2>2, <2>3
<1>8. ASSUME NEW n \in Elsewhere, RefusedElsewhere(n) \/ HintedElsewhere(n)
      PROVE  PolicyInv' /\ run' = run
      BY <1>8, EventSteps DEF RefusedElsewhere, HintedElsewhere
<1>9. CASE Clear \/ Restart
      BY <1>9, ResetSteps DEF Clear, Restart
<1>10. CASE Pass
      BY <1>10, PassSteps DEF Pass
<1> HIDE DEF Running, PolicyInv
<1> QED BY <1>1, <1>2, <1>3, <1>4, <1>5, <1>6, <1>7, <1>8, <1>9, <1>10 DEF RampNext, RunSteps

LEMMA CounterSteps ==
    ASSUME RampInv, RampAssumption, RampNext
    PROVE  clock' \in 0 .. MaxClock /\ runs' \in 0 .. MaxRuns /\ events' \in 0 .. MaxEvents
<1>0. /\ clock \in 0 .. MaxClock /\ runs \in 0 .. MaxRuns /\ events \in 0 .. MaxEvents
      /\ MaxClock \in Nat /\ MaxRuns \in Nat /\ MaxEvents \in Nat
      BY RampAssumption DEF RampInv
<1>1. /\ clock' = clock \/ (clock < MaxClock /\ clock' = clock + 1)
      /\ runs' = runs \/ (runs < MaxRuns /\ runs' = runs + 1)
      /\ events' = events \/ (events < MaxEvents /\ events' = events + 1)
      BY DEF RampNext, Start, Succeed, Stop, Tick, ShortTick, ReachTail, Enlarge, Retire,
             RangeVerdict, RangeIgnored, Reject, Event, RefusedElsewhere, HintedElsewhere,
             Clear, Restart, Pass
<1> QED BY <1>0, <1>1

LEMMA InitInv == RampAssumption /\ RampInit => RampInv
<1> SUFFICES ASSUME RampAssumption, RampInit
             PROVE  RampInv
      OBVIOUS
<1>1. PICK e \in Left : snapshots = {e} /\ policy = Merged(NoEntry, e, 0)
      BY DEF RampInit
<1>2. clock = 0 /\ run = Idle /\ refusals = {} /\ runs = 0 /\ events = 0
      BY DEF RampInit
<1>3. e \in Entries(0)
      BY <1>1, RampAssumption DEF Left, NoEntry, Entries
<1>4. policy \in Entries(0)
      BY <1>1, <1>3, MergedEntry
<1> QED BY <1>1, <1>2, <1>3, <1>4, RampAssumption DEF RampInv, PolicyInv, RefusalsRecorded

LEMMA NextInv == RampAssumption /\ RampInv /\ [RampNext]_vars => RampInv'
<1> SUFFICES ASSUME RampAssumption, RampInv, [RampNext]_vars
             PROVE  RampInv'
      OBVIOUS
<1>1. CASE RampNext
  <2>1. run' = Idle \/ Sane(run')
        BY <1>1, StepRuns DEF RampInv, Calm
  <2>2. PolicyInv'
        BY <1>1, StepRuns
  <2>3. (run = Idle)' \/ Sane(run')
        BY <2>1 DEF Idle
  <2> HIDE DEF PolicyInv, Sane
  <2> QED BY <1>1, <2>2, <2>3, CounterSteps DEF RampInv
<1>2. CASE UNCHANGED vars
      BY <1>2 DEF vars, RampInv, PolicyInv, RefusalsRecorded
<1> QED BY <1>1, <1>2

\* The invariant: what is allowed, alive and under evaluation fits together, and
\* the record of the host covers every refusal that still counts.
THEOREM RampInvariant == RampSpec => []RampInv
<1>1. RampInit => RampInv
      BY InitInv, RampAssumption
<1>2. RampInv /\ [RampNext]_vars => RampInv'
      BY NextInv, RampAssumption
<1> QED BY <1>1, <1>2, PTL DEF RampSpec

\* The allowance and the workers alive stay within the cap of the download,
\* through every growth, rollback, shrink and refusal.
THEOREM RampTypesHold == RampSpec => []RampTypeOK
<1>1. RampInv => RampTypeOK
  <2> SUFFICES ASSUME RampInv
               PROVE  RampTypeOK
        OBVIOUS
  <2>1. snapshots \cup {policy} \subseteq [cap : Nat, capTs : 0 .. clock, hint : Nat, hintTs : 0 .. clock]
        BY DEF RampInv, PolicyInv, Entries
  <2>2. ASSUME Running
        PROVE  Sane(run)
        BY <2>2 DEF RampInv, Running, Idle
  <2>3. ASSUME Running
        PROVE  Within(run) /\ run.freeze.kind \in {"active", "soft", "hard"}
        BY <2>2, <2>3, FreezeKinds DEF Sane, Downloads
  <2>4. ASSUME Running
        PROVE  run.probe => run.awaiting
        BY <2>2, <2>4 DEF Sane, Evaluated
  <2> QED BY <2>1, <2>3, <2>4 DEF RampTypeOK, RampInv, Within
<1> QED BY <1>1, RampInvariant, PTL

\* The probes of a download frozen softly never add up.
THEOREM SoftFreezeHolds == RampSpec => []SoftNeverCreeps
<1>1. RampInv => SoftNeverCreeps
  <2> SUFFICES ASSUME RampInv, Running, run.freeze.kind = "soft"
               PROVE  run.allowed <= run.frozenAt + 1 + run.expansions
        BY DEF SoftNeverCreeps
  <2>1. run \in Downloads /\ Creep(run)
        BY DEF RampInv, Running, Idle, Sane
  <2>2. run.allowed \in Nat /\ run.frozenAt \in Nat /\ run.expansions \in Nat /\ run.preGrow \in Nat
        BY <2>1 DEF Downloads
  <2>3. IF run.awaiting
        THEN run.preGrow <= run.frozenAt + run.expansions /\ run.allowed <= run.preGrow + 1
        ELSE run.allowed <= run.frozenAt + run.expansions + (IF run.tail THEN 1 ELSE 0)
        BY <2>1 DEF Creep
  <2> QED BY <2>2, <2>3
<1> QED BY <1>1, RampInvariant, PTL

\* A download never starts beyond a refusal that still counts, whatever hints
\* and other refusals are recorded after it.
THEOREM RefusalsBind == RampSpec => StartsUnderRefusals
<1>1. RampInv /\ [RampNext]_vars
        => [~Running /\ run'.state = "running" => \A r \in refusals : run'.cap <= r.cap]_vars
  <2> SUFFICES ASSUME RampInv, RampNext, ~Running, run'.state = "running"
               PROVE  \A r \in refusals : run'.cap <= r.cap
        OBVIOUS
  <2>1. run' # run /\ run' # Idle
        BY DEF Running, Idle
  <2> QED BY <2>1, StepRuns, RampAssumption
<1> QED BY <1>1, RampInvariant, PTL DEF RampSpec, StartsUnderRefusals

\* After a hard freeze no step raises the allowance.
THEOREM HardFreezeHolds == RampSpec => HardNeverGrows
<1>1. RampInv /\ [RampNext]_vars
        => [Running /\ run'.state = "running" /\ run.freeze = Hard => run'.allowed <= run.allowed]_vars
  <2> SUFFICES ASSUME RampInv, RampNext, Running, run'.state = "running", run.freeze = Hard
               PROVE  run'.allowed <= run.allowed
        OBVIOUS
  <2>1. run' # Idle
        BY DEF Idle
  <2>2. run.allowed \in Nat
        BY DEF RampInv, Running, Idle, Sane, Downloads
  <2>3. run' = run \/ Calm(run, run')
        BY <2>1, StepRuns, RampAssumption
  <2> QED BY <2>2, <2>3 DEF Calm
<1> QED BY <1>1, RampInvariant, PTL DEF RampSpec, HardNeverGrows
=============================================================================
