--------------------- MODULE SegmentCoordinator_proofs ---------------------
(***************************************************************************)
(* Proofs about SegmentCoordinator, for any number of workers, any plan    *)
(* and any file: through every interleaving of the coordinator's handlers, *)
(* its database statements and the workers, the segment map stays a        *)
(* partition of the file, and no segment is held by two workers or lost.   *)
(*                                                                         *)
(* The first half is about the operations on the segment map, for files    *)
(* and maps of any size: the fresh layout is a partition of the file and   *)
(* every later operation keeps it one, and the check of a resume accepts   *)
(* the partitions and nothing that leaves a byte out or gives it twice.    *)
(* The maxima, the sums and the neighbours these need exist because a      *)
(* finite set has no endless chain of subsets.                             *)
(***************************************************************************)
EXTENDS SegmentCoordinator, FiniteSetTheorems, SequenceTheorems, WellFoundedInduction, TLAPS

SegRecs == [start : Int, end : Int, dl : Nat, st : States]

\* A map whose segments are numbered below n.
MapBelow(m, n) ==
    /\ n \in Nat
    /\ DOMAIN m \subseteq 0 .. n - 1
    /\ m \in [DOMAIN m -> SegRecs]

-----------------------------------------------------------------------------
(***************************************************************************)
(* Maxima.                                                                 *)
(***************************************************************************)

\* A nonempty set of integers with an upper bound has a greatest element.
LEMMA BoundedHasGreatest ==
    ASSUME NEW S \in SUBSET Int, S # {},
           NEW bound \in Int, \A x \in S : x <= bound
    PROVE  \E x \in S : \A y \in S : y <= x
<1> DEFINE T == {bound - x : x \in S}
<1>1. T \subseteq Nat /\ T # {}
  <2>1. \A x \in S : bound - x \in Nat
    OBVIOUS
  <2> QED BY <2>1
<1>2. PICK t \in T : \A y \in T : ~(<<y, t>> \in OpToRel(<, Nat))
  <2> HIDE DEF T
  <2> QED BY <1>1, WFMin, NatLessThanWellFounded
<1>3. \A y \in T : ~(y < t)
  BY <1>1, <1>2 DEF OpToRel
<1>4. PICK x \in S : t = bound - x
  OBVIOUS
<1>5. \A y \in S : ~(bound - y < bound - x)
  BY <1>3, <1>4
<1> QED BY <1>5

\* Greatest is what its name says.
LEMMA GreatestIsMax ==
    ASSUME NEW S \in SUBSET Int, S # {},
           NEW bound \in Int, \A x \in S : x <= bound
    PROVE  Greatest(S) \in S /\ \A y \in S : y <= Greatest(S)
BY BoundedHasGreatest DEF Greatest

-----------------------------------------------------------------------------
(***************************************************************************)
(* Cutting one segment in two.                                             *)
(***************************************************************************)

\* The sizes of a segment with at least one byte.
LEMMA SizeFacts ==
    ASSUME NEW g \in SegRecs
    PROVE  /\ Size(g) \in Nat /\ Remaining(g) \in Nat /\ Remaining(g) <= Size(g)
           /\ Bytes(g) # {} => g.start <= g.end /\ Size(g) = g.end - g.start + 1
BY DEF SegRecs, Size, Remaining, Bytes

\* A cut strictly inside segment p keeps the map a partition.
LEMMA CutKeepsPartition ==
    ASSUME NEW size \in Int, NEW n, NEW m, MapBelow(m, n), IsPartition(m, size),
           NEW p \in DOMAIN m, NEW at \in Int, m[p].start < at, at <= m[p].end,
           NEW st \in States
    PROVE  IsPartition(Cut(m, p, at, n, st), size)
<1> DEFINE c == Cut(m, p, at, n, st)
           low == m[p].start .. at - 1
           high == at .. m[p].end
<1>1. n \notin DOMAIN m /\ p # n /\ DOMAIN c = DOMAIN m \cup {n}
  BY DEF MapBelow, Cut
<1>2. m[p] \in SegRecs /\ m[p].start \in Int /\ m[p].end \in Int
  BY DEF MapBelow, SegRecs
<1>3. Bytes(c[n]) = high
  BY <1>1 DEF Cut, Seg, Bytes
<1>4. Bytes(c[p]) = low
  BY <1>1, <1>2 DEF Cut, Bytes, SegRecs
<1>5. \A i \in DOMAIN m \ {p} : c[i] = m[i]
  BY <1>1 DEF Cut
<1>6. low \cup high = Bytes(m[p]) /\ low \cap high = {} /\ low # {} /\ high # {}
  BY <1>2 DEF Bytes
<1>7. \A i \in DOMAIN c : Bytes(c[i]) # {} /\ Bytes(c[i]) \subseteq 0 .. size - 1
  <2> HIDE DEF c, low, high
  <2> QED BY <1>1, <1>3, <1>4, <1>5, <1>6 DEF IsPartition
<1>8. \A b \in 0 .. size - 1 : \E i \in DOMAIN c : b \in Bytes(c[i])
  <2> HIDE DEF c, low, high
  <2> QED BY <1>1, <1>3, <1>4, <1>5, <1>6 DEF IsPartition
<1>9. \A i, j \in DOMAIN c : i # j => Bytes(c[i]) \cap Bytes(c[j]) = {}
  <2> SUFFICES ASSUME NEW i \in DOMAIN c, NEW j \in DOMAIN c, i # j
               PROVE  Bytes(c[i]) \cap Bytes(c[j]) = {}
    OBVIOUS
  <2> HIDE DEF c, low, high
  <2>1. Bytes(c[i]) \subseteq Bytes(m[IF i = n THEN p ELSE i])
    BY <1>1, <1>3, <1>4, <1>5, <1>6
  <2>2. Bytes(c[j]) \subseteq Bytes(m[IF j = n THEN p ELSE j])
    BY <1>1, <1>3, <1>4, <1>5, <1>6
  <2>3. CASE i \in {p, n} /\ j \in {p, n}
    BY <2>3, <1>1, <1>3, <1>4, <1>6
  <2>4. CASE ~(i \in {p, n} /\ j \in {p, n})
    <3> DEFINE a == IF i = n THEN p ELSE i
               b == IF j = n THEN p ELSE j
    <3>1. a \in DOMAIN m /\ b \in DOMAIN m /\ a # b
      BY <2>4, <1>1
    <3> HIDE DEF a, b
    <3>2. Bytes(m[a]) \cap Bytes(m[b]) = {}
      BY <3>1 DEF IsPartition
    <3> QED BY <2>1, <2>2, <3>2 DEF a, b
  <2> QED BY <2>3, <2>4
<1> QED BY <1>7, <1>8, <1>9 DEF IsPartition

\* Only the bounds of the segments decide whether a map is a partition.
LEMMA BoundsDecide ==
    ASSUME NEW size, NEW m, NEW c, DOMAIN c = DOMAIN m,
           \A i \in DOMAIN m : Bytes(c[i]) = Bytes(m[i]), IsPartition(m, size)
    PROVE  IsPartition(c, size)
BY DEF IsPartition

\* Every segment of a partition lies within the file.
LEMMA WithinFile ==
    ASSUME NEW size \in Int, NEW n, NEW m, MapBelow(m, n), IsPartition(m, size),
           NEW i \in DOMAIN m
    PROVE  /\ m[i] \in SegRecs
           /\ 0 <= m[i].start /\ m[i].start <= m[i].end /\ m[i].end <= size - 1
           /\ Size(m[i]) = m[i].end - m[i].start + 1
           /\ Remaining(m[i]) \in Nat /\ Remaining(m[i]) <= size
<1>1. m[i] \in SegRecs /\ m[i].start \in Int /\ m[i].end \in Int
  BY DEF MapBelow, SegRecs
<1>2. Bytes(m[i]) # {} /\ Bytes(m[i]) \subseteq 0 .. size - 1
  BY DEF IsPartition
<1>3. m[i].start <= m[i].end
  BY <1>1, <1>2 DEF Bytes
<1>4. m[i].start \in Bytes(m[i]) /\ m[i].end \in Bytes(m[i])
  BY <1>1, <1>3 DEF Bytes
<1>5. 0 <= m[i].start /\ m[i].end <= size - 1
  BY <1>1, <1>2, <1>4
<1> QED BY <1>1, <1>2, <1>3, <1>5, SizeFacts

-----------------------------------------------------------------------------
(***************************************************************************)
(* The operations.                                                         *)
(***************************************************************************)

\* max_by_key finds an active segment and none has more left.
LEMMA LargestActiveIsLargest ==
    ASSUME NEW size \in Int, NEW n, NEW m, MapBelow(m, n), IsPartition(m, size),
           InState(m, "Active") # {}
    PROVE  /\ LargestActive(m) \in InState(m, "Active")
           /\ \A j \in InState(m, "Active") : Remaining(m[j]) <= Remaining(m[LargestActive(m)])
<1> DEFINE A == InState(m, "Active")
           R == {Remaining(m[i]) : i \in A}
<1>1. A \subseteq DOMAIN m /\ A \subseteq Int /\ \A i \in A : i <= n - 1
  BY DEF InState, MapBelow
<1>2. \A i \in A : Remaining(m[i]) \in Nat /\ Remaining(m[i]) <= size
  BY <1>1, WithinFile
<1>3. PICK r \in R : \A y \in R : y <= r
  <2>1. R \in SUBSET Int /\ R # {} /\ \A x \in R : x <= size
    BY <1>2
  <2> HIDE DEF R
  <2> QED BY <2>1, BoundedHasGreatest
<1> DEFINE T == {i \in A : Remaining(m[i]) = r}
<1>4. PICK i \in T : \A y \in T : y <= i
  <2>1. T \in SUBSET Int /\ T # {} /\ \A x \in T : x <= n - 1
    BY <1>1, <1>3
  <2>2. n - 1 \in Int
    BY DEF MapBelow
  <2> HIDE DEF T
  <2> QED BY <2>1, <2>2, BoundedHasGreatest
<1>5. \A j \in A : \/ Remaining(m[j]) < Remaining(m[i])
                   \/ Remaining(m[j]) = Remaining(m[i]) /\ j <= i
  BY <1>2, <1>3, <1>4
<1>6. LargestActive(m) \in A /\ \A j \in A :
          \/ Remaining(m[j]) < Remaining(m[LargestActive(m)])
          \/ Remaining(m[j]) = Remaining(m[LargestActive(m)]) /\ j <= LargestActive(m)
  BY <1>4, <1>5 DEF LargestActive
<1> QED BY <1>2, <1>6

\* Whenever find_next_work or the proactive split may split, the map stays a
\* partition and the parent keeps every byte it has already downloaded.
THEOREM SplitKeepsPartition ==
    ASSUME NEW size \in Int, NEW n, NEW m, MapBelow(m, n), IsPartition(m, size),
           CanSplit(m), NEW st \in States
    PROVE  /\ IsPartition(Split(m, n, st), size)
           /\ LET g == Split(m, n, st)[LargestActive(m)] IN g.dl <= Size(g)
<1> DEFINE p == LargestActive(m)
<1>1. p \in InState(m, "Active") /\ Remaining(m[p]) >= MinSplit
  <2>1. PICK j \in InState(m, "Active") : Remaining(m[j]) >= MinSplit
    BY DEF CanSplit
  <2>2. p \in InState(m, "Active") /\ Remaining(m[j]) <= Remaining(m[p])
    BY <2>1, LargestActiveIsLargest
  <2>3. p \in DOMAIN m /\ j \in DOMAIN m
    BY <2>1, <2>2 DEF InState
  <2>4. Remaining(m[p]) \in Nat /\ Remaining(m[j]) \in Nat
    BY <2>3, WithinFile
  <2> QED BY <2>1, <2>2, <2>4, MapAssumption
<1>2. p \in DOMAIN m /\ m[p] \in SegRecs
  BY <1>1 DEF InState, MapBelow
<1> HIDE DEF p
<1>3. /\ m[p].start \in Int /\ m[p].end \in Int /\ m[p].dl \in Nat
      /\ Remaining(m[p]) \in Nat /\ m[p].start <= m[p].end
      /\ Size(m[p]) = m[p].end - m[p].start + 1
  BY <1>2, WithinFile DEF SegRecs
<1>4. Remaining(m[p]) >= 2 /\ Remaining(m[p]) = Size(m[p]) - m[p].dl
  BY <1>1, <1>3, MapAssumption DEF Remaining
<1> DEFINE at == SplitPoint(m[p])
<1>5. /\ at \in Int /\ m[p].start < at /\ at <= m[p].end
      /\ m[p].start + m[p].dl <= at
  BY <1>3, <1>4 DEF SplitPoint
<1>6. Split(m, n, st) = Cut(m, p, at, n, st)
  BY DEF Split, p
<1> HIDE DEF at
<1>7. IsPartition(Cut(m, p, at, n, st), size)
  BY <1>2, <1>5, CutKeepsPartition
<1>8. Cut(m, p, at, n, st)[p] = [m[p] EXCEPT !.end = at - 1]
  BY <1>2 DEF Cut, MapBelow
<1>9. LET g == Cut(m, p, at, n, st)[p] IN g.dl <= Size(g)
  BY <1>2, <1>3, <1>5, <1>8 DEF Size, SegRecs
<1> QED BY <1>6, <1>7, <1>9 DEF p

\* A segment that ended short of its end is cut where its worker stopped, and
\* the map stays a partition.
THEOREM ShortfallKeepsPartition ==
    ASSUME NEW size \in Int, NEW n, NEW m, MapBelow(m, n), IsPartition(m, size),
           NEW i \in DOMAIN m, NEW d \in Nat, 0 < d, d < Size(m[i])
    PROVE  IsPartition(Shortfall(m, i, d, n), size)
<1> DEFINE c == [m EXCEPT ![i].dl = d, ![i].st = "Completed"]
<1>1. m[i] \in SegRecs /\ m[i].start \in Int /\ m[i].end \in Int
      /\ Size(m[i]) = m[i].end - m[i].start + 1
  BY WithinFile DEF SegRecs
<1>2. DOMAIN c = DOMAIN m /\ c \in [DOMAIN m -> SegRecs]
  BY DEF MapBelow, SegRecs, States
<1>3. c[i].start = m[i].start /\ c[i].end = m[i].end /\ \A j \in DOMAIN m \ {i} : c[j] = m[j]
  BY <1>1 DEF MapBelow, SegRecs
<1>4. MapBelow(c, n)
  BY <1>2 DEF MapBelow
<1> HIDE DEF c
<1>5. IsPartition(c, size)
  BY <1>2, <1>3, BoundsDecide DEF Bytes
<1>6. IsPartition(Cut(c, i, m[i].start + d, n, "Pending"), size)
  BY <1>1, <1>2, <1>3, <1>4, <1>5, CutKeepsPartition DEF States
<1> QED BY <1>6 DEF Shortfall, c

\* The tail appended when the file proves larger makes the map a partition of
\* the larger file.
THEOREM GrowMakesPartition ==
    ASSUME NEW size \in Nat, NEW n, NEW m, MapBelow(m, n), IsPartition(m, size),
           NEW reported \in Nat, size < reported
    PROVE  IsPartition(Grow(m, n, size, reported), reported)
<1> DEFINE c == Grow(m, n, size, reported)
           new == size .. reported - 1
           old == 0 .. size - 1
<1>1. n \notin DOMAIN m /\ DOMAIN c = DOMAIN m \cup {n}
  BY DEF MapBelow, Grow
<1>2. Bytes(c[n]) = new
  BY DEF Grow, Seg, Bytes
<1>3. \A i \in DOMAIN m : c[i] = m[i]
  BY <1>1 DEF Grow
<1>4. old \cup new = 0 .. reported - 1 /\ old \cap new = {} /\ new # {}
  OBVIOUS
<1>5. \A i \in DOMAIN m : Bytes(c[i]) # {} /\ Bytes(c[i]) \subseteq old
  BY <1>3 DEF IsPartition
<1>6. \A b \in old : \E i \in DOMAIN m : b \in Bytes(c[i])
  BY <1>3 DEF IsPartition
<1>7. \A i, j \in DOMAIN m : i # j => Bytes(c[i]) \cap Bytes(c[j]) = {}
  BY <1>3 DEF IsPartition
<1> HIDE DEF c, new, old
<1>8. \A i \in DOMAIN c : Bytes(c[i]) # {} /\ Bytes(c[i]) \subseteq 0 .. reported - 1
  BY <1>1, <1>2, <1>4, <1>5
<1>9. \A b \in 0 .. reported - 1 : \E i \in DOMAIN c : b \in Bytes(c[i])
  BY <1>1, <1>2, <1>4, <1>6
<1>10. \A i, j \in DOMAIN c : i # j => Bytes(c[i]) \cap Bytes(c[j]) = {}
  BY <1>1, <1>2, <1>4, <1>5, <1>7
<1> QED BY <1>8, <1>9, <1>10 DEF IsPartition, c

\* The end of a merge is the greatest end among the absorbed segments.
LEMMA MergedEndFacts ==
    ASSUME NEW m, NEW A, A # {}, NEW bound \in Int,
           \A i \in A : m[i].end \in Int /\ m[i].end <= bound
    PROVE  /\ \E k \in A : MergedEnd(m, A) = m[k].end
           /\ \A i \in A : m[i].end <= MergedEnd(m, A)
<1> DEFINE S == {m[i].end : i \in A}
<1>1. S \in SUBSET Int /\ S # {} /\ \A x \in S : x <= bound
  OBVIOUS
<1>2. MergedEnd(m, A) = Greatest(S)
  BY DEF MergedEnd
<1>3. Greatest(S) \in S /\ \A y \in S : y <= Greatest(S)
  <2> HIDE DEF S
  <2> QED BY <1>1, GreatestIsMax
<1> QED BY <1>2, <1>3

\* The open-ended stream takes over exactly the bytes of the segments it
\* absorbs: what follows it without a gap.
THEOREM MergeKeepsPartition ==
    ASSUME NEW size \in Int, NEW n, NEW m, MapBelow(m, n), IsPartition(m, size),
           NEW open \in InState(m, "Active"), Absorbable(m, open) # {}
    PROVE  IsPartition(Merge(m, open, Absorbable(m, open)), size)
<1> DEFINE A == Absorbable(m, open)
           U == {i \in InState(m, "Pending") : m[i].dl = 0}
           E == MergedEnd(m, A)
           c == Merge(m, open, A)
<1>1. open \in DOMAIN m /\ open \notin U /\ U \subseteq DOMAIN m /\ A \subseteq U
  BY DEF InState, Absorbable
<1>2. A = {i \in U : /\ m[i].start > m[open].end
                     /\ \A b \in m[open].end + 1 .. m[i].start - 1 : \E j \in U : b \in Bytes(m[j])}
  BY DEF Absorbable
<1>3. \A i \in DOMAIN m : /\ m[i].start \in Int /\ m[i].end \in Int
                          /\ 0 <= m[i].start /\ m[i].start <= m[i].end /\ m[i].end <= size - 1
  BY WithinFile DEF SegRecs
<1>4. DOMAIN c = DOMAIN m \ A /\ open \in DOMAIN c
  BY <1>1 DEF Merge
<1>5. (\E k \in A : E = m[k].end) /\ (\A i \in A : m[i].end <= E)
  <2>1. A # {} /\ A \subseteq DOMAIN m /\ E = MergedEnd(m, A)
    BY <1>1
  <2> HIDE DEF A, E
  <2>2. \A i \in A : m[i].end \in Int /\ m[i].end <= size - 1
    BY <2>1, <1>3
  <2>3. size - 1 \in Int
    OBVIOUS
  <2> QED BY <2>1, <2>2, <2>3, MergedEndFacts
<1>6. PICK k \in A : E = m[k].end
  BY <1>5
<1> HIDE DEF A, U, E, c
<1>7. E \in Int /\ E <= size - 1 /\ E > m[open].end
  BY <1>1, <1>2, <1>3, <1>6
<1>8. Bytes(c[open]) = m[open].start .. E
  <2>1. c[open] = [m[open] EXCEPT !.end = E] /\ m[open] \in SegRecs
    BY <1>1, <1>4 DEF Merge, c, E, MapBelow
  <2> QED BY <2>1 DEF Bytes, SegRecs
<1>9. \A x : x \in Bytes(c[open]) <=> x \in Int /\ m[open].start <= x /\ x <= E
  BY <1>1, <1>3, <1>7, <1>8
<1>10. \A i \in DOMAIN m : \A x : x \in Bytes(m[i]) <=>
           x \in Int /\ m[i].start <= x /\ x <= m[i].end
  BY <1>3 DEF Bytes
<1>11. \A i \in DOMAIN c \ {open} : c[i] = m[i]
  BY <1>4 DEF Merge, c
<1>12. \A i \in A : Bytes(m[i]) \subseteq Bytes(c[open])
  <2> SUFFICES ASSUME NEW i \in A, NEW x \in Bytes(m[i])
               PROVE  x \in Bytes(c[open])
    OBVIOUS
  <2>1. i \in DOMAIN m /\ m[i].start > m[open].end
    BY <1>1, <1>2
  <2> QED BY <2>1, <1>1, <1>3, <1>5, <1>7, <1>9, <1>10
<1>13. Bytes(m[open]) \subseteq Bytes(c[open])
  BY <1>1, <1>3, <1>7, <1>9, <1>10
\* A byte behind the old end of the stream belongs to an absorbed segment.
<1>14. ASSUME NEW b \in m[open].end + 1 .. E
       PROVE  \E i \in A : b \in Bytes(m[i])
  <2>1. CASE m[k].start <= b
    BY <2>1, <1>1, <1>3, <1>6, <1>7, <1>10
  <2>2. CASE b < m[k].start
    <3>1. b \in m[open].end + 1 .. m[k].start - 1
      BY <2>2, <1>1, <1>3, <1>6, <1>7
    <3>2. PICK j \in U : b \in Bytes(m[j])
      BY <3>1, <1>2
    <3>3. m[j].start <= b /\ b <= m[j].end
      BY <3>2, <1>1, <1>3 DEF Bytes
    <3>4. m[j].start > m[open].end
      <4>1. Bytes(m[j]) \cap Bytes(m[open]) = {}
        BY <1>1 DEF IsPartition
      <4>2. m[open].end \in Bytes(m[open])
        BY <1>1, <1>3 DEF Bytes
      <4>3. m[open].end \notin m[j].start .. m[j].end
        BY <4>1, <4>2 DEF Bytes
      <4> QED BY <4>3, <3>3, <1>1, <1>3, <1>7
    <3>5. \A x \in m[open].end + 1 .. m[j].start - 1 : \E q \in U : x \in Bytes(m[q])
      <4>1. m[open].end + 1 .. m[j].start - 1 \subseteq m[open].end + 1 .. m[k].start - 1
        BY <3>3, <2>2, <1>1, <1>3, <1>6
      <4> QED BY <4>1, <1>2
    <3> QED BY <3>2, <3>4, <3>5, <1>2
  <2> QED BY <2>1, <2>2, <1>1, <1>3, <1>6, <1>7
<1>15. \A i \in DOMAIN c \ {open} : Bytes(c[i]) \cap Bytes(c[open]) = {}
  <2> SUFFICES ASSUME NEW i \in DOMAIN c \ {open}, NEW b \in Bytes(m[i]), b \in Bytes(c[open])
               PROVE  FALSE
    BY <1>11
  <2>1. i \in DOMAIN m /\ i \notin A /\ i # open
    BY <1>4
  <2>2. CASE b <= m[open].end
    <3>1. b \in Bytes(m[open])
      BY <2>2, <1>1, <1>3, <1>9, <1>10
    <3> QED BY <3>1, <2>1, <1>1 DEF IsPartition
  <2>3. CASE b > m[open].end
    <3>1. PICK j \in A : b \in Bytes(m[j])
      BY <2>3, <1>1, <1>3, <1>7, <1>8, <1>14
    <3> QED BY <3>1, <2>1, <1>1 DEF IsPartition
  <2> QED BY <2>2, <2>3, <1>1, <1>3, <1>7, <1>8
<1>16. \A i \in DOMAIN c : Bytes(c[i]) # {} /\ Bytes(c[i]) \subseteq 0 .. size - 1
  <2>1. Bytes(c[open]) # {} /\ Bytes(c[open]) \subseteq 0 .. size - 1
    BY <1>1, <1>3, <1>7, <1>8
  <2> QED BY <2>1, <1>4, <1>11 DEF IsPartition
<1>17. \A b \in 0 .. size - 1 : \E i \in DOMAIN c : b \in Bytes(c[i])
  <2> SUFFICES ASSUME NEW b \in 0 .. size - 1
               PROVE  \E i \in DOMAIN c : b \in Bytes(c[i])
    OBVIOUS
  <2>1. PICK i \in DOMAIN m : b \in Bytes(m[i])
    BY DEF IsPartition
  <2> QED BY <2>1, <1>4, <1>11, <1>12, <1>13
<1>18. \A i, j \in DOMAIN c : i # j => Bytes(c[i]) \cap Bytes(c[j]) = {}
  <2> SUFFICES ASSUME NEW i \in DOMAIN c, NEW j \in DOMAIN c, i # j
               PROVE  Bytes(c[i]) \cap Bytes(c[j]) = {}
    OBVIOUS
  <2>1. CASE i # open /\ j # open
    BY <2>1, <1>4, <1>11 DEF IsPartition
  <2>2. CASE i = open \/ j = open
    BY <2>2, <1>15
  <2> QED BY <2>1, <2>2
<1> QED BY <1>16, <1>17, <1>18 DEF IsPartition, c, A

-----------------------------------------------------------------------------
(***************************************************************************)
(* The fresh layout.                                                       *)
(***************************************************************************)

\* Boundaries of equal chunks.
LEMMA ChunkFacts ==
    ASSUME NEW count \in Nat \ {0}, NEW size \in Nat, count <= size
    PROVE  LET part == size \div count
           IN  /\ part \in Nat /\ part >= 1
               /\ count * part <= size
<1> DEFINE part == size \div count
<1>1. part \in Int /\ size \in Int /\ count \in Int /\ count > 0
  OBVIOUS
<1>2. count * part <= size /\ size < count * part + count
  BY <1>1
<1> QED BY <1>1, <1>2

\* Multiples of the part's size grow with their index.
LEMMA MultiplesGrow ==
    ASSUME NEW part \in Nat, NEW i \in Nat, NEW j \in Nat, i < j
    PROVE  (i + 1) * part <= j * part /\ (i + 1) * part = i * part + part
OBVIOUS

\* The segments of build_fresh_segments.
LEMMA FreshFacts ==
    ASSUME NEW count \in Nat \ {0}, NEW size \in Nat, count <= size
    PROVE  LET part == size \div count
               m == Fresh(count, size)
           IN  /\ DOMAIN m = 0 .. count - 1
               /\ \A i \in 0 .. count - 1 :
                     /\ m[i].start = i * part /\ i * part \in Nat
                     /\ i < count - 1 => m[i].end = (i * part + part) - 1
                     /\ i = count - 1 => m[i].end = size - 1
                     /\ i * part + part <= size
<1> DEFINE part == size \div count
           m == Fresh(count, size)
<1>1. part \in Nat /\ part >= 1 /\ count * part <= size
  BY ChunkFacts
<1>2. m = [i \in 0 .. count - 1 |->
              Seg(i * part, IF i = count - 1 THEN size - 1 ELSE (i + 1) * part - 1,
                  0, "Pending")]
  BY DEF Fresh
<1> HIDE DEF part, m
<1>3. ASSUME NEW i \in 0 .. count - 1
      PROVE  i * part \in Nat /\ (i + 1) * part = i * part + part
             /\ i * part + part <= size
  <2>1. i * part \in Nat /\ (i + 1) * part = i * part + part
    BY <1>1
  <2>2. CASE i + 1 = count
    BY <2>1, <2>2, <1>1
  <2>3. CASE i + 1 < count
    <3>1. (i + 1) * part <= count * part
      BY <2>3, <1>1, MultiplesGrow
    <3>2. count * part \in Int
      BY <1>1
    <3> QED BY <3>1, <3>2, <2>1, <1>1
  <2> QED BY <2>1, <2>2, <2>3
<1>4. \A i \in 0 .. count - 1 :
          /\ m[i].start = i * part
          /\ i = count - 1 => m[i].end = size - 1
          /\ i < count - 1 => m[i].end = (i + 1) * part - 1
  BY <1>2 DEF Seg
<1>5. DOMAIN m = 0 .. count - 1
  BY <1>2
<1>6. \A i \in 0 .. count - 1 :
          /\ m[i].start = i * part /\ i * part \in Nat
          /\ i < count - 1 => m[i].end = (i * part + part) - 1
          /\ i = count - 1 => m[i].end = size - 1
          /\ i * part + part <= size
  <2> TAKE i \in 0 .. count - 1
  <2>1. (i + 1) * part = i * part + part
    BY <1>3
  <2>2. i < count - 1 => m[i].end = (i * part + part) - 1
    BY <2>1, <1>4
  <2> QED BY <2>2, <1>3, <1>4
<1> QED BY <1>5, <1>6, Zenon DEF part, m

\* The layout of a new download is a partition, whatever rest the division
\* leaves for the last segment.
THEOREM FreshIsPartition ==
    ASSUME NEW count \in Nat \ {0}, NEW size \in Nat, count <= size
    PROVE  IsPartition(Fresh(count, size), size)
<1> DEFINE part == size \div count
           m == Fresh(count, size)
<1>1. part \in Nat /\ part >= 1 /\ DOMAIN m = 0 .. count - 1
  BY ChunkFacts, FreshFacts
<1>2. \A i \in 0 .. count - 1 :
          /\ m[i].start = i * part /\ i * part \in Nat
          /\ i < count - 1 => m[i].end = (i * part + part) - 1
          /\ i = count - 1 => m[i].end = size - 1
          /\ i * part + part <= size
  BY FreshFacts
<1> HIDE DEF part, m
<1>3. \A i \in 0 .. count - 1 : \A x : x \in Bytes(m[i]) <=>
          x \in Int /\ m[i].start <= x /\ x <= m[i].end
  BY <1>1, <1>2 DEF Bytes
<1>4. \A i \in 0 .. count - 1 : m[i].start <= m[i].end /\ m[i].end <= size - 1
                                /\ m[i].start \in Nat /\ m[i].end \in Int
  <2> TAKE i \in 0 .. count - 1
  <2> DEFINE p == i * part
  <2>1. /\ m[i].start = p /\ p \in Nat /\ p + part <= size
        /\ i < count - 1 => m[i].end = (p + part) - 1
        /\ i = count - 1 => m[i].end = size - 1
    BY <1>2
  <2> HIDE DEF p
  <2>2. i < count - 1 \/ i = count - 1
    OBVIOUS
  <2> QED BY <1>1, <2>1, <2>2
\* A later segment starts behind the end of an earlier one.
<1>5. ASSUME NEW i \in 0 .. count - 1, NEW j \in 0 .. count - 1, i < j
      PROVE  m[i].end < m[j].start
  <2>1. (i + 1) * part <= j * part /\ (i + 1) * part = i * part + part
    BY <1>1, <1>5, MultiplesGrow
  <2>2. m[i].end = (i * part + part) - 1 /\ m[j].start = j * part
    BY <1>2, <1>5
  <2>3. i * part \in Nat /\ j * part \in Nat
    BY <1>2
  <2> DEFINE p == i * part
             q == j * part
  <2>4. /\ p \in Nat /\ q \in Nat /\ p + part <= q
        /\ m[i].end = (p + part) - 1 /\ m[j].start = q
    BY <2>1, <2>2, <2>3, Zenon
  <2> HIDE DEF p, q
  <2> QED BY <2>4, <1>1
<1>6. \A i \in DOMAIN m : Bytes(m[i]) # {} /\ Bytes(m[i]) \subseteq 0 .. size - 1
  <2> SUFFICES ASSUME NEW i \in 0 .. count - 1
               PROVE  m[i].start \in Bytes(m[i]) /\ Bytes(m[i]) \subseteq 0 .. size - 1
    BY <1>1
  <2> DEFINE first == m[i].start
             end == m[i].end
             bytes == Bytes(m[i])
  <2>1. first <= end /\ end <= size - 1 /\ first \in Nat /\ end \in Int
    BY <1>4
  <2>2. \A x : x \in bytes <=> x \in Int /\ first <= x /\ x <= end
    BY <1>3
  <2> HIDE DEF first, end, bytes
  <2>3. first \in bytes /\ bytes \subseteq 0 .. size - 1
    BY <2>1, <2>2
  <2> QED BY <2>3 DEF first, bytes
<1>7. \A b \in 0 .. size - 1 : \E i \in DOMAIN m : b \in Bytes(m[i])
  <2> SUFFICES ASSUME NEW b \in 0 .. size - 1
               PROVE  \E i \in 0 .. count - 1 : b \in Bytes(m[i])
    BY <1>1
  <2> DEFINE S == {i \in 0 .. count - 1 : m[i].start <= b}
  <2>1. m[0].start = 0
    <3>1. m[0].start = 0 * part
      BY <1>2
    <3>2. 0 * part = 0
      BY <1>1
    <3> QED BY <3>1, <3>2
  <2>2. S \in SUBSET Int /\ S # {} /\ \A x \in S : x <= count - 1
    BY <2>1
  <2>3. PICK i \in S : \A y \in S : y <= i
    <3>1. count - 1 \in Int
      OBVIOUS
    <3> HIDE DEF S
    <3> QED BY <2>2, <3>1, BoundedHasGreatest
  <2>4. CASE i = count - 1
    BY <2>3, <2>4, <1>2, <1>3
  <2>5. CASE i < count - 1
    <3>1. i + 1 \in 0 .. count - 1 /\ i + 1 \notin S
      BY <2>3, <2>5
    <3>2. b < m[i + 1].start
      BY <3>1, <1>4
    <3>3. m[i + 1].start = (i + 1) * part /\ m[i].end = (i * part + part) - 1
      BY <3>1, <2>5, <1>2
    <3>4. (i + 1) * part = i * part + part /\ i * part \in Nat
      BY <1>1, <1>2
    <3>5. b <= m[i].end
      BY <3>2, <3>3, <3>4, <1>1
    <3> QED BY <3>5, <1>3
  <2> QED BY <2>3, <2>4, <2>5
<1>8. \A i, j \in DOMAIN m : i # j => Bytes(m[i]) \cap Bytes(m[j]) = {}
  <2> SUFFICES ASSUME NEW i \in 0 .. count - 1, NEW j \in 0 .. count - 1, i < j
               PROVE  Bytes(m[i]) \cap Bytes(m[j]) = {}
    BY <1>1
  <2> QED BY <1>3, <1>4, <1>5
<1> QED BY <1>6, <1>7, <1>8 DEF IsPartition, m

-----------------------------------------------------------------------------
(***************************************************************************)
(* Sums.  SumFunction is a fold: the fixed point of SumStep, which exists  *)
(* and is unique because a finite set has no endless chain of subsets.     *)
(***************************************************************************)

\* Among sets of elements of a finite set one has no part among them.
LEMMA SmallestSet ==
    ASSUME NEW D, IsFiniteSet(D), NEW T \in SUBSET (SUBSET D), T # {}
    PROVE  \E s \in T : \A t \in T : t \subseteq s => t = s
<1>1. IsWellFoundedOn(StrictSubsetOrdering(D), SUBSET D)
  <2>1. IsWellFoundedOn(StrictSubsetOrdering(D), FiniteSubsetsOf(D))
    BY FS_StrictSubsetOrderingWellFounded
  <2>2. FiniteSubsetsOf(D) = SUBSET D
    BY FS_FiniteSubsetsOfFinite
  <2> QED BY <2>1, <2>2
<1>2. PICK s \in T : \A t \in T : ~(<<t, s>> \in StrictSubsetOrdering(D))
  BY <1>1, WFMin
<1>3. ASSUME NEW t \in T, t \subseteq s, t # s
      PROVE  FALSE
  <2> DEFINE q == <<t, s>>
  <2>1. q \in (SUBSET D) \X (SUBSET D) /\ q[1] = t /\ q[2] = s
    OBVIOUS
  <2>2. q[1] \subseteq q[2] /\ q[1] # q[2]
    BY <1>3, <2>1
  <2> HIDE DEF q
  <2>3. q \in StrictSubsetOrdering(D)
    BY <2>1, <2>2 DEF StrictSubsetOrdering
  <2> QED BY <1>2, <2>3 DEF q
<1> QED BY <1>3

\* One element of a set, and what the fold of f makes of the set s when g is
\* the fold of smaller ones.
Some(s) == CHOOSE x \in s : TRUE
SumStep(f, g, s) == IF s = {} THEN 0 ELSE f[Some(s)] + g[s \ {Some(s)}]

\* g sums up f over the parts of a.
SumsUp(f, g, a) == g = [s \in SUBSET a |-> SumStep(f, g, s)]

\* Two that do agree.
LEMMA SumsAgree ==
    ASSUME NEW f, NEW D, IsFiniteSet(D), NEW a \in SUBSET D, NEW b \in SUBSET D,
           NEW g, NEW h, SumsUp(f, g, a), SumsUp(f, h, b)
    PROVE  \A s : s \subseteq a /\ s \subseteq b => g[s] = h[s]
<1> DEFINE T == {s \in SUBSET D : s \subseteq a /\ s \subseteq b /\ g[s] # h[s]}
<1> SUFFICES ASSUME T # {}
             PROVE  FALSE
  OBVIOUS
<1>1. PICK s \in T : \A t \in T : t \subseteq s => t = s
  <2>1. T \in SUBSET (SUBSET D)
    OBVIOUS
  <2> HIDE DEF T
  <2> QED BY <2>1, SmallestSet
<1>2. g[s] = SumStep(f, g, s) /\ h[s] = SumStep(f, h, s)
  BY DEF SumsUp
<1>3. s # {}
  BY <1>1, <1>2 DEF SumStep
<1>4. Some(s) \in s
  BY <1>3 DEF Some
<1>5. s \ {Some(s)} \notin T
  BY <1>1, <1>4
<1>6. g[s \ {Some(s)}] = h[s \ {Some(s)}]
  BY <1>5
<1> QED BY <1>1, <1>2, <1>3, <1>6 DEF SumStep

\* There is one.
LEMMA SumExists ==
    ASSUME NEW f, NEW D, IsFiniteSet(D)
    PROVE  \E g : SumsUp(f, g, D)
<1> DEFINE T == {s \in SUBSET D : ~ \E g : SumsUp(f, g, s)}
<1> SUFFICES ASSUME T # {}
             PROVE  FALSE
  OBVIOUS
<1>1. PICK s \in T : \A t \in T : t \subseteq s => t = s
  <2>1. T \in SUBSET (SUBSET D)
    OBVIOUS
  <2> HIDE DEF T
  <2> QED BY <2>1, SmallestSet
<1> DEFINE H(t) == CHOOSE g : SumsUp(f, g, t)
           G == [t \in SUBSET s |-> IF t = {} THEN 0
                                    ELSE f[Some(t)] + H(t \ {Some(t)})[t \ {Some(t)}]]
<1>2. \A t \in SUBSET s : t # s => SumsUp(f, H(t), t)
  <2> TAKE t \in SUBSET s
  <2> HAVE t # s
  <2>1. \E g : SumsUp(f, g, t)
    BY <1>1
  <2> HIDE DEF T
  <2> QED BY <2>1
<1>3. \A t \in SUBSET s : t # {} => Some(t) \in t
  BY DEF Some
<1>4. ASSUME NEW t \in SUBSET s, t # {}
      PROVE  G[t] = f[Some(t)] + G[t \ {Some(t)}]
  <2> DEFINE u == t \ {Some(t)}
             v == u \ {Some(u)}
  <2>1. u \in SUBSET s /\ u # s
    BY <1>3, <1>4
  <2>2. SumsUp(f, H(u), u)
    BY <1>2, <2>1
  <2>3. G[t] = f[Some(t)] + H(u)[u]
    BY <1>4
  <2>4. H(u)[u] = SumStep(f, H(u), u)
    <3> DEFINE h == H(u)
    <3>1. SumsUp(f, h, u)
      BY <2>2
    <3> HIDE DEF h
    <3>2. h[u] = SumStep(f, h, u)
      BY <3>1 DEF SumsUp
    <3> QED BY <3>2 DEF h
  <2>5. H(u)[u] = G[u]
    <3>1. CASE u = {}
      BY <2>1, <2>4, <3>1 DEF SumStep
    <3>2. CASE u # {}
      <4>1. v \in SUBSET s /\ v # s /\ v \subseteq u
        BY <1>3, <2>1, <3>2
      <4>2. SumsUp(f, H(v), v)
        BY <1>2, <4>1
      <4>3. H(u)[v] = H(v)[v]
        <5>1. u \in SUBSET D /\ v \in SUBSET D
          BY <2>1, <4>1
        <5> HIDE DEF u, v, H
        <5> QED BY <2>2, <4>1, <4>2, <5>1, SumsAgree
      <4>4. G[u] = f[Some(u)] + H(v)[v]
        BY <2>1, <3>2
      <4> QED BY <2>4, <3>2, <4>3, <4>4 DEF SumStep
    <3> QED BY <3>1, <3>2
  <2> QED BY <2>3, <2>5
<1>5. SumsUp(f, G, s)
  <2>1. \A t \in SUBSET s : t = {} => G[t] = 0
    OBVIOUS
  <2>2. G = [t \in SUBSET s |-> G[t]]
    OBVIOUS
  <2> HIDE DEF G
  <2>3. \A t \in SUBSET s : G[t] = SumStep(f, G, t)
    BY <1>4, <2>1 DEF SumStep
  <2> QED BY <2>2, <2>3 DEF SumsUp
<1> QED BY <1>1, <1>5

\* sum has the sums of f over the parts of its domain, in whichever order they
\* are taken.
SumsOf(f, sum) ==
    /\ SumFunction(f) = sum[DOMAIN f]
    /\ sum[{}] = 0
    /\ \A s \in SUBSET DOMAIN f : sum[s] \in Int
    /\ \A s \in SUBSET DOMAIN f : \A x \in s : sum[s] = f[x] + sum[s \ {x}]

LEMMA SumFacts ==
    ASSUME NEW f, IsFiniteSet(DOMAIN f), \A i \in DOMAIN f : f[i] \in Int
    PROVE  \E sum : SumsOf(f, sum)
<1> DEFINE D == DOMAIN f
<1>1. PICK sum : SumsUp(f, sum, D)
  BY SumExists
<1>2. \A g : SumsUp(f, g, D) => g = sum
  <2> SUFFICES ASSUME NEW g, SumsUp(f, g, D)
               PROVE  g = sum
    OBVIOUS
  <2>1. \A s \in SUBSET D : g[s] = sum[s]
    BY <1>1, SumsAgree
  <2>2. g = [s \in SUBSET D |-> g[s]] /\ sum = [s \in SUBSET D |-> sum[s]]
    BY <1>1 DEF SumsUp
  <2> QED BY <2>1, <2>2
<1>3. SumFunction(f) = sum[D]
  BY <1>1, <1>2 DEF SumFunction, SumFunctionOnSet, FoldFunctionOnSet, MapThenFoldSet,
                    SumsUp, SumStep, Some
<1>4. \A s \in SUBSET D : sum[s] = SumStep(f, sum, s)
  BY <1>1 DEF SumsUp
<1>5. sum[{}] = 0
  BY <1>4 DEF SumStep
<1>6. \A s \in SUBSET D : s # {} => Some(s) \in s /\ sum[s] = f[Some(s)] + sum[s \ {Some(s)}]
  BY <1>4 DEF SumStep, Some
<1>7. \A s \in SUBSET D : sum[s] \in Int
  <2> DEFINE T == {s \in SUBSET D : sum[s] \notin Int}
  <2> SUFFICES ASSUME T # {}
               PROVE  FALSE
    OBVIOUS
  <2>1. PICK s \in T : \A t \in T : t \subseteq s => t = s
    <3>1. T \in SUBSET (SUBSET D)
      OBVIOUS
    <3> HIDE DEF T
    <3> QED BY <3>1, SmallestSet
  <2>2. s \subseteq D /\ ~(sum[s] \in Int)
    BY <2>1
  <2>3. s # {}
    <3> HIDE DEF T
    <3> QED BY <1>5, <2>2
  <2>4. Some(s) \in s /\ sum[s] = f[Some(s)] + sum[s \ {Some(s)}]
    BY <1>6, <2>2, <2>3
  <2>5. s \ {Some(s)} \notin T
    BY <2>1, <2>4
  <2>6. sum[s \ {Some(s)}] \in Int
    BY <2>2, <2>5
  <2>7. f[Some(s)] \in Int
    BY <2>2, <2>4
  <2> HIDE DEF T
  <2> QED BY <2>2, <2>4, <2>6, <2>7
\* The order in which the fold takes the elements does not matter.
<1>8. \A s \in SUBSET D : \A x \in s : sum[s] = f[x] + sum[s \ {x}]
  <2> DEFINE T == {s \in SUBSET D : \E x \in s : sum[s] # f[x] + sum[s \ {x}]}
  <2> SUFFICES ASSUME T # {}
               PROVE  FALSE
    OBVIOUS
  <2>1. PICK s \in T : \A t \in T : t \subseteq s => t = s
    <3>1. T \in SUBSET (SUBSET D)
      OBVIOUS
    <3> HIDE DEF T
    <3> QED BY <3>1, SmallestSet
  <2>2. PICK x \in s : sum[s] # f[x] + sum[s \ {x}]
    BY <2>1
  <2> DEFINE y == Some(s)
             u == (s \ {y}) \ {x}
  <2>3. y \in s /\ y # x /\ sum[s] = f[y] + sum[s \ {y}] /\ s \subseteq D
    BY <1>6, <2>1, <2>2
  <2>4. sum[s \ {y}] = f[x] + sum[u]
    <3>1. s \ {y} \notin T /\ s \ {y} \in SUBSET D /\ x \in s \ {y}
      BY <2>1, <2>3
    <3> HIDE DEF y
    <3> QED BY <3>1
  <2>5. sum[s \ {x}] = f[y] + sum[u]
    <3>1. s \ {x} \notin T /\ s \ {x} \in SUBSET D /\ y \in s \ {x}
      BY <2>1, <2>2, <2>3
    <3>2. (s \ {x}) \ {y} = u
      OBVIOUS
    <3> HIDE DEF y, u
    <3>3. sum[s \ {x}] = f[y] + sum[(s \ {x}) \ {y}]
      BY <3>1
    <3> QED BY <3>2, <3>3
  <2>6. f[x] \in Int /\ f[y] \in Int /\ sum[u] \in Int
    BY <1>7, <2>3
  <2> HIDE DEF y, u, T
  <2> QED BY <2>2, <2>3, <2>4, <2>5, <2>6
<1> QED BY <1>3, <1>5, <1>7, <1>8 DEF SumsOf

\* A greater summand makes a greater sum.
LEMMA SumsCompare ==
    ASSUME NEW f, NEW h, DOMAIN f = DOMAIN h, IsFiniteSet(DOMAIN f),
           \A i \in DOMAIN f : f[i] \in Int /\ h[i] \in Int /\ f[i] <= h[i]
    PROVE  /\ SumFunction(f) \in Int /\ SumFunction(h) \in Int
           /\ SumFunction(f) <= SumFunction(h)
           /\ SumFunction(f) >= SumFunction(h) => \A i \in DOMAIN f : f[i] = h[i]
<1> DEFINE D == DOMAIN f
<1>a. PICK F : SumsOf(f, F)
  BY SumFacts
<1>b. PICK H : SumsOf(h, H)
  BY SumFacts
<1>1. /\ SumFunction(f) = F[D] /\ F[{}] = 0
      /\ \A s \in SUBSET D : F[s] \in Int
      /\ \A s \in SUBSET D : \A x \in s : F[s] = f[x] + F[s \ {x}]
  BY <1>a DEF SumsOf
<1>2. /\ SumFunction(h) = H[D] /\ H[{}] = 0
      /\ \A s \in SUBSET D : H[s] \in Int
      /\ \A s \in SUBSET D : \A x \in s : H[s] = h[x] + H[s \ {x}]
  BY <1>b DEF SumsOf
<1> HIDE DEF D
<1>3. \A s \in SUBSET D : F[s] <= H[s]
  <2> DEFINE T == {s \in SUBSET D : ~(F[s] <= H[s])}
  <2> SUFFICES ASSUME T # {}
               PROVE  FALSE
    OBVIOUS
  <2>1. PICK s \in T : \A t \in T : t \subseteq s => t = s
    <3>1. T \in SUBSET (SUBSET D) /\ IsFiniteSet(D)
      BY DEF D
    <3> HIDE DEF T
    <3> QED BY <3>1, SmallestSet
  <2>2. s \in SUBSET D /\ ~(F[s] <= H[s])
    BY <2>1
  <2>3. s # {}
    <3>1. F[{}] <= H[{}]
      BY <1>1, <1>2
    <3> HIDE DEF T
    <3> QED BY <2>2, <3>1
  <2>4. PICK x \in s : TRUE
    BY <2>3
  <2>5. F[s \ {x}] <= H[s \ {x}]
    BY <2>1, <2>4
  <2>6. x \in D /\ s \ {x} \in SUBSET D
    BY <2>2
  <2>7. f[x] \in Int /\ h[x] \in Int /\ f[x] <= h[x]
    BY <2>6 DEF D
  <2>8. F[s] = f[x] + F[s \ {x}] /\ H[s] = h[x] + H[s \ {x}]
    BY <1>1, <1>2, <2>2, <2>4
  <2>9. F[s \ {x}] \in Int /\ H[s \ {x}] \in Int
    BY <1>1, <1>2, <2>6
  <2> HIDE DEF T
  <2> QED BY <2>2, <2>5, <2>7, <2>8, <2>9
<1>4. ASSUME F[D] >= H[D], NEW i \in D
      PROVE  f[i] = h[i]
  <2>1. F[D \ {i}] <= H[D \ {i}] /\ D \ {i} \in SUBSET D
    BY <1>3
  <2>2. f[i] \in Int /\ h[i] \in Int /\ f[i] <= h[i]
    BY DEF D
  <2>3. F[D] = f[i] + F[D \ {i}] /\ H[D] = h[i] + H[D \ {i}]
    BY <1>1, <1>2
  <2>4. F[D \ {i}] \in Int /\ H[D \ {i}] \in Int
    BY <1>1, <1>2, <2>1
  <2> QED BY <1>4, <2>1, <2>2, <2>3, <2>4
<1>5. F[D] \in Int /\ H[D] \in Int /\ F[D] <= H[D]
  BY <1>1, <1>2, <1>3
<1> QED BY <1>1, <1>2, <1>4, <1>5 DEF D

\* The bytes of the segments S.
BytesOf(m, S) == UNION {Bytes(m[i]) : i \in S}

\* sum has the numbers of bytes of the parts of a map.
CountsBytes(m, sum) ==
    /\ SumOfSizes(m) = sum[DOMAIN m]
    /\ \A s \in SUBSET DOMAIN m : /\ IsFiniteSet(BytesOf(m, s))
                                  /\ sum[s] = Cardinality(BytesOf(m, s))
    /\ \A s \in SUBSET DOMAIN m : \A x \in s : sum[s] = Size(m[x]) + sum[s \ {x}]

\* Segments that share no byte have as many bytes as their sizes say.
LEMMA SumOfSizesFacts ==
    ASSUME NEW n, NEW m, MapBelow(m, n),
           \A i, j \in DOMAIN m : i # j => Bytes(m[i]) \cap Bytes(m[j]) = {}
    PROVE  \E sum : CountsBytes(m, sum)
<1> DEFINE D == DOMAIN m
           f == [i \in D |-> Size(m[i])]
<1>1. IsFiniteSet(D)
  <2>1. n - 1 \in Int /\ 0 \in Int /\ D \in SUBSET (0 .. n - 1)
    BY DEF MapBelow
  <2>2. IsFiniteSet(0 .. n - 1)
    BY <2>1, FS_Interval
  <2> QED BY <2>1, <2>2, FS_Subset
<1>2. \A i \in D : /\ f[i] = Size(m[i]) /\ f[i] \in Int
                   /\ IsFiniteSet(Bytes(m[i])) /\ Cardinality(Bytes(m[i])) = Size(m[i])
  <2> TAKE i \in D
  <2>1. m[i].start \in Int /\ m[i].end \in Int
    BY DEF MapBelow, SegRecs
  <2> QED BY <2>1, FS_Interval DEF Bytes, Size
<1>3. DOMAIN f = D /\ SumOfSizes(m) = SumFunction(f)
  BY DEF SumOfSizes
<1> HIDE DEF f
<1>a. PICK sum : SumsOf(f, sum)
  BY <1>1, <1>2, <1>3, SumFacts
<1>4. /\ SumFunction(f) = sum[D] /\ sum[{}] = 0
      /\ \A s \in SUBSET D : sum[s] \in Int
      /\ \A s \in SUBSET D : \A x \in s : sum[s] = f[x] + sum[s \ {x}]
  BY <1>3, <1>a DEF SumsOf
<1>5. \A s \in SUBSET D : IsFiniteSet(BytesOf(m, s)) /\ sum[s] = Cardinality(BytesOf(m, s))
  <2> DEFINE Good(s) == IsFiniteSet(BytesOf(m, s)) /\ sum[s] = Cardinality(BytesOf(m, s))
             T == {s \in SUBSET D : ~Good(s)}
  <2> SUFFICES ASSUME T # {}
               PROVE  FALSE
    OBVIOUS
  <2>1. PICK s \in T : \A t \in T : t \subseteq s => t = s
    <3>1. T \in SUBSET (SUBSET D)
      OBVIOUS
    <3> HIDE DEF T
    <3> QED BY <1>1, <3>1, SmallestSet
  <2>2. s # {}
    <3>1. BytesOf(m, {}) = {}
      BY DEF BytesOf
    <3>2. Good({})
      BY <1>4, <3>1, FS_EmptySet
    <3> HIDE DEF Good
    <3> QED BY <2>1, <3>2
  <2>3. PICK x \in s : TRUE
    BY <2>2
  <2> DEFINE u == s \ {x}
  <2>4. s \in SUBSET D /\ x \in D /\ u \in SUBSET D
    BY <2>1
  <2>5. Good(u)
    <3>1. u \notin T
      <4> HIDE DEF T
      <4> QED BY <2>1, <2>3
    <3> HIDE DEF Good, u
    <3> QED BY <2>4, <3>1
  <2>6. BytesOf(m, s) = BytesOf(m, u) \cup Bytes(m[x])
    BY <2>3 DEF BytesOf
  <2>7. BytesOf(m, u) \cap Bytes(m[x]) = {}
    BY <2>4 DEF BytesOf
  <2>8. /\ IsFiniteSet(BytesOf(m, u) \cup Bytes(m[x]))
        /\ Cardinality(BytesOf(m, u) \cup Bytes(m[x])) =
             Cardinality(BytesOf(m, u)) + Cardinality(Bytes(m[x]))
    <3>1. IsFiniteSet(BytesOf(m, u)) /\ IsFiniteSet(Bytes(m[x]))
      BY <1>2, <2>4, <2>5
    <3>2. Cardinality(BytesOf(m, u)) \in Nat /\ Cardinality(Bytes(m[x])) \in Nat
      BY <3>1, FS_CardinalityType
    <3> HIDE DEF u
    <3> QED BY <2>7, <3>1, <3>2, FS_Union, FS_EmptySet
  <2>9. sum[s] = f[x] + sum[u]
    BY <1>4, <2>3, <2>4
  <2>10. Good(s)
    <3>1. Cardinality(BytesOf(m, u)) = sum[u] /\ Cardinality(Bytes(m[x])) = f[x]
      BY <1>2, <2>4, <2>5
    <3>2. sum[u] \in Int /\ f[x] \in Int
      BY <1>2, <1>4, <2>4
    <3> HIDE DEF u
    <3> QED BY <2>6, <2>8, <2>9, <3>1, <3>2
  <2> HIDE DEF Good
  <2> QED BY <2>1, <2>10
<1>6. \A s \in SUBSET D : \A x \in s : sum[s] = Size(m[x]) + sum[s \ {x}]
  BY <1>2, <1>4
<1>7. CountsBytes(m, sum)
  BY <1>3, <1>4, <1>5, <1>6 DEF CountsBytes
<1> QED BY <1>7

-----------------------------------------------------------------------------
(***************************************************************************)
(* The coverage check.                                                     *)
(***************************************************************************)

\* A finite set that R orders totally has a last element.
LEMMA FiniteOrderHasLast ==
    ASSUME NEW D, IsFiniteSet(D), NEW R,
           \A x, y, z \in D : <<x, y>> \in R /\ <<y, z>> \in R => <<x, z>> \in R,
           \A x, y \in D : x # y => <<x, y>> \in R \/ <<y, x>> \in R,
           NEW S \in SUBSET D, S # {}
    PROVE  \E x \in S : \A y \in S \ {x} : <<y, x>> \in R
<1> DEFINE HasLast(T) == \E x \in T : \A y \in T \ {x} : <<y, x>> \in R
           Bad == {T \in SUBSET D : T # {} /\ ~HasLast(T)}
<1> SUFFICES ASSUME S \in Bad
             PROVE  FALSE
  OBVIOUS
<1>2. PICK T \in Bad : \A U \in Bad : U \subseteq T => U = T
  <2>1. Bad \in SUBSET (SUBSET D) /\ Bad # {}
    OBVIOUS
  <2> HIDE DEF Bad
  <2> QED BY <2>1, SmallestSet
<1>3. PICK x \in T : TRUE
  OBVIOUS
<1>4. T \ {x} # {}
  BY <1>3
<1>5. T \ {x} \notin Bad
  <2>1. T \ {x} \subseteq T /\ T \ {x} # T
    BY <1>3
  <2> HIDE DEF Bad
  <2> QED BY <2>1, <1>2
<1>6. PICK y \in T \ {x} : \A z \in (T \ {x}) \ {y} : <<z, y>> \in R
  BY <1>4, <1>5
<1>7. x \in D /\ y \in D /\ x # y /\ T \subseteq D
  BY <1>3, <1>6
<1>8. CASE <<x, y>> \in R
  BY <1>6, <1>8
<1>9. CASE <<y, x>> \in R
  BY <1>6, <1>7, <1>9
<1> QED BY <1>7, <1>8, <1>9

\* Among any segments of a map one is first and one is last in the order of
\* sort_by_key.
LEMMA FirstAndLast ==
    ASSUME NEW n, NEW m, MapBelow(m, n), NEW S \in SUBSET DOMAIN m, S # {}
    PROVE  /\ \E x \in S : \A y \in S \ {x} : Before(m, x, y)
           /\ \E x \in S : \A y \in S \ {x} : Before(m, y, x)
<1> DEFINE D == DOMAIN m
           up == {q \in D \X D : Before(m, q[1], q[2])}
           down == {q \in D \X D : Before(m, q[2], q[1])}
<1>1. IsFiniteSet(D)
  <2>1. n - 1 \in Int /\ 0 \in Int /\ D \in SUBSET (0 .. n - 1)
    BY DEF MapBelow
  <2>2. IsFiniteSet(0 .. n - 1)
    BY <2>1, FS_Interval
  <2> QED BY <2>1, <2>2, FS_Subset
<1>2. \A x, y \in D : <<x, y>> \in up <=> Before(m, x, y)
  OBVIOUS
<1>3. \A x, y \in D : <<x, y>> \in down <=> Before(m, y, x)
  OBVIOUS
<1>4. \A x \in D : x \in Int /\ m[x].start \in Int
  BY DEF MapBelow, SegRecs
<1>5. \A x, y, z \in D : Before(m, x, y) /\ Before(m, y, z) => Before(m, x, z)
  BY <1>4 DEF Before
<1>6. \A x, y \in D : x # y => Before(m, x, y) \/ Before(m, y, x)
  BY <1>4 DEF Before
<1> HIDE DEF D, up, down
<1>7. S \in SUBSET D
  BY DEF D
<1>8. \E x \in S : \A y \in S \ {x} : <<y, x>> \in up
  <2>1. \A x, y, z \in D : <<x, y>> \in up /\ <<y, z>> \in up => <<x, z>> \in up
    BY <1>2, <1>5
  <2>2. \A x, y \in D : x # y => <<x, y>> \in up \/ <<y, x>> \in up
    BY <1>2, <1>6
  <2> QED BY <1>1, <1>7, <2>1, <2>2, FiniteOrderHasLast
<1>9. \E x \in S : \A y \in S \ {x} : <<y, x>> \in down
  <2>1. \A x, y, z \in D : <<x, y>> \in down /\ <<y, z>> \in down => <<x, z>> \in down
    BY <1>3, <1>5
  <2>2. \A x, y \in D : x # y => <<x, y>> \in down \/ <<y, x>> \in down
    BY <1>3, <1>6
  <2> QED BY <1>1, <1>7, <2>1, <2>2, FiniteOrderHasLast
<1> QED BY <1>2, <1>3, <1>7, <1>8, <1>9

\* The order of the segments is strict and total.
LEMMA BeforeIsOrder ==
    ASSUME NEW n, NEW m, MapBelow(m, n)
    PROVE  /\ \A x, y, z \in DOMAIN m : Before(m, x, y) /\ Before(m, y, z) => Before(m, x, z)
           /\ \A x, y \in DOMAIN m : x # y => Before(m, x, y) \/ Before(m, y, x)
           /\ \A x, y \in DOMAIN m : ~(Before(m, x, y) /\ Before(m, y, x))
<1>1. \A x \in DOMAIN m : x \in Int /\ m[x].start \in Int
  BY DEF MapBelow, SegRecs
<1> QED BY <1>1 DEF Before

\* The sizes of a partition of the file add up to the size of the file.
LEMMA SizesOfPartition ==
    ASSUME NEW size \in Nat, NEW n, NEW m, MapBelow(m, n), IsPartition(m, size)
    PROVE  SumOfSizes(m) = size
<1>1. BytesOf(m, DOMAIN m) = 0 .. size - 1
  BY DEF BytesOf, IsPartition
<1>2. SumOfSizes(m) = Cardinality(BytesOf(m, DOMAIN m))
  BY SumOfSizesFacts DEF IsPartition, CountsBytes
<1>3. Cardinality(0 .. size - 1) = size
  BY FS_Interval
<1> QED BY <1>1, <1>2, <1>3

\* A resume accepts the rows of every partition of the file: a download that was
\* interrupted is not thrown away for its layout.
THEOREM PartitionPasses ==
    ASSUME NEW size \in Nat \ {0}, NEW n, NEW m, MapBelow(m, n), IsPartition(m, size)
    PROVE  ValidateCoverage(m, size)
<1> DEFINE D == DOMAIN m
<1>1. \A i \in D : i \in Int /\ m[i].start \in Int /\ m[i].end \in Int
  BY DEF MapBelow, SegRecs
<1>2. \A i \in D : \A x : x \in Bytes(m[i]) <=> x \in Int /\ m[i].start <= x /\ x <= m[i].end
  BY <1>1 DEF Bytes
<1>3. \A i \in D : 0 <= m[i].start /\ m[i].start <= m[i].end /\ m[i].end <= size - 1
  <2> TAKE i \in D
  <2>1. Bytes(m[i]) # {} /\ Bytes(m[i]) \subseteq 0 .. size - 1
    BY DEF IsPartition
  <2>2. m[i].start <= m[i].end
    BY <1>1, <1>2, <2>1
  <2>3. m[i].start \in Bytes(m[i]) /\ m[i].end \in Bytes(m[i])
    BY <1>1, <1>2, <2>2
  <2> QED BY <2>1, <2>2, <2>3
<1>4. \A b \in 0 .. size - 1 : \E i \in D : m[i].start <= b /\ b <= m[i].end
  BY <1>2 DEF IsPartition
<1>5. \A i, j \in D : i # j => m[i].end < m[j].start \/ m[j].end < m[i].start
  <2> SUFFICES ASSUME NEW i \in D, NEW j \in D, i # j,
                      m[j].start <= m[i].end, m[i].start <= m[j].end
               PROVE  FALSE
    BY <1>1
  <2>1. m[i].start \in Bytes(m[i]) /\ m[j].start \in Bytes(m[j])
    BY <1>1, <1>2, <1>3
  <2>2. m[i].start \in Bytes(m[j]) \/ m[j].start \in Bytes(m[i])
    BY <1>1, <1>2
  <2> QED BY <2>1, <2>2 DEF IsPartition
<1>6. D # {}
  BY <1>4
<1>7. ASSUME NEW i \in D, \A j \in D : ~Before(m, j, i)
      PROVE  m[i].start = 0
  <2>1. PICK k \in D : m[k].start <= 0
    BY <1>4
  <2>2. k = i \/ m[i].start <= m[k].start
    BY <1>1, <1>7 DEF Before
  <2> QED BY <1>1, <1>3, <2>1, <2>2
<1>8. ASSUME NEW i \in D, \A j \in D : ~Before(m, i, j)
      PROVE  m[i].end = size - 1
  <2>1. PICK k \in D : size - 1 <= m[k].end
    BY <1>4
  <2>2. k = i \/ m[k].start <= m[i].start
    BY <1>1, <1>8 DEF Before
  <2> QED BY <1>1, <1>3, <1>5, <2>1, <2>2
<1>9. ASSUME NEW i \in D, NEW j \in D, Adjacent(m, i, j)
      PROVE  m[j].start = m[i].end + 1
  <2>1. i # j /\ m[i].start <= m[j].start /\ \A k \in D : ~(Before(m, i, k) /\ Before(m, k, j))
    BY <1>1, <1>9 DEF Adjacent, Before
  <2>2. m[i].end < m[j].start
    BY <1>1, <1>3, <1>5, <2>1
  <2>3. ASSUME m[i].end + 1 < m[j].start
        PROVE  FALSE
    <3>1. m[i].end + 1 \in 0 .. size - 1
      BY <1>1, <1>3, <2>3
    <3>2. PICK k \in D : m[k].start <= m[i].end + 1 /\ m[i].end + 1 <= m[k].end
      BY <1>4, <3>1
    <3>3. k # i /\ k # j /\ m[i].start < m[k].start /\ m[k].start < m[j].start
      BY <1>1, <1>3, <1>5, <2>3, <3>2
    <3> QED BY <2>1, <3>3 DEF Before
  <2> QED BY <1>1, <2>2, <2>3
<1>10. SumOfSizes(m) = size
  BY SizesOfPartition
<1> QED BY <1>6, <1>7, <1>8, <1>9, <1>10 DEF ValidateCoverage

\* Rows that pass the check of a resume give every byte of the file to exactly
\* one segment, whatever the rows are.  The comparison of the sums is what
\* keeps the last segment from ending before it starts.
THEOREM CoverageIsExact ==
    ASSUME NEW size \in Nat, NEW n, NEW m, MapBelow(m, n), ValidateCoverage(m, size)
    PROVE  CoversOnce(m, size)
<1> DEFINE D == DOMAIN m
<1>1. \A i \in D : m[i].start \in Int /\ m[i].end \in Int
  BY DEF MapBelow, SegRecs
<1>2. \A i \in D : \A x : x \in Bytes(m[i]) <=> x \in Int /\ m[i].start <= x /\ x <= m[i].end
  BY <1>1 DEF Bytes
<1>3. PICK first \in D : \A y \in D \ {first} : Before(m, first, y)
  BY FirstAndLast DEF ValidateCoverage
<1>4. PICK last \in D : \A y \in D \ {last} : Before(m, y, last)
  BY FirstAndLast DEF ValidateCoverage
<1>5. m[first].start = 0
  <2>1. \A j \in D : ~Before(m, j, first)
    BY <1>3, BeforeIsOrder DEF Before
  <2> QED BY <2>1 DEF ValidateCoverage
<1>6. m[last].end = size - 1
  <2>1. \A j \in D : ~Before(m, last, j)
    BY <1>4, BeforeIsOrder DEF Before
  <2> QED BY <2>1 DEF ValidateCoverage
\* Every segment but the last has its successor, which starts where it ends.
<1>7. ASSUME NEW k \in D, k # last
      PROVE  \E x \in D : Before(m, k, x) /\ m[x].start = m[k].end + 1
  <2> DEFINE Later == {y \in D : Before(m, k, y)}
  <2>1. last \in Later
    BY <1>4, <1>7
  <2>2. PICK x \in Later : \A y \in Later \ {x} : Before(m, x, y)
    BY <2>1, FirstAndLast
  <2>3. Adjacent(m, k, x)
    <3> SUFFICES ASSUME NEW y \in D, Before(m, k, y), Before(m, y, x)
                 PROVE  FALSE
      BY <2>2 DEF Adjacent
    <3>1. y \in Later /\ y # x
      BY DEF Before
    <3> QED BY <3>1, <2>2, BeforeIsOrder
  <2> QED BY <2>2, <2>3 DEF ValidateCoverage
<1>8. \A k \in D \ {last} : m[k].start <= m[k].end + 1
  BY <1>1, <1>7 DEF Before
\* No segment starts before an earlier one has ended: the first that did would
\* have a neighbour before it that ended later.
<1>9. ASSUME NEW i \in D, NEW j \in D, Before(m, i, j)
      PROVE  m[i].end < m[j].start
  <2> DEFINE W == {x \in D : Before(m, i, x) /\ ~(m[i].end < m[x].start)}
  <2> SUFFICES ASSUME W # {}
               PROVE  FALSE
    BY <1>9
  <2>1. PICK x \in W : \A y \in W \ {x} : Before(m, x, y)
    BY FirstAndLast
  <2> DEFINE P == {k \in D : Before(m, k, x)}
  <2>2. i \in P
    OBVIOUS
  <2>3. PICK k \in P : \A y \in P \ {k} : Before(m, y, k)
    BY <2>2, FirstAndLast
  <2>4. Adjacent(m, k, x)
    <3> SUFFICES ASSUME NEW y \in D, Before(m, k, y), Before(m, y, x)
                 PROVE  FALSE
      BY DEF Adjacent
    <3>1. y \in P /\ y # k
      BY DEF Before
    <3> QED BY <3>1, <2>3, BeforeIsOrder
  <2>5. m[x].start = m[k].end + 1
    BY <2>4 DEF ValidateCoverage
  <2>6. CASE k = i
    BY <2>5, <2>6, <1>1
  <2>7. CASE k # i
    <3>1. Before(m, i, k)
      BY <2>2, <2>3, <2>7
    <3>2. k \notin W
      BY <2>1, <2>3, BeforeIsOrder DEF Before
    <3>3. m[i].end < m[k].start
      BY <3>1, <3>2
    <3>4. k # last
      BY <1>4, <2>3, BeforeIsOrder DEF Before
    <3> QED BY <3>3, <3>4, <2>5, <1>1, <1>8
  <2> QED BY <2>6, <2>7
<1>10. \A i, j \in D : i # j => Bytes(m[i]) \cap Bytes(m[j]) = {}
  <2> SUFFICES ASSUME NEW i \in D, NEW j \in D, Before(m, i, j)
               PROVE  Bytes(m[i]) \cap Bytes(m[j]) = {}
    BY BeforeIsOrder
  <2>1. m[i].end < m[j].start
    BY <1>9
  <2> QED BY <2>1, <1>1, <1>2
<1>11. \A i \in D : 0 <= m[i].start
  <2> TAKE i \in D
  <2>1. i = first \/ m[first].start <= m[i].start
    BY <1>1, <1>3 DEF Before
  <2> QED BY <2>1, <1>1, <1>5
\* What lies before a byte is covered: the last segment that starts there does
\* not end before.
<1>12. ASSUME NEW b \in Int, 0 <= b, b < m[last].start \/ b <= m[last].end
       PROVE  \E i \in D : m[i].start <= b /\ b <= m[i].end
  <2> DEFINE S == {i \in D : m[i].start <= b}
  <2>1. first \in S
    BY <1>5, <1>12
  <2>2. PICK k \in S : \A y \in S \ {k} : Before(m, y, k)
    BY <2>1, FirstAndLast
  <2>3. CASE m[k].end < b
    <3>1. k # last
      BY <1>1, <1>12, <2>3
    <3>2. PICK x \in D : Before(m, k, x) /\ m[x].start = m[k].end + 1
      BY <1>7, <3>1
    <3>3. x \in S /\ x # k
      BY <1>1, <2>3, <3>2 DEF Before
    <3> QED BY <2>2, <3>2, <3>3, BeforeIsOrder
  <2> QED BY <1>1, <2>2, <2>3
\* The segments but the last have the bytes before it, and there is room for it.
<1>13. 0 <= m[last].start /\ m[last].start <= size
  <2> DEFINE s == D \ {last}
  <2>1. BytesOf(m, s) = 0 .. m[last].start - 1
    <3>1. ASSUME NEW i \in s, NEW x \in Bytes(m[i])
          PROVE  x \in 0 .. m[last].start - 1
      <4>1. m[i].end < m[last].start
        BY <1>4, <1>9
      <4>2. x \in Int /\ m[i].start <= x /\ x <= m[i].end
        BY <1>2
      <4> QED BY <1>1, <1>11, <4>1, <4>2
    <3>2. ASSUME NEW b \in 0 .. m[last].start - 1
          PROVE  \E i \in s : b \in Bytes(m[i])
      <4>1. b \in Int /\ 0 <= b /\ b < m[last].start
        BY <1>1
      <4>2. PICK i \in D : m[i].start <= b /\ b <= m[i].end
        BY <1>12, <4>1
      <4>3. i # last
        BY <1>1, <4>1, <4>2
      <4> QED BY <1>2, <4>1, <4>2, <4>3
    <3> HIDE DEF s
    <3> QED BY <3>1, <3>2 DEF BytesOf
  <2>2. PICK sum : CountsBytes(m, sum)
    BY <1>10, SumOfSizesFacts
  <2>3. sum[s] = Cardinality(0 .. m[last].start - 1)
    BY <2>1, <2>2 DEF CountsBytes
  <2>4. Cardinality(0 .. m[last].start - 1) = m[last].start
    <3> DEFINE z == 0
               c == m[last].start - 1
    <3>1. z \in Int /\ c \in Int /\ c >= z - 1 /\ m[last].start = c + 1
      BY <1>1, <1>11
    <3> HIDE DEF c, z
    <3>2. Cardinality(z .. c) = IF z > c THEN 0 ELSE c - z + 1
      BY <3>1, FS_Interval
    <3>3. z = 0
      BY DEF z
    <3>4. Cardinality(z .. c) = m[last].start
      BY <3>1, <3>2, <3>3
    <3> QED BY <3>4 DEF z, c
  <2>5. SumOfSizes(m) = Size(m[last]) + sum[s]
    BY <2>2 DEF CountsBytes
  <2>6. SumOfSizes(m) = size
    BY DEF ValidateCoverage
  <2>7. Size(m[last]) \in Nat
    BY <1>1 DEF Size
  <2> HIDE DEF s
  <2> QED BY <1>1, <1>11, <2>3, <2>4, <2>5, <2>6, <2>7
<1>14. UNION {Bytes(m[i]) : i \in D} = 0 .. size - 1
  <2>1. ASSUME NEW i \in D, NEW x \in Bytes(m[i])
        PROVE  x \in 0 .. size - 1
    <3>1. x \in Int /\ m[i].start <= x /\ x <= m[i].end
      BY <1>2
    <3>2. i = last \/ m[i].end < m[last].start
      BY <1>4, <1>9
    <3> QED BY <1>1, <1>6, <1>11, <1>13, <3>1, <3>2
  <2>2. ASSUME NEW b \in 0 .. size - 1
        PROVE  \E i \in D : b \in Bytes(m[i])
    <3>1. b \in Int /\ 0 <= b /\ b <= m[last].end
      BY <1>6
    <3> QED BY <1>2, <1>12, <3>1
  <2> QED BY <2>1, <2>2
<1> QED BY <1>10, <1>14 DEF CoversOnce

\* Where no row ends before it starts, no segment is without a byte either.
THEOREM CoverageMeansPartition ==
    ASSUME NEW size \in Nat, NEW n, NEW m, MapBelow(m, n),
           \A i \in DOMAIN m : m[i].start <= m[i].end,
           ValidateCoverage(m, size)
    PROVE  IsPartition(m, size)
<1>1. CoversOnce(m, size)
  BY CoverageIsExact
<1>2. \A i \in DOMAIN m : Bytes(m[i]) # {}
  <2> TAKE i \in DOMAIN m
  <2>1. m[i].start \in Int /\ m[i].end \in Int
    BY DEF MapBelow, SegRecs
  <2> QED BY <2>1 DEF Bytes
<1> QED BY <1>1, <1>2 DEF CoversOnce, IsPartition

-----------------------------------------------------------------------------
(***************************************************************************)
(* The inductive invariant, and the words it is said in.                   *)
(***************************************************************************)

\* What a resume finds: rows with both bounds, in the order the code inserts them.
RowRecs == [start : Int, end : Int, dl : Nat]

Assignments ==
    [idx : Nat, start : Int, from : Int, end : Int, open : BOOLEAN, plain : BOOLEAN]

Verdicts == {"supported", "unsupported"}
EventKinds == Verdicts \cup {"done", "larger", "node", "refused", "norange", "replaced", "broken"}
EventRecs == [kind : EventKinds, w : Nat, idx : Nat, n : Nat]

\* The reports in the channel, each about a segment.
News == {k \in DOMAIN events : events[k].kind \notin Verdicts}
\* A worker has a segment unless it has gone or waits for one.
Busy(w) == wpc[w] \notin {"gone", "wait"}
\* A handler has recorded the work it is about to send.
Sending == job.then \in {"send", "spawn"}

\* The handler under way will give work to, or retire, the worker job.w.
Engaged == cpc \in {"dispatch", "redispatch"} \/ job.then \in {"send", "spawn", "short", "grown"}

GoodAssignment(a) == a \in Assignments /\ a.start <= a.from /\ a.start <= a.end

CoordTypes ==
    /\ cpc \in {"start", "rebuild", "loop", "dispatch", "redispatch", "persist", "resume",
                "ramp", "refill", "join", "ended"}
    /\ job.then \in {"loop", "send", "spawn", "short", "grown", "merged"}
    /\ cpc \notin {"persist", "resume"} => job.then = "loop"
    /\ total \in Nat \ {0} /\ taskTotal \in Nat \ {0}
    /\ ~Running => DOMAIN segs = {}

MapTypes ==
    /\ MapBelow(segs, nextIdx)
    /\ openSeg = NoSeg \/ openSeg \in DOMAIN segs

WorkerTypes ==
    /\ \A i \in DOMAIN shared : shared[i] \in [end : Int, dl : Nat]
    /\ wpc \in [Workers -> WorkerPCs]
    /\ asg \in [Workers -> Assignments] /\ \A w \in Workers : asg[w].start <= asg[w].from
    /\ \A w \in Workers : asg[w].start <= asg[w].end
    /\ got \in [Workers -> Nat]
    /\ chunk \in [Workers -> [len : Nat, cut : BOOLEAN]]
    /\ events \in Seq(EventRecs)

RowTypes ==
    /\ \E n \in Nat : DOMAIN rows \subseteq 0 .. n - 1
    /\ \A i \in DOMAIN rows : rows[i] \in RowRecs /\ rows[i].start <= rows[i].end

Types == CoordTypes /\ MapTypes /\ WorkerTypes /\ RowTypes

Mapped == Running => IsPartition(segs, total)

\* The rows are of segments of the map, which start where they say.
RowsMatch ==
    Running => \A i \in DOMAIN rows : i \in DOMAIN segs /\ rows[i].start = segs[i].start

\* A statement under way says what the map says; a merge is still possible.
JobSound ==
    cpc \in {"persist", "resume"} =>
        /\ \A i \in DOMAIN job.st.put : i \in DOMAIN segs /\ job.st.put[i] = Row(segs[i])
        /\ job.st.par # NoSeg =>
            /\ job.st.par \in DOMAIN segs
            /\ job.st.end \in Int /\ segs[job.st.par].start <= job.st.end
        /\ job.then # "merged" => job.st.del = {}
        /\ job.then = "merged" =>
            /\ job.st.par = openSeg /\ job.st.par \in InState(segs, "Active")
            /\ DOMAIN job.st.put = {}
            /\ job.st.del = Absorbable(segs, job.st.par) /\ job.st.del # {}
            /\ cpc = "resume" => DOMAIN rows \cap job.st.del = {}

\* Whoever holds a segment holds an active one, from its start.
HoldersActive ==
    /\ \A w \in Workers : Busy(w) =>
        asg[w].idx \in InState(segs, "Active") /\ asg[w].start = segs[asg[w].idx].start
    /\ \A k \in News : events[k].idx \in InState(segs, "Active")
    /\ Sending =>
        /\ job.asg.idx \in InState(segs, "Active") /\ GoodAssignment(job.asg)
        /\ job.asg.start = segs[job.asg.idx].start

OneHolder ==
    /\ \A w, v \in Workers : Busy(w) /\ Busy(v) /\ asg[w].idx = asg[v].idx => w = v
    /\ \A k, l \in News : events[k].idx = events[l].idx => k = l
    /\ \A w \in Workers, k \in News : Busy(w) => asg[w].idx # events[k].idx
    /\ Sending =>
        /\ \A w \in Workers : Busy(w) => asg[w].idx # job.asg.idx
        /\ \A k \in News : events[k].idx # job.asg.idx

\* A worker that has reported rests, and has reported once.
ReportersRest ==
    /\ \A k \in News : events[k].w \in Workers /\ ~Busy(events[k].w)
    /\ \A k, l \in News : events[k].w = events[l].w => k = l
    /\ Engaged => /\ job.w \in Workers /\ ~Busy(job.w)
                  /\ \A k \in News : events[k].w # job.w

Held(i) ==
    \/ \E w \in Workers : Busy(w) /\ asg[w].idx = i
    \/ \E k \in News : events[k].idx = i
    \/ Sending /\ job.asg.idx = i

NoneForgotten ==
    cpc \notin {"start", "rebuild", "join", "ended"} /\ ~stopped =>
        \A i \in InState(segs, "Active") : Held(i)

\* The inductive invariant.  Layout alone is not inductive: the handlers cut,
\* merge and cover the segment a message names, which is in the map, active and
\* nobody else's only because of who holds what; and the state between the two
\* sides of an await has to agree with the map it was computed from.
CoordInv ==
    /\ Types /\ Mapped /\ RowsMatch /\ JobSound
    /\ HoldersActive /\ OneHolder /\ ReportersRest /\ NoneForgotten
-----------------------------------------------------------------------------
(***************************************************************************)
(* The event channel.                                                      *)
(***************************************************************************)

\* Taking the first message moves the others up by one.
LEMMA TailOfEvents ==
    ASSUME events \in Seq(EventRecs), events # <<>>, events' = Tail(events)
    PROVE  /\ events' \in Seq(EventRecs)
           /\ Head(events) \in EventRecs /\ Head(events) = events[1]
           /\ \A k \in News' : k + 1 \in News /\ events'[k] = events[k + 1] /\ k + 1 # 1
           /\ \A k \in News \ {1} : \E j \in News' : k = j + 1 /\ events'[j] = events[k]
           /\ 1 \in DOMAIN events
<1>1. Len(events) \in Nat /\ Len(events) >= 1 /\ DOMAIN events = 1 .. Len(events)
  BY EmptySeq, LenProperties
<1>2. /\ events' \in Seq(EventRecs) /\ DOMAIN events' = 1 .. Len(events) - 1
      /\ \A k \in 1 .. Len(events) - 1 : events'[k] = events[k + 1]
  BY <1>1, HeadTailProperties, LenProperties
<1>3. Head(events) = events[1] /\ events[1] \in EventRecs
  BY <1>1, HeadTailProperties, ElementOfSeq
<1>4. ASSUME NEW k \in News'
      PROVE  k + 1 \in News /\ events'[k] = events[k + 1] /\ k + 1 # 1
  BY <1>1, <1>2, <1>4 DEF News
<1>5. ASSUME NEW k \in News \ {1}
      PROVE  \E j \in News' : k = j + 1 /\ events'[j] = events[k]
  <2>1. k - 1 \in 1 .. Len(events) - 1 /\ k = (k - 1) + 1
    BY <1>1, <1>5 DEF News
  <2> QED BY <1>2, <1>5, <2>1 DEF News
<1>6. 1 \in DOMAIN events
  BY <1>1
<1> QED BY <1>2, <1>3, <1>4, <1>5, <1>6

\* A message sent comes last; the others keep their places.
LEMMA EventAppended ==
    ASSUME events \in Seq(EventRecs), NEW e \in EventRecs, events' = Append(events, e)
    PROVE  /\ events' \in Seq(EventRecs)
           /\ \A k \in News : k \in News' /\ events'[k] = events[k]
           /\ \A k \in News' : \/ k \in News /\ events'[k] = events[k]
                               \/ k \notin News /\ events'[k] = e /\ k = Len(events) + 1
           /\ e.kind \notin Verdicts => Len(events) + 1 \in News' /\ events'[Len(events) + 1] = e
<1>1. Len(events) \in Nat /\ DOMAIN events = 1 .. Len(events)
  BY LenProperties
<1>2. /\ events' \in Seq(EventRecs) /\ DOMAIN events' = 1 .. Len(events) + 1
      /\ \A k \in 1 .. Len(events) : events'[k] = events[k]
      /\ events'[Len(events) + 1] = e
  BY <1>1, AppendProperties, LenProperties
<1> QED BY <1>1, <1>2 DEF News
-----------------------------------------------------------------------------
(***************************************************************************)
(* What the handlers do to the map.                                        *)
(***************************************************************************)

\* A map whose segments are numbered below n and divide a file of t bytes.
Sound(m, n, t) == MapBelow(m, n) /\ IsPartition(m, t)

\* The segments of m are still in c, and start where they did.
Carried(m, c) == DOMAIN m \subseteq DOMAIN c /\ \A i \in DOMAIN m : c[i].start = m[i].start

\* A segment of a sound map is within the file and has a byte.
LEMMA SoundSegment ==
    ASSUME NEW t \in Nat, NEW n, NEW m, Sound(m, n, t), NEW i \in DOMAIN m
    PROVE  /\ m[i] \in SegRecs /\ i \in Nat /\ i < n /\ n \in Nat
           /\ 0 <= m[i].start /\ m[i].start <= m[i].end /\ m[i].end <= t - 1
<1>1. t \in Int
  OBVIOUS
<1>2. i \in 0 .. n - 1 /\ n \in Nat
  BY DEF Sound, MapBelow
<1> QED BY <1>1, <1>2, WithinFile DEF Sound

\* A map with the same bounds is as sound.
LEMMA SameBounds ==
    ASSUME NEW t \in Nat, NEW n, NEW m, Sound(m, n, t), NEW c,
           DOMAIN c = DOMAIN m, c \in [DOMAIN c -> SegRecs],
           \A i \in DOMAIN m : c[i].start = m[i].start /\ c[i].end = m[i].end
    PROVE  Sound(c, n, t) /\ Carried(m, c)
<1>1. \A i \in DOMAIN m : Bytes(c[i]) = Bytes(m[i])
  BY DEF Bytes
<1>2. IsPartition(c, t)
  BY <1>1, BoundsDecide DEF Sound
<1> QED BY <1>2 DEF Sound, MapBelow, Carried

\* A segment that changes state keeps its place in the file.
LEMMA SetStateKeeps ==
    ASSUME NEW t \in Nat, NEW n, NEW m, Sound(m, n, t), NEW i \in DOMAIN m, NEW st \in States,
           NEW c, c = SetState(m, i, st)
    PROVE  /\ Sound(c, n, t) /\ Carried(m, c) /\ DOMAIN c = DOMAIN m
           /\ \A j \in DOMAIN m : c[j].dl = m[j].dl
           /\ st = "Active" => InState(c, "Active") = InState(m, "Active") \cup {i}
           /\ st # "Active" => InState(c, "Active") = InState(m, "Active") \ {i}
<1>1. DOMAIN c = DOMAIN m
  BY DEF SetState
<1>2. ASSUME NEW j \in DOMAIN m
      PROVE  /\ c[j] \in SegRecs /\ c[j].start = m[j].start /\ c[j].end = m[j].end
             /\ c[j].dl = m[j].dl /\ c[j].st = IF j = i THEN st ELSE m[j].st
  BY DEF Sound, MapBelow, SetState, SegRecs
<1>3. c \in [DOMAIN c -> SegRecs]
  BY <1>1, <1>2 DEF SetState
<1>4. Sound(c, n, t) /\ Carried(m, c)
  BY <1>1, <1>2, <1>3, SameBounds
<1> QED BY <1>1, <1>2, <1>4 DEF InState

\* The workers' own progress moves no boundary (sync_downloaded_from_shared).
LEMMA SyncedKeeps ==
    ASSUME NEW t \in Nat, NEW n, NEW m, Sound(m, n, t),
           \A i \in DOMAIN shared : shared[i] \in [end : Int, dl : Nat],
           NEW c, c = Synced(m)
    PROVE  /\ Sound(c, n, t) /\ Carried(m, c) /\ DOMAIN c = DOMAIN m
           /\ \A st : InState(c, st) = InState(m, st)
<1>1. DOMAIN c = DOMAIN m
  BY DEF Synced
<1>2. ASSUME NEW j \in DOMAIN m
      PROVE  /\ c[j] \in SegRecs /\ c[j].start = m[j].start /\ c[j].end = m[j].end
             /\ c[j].st = m[j].st
  BY DEF Sound, MapBelow, Synced, SegRecs
<1>3. c \in [DOMAIN c -> SegRecs]
  BY <1>1, <1>2 DEF Synced
<1>4. Sound(c, n, t) /\ Carried(m, c)
  BY <1>1, <1>2, <1>3, SameBounds
<1> QED BY <1>1, <1>2, <1>4 DEF InState

\* A segment done in full leaves the map sound and is active no more.
LEMMA FinishKeeps ==
    ASSUME NEW t \in Nat, NEW n, NEW m, Sound(m, n, t), NEW i \in DOMAIN m, NEW d \in Nat,
           NEW c, c = Finish(m, i, d)
    PROVE  /\ Sound(c, n, t) /\ Carried(m, c) /\ DOMAIN c = DOMAIN m
           /\ InState(c, "Active") = InState(m, "Active") \ {i}
<1> DEFINE k == Lesser(d, Size(m[i]))
<1>0. k \in Nat
  BY SoundSegment, SizeFacts DEF Lesser
<1>1. DOMAIN c = DOMAIN m
  BY DEF Finish
<1>2. ASSUME NEW j \in DOMAIN m
      PROVE  /\ c[j] \in SegRecs /\ c[j].start = m[j].start /\ c[j].end = m[j].end
             /\ c[j].st = IF j = i THEN "Completed" ELSE m[j].st
  <2> HIDE DEF k
  <2>1. c = [m EXCEPT ![i].dl = k, ![i].st = "Completed"]
    BY DEF Finish, k
  <2>2. m[j] \in SegRecs
    BY SoundSegment
  <2> QED BY <1>0, <2>1, <2>2 DEF SegRecs, States
<1>3. c \in [DOMAIN c -> SegRecs]
  BY <1>1, <1>2 DEF Finish
<1>4. Sound(c, n, t) /\ Carried(m, c)
  BY <1>1, <1>2, <1>3, SameBounds
<1> QED BY <1>1, <1>2, <1>4 DEF InState

\* A cut within segment p, the new segment being the next of the numbers.
LEMMA CutKeeps ==
    ASSUME NEW t \in Nat, NEW n, NEW m, Sound(m, n, t), NEW p \in DOMAIN m,
           NEW at \in Int, m[p].start < at, at <= m[p].end, NEW st \in States,
           NEW c, c = Cut(m, p, at, n, st)
    PROVE  /\ Sound(c, n + 1, t) /\ Carried(m, c)
           /\ \A j : j \in DOMAIN c <=> j \in DOMAIN m \/ j = n
           /\ n \notin DOMAIN m /\ c[n].st = st /\ c[n].dl = 0
           /\ \A i \in DOMAIN m : c[i].st = m[i].st
<1>1. n \in Nat /\ DOMAIN m \subseteq 0 .. n - 1 /\ n \notin DOMAIN m
  BY DEF Sound, MapBelow
<1>2. DOMAIN c = DOMAIN m \cup {n} /\ DOMAIN c \subseteq 0 .. (n + 1) - 1
  BY <1>1 DEF Cut
<1>3. \A j \in DOMAIN m : m[j] \in SegRecs
  BY DEF Sound, MapBelow
<1>4. ASSUME NEW j \in DOMAIN m
      PROVE  c[j] \in SegRecs /\ c[j].start = m[j].start /\ c[j].st = m[j].st
  <2>1. c[j] = IF j = p THEN [m[p] EXCEPT !.end = at - 1] ELSE m[j]
    BY <1>1 DEF Cut
  <2> QED BY <1>3, <2>1 DEF SegRecs
<1>5. c[n] = Seg(at, m[p].end, 0, st) /\ c[n] \in SegRecs /\ c[n].st = st /\ c[n].dl = 0
  BY <1>3 DEF Cut, Seg, SegRecs
<1>6. c \in [DOMAIN c -> SegRecs]
  <2>1. \A j \in DOMAIN c : c[j] \in SegRecs
    BY <1>2, <1>4, <1>5
  <2> QED BY <2>1 DEF Cut
<1>7. IsPartition(c, t)
  BY CutKeepsPartition DEF Sound
<1> QED BY <1>1, <1>2, <1>4, <1>5, <1>6, <1>7 DEF Sound, MapBelow, Carried

\* An in-half split keeps the map sound; only a child that is born Active is active
\* besides those that were.
LEMMA SplitKeeps ==
    ASSUME NEW t \in Nat, NEW n, NEW m, Sound(m, n, t), CanSplit(m), NEW st \in States,
           NEW c, c = Split(m, n, st)
    PROVE  /\ Sound(c, n + 1, t) /\ Carried(m, c) /\ n \in DOMAIN c
           /\ LargestActive(m) \in InState(m, "Active") /\ n \notin InState(m, "Active")
           /\ \A j : j \in InState(c, "Active") <=>
                        j \in InState(m, "Active") \/ (j = n /\ st = "Active")
<1> DEFINE p == LargestActive(m)
           g == m[p]
           at == SplitPoint(g)
<1>1. t \in Int /\ InState(m, "Active") # {}
  BY DEF CanSplit
<1>2. /\ p \in InState(m, "Active")
      /\ \A j \in InState(m, "Active") : Remaining(m[j]) <= Remaining(g)
  BY <1>1, LargestActiveIsLargest DEF Sound
<1>3. p \in DOMAIN m
  BY <1>2 DEF InState
<1>4. /\ g \in SegRecs /\ g.start <= g.end /\ Size(g) = g.end - g.start + 1
      /\ Remaining(g) \in Nat /\ g.start \in Int /\ g.end \in Int /\ g.dl \in Nat
  BY <1>1, <1>3, WithinFile DEF Sound, SegRecs
<1>5. Remaining(g) >= 2
  <2>1. PICK j \in InState(m, "Active") : Remaining(m[j]) >= MinSplit
    BY DEF CanSplit
  <2>2. Remaining(m[j]) \in Nat
    BY <1>1, <2>1, WithinFile DEF Sound, InState
  <2> QED BY <1>2, <1>4, <2>1, <2>2, MapAssumption
<1>6. Remaining(g) = (g.end - g.start + 1) - g.dl
  BY <1>4, <1>5 DEF Remaining
<1>7. at \in Int /\ g.start < at /\ at <= g.end
  <2> DEFINE r == Remaining(g)
             h == r \div 2
  <2>1. h \in Nat /\ h >= 1 /\ h <= r - 1
    <3> HIDE DEF r
    <3>1. r \in Nat /\ r >= 2
      BY <1>4, <1>5 DEF r
    <3> QED BY <3>1
  <2>2. at = g.start + g.dl + h
    BY DEF SplitPoint
  <2> HIDE DEF h, at, g
  <2> QED BY <1>4, <1>6, <2>1, <2>2
<1>8. c = Cut(m, p, at, n, st)
  BY DEF Split
<1> HIDE DEF p, at
<1>9. at \in Int /\ m[p].start < at /\ at <= m[p].end
  BY <1>7 DEF g
<1>10. /\ Sound(c, n + 1, t) /\ Carried(m, c)
       /\ \A j : j \in DOMAIN c <=> j \in DOMAIN m \/ j = n
       /\ n \notin DOMAIN m /\ c[n].st = st
       /\ \A i \in DOMAIN m : c[i].st = m[i].st
  BY <1>3, <1>8, <1>9, CutKeeps
<1> QED BY <1>2, <1>8, <1>10 DEF InState, p

\* A segment cut where its worker stopped leaves the rest to a new one.
LEMMA ShortfallKeeps ==
    ASSUME NEW t \in Nat, NEW n, NEW m, Sound(m, n, t), NEW i \in DOMAIN m, NEW d \in Nat,
           0 < d, d < Size(m[i]),
           NEW c, c = Shortfall(m, i, d, n)
    PROVE  /\ Sound(c, n + 1, t) /\ Carried(m, c) /\ DOMAIN c = DOMAIN m \cup {n}
           /\ n \notin DOMAIN m
           /\ InState(c, "Active") = InState(m, "Active") \ {i}
<1> DEFINE q == [m EXCEPT ![i].dl = d, ![i].st = "Completed"]
           at == m[i].start + d
<1>1. DOMAIN q = DOMAIN m
  OBVIOUS
<1>2. \A j \in DOMAIN m : m[j] \in SegRecs
  BY DEF Sound, MapBelow
<1>3. ASSUME NEW j \in DOMAIN m
      PROVE  /\ q[j] \in SegRecs /\ q[j].start = m[j].start /\ q[j].end = m[j].end
             /\ q[j].st = IF j = i THEN "Completed" ELSE m[j].st
  <2>1. m[j] \in SegRecs
    BY <1>2
  <2> QED BY <2>1 DEF SegRecs, States
<1>4. Sound(q, n, t) /\ Carried(m, q)
  <2>1. q \in [DOMAIN q -> SegRecs]
    BY <1>1, <1>3
  <2> HIDE DEF q
  <2> QED BY <1>1, <1>3, <2>1, SameBounds
<1>5. at \in Int /\ q[i].start < at /\ at <= q[i].end
  <2>1. m[i] \in SegRecs /\ m[i].start <= m[i].end
    BY SoundSegment
  <2>2. Size(m[i]) = m[i].end - m[i].start + 1
    BY <2>1 DEF Size
  <2>3. q[i].start = m[i].start /\ q[i].end = m[i].end /\ m[i].start \in Int /\ m[i].end \in Int
    BY <1>3, <2>1 DEF SegRecs
  <2> HIDE DEF q
  <2> QED BY <2>2, <2>3
<1>6. c = Cut(q, i, at, n, "Pending")
  BY DEF Shortfall
<1>7. ASSUME NEW k, NEW st \in States, k = Cut(q, i, at, n, st)
      PROVE  /\ Sound(k, n + 1, t) /\ Carried(q, k) /\ DOMAIN k = DOMAIN q \cup {n}
             /\ n \notin DOMAIN q /\ k[n].st = st
             /\ \A j \in DOMAIN q : k[j].st = q[j].st
  <2>1. i \in DOMAIN q
    OBVIOUS
  <2> HIDE DEF q, at
  <2>2. at \in Int /\ q[i].start < at /\ at <= q[i].end /\ Sound(q, n, t)
    BY <1>4, <1>5
  <2>3. /\ Sound(k, n + 1, t) /\ Carried(q, k)
        /\ \A j : j \in DOMAIN k <=> j \in DOMAIN q \/ j = n
        /\ n \notin DOMAIN q /\ k[n].st = st
        /\ \A j \in DOMAIN q : k[j].st = q[j].st
    BY <1>7, <2>1, <2>2, CutKeeps
  <2> QED BY <2>3
<1>8. /\ Sound(c, n + 1, t) /\ Carried(q, c) /\ DOMAIN c = DOMAIN q \cup {n}
      /\ n \notin DOMAIN q /\ c[n].st = "Pending"
      /\ \A j \in DOMAIN q : c[j].st = q[j].st
  BY <1>6, <1>7 DEF States
<1> HIDE DEF q, at
<1>9. Carried(m, c)
  BY <1>1, <1>4, <1>8 DEF Carried
<1>10. InState(c, "Active") = InState(m, "Active") \ {i}
  BY <1>1, <1>3, <1>8 DEF InState
<1> QED BY <1>1, <1>8, <1>9, <1>10

\* A file that proves larger gets a Pending tail.
LEMMA GrowKeeps ==
    ASSUME NEW t \in Nat, NEW n, NEW m, Sound(m, n, t), NEW r \in Nat, t < r,
           NEW c, c = Grow(m, n, t, r)
    PROVE  /\ Sound(c, n + 1, r) /\ Carried(m, c) /\ n \in DOMAIN c
           /\ InState(c, "Active") = InState(m, "Active")
<1>1. n \in Nat /\ DOMAIN m \subseteq 0 .. n - 1 /\ n \notin DOMAIN m
  BY DEF Sound, MapBelow
<1>2. DOMAIN c = DOMAIN m \cup {n} /\ DOMAIN c \subseteq 0 .. (n + 1) - 1
  BY <1>1 DEF Grow
<1>3. \A j \in DOMAIN m : m[j] \in SegRecs /\ c[j] = m[j]
  BY <1>1 DEF Sound, MapBelow, Grow
<1>4. c[n] \in SegRecs /\ c[n].st = "Pending"
  BY DEF Grow, Seg, SegRecs, States
<1>5. c \in [DOMAIN c -> SegRecs]
  <2>1. \A j \in DOMAIN c : c[j] \in SegRecs
    BY <1>2, <1>3, <1>4
  <2> QED BY <2>1 DEF Grow
<1>6. IsPartition(c, r)
  BY GrowMakesPartition DEF Sound
<1> QED BY <1>1, <1>2, <1>3, <1>4, <1>5, <1>6 DEF Sound, MapBelow, Carried, InState

\* The open stream takes over what follows it; those segments leave the map.
LEMMA MergeKeeps ==
    ASSUME NEW t \in Nat, NEW n, NEW m, Sound(m, n, t), NEW open \in InState(m, "Active"),
           NEW A, A = Absorbable(m, open), A # {},
           NEW c, c = Merge(m, open, A)
    PROVE  /\ Sound(c, n, t) /\ DOMAIN c = DOMAIN m \ A /\ open \in DOMAIN c
           /\ InState(c, "Active") = InState(m, "Active")
           /\ A \subseteq InState(m, "Pending")
           /\ \A i \in DOMAIN c : c[i].start = m[i].start
           /\ MergedEnd(m, A) \in Int /\ m[open].start <= MergedEnd(m, A)
<1>1. /\ A \subseteq InState(m, "Pending") /\ InState(m, "Pending") \subseteq DOMAIN m
      /\ open \in DOMAIN m /\ open \notin A
      /\ \A i \in A : m[i].start > m[open].end
  BY DEF Absorbable, InState
<1>2. \A j \in DOMAIN m : /\ m[j] \in SegRecs /\ m[j].start \in Int /\ m[j].end \in Int
                          /\ m[j].start <= m[j].end /\ m[j].end <= t - 1
  BY SoundSegment DEF SegRecs
<1>3. /\ \E k \in A : MergedEnd(m, A) = m[k].end
      /\ \A i \in A : m[i].end <= MergedEnd(m, A)
  <2>1. t - 1 \in Int /\ \A i \in A : m[i].end \in Int /\ m[i].end <= t - 1
    BY <1>1, <1>2
  <2> QED BY <2>1, MergedEndFacts
<1>4. MergedEnd(m, A) \in Int /\ m[open].start <= MergedEnd(m, A)
  <2>1. PICK k \in A : MergedEnd(m, A) = m[k].end
    BY <1>3
  <2> QED BY <1>1, <1>2, <2>1
<1>5. DOMAIN c = DOMAIN m \ A /\ open \in DOMAIN c
  BY <1>1 DEF Merge
<1>6. ASSUME NEW j \in DOMAIN c
      PROVE  c[j] \in SegRecs /\ c[j].start = m[j].start /\ c[j].st = m[j].st
  <2>1. c[j] = IF j = open THEN [m[j] EXCEPT !.end = MergedEnd(m, A)] ELSE m[j]
    BY <1>5, <1>6 DEF Merge
  <2>2. m[j] \in SegRecs
    BY <1>2, <1>5, <1>6
  <2> QED BY <1>4, <2>1, <2>2 DEF SegRecs
<1>7. MapBelow(c, n)
  <2>1. c \in [DOMAIN c -> SegRecs]
    BY <1>6 DEF Merge
  <2>2. DOMAIN c \subseteq 0 .. n - 1 /\ n \in Nat
    BY <1>5 DEF Sound, MapBelow
  <2> QED BY <2>1, <2>2 DEF MapBelow
<1>8. IsPartition(c, t)
  BY MergeKeepsPartition DEF Sound
<1>9. InState(c, "Active") = InState(m, "Active")
  <2>1. \A i \in A : m[i].st # "Active"
    BY <1>1 DEF InState
  <2> QED BY <1>5, <1>6, <2>1 DEF InState
<1> QED BY <1>1, <1>4, <1>5, <1>6, <1>7, <1>8, <1>9 DEF Sound

\* The uniform map of a fresh start is sound and nobody's.
LEMMA FreshIsSound ==
    ASSUME NEW count \in Nat \ {0}, NEW t \in Nat, count <= t,
           NEW c, c = Fresh(count, t)
    PROVE  /\ Sound(c, count, t) /\ DOMAIN c = 0 .. count - 1
           /\ \A i \in DOMAIN c : c[i].st = "Pending"
<1> DEFINE size == t \div count
<1>1. /\ DOMAIN c = 0 .. count - 1
      /\ \A i \in 0 .. count - 1 :
            /\ c[i].start = i * size /\ i * size \in Nat
            /\ i < count - 1 => c[i].end = (i * size + size) - 1
            /\ i = count - 1 => c[i].end = t - 1
  BY FreshFacts
<1>2. size \in Nat
  BY ChunkFacts
<1>3. ASSUME NEW i \in 0 .. count - 1
      PROVE  c[i] \in SegRecs /\ c[i].st = "Pending"
  <2>1. \E e : c[i] = Seg(i * size, e, 0, "Pending")
    BY DEF Fresh
  <2>2. PICK e : c[i] = Seg(i * size, e, 0, "Pending")
    BY <2>1
  <2>3. c[i].end = e
    BY <2>2 DEF Seg
  <2>4. c[i].end \in Int
    <3> HIDE DEF size
    <3>1. i < count - 1 \/ i = count - 1
      OBVIOUS
    <3> QED BY <1>1, <1>2, <3>1
  <2>5. i * size \in Int
    BY <1>1
  <2> HIDE DEF size
  <2> QED BY <2>2, <2>3, <2>4, <2>5 DEF Seg, SegRecs, States
<1>4. c \in [DOMAIN c -> SegRecs]
  BY <1>1, <1>3 DEF Fresh
<1>5. IsPartition(c, t)
  BY FreshIsPartition
<1> QED BY <1>1, <1>3, <1>4, <1>5 DEF Sound, MapBelow

\* Least is what its name says.
LEMMA LeastIsMin ==
    ASSUME NEW S \in SUBSET Nat, S # {}
    PROVE  Least(S) \in S /\ \A y \in S : Least(S) <= y
<1>1. PICK x \in S : \A y \in S : ~(<<y, x>> \in OpToRel(<, Nat))
  BY WFMin, NatLessThanWellFounded
<1>2. \A y \in S : ~(y < x)
  BY <1>1 DEF OpToRel
<1>3. \A y \in S : x <= y
  BY <1>2
<1> QED BY <1>3 DEF Least

\* The work that is found is a segment nobody has, and becomes active.
LEMMA NextWorkKeeps ==
    ASSUME NEW t \in Nat, NEW m, Sound(m, nextIdx, t), NEW split \in BOOLEAN, Found(m, split),
           NEW f, f = NextWork(m, split)
    PROVE  /\ Sound(f.m, IF f.par = NoSeg THEN nextIdx ELSE nextIdx + 1, t)
           /\ Carried(m, f.m)
           /\ f.i \in DOMAIN f.m /\ f.i \notin InState(m, "Active")
           /\ InState(f.m, "Active") = InState(m, "Active") \cup {f.i}
           /\ f.par # NoSeg => f.par \in DOMAIN f.m
<1>0. nextIdx \in Nat /\ \A i \in DOMAIN m : i \in Nat /\ i # NoSeg
  BY DEF Sound, MapBelow, NoSeg
<1>a. "Active" \in States
  BY DEF States
<1>1. CASE InState(m, "Pending") # {}
  <2> DEFINE i == Least(InState(m, "Pending"))
             c == SetState(m, i, "Active")
  <2>1. f = [m |-> c, i |-> i, par |-> NoSeg]
    BY <1>1 DEF NextWork
  <2>2. i \in InState(m, "Pending")
    BY <1>0, <1>1, LeastIsMin DEF InState
  <2>3. i \in DOMAIN m /\ i \notin InState(m, "Active")
    BY <2>2 DEF InState
  <2> HIDE DEF i
  <2>4. /\ Sound(c, nextIdx, t) /\ Carried(m, c) /\ DOMAIN c = DOMAIN m
        /\ InState(c, "Active") = InState(m, "Active") \cup {i}
    BY <1>a, <2>3, SetStateKeeps
  <2> HIDE DEF c
  <2> QED BY <2>1, <2>3, <2>4
<1>2. CASE InState(m, "Pending") = {}
  <2> DEFINE c == Split(m, nextIdx, "Active")
             p == LargestActive(m)
  <2>1. f = [m |-> c, i |-> nextIdx, par |-> p]
    BY <1>2 DEF NextWork
  <2>2. CanSplit(m)
    BY <1>2 DEF Found
  <2>3. /\ Sound(c, nextIdx + 1, t) /\ Carried(m, c) /\ nextIdx \in DOMAIN c
        /\ nextIdx \notin InState(m, "Active") /\ p \in InState(m, "Active")
        /\ \A j : j \in InState(c, "Active") <=> j \in InState(m, "Active") \/ j = nextIdx
    <3>1. \A st \in States : \A k : k = Split(m, nextIdx, st) =>
            /\ Sound(k, nextIdx + 1, t) /\ Carried(m, k) /\ nextIdx \in DOMAIN k
            /\ LargestActive(m) \in InState(m, "Active") /\ nextIdx \notin InState(m, "Active")
            /\ \A j : j \in InState(k, "Active") <=>
                         j \in InState(m, "Active") \/ (j = nextIdx /\ st = "Active")
      BY <2>2, SplitKeeps
    <3> QED BY <1>a, <3>1
  <2>4. p \in DOMAIN m /\ p # NoSeg /\ p \in DOMAIN c
    BY <1>0, <2>3 DEF InState, Carried
  <2> HIDE DEF c, p
  <2>5. InState(c, "Active") = InState(m, "Active") \cup {nextIdx}
    BY <2>3
  <2> QED BY <2>1, <2>3, <2>4, <2>5
<1> QED BY <1>1, <1>2
-----------------------------------------------------------------------------
(***************************************************************************)
(* Who holds a segment.                                                    *)
(***************************************************************************)

Holding == HoldersActive /\ OneHolder /\ ReportersRest /\ NoneForgotten

AtWork == cpc \notin {"start", "rebuild", "join", "ended"} /\ ~stopped

\* The segments that are active stay so and keep their start.
SameActive ==
    /\ InState(segs', "Active") = InState(segs, "Active")
    /\ \A i \in InState(segs, "Active") : segs'[i].start = segs[i].start

\* Nothing about the holders changes.
LEMMA HoldersSame ==
    ASSUME Holding, UNCHANGED <<wpc, asg, events>>, AtWork' => AtWork, SameActive,
           Sending' <=> Sending, Sending => job' = job,
           Engaged' => Engaged /\ job'.w = job.w
    PROVE  Holding'
<1>1. News' = News
  BY DEF News
<1>2. \A w : Busy(w)' <=> Busy(w)
  BY DEF Busy
<1>3. HoldersActive'
  BY <1>1, <1>2 DEF Holding, HoldersActive, SameActive
<1>4. OneHolder'
  BY <1>1, <1>2 DEF Holding, OneHolder
<1>5. ReportersRest'
  BY <1>1, <1>2 DEF Holding, ReportersRest, Busy
<1>6. NoneForgotten'
  BY <1>1, <1>2 DEF Holding, NoneForgotten, Held, AtWork, SameActive
<1> QED BY <1>3, <1>4, <1>5, <1>6 DEF Holding

\* The coordinator takes a message from the channel: a report leaves its segment
\* with nobody, and that is active no more; a verdict changes nothing.
LEMMA HeadTaken ==
    ASSUME events \in Seq(EventRecs), Holding, UNCHANGED <<wpc, asg>>, AtWork' => AtWork,
           events # <<>>, events' = Tail(events), ~Sending, ~Sending',
           NEW X, X = IF Head(events).kind \in Verdicts THEN {} ELSE {Head(events).idx},
           InState(segs', "Active") = InState(segs, "Active") \ X,
           \A i \in InState(segs', "Active") : segs'[i].start = segs[i].start,
           Engaged' => Head(events).kind \notin Verdicts /\ job'.w = Head(events).w
    PROVE  Holding'
<1> DEFINE h == events[1]
<1>1. /\ events' \in Seq(EventRecs) /\ Head(events) = h /\ 1 \in DOMAIN events
      /\ \A k \in News' : k + 1 \in News /\ events'[k] = events[k + 1] /\ k + 1 # 1
      /\ \A k \in News \ {1} : \E j \in News' : k = j + 1 /\ events'[j] = events[k]
  BY TailOfEvents
<1>2. \A k \in News' : k \in Nat
  BY <1>1, LenProperties DEF News
<1>3. 1 \in News <=> h.kind \notin Verdicts
  BY <1>1 DEF News
<1>4. \A w : Busy(w)' <=> Busy(w)
  BY DEF Busy
<1>5. X = IF 1 \in News THEN {h.idx} ELSE {}
  BY <1>1, <1>3
<1> HIDE DEF h
<1>6. ASSUME NEW k \in News'
      PROVE  events'[k].idx \notin X /\ (1 \in News => events'[k].w # h.w)
  <2>1. k + 1 \in News /\ events'[k] = events[k + 1] /\ k + 1 # 1
    BY <1>1
  <2> QED BY <1>5, <2>1 DEF Holding, OneHolder, ReportersRest, h
<1>7. \A w \in Workers : Busy(w) => asg[w].idx \notin X
  BY <1>5 DEF Holding, OneHolder, h
<1>8. HoldersActive'
  <2>1. \A w \in Workers : Busy(w)' =>
            asg'[w].idx \in InState(segs', "Active") /\ asg'[w].start = segs'[asg'[w].idx].start
    BY <1>4, <1>7 DEF Holding, HoldersActive
  <2>2. \A k \in News' : events'[k].idx \in InState(segs', "Active")
    BY <1>1, <1>6 DEF Holding, HoldersActive
  <2> QED BY <2>1, <2>2 DEF HoldersActive
<1>9. OneHolder'
  <2>1. \A w, v \in Workers : Busy(w)' /\ Busy(v)' /\ asg'[w].idx = asg'[v].idx => w = v
    BY <1>4 DEF Holding, OneHolder
  <2>2. ASSUME NEW k \in News', NEW l \in News', events'[k].idx = events'[l].idx
        PROVE  k = l
    <3>1. /\ k + 1 \in News /\ events'[k] = events[k + 1]
          /\ l + 1 \in News /\ events'[l] = events[l + 1]
      BY <1>1
    <3>2. \A a, b \in News : events[a].idx = events[b].idx => a = b
      BY DEF Holding, OneHolder
    <3>3. k + 1 = l + 1
      BY <2>2, <3>1, <3>2
    <3> QED BY <1>2, <3>3
  <2>3. ASSUME NEW w \in Workers, NEW k \in News', Busy(w)'
        PROVE  asg'[w].idx # events'[k].idx
    <3>1. k + 1 \in News /\ events'[k] = events[k + 1]
      BY <1>1
    <3> QED BY <1>4, <2>3, <3>1 DEF Holding, OneHolder
  <2> QED BY <2>1, <2>2, <2>3 DEF OneHolder
<1>10. ReportersRest'
  <2>1. ASSUME NEW k \in News'
        PROVE  events'[k].w \in Workers /\ ~Busy(events[k].w)'
    <3>1. k + 1 \in News /\ events'[k] = events[k + 1]
      BY <1>1
    <3>2. events'[k].w \in Workers /\ ~Busy(events'[k].w)
      BY <3>1 DEF Holding, ReportersRest
    <3> QED BY <3>2 DEF Busy
  <2>2. ASSUME NEW k \in News', NEW l \in News', events'[k].w = events'[l].w
        PROVE  k = l
    <3>1. /\ k + 1 \in News /\ events'[k] = events[k + 1]
          /\ l + 1 \in News /\ events'[l] = events[l + 1]
      BY <1>1
    <3>2. \A a, b \in News : events[a].w = events[b].w => a = b
      BY DEF Holding, ReportersRest
    <3>3. k + 1 = l + 1
      BY <2>2, <3>1, <3>2
    <3> QED BY <1>2, <3>3
  <2>3. ASSUME Engaged'
        PROVE  /\ job'.w \in Workers /\ ~Busy(job.w)'
               /\ \A k \in News' : events'[k].w # job'.w
    <3>1. 1 \in News /\ job'.w = h.w
      BY <1>1, <1>3, <2>3
    <3>2. h.w \in Workers /\ ~Busy(h.w)
      BY <3>1 DEF Holding, ReportersRest, h
    <3>3. ~Busy(job.w)'
      BY <3>1, <3>2 DEF Busy
    <3> QED BY <1>6, <3>1, <3>2, <3>3
  <2> QED BY <2>1, <2>2, <2>3 DEF ReportersRest
<1>11. NoneForgotten'
  <2> SUFFICES ASSUME AtWork', NEW i \in InState(segs', "Active")
               PROVE  Held(i)'
    BY DEF NoneForgotten, AtWork
  <2>1. Held(i) /\ i \notin X
    BY DEF Holding, NoneForgotten, AtWork
  <2>2. CASE \E w \in Workers : Busy(w) /\ asg[w].idx = i
    BY <1>4, <2>2 DEF Held
  <2>3. CASE \E k \in News : events[k].idx = i
    <3>1. PICK k \in News : events[k].idx = i
      BY <2>3
    <3>2. k # 1
      BY <1>5, <2>1, <3>1 DEF h
    <3>3. \E j \in News' : events'[j] = events[k]
      BY <1>1, <3>1, <3>2
    <3> QED BY <3>1, <3>3 DEF Held
  <2> QED BY <2>1, <2>2, <2>3 DEF Held
<1> QED BY <1>8, <1>9, <1>10, <1>11 DEF Holding

\* The handler finds work for a worker that rests: segment i, which nobody had.
LEMMA WorkHandedOut ==
    ASSUME Holding, UNCHANGED <<wpc, asg, events>>, AtWork' => AtWork, ~Sending,
           NEW i, i \notin InState(segs, "Active"),
           InState(segs', "Active") = InState(segs, "Active") \cup {i},
           \A j \in InState(segs, "Active") : segs'[j].start = segs[j].start,
           Sending', job'.asg.idx = i, GoodAssignment(job'.asg), job'.asg.start = segs'[i].start,
           job'.w \in Workers, ~Busy(job'.w), \A k \in News : events[k].w # job'.w
    PROVE  Holding'
<1>1. News' = News
  BY DEF News
<1>2. \A w : Busy(w)' <=> Busy(w)
  BY DEF Busy
<1>3. /\ \A w \in Workers : Busy(w) => asg[w].idx # i
      /\ \A k \in News : events[k].idx # i
  BY DEF Holding, HoldersActive
<1>4. HoldersActive'
  <2>1. \A w \in Workers : Busy(w)' =>
            asg'[w].idx \in InState(segs', "Active") /\ asg'[w].start = segs'[asg'[w].idx].start
    BY <1>2 DEF Holding, HoldersActive
  <2>2. \A k \in News' : events'[k].idx \in InState(segs', "Active")
    BY <1>1 DEF Holding, HoldersActive
  <2>3. GoodAssignment(job.asg)'
    BY DEF GoodAssignment
  <2> QED BY <2>1, <2>2, <2>3 DEF HoldersActive
<1>5. OneHolder'
  <2>1. \A w, v \in Workers : Busy(w)' /\ Busy(v)' /\ asg'[w].idx = asg'[v].idx => w = v
    BY <1>2 DEF Holding, OneHolder
  <2>2. \A k, l \in News' : events'[k].idx = events'[l].idx => k = l
    BY <1>1 DEF Holding, OneHolder
  <2>3. \A w \in Workers, k \in News' : Busy(w)' => asg'[w].idx # events'[k].idx
    BY <1>1, <1>2 DEF Holding, OneHolder
  <2>4. /\ \A w \in Workers : Busy(w)' => asg'[w].idx # job'.asg.idx
        /\ \A k \in News' : events'[k].idx # job'.asg.idx
    BY <1>1, <1>2, <1>3
  <2> QED BY <2>1, <2>2, <2>3, <2>4 DEF OneHolder
<1>6. ReportersRest'
  <2>1. /\ \A k \in News' : events'[k].w \in Workers /\ ~Busy(events[k].w)'
        /\ \A k, l \in News' : events'[k].w = events'[l].w => k = l
    BY <1>1, <1>2 DEF Holding, ReportersRest
  <2>2. ~Busy(job.w)'
    BY DEF Busy
  <2> QED BY <1>1, <2>1, <2>2 DEF ReportersRest, Busy
<1>7. NoneForgotten'
  BY <1>1, <1>2 DEF Holding, NoneForgotten, Held, AtWork
<1> QED BY <1>4, <1>5, <1>6, <1>7 DEF Holding

\* The worker gets what the handler kept for it.
LEMMA WorkSent ==
    ASSUME Holding, wpc \in [Workers -> WorkerPCs], asg \in [Workers -> Assignments], Sending,
           wpc' = [wpc EXCEPT ![job.w] = "assigned"], asg' = [asg EXCEPT ![job.w] = job.asg],
           UNCHANGED <<events, segs>>, ~Sending', ~Engaged', AtWork' => AtWork
    PROVE  Holding'
<1>1. News' = News
  BY DEF News
<1>2. job.w \in Workers /\ ~Busy(job.w) /\ \A k \in News : events[k].w # job.w
  BY DEF Holding, ReportersRest, Engaged, Sending
<1>3. \A w \in Workers :
        /\ Busy(w)' <=> (Busy(w) \/ w = job.w)
        /\ asg'[w] = IF w = job.w THEN job.asg ELSE asg[w]
  BY <1>2 DEF Busy
<1>4. HoldersActive'
  <2>1. \A w \in Workers : Busy(w)' =>
            asg'[w].idx \in InState(segs', "Active") /\ asg'[w].start = segs'[asg'[w].idx].start
    BY <1>3 DEF Holding, HoldersActive
  <2> QED BY <1>1, <2>1 DEF Holding, HoldersActive
<1>5. OneHolder'
  <2>1. \A w, v \in Workers : Busy(w)' /\ Busy(v)' /\ asg'[w].idx = asg'[v].idx => w = v
    BY <1>2, <1>3 DEF Holding, OneHolder
  <2>2. \A w \in Workers, k \in News' : Busy(w)' => asg'[w].idx # events'[k].idx
    BY <1>1, <1>3 DEF Holding, OneHolder
  <2> QED BY <1>1, <2>1, <2>2 DEF Holding, OneHolder
<1>6. ReportersRest'
  <2>1. \A k \in News' : events'[k].w \in Workers /\ ~Busy(events[k].w)'
    BY <1>1, <1>2, <1>3 DEF Holding, ReportersRest
  <2> QED BY <1>1, <2>1 DEF Holding, ReportersRest, Busy
<1>7. NoneForgotten'
  <2> SUFFICES ASSUME AtWork', NEW i \in InState(segs', "Active")
               PROVE  Held(i)'
    BY DEF NoneForgotten, AtWork
  <2>1. Held(i)
    BY DEF Holding, NoneForgotten, AtWork
  <2>2. CASE \E w \in Workers : Busy(w) /\ asg[w].idx = i
    BY <1>2, <1>3, <2>2 DEF Held
  <2>3. CASE \E k \in News : events[k].idx = i
    BY <1>1, <2>3 DEF Held
  <2>4. CASE job.asg.idx = i
    BY <1>2, <1>3, <2>4 DEF Held
  <2> QED BY <2>1, <2>2, <2>3, <2>4 DEF Held
<1> QED BY <1>4, <1>5, <1>6, <1>7 DEF Holding

\* A worker goes on with the segment it has, or leaves without a word when the
\* run is stopped; a verdict may be sent.
LEMMA WorkerGoesOn ==
    ASSUME Holding, UNCHANGED <<segs, job, cpc, stopped>>, NEW w \in Workers,
           Busy(w)' => Busy(w), Busy(w) => Busy(w)' \/ stopped,
           \A v \in Workers \ {w} : Busy(v)' <=> Busy(v),
           \A v \in Workers : Busy(v)' => asg'[v].idx = asg[v].idx /\ asg'[v].start = asg[v].start,
           News' = News, \A k \in News : events'[k] = events[k]
    PROVE  Holding'
<1>1. \A v \in Workers : Busy(v)' => Busy(v)
  OBVIOUS
<1>2. HoldersActive'
  BY <1>1 DEF Holding, HoldersActive, Sending, GoodAssignment
<1>3. OneHolder'
  BY <1>1 DEF Holding, OneHolder, Sending
<1>4. ReportersRest'
  <2>1. \A k \in News' : events'[k].w \in Workers /\ ~Busy(events[k].w)'
    BY <1>1 DEF Holding, ReportersRest
  <2>2. Engaged' => job'.w \in Workers /\ ~Busy(job.w)' /\ \A k \in News' : events'[k].w # job'.w
    BY <1>1 DEF Holding, ReportersRest, Engaged
  <2> QED BY <2>1, <2>2 DEF Holding, ReportersRest, Busy
<1>5. NoneForgotten'
  <2> SUFFICES ASSUME AtWork', NEW i \in InState(segs', "Active")
               PROVE  Held(i)'
    BY DEF NoneForgotten, AtWork
  <2>1. Held(i) /\ ~stopped
    BY DEF Holding, NoneForgotten, AtWork
  <2>2. \A v \in Workers : Busy(v)' <=> Busy(v)
    BY <2>1
  <2> QED BY <2>1, <2>2 DEF Held, Sending
<1> QED BY <1>2, <1>3, <1>4, <1>5 DEF Holding

\* A worker reports and rests.
LEMMA WorkerReports ==
    ASSUME Holding, UNCHANGED <<segs, job, cpc, stopped>>, NEW w \in Workers,
           Busy(w), ~Busy(w)', \A v \in Workers \ {w} : Busy(v)' <=> Busy(v),
           \A v \in Workers \ {w} : asg'[v] = asg[v],
           events \in Seq(EventRecs), NEW e \in EventRecs, events' = Append(events, e),
           e.kind \notin Verdicts, e.w = w, e.idx = asg[w].idx
    PROVE  Holding'
<1> DEFINE z == Len(events) + 1
<1>1. /\ \A k \in News : k \in News' /\ events'[k] = events[k]
      /\ \A k \in News' : \/ k \in News /\ events'[k] = events[k]
                          \/ k \notin News /\ events'[k] = e /\ k = z
      /\ z \in News' /\ events'[z] = e
  BY EventAppended
<1> HIDE DEF z
<1>2. \A v \in Workers : Busy(v)' <=> Busy(v) /\ v # w
  OBVIOUS
<1>3. HoldersActive'
  <2>1. \A v \in Workers : Busy(v)' =>
            asg'[v].idx \in InState(segs', "Active") /\ asg'[v].start = segs'[asg'[v].idx].start
    BY <1>2 DEF Holding, HoldersActive
  <2>2. \A k \in News' : events'[k].idx \in InState(segs', "Active")
    BY <1>1 DEF Holding, HoldersActive
  <2>3. Sending' => /\ job'.asg.idx \in InState(segs', "Active") /\ GoodAssignment(job.asg)'
                    /\ job'.asg.start = segs'[job'.asg.idx].start
    BY DEF Holding, HoldersActive, Sending, GoodAssignment
  <2> QED BY <2>1, <2>2, <2>3 DEF HoldersActive, GoodAssignment
<1>4. OneHolder'
  <2>1. \A u, v \in Workers : Busy(u)' /\ Busy(v)' /\ asg'[u].idx = asg'[v].idx => u = v
    BY <1>2 DEF Holding, OneHolder
  <2>2. ASSUME NEW k \in News', NEW l \in News', events'[k].idx = events'[l].idx
        PROVE  k = l
    <3>1. \A j \in News : events[j].idx # e.idx
      BY DEF Holding, OneHolder
    <3>2. \A a, b \in News : events[a].idx = events[b].idx => a = b
      BY DEF Holding, OneHolder
    <3>3. \/ k \in News /\ events'[k] = events[k]
          \/ events'[k] = e /\ k = z
      BY <1>1
    <3>4. \/ l \in News /\ events'[l] = events[l]
          \/ events'[l] = e /\ l = z
      BY <1>1
    <3> QED BY <2>2, <3>1, <3>2, <3>3, <3>4
  <2>3. ASSUME NEW v \in Workers, NEW k \in News', Busy(v)'
        PROVE  asg'[v].idx # events'[k].idx
    <3>1. Busy(v) /\ v # w /\ asg'[v] = asg[v]
      BY <1>2, <2>3
    <3>2. /\ asg[v].idx # asg[w].idx
          /\ \A j \in News : events[j].idx # asg[v].idx
      BY <3>1 DEF Holding, OneHolder
    <3>3. \/ k \in News /\ events'[k] = events[k]
          \/ events'[k] = e
      BY <1>1
    <3> QED BY <3>1, <3>2, <3>3
  <2>4. Sending' => /\ \A v \in Workers : Busy(v)' => asg'[v].idx # job'.asg.idx
                    /\ \A k \in News' : events'[k].idx # job'.asg.idx
    BY <1>1, <1>2 DEF Holding, OneHolder, Sending
  <2> QED BY <2>1, <2>2, <2>3, <2>4 DEF OneHolder
<1>5. ReportersRest'
  <2>1. ASSUME NEW k \in News'
        PROVE  events'[k].w \in Workers /\ ~Busy(events[k].w)'
    <3>1. \A j \in News : events[j].w \in Workers /\ ~Busy(events[j].w)
      BY DEF Holding, ReportersRest
    <3>2. \/ k \in News /\ events'[k] = events[k]
          \/ events'[k] = e
      BY <1>1
    <3>3. CASE k \in News /\ events'[k] = events[k]
      <4>1. events[k].w \in Workers /\ ~Busy(events[k].w)
        BY <3>1, <3>3
      <4>2. events'[k].w \in Workers /\ wpc'[events'[k].w] \in {"gone", "wait"}
        BY <1>2, <3>3, <4>1 DEF Busy
      <4> QED BY <4>2 DEF Busy
    <3>4. CASE events'[k] = e
      BY <3>4 DEF Busy
    <3> QED BY <3>2, <3>3, <3>4
  <2>2. ASSUME NEW k \in News', NEW l \in News', events'[k].w = events'[l].w
        PROVE  k = l
    <3>1. \A j \in News : events[j].w # w
      BY DEF Holding, ReportersRest
    <3>2. \A a, b \in News : events[a].w = events[b].w => a = b
      BY DEF Holding, ReportersRest
    <3>3. \/ k \in News /\ events'[k] = events[k]
          \/ events'[k] = e /\ k = z
      BY <1>1
    <3>4. \/ l \in News /\ events'[l] = events[l]
          \/ events'[l] = e /\ l = z
      BY <1>1
    <3> QED BY <2>2, <3>1, <3>2, <3>3, <3>4
  <2>3. ASSUME Engaged'
        PROVE  /\ job'.w \in Workers /\ ~Busy(job.w)'
               /\ \A k \in News' : events'[k].w # job'.w
    <3>1. /\ job.w \in Workers /\ ~Busy(job.w) /\ job' = job
          /\ \A j \in News : events[j].w # job.w
      BY <2>3 DEF Holding, ReportersRest, Engaged
    <3>2. ~Busy(job.w)' /\ job.w # w
      BY <3>1 DEF Busy
    <3> QED BY <1>1, <3>1, <3>2
  <2> QED BY <2>1, <2>2, <2>3 DEF ReportersRest
<1>6. NoneForgotten'
  <2> SUFFICES ASSUME AtWork', NEW i \in InState(segs', "Active")
               PROVE  Held(i)'
    BY DEF NoneForgotten, AtWork
  <2>1. Held(i)
    BY DEF Holding, NoneForgotten, AtWork
  <2>2. CASE \E v \in Workers : Busy(v) /\ asg[v].idx = i
    <3>1. PICK v \in Workers : Busy(v) /\ asg[v].idx = i
      BY <2>2
    <3>2. CASE v = w
      BY <1>1, <3>1, <3>2 DEF Held
    <3>3. CASE v # w
      BY <1>2, <3>1, <3>3 DEF Held
    <3> QED BY <3>2, <3>3
  <2>3. CASE \E k \in News : events[k].idx = i
    BY <1>1, <2>3 DEF Held
  <2>4. CASE Sending /\ job.asg.idx = i
    BY <2>4 DEF Held, Sending
  <2> QED BY <2>1, <2>2, <2>3, <2>4 DEF Held
<1> QED BY <1>3, <1>4, <1>5, <1>6 DEF Holding

\* Nobody is left at work.
LEMMA NobodyHolds ==
    ASSUME events' = <<>>, \A w \in Workers : ~Busy(w)', ~Sending', ~Engaged',
           InState(segs', "Active") = {}
    PROVE  Holding'
<1>1. News' = {}
  <2>1. DOMAIN events' = {}
    OBVIOUS
  <2> QED BY <2>1 DEF News
<1> QED BY <1>1 DEF Holding, HoldersActive, OneHolder, ReportersRest, NoneForgotten
-----------------------------------------------------------------------------
(***************************************************************************)
(* The start of a run.                                                     *)
(***************************************************************************)

\* The places of the members of a finite set of numbers tell them apart.
LEMMA RankFacts ==
    ASSUME NEW n \in Nat, NEW P, P \subseteq 0 .. n - 1
    PROVE  /\ \A i \in P : Cardinality({k \in P : k <= i}) \in Nat \ {0}
           /\ \A i, j \in P :
                Cardinality({k \in P : k <= i}) = Cardinality({k \in P : k <= j}) => i = j
<1> DEFINE below(i) == {k \in P : k <= i}
<1>0. P \subseteq Int
  OBVIOUS
<1>1. IsFiniteSet(P)
  <2>1. IsFiniteSet(0 .. n - 1)
    BY FS_Interval
  <2> QED BY <2>1, FS_Subset
<1>2. \A i \in P : IsFiniteSet(below(i))
  BY <1>1, FS_Subset
<1>3. \A i \in P : i \in below(i) /\ i \in Int
  OBVIOUS
<1>4. ASSUME NEW i \in P, NEW j \in P, i < j
      PROVE  Cardinality(below(i)) # Cardinality(below(j))
  <2>1. below(i) \in SUBSET below(j) /\ j \notin below(i) /\ j \in below(j)
    <3>1. i \in Int /\ j \in Int /\ \A k \in P : k \in Int
      BY <1>0
    <3>2. \A k \in below(i) : k \in below(j)
      BY <1>4, <3>1
    <3>3. j \notin below(i) /\ j \in below(j)
      BY <1>4, <3>1
    <3> QED BY <3>2, <3>3
  <2> HIDE DEF below
  <2> QED BY <1>2, <2>1, FS_Subset
<1>5. \A i \in P : Cardinality(below(i)) \in Nat \ {0}
  <2> HIDE DEF below
  <2> QED BY <1>2, <1>3, FS_CardinalityType, FS_EmptySet
<1>6. \A i, j \in P : Cardinality(below(i)) = Cardinality(below(j)) => i = j
  <2> HIDE DEF below
  <2> QED BY <1>3, <1>4
<1> QED BY <1>5, <1>6

\* Nobody is at work before a run has its map.
LEMMA NobodyYet ==
    ASSUME CoordInv, ~Running
    PROVE  News = {} /\ (\A w \in Workers : ~Busy(w)) /\ job.then = "loop"
<1>1. InState(segs, "Active") = {} /\ job.then = "loop"
  BY DEF CoordInv, Types, CoordTypes, Running, InState
<1> QED BY <1>1 DEF CoordInv, HoldersActive

\* A run is launched on any sound map without active segments: the first Pending
\* ones become active, each held by the worker it is given to.
LEMMA LaunchKeeps ==
    ASSUME CoordInv, ~Running, NEW t \in Nat \ {0}, NEW n, NEW m, Sound(m, n, t),
           \A i \in DOMAIN m : m[i].st # "Active",
           rows' = [i \in DOMAIN m |-> Row(m[i])], taskTotal' = t,
           Launch(m, t, n), UnchangedByLaunch
    PROVE  CoordInv'
<1> DEFINE pend == InState(m, "Pending")
           fromZero == {i \in pend : m[i].start + m[i].dl = 0}
           limit(a) == IF fromZero # {} THEN 1 ELSE a
           rank(i) == Cardinality({j \in pend : j <= i})
           chosen(a) == {i \in pend : rank(i) <= limit(a)}
           team(a) == {rank(i) : i \in chosen(a)}
           segOf(a, w) == CHOOSE i \in chosen(a) : rank(i) = w
<1>1. PICK a \in 1 .. MaxAllowed :
        /\ segs' = [i \in DOMAIN m |->
                       IF i \in chosen(a) THEN [m[i] EXCEPT !.st = "Active"] ELSE m[i]]
        /\ nextIdx' = n
        /\ total' = t
        /\ shared' = [i \in DOMAIN m |-> [end |-> m[i].end, dl |-> m[i].dl]]
        /\ openSeg' = IF fromZero # {} THEN Least(fromZero) ELSE NoSeg
        /\ wpc' = [w \in Workers |-> IF w \in team(a) THEN "assigned" ELSE "gone"]
        /\ asg' = [w \in Workers |->
                      IF w \in team(a)
                      THEN Assignment(m[segOf(a, w)], segOf(a, w), segOf(a, w) \in fromZero,
                                      estimate /\ segOf(a, w) \in fromZero)
                      ELSE NoWork]
        /\ cpc' \in {"ended", "loop"}
  BY DEF Launch
<1> DEFINE C == chosen(a)
           T == team(a)
           S(w) == segOf(a, w)
<1>2. /\ job' = job /\ late' = late /\ events' = events /\ got' = got /\ chunk' = chunk
      /\ estimate' = estimate /\ stopped' = stopped
  BY DEF UnchangedByLaunch
<1>3. News = {} /\ (\A w \in Workers : ~Busy(w)) /\ job.then = "loop"
  BY NobodyYet
<1>4. \A i \in DOMAIN m : /\ m[i] \in SegRecs /\ i \in Nat /\ i \in 0 .. n - 1
                          /\ 0 <= m[i].start /\ m[i].start <= m[i].end
  <2>1. t \in Nat
    OBVIOUS
  <2> QED BY <2>1, SoundSegment DEF Sound, MapBelow
<1>5. pend \subseteq DOMAIN m /\ pend \subseteq 0 .. n - 1 /\ n \in Nat /\ fromZero \in SUBSET Nat
  BY <1>4 DEF InState, Sound, MapBelow
<1>6. /\ \A i \in pend : rank(i) \in Nat \ {0}
      /\ \A i, j \in pend : rank(i) = rank(j) => i = j
  BY <1>5, RankFacts
<1>7. C \subseteq pend /\ T \subseteq Workers
  <2>1. MaxAllowed \in Nat /\ 1 .. MaxAllowed \subseteq Workers
    BY CoordinatorAssumption, WorkersAssumption
  <2>2. limit(a) <= MaxAllowed
    BY <2>1
  <2> HIDE DEF limit, pend, rank
  <2>3. \A i \in C : rank(i) \in 1 .. MaxAllowed
    <3>1. ASSUME NEW i \in C
          PROVE  rank(i) \in Nat \ {0} /\ rank(i) <= limit(a)
      BY <1>6
    <3>2. limit(a) \in Int
      BY DEF limit
    <3> QED BY <2>1, <2>2, <3>1, <3>2
  <2> QED BY <2>1, <2>3
<1>8. \A w \in T : S(w) \in C /\ rank(S(w)) = w
  <2> HIDE DEF rank, chosen
  <2> QED OBVIOUS
<1>9. \A i \in C : rank(i) \in T
  <2> HIDE DEF rank, chosen
  <2> QED OBVIOUS
<1>10. fromZero # {} => Least(fromZero) \in DOMAIN m
  <2>1. fromZero \subseteq DOMAIN m
    BY <1>5
  <2> HIDE DEF fromZero
  <2> QED BY <1>5, <2>1, LeastIsMin
<1> HIDE DEF chosen, team, segOf, rank, limit
<1>11. /\ DOMAIN segs' = DOMAIN m
       /\ \A i \in DOMAIN m :
            /\ segs'[i] \in SegRecs /\ segs'[i].start = m[i].start /\ segs'[i].end = m[i].end
            /\ segs'[i].dl = m[i].dl
            /\ segs'[i].st = IF i \in C THEN "Active" ELSE m[i].st
  <2> HIDE DEF C, pend, fromZero
  <2>1. DOMAIN segs' = DOMAIN m
    BY <1>1 DEF C
  <2>2. ASSUME NEW i \in DOMAIN m
        PROVE  /\ segs'[i] \in SegRecs /\ segs'[i].start = m[i].start /\ segs'[i].end = m[i].end
               /\ segs'[i].dl = m[i].dl
               /\ segs'[i].st = IF i \in C THEN "Active" ELSE m[i].st
    <3>1. segs'[i] = IF i \in C THEN [m[i] EXCEPT !.st = "Active"] ELSE m[i]
      BY <1>1 DEF C
    <3>2. m[i] \in SegRecs
      BY <1>4
    <3> QED BY <3>1, <3>2 DEF SegRecs, States
  <2> QED BY <2>1, <2>2
<1>12. Sound(segs', n, t)
  <2>1. segs' \in [DOMAIN segs' -> SegRecs]
    BY <1>1, <1>11
  <2>2. t \in Nat
    OBVIOUS
  <2>3. \A c : c = segs' => Sound(c, n, t)
    <3> HIDE DEF C, pend, fromZero
    <3> QED BY <1>11, <2>1, <2>2, SameBounds
  <2> QED BY <2>3
<1>13. InState(segs', "Active") = C
  BY <1>5, <1>7, <1>11 DEF InState
<1>14. \A w \in Workers :
         /\ asg'[w] \in Assignments /\ asg'[w].start <= asg'[w].from /\ asg'[w].start <= asg'[w].end
         /\ w \in T => asg'[w].idx = S(w) /\ asg'[w].start = segs'[S(w)].start
  <2> SUFFICES ASSUME NEW w \in Workers
               PROVE  /\ asg'[w] \in Assignments /\ asg'[w].start <= asg'[w].from
                      /\ asg'[w].start <= asg'[w].end
                      /\ w \in T => asg'[w].idx = S(w) /\ asg'[w].start = segs'[S(w)].start
    OBVIOUS
  <2>1. CASE w \in T
    <3> DEFINE i == S(w)
               z == i \in fromZero
               y == estimate /\ i \in fromZero
    <3>1. asg'[w] = Assignment(m[i], i, z, y)
      <4> HIDE DEF fromZero
      <4> QED BY <1>1, <2>1
    <3>2. i \in DOMAIN m
      BY <1>5, <1>7, <1>8, <2>1
    <3>3. z \in BOOLEAN /\ y \in BOOLEAN
      OBVIOUS
    <3> HIDE DEF S, fromZero, C, pend, T, z, y
    <3>4. m[i] \in SegRecs /\ i \in Nat /\ m[i].start <= m[i].end /\ segs'[i].start = m[i].start
      BY <1>4, <1>11, <3>2
    <3> HIDE DEF i
    <3> QED BY <3>1, <3>3, <3>4 DEF Assignment, Assignments, SegRecs, i
  <2>2. CASE w \notin T
    <3>1. asg'[w] = NoWork
      <4> HIDE DEF fromZero
      <4> QED BY <1>1, <2>2
    <3> QED BY <2>2, <3>1 DEF NoWork, Assignments
  <2> QED BY <2>1, <2>2
<1>15. \A w \in Workers : Busy(w)' <=> w \in T
  <2> HIDE DEF fromZero
  <2> QED BY <1>1 DEF Busy
<1>16. Types'
  <2>1. CoordTypes'
    BY <1>1, <1>2, <1>3 DEF CoordInv, Types, CoordTypes, Running
  <2>2. MapTypes'
    BY <1>1, <1>10, <1>11, <1>12 DEF MapTypes, Sound
  <2>3. WorkerTypes'
    <3>1. \A i \in DOMAIN shared' : shared'[i] \in [end : Int, dl : Nat]
      BY <1>1, <1>4 DEF SegRecs
    <3>2. wpc' \in [Workers -> WorkerPCs]
      BY <1>1 DEF WorkerPCs
    <3>3. asg' \in [Workers -> Assignments]
      BY <1>1, <1>14
    <3> HIDE DEF C, T, S, pend, fromZero
    <3>4. got' \in [Workers -> Nat] /\ chunk' \in [Workers -> [len : Nat, cut : BOOLEAN]]
          /\ events' \in Seq(EventRecs)
      BY <1>2 DEF CoordInv, Types, WorkerTypes
    <3> QED BY <1>14, <3>1, <3>2, <3>3, <3>4 DEF WorkerTypes
  <2>4. RowTypes'
    <3>1. DOMAIN rows' \subseteq 0 .. n - 1 /\ n \in Nat
      BY <1>4, <1>5
    <3>2. \A i \in DOMAIN rows' : rows'[i] \in RowRecs /\ rows'[i].start <= rows'[i].end
      BY <1>4 DEF Row, RowRecs, SegRecs
    <3> QED BY <3>1, <3>2 DEF RowTypes
  <2> QED BY <2>1, <2>2, <2>3, <2>4 DEF Types
<1>17. Mapped' /\ RowsMatch' /\ JobSound'
  <2>1. Mapped'
    BY <1>1, <1>12 DEF Mapped, Sound
  <2>2. RowsMatch'
    BY <1>11 DEF RowsMatch, Row
  <2>3. JobSound'
    BY <1>1 DEF JobSound
  <2> QED BY <2>1, <2>2, <2>3
<1>18. Holding'
  <2>1. News' = {} /\ ~Sending' /\ ~Engaged'
    BY <1>1, <1>2, <1>3 DEF News, Sending, Engaged
  <2>2. HoldersActive'
    <3> HIDE DEF C, T, S, pend, fromZero
    <3> QED BY <1>8, <1>13, <1>14, <1>15, <2>1 DEF HoldersActive
  <2>3. OneHolder'
    <3>1. ASSUME NEW w \in Workers, NEW v \in Workers, w \in T, v \in T,
                 asg'[w].idx = asg'[v].idx
          PROVE  w = v
      <4> HIDE DEF C, T, S, pend, fromZero
      <4> QED BY <1>8, <1>14, <3>1
    <3> HIDE DEF C, T, S, pend, fromZero
    <3> QED BY <1>15, <2>1, <3>1 DEF OneHolder
  <2>4. ReportersRest'
    BY <2>1 DEF ReportersRest
  <2>5. NoneForgotten'
    <3> HIDE DEF T, S, fromZero
    <3>1. ASSUME NEW i \in C
          PROVE  \E w \in Workers : Busy(w)' /\ asg'[w].idx = i
      <4> DEFINE w == rank(i)
      <4> HIDE DEF C
      <4>1. w \in T /\ w \in Workers
        BY <1>7, <1>9
      <4>2. asg'[w].idx = S(w) /\ S(w) \in C /\ rank(S(w)) = rank(i) /\ Busy(w)'
        BY <1>8, <1>14, <1>15, <4>1
      <4>3. S(w) = i
        BY <1>6, <1>7, <4>2
      <4> QED BY <4>1, <4>2, <4>3
    <3> HIDE DEF C, pend
    <3> QED BY <1>13, <3>1 DEF NoneForgotten, Held
  <2> QED BY <2>2, <2>3, <2>4, <2>5 DEF Holding
<1> QED BY <1>16, <1>17, <1>18 DEF CoordInv, Holding

\* A first start, on the map build_fresh_segments gives.
LEMMA StartFreshKeeps ==
    ASSUME CoordInv, StartFresh
    PROVE  CoordInv'
<1>1. PICK n \in 1 .. MaxTotal :
        LET count == IF estimate THEN 1 ELSE Lesser(Plan, n)
        IN  /\ rows' = [i \in 0 .. count - 1 |-> Row(Fresh(count, n)[i])]
            /\ taskTotal' = n
            /\ Launch(Fresh(count, n), n, count)
  BY DEF StartFresh
<1> DEFINE count == IF estimate THEN 1 ELSE Lesser(Plan, n)
           m == Fresh(count, n)
<1>2. n \in Nat \ {0} /\ count \in Nat \ {0} /\ count <= n
  BY WorkersAssumption, CoordinatorAssumption DEF Lesser
<1>3. ~Running /\ UnchangedByLaunch
  BY DEF StartFresh, Running
<1>4. rows' = [i \in 0 .. count - 1 |-> Row(m[i])] /\ taskTotal' = n /\ Launch(m, n, count)
  BY <1>1
<1> HIDE DEF count
<1>5. Sound(m, count, n) /\ DOMAIN m = 0 .. count - 1 /\ \A i \in DOMAIN m : m[i].st # "Active"
  <2>1. \A c : c = Fresh(count, n) =>
          /\ Sound(c, count, n) /\ DOMAIN c = 0 .. count - 1
          /\ \A i \in DOMAIN c : c[i].st = "Pending"
    <3>1. n \in Nat
      BY <1>2
    <3> QED BY <1>2, <3>1, FreshIsSound
  <2> QED BY <2>1
<1> HIDE DEF m
<1> QED BY <1>2, <1>3, <1>4, <1>5, LaunchKeeps

\* A start over, after the rows were deleted.
LEMMA RebuildKeeps ==
    ASSUME CoordInv, Rebuild
    PROVE  CoordInv'
<1> DEFINE count == Lesser(Plan, total)
           m == Fresh(count, total)
<1>1. /\ rows' = [i \in 0 .. count - 1 |-> Row(m[i])] /\ taskTotal' = total
      /\ Launch(m, total, count) /\ UnchangedByLaunch /\ ~Running
  BY DEF Rebuild, Running
<1>2. total \in Nat \ {0} /\ count \in Nat \ {0} /\ count <= total
  BY CoordinatorAssumption DEF CoordInv, Types, CoordTypes, Lesser
<1> HIDE DEF count
<1>3. /\ Sound(m, count, total) /\ DOMAIN m = 0 .. count - 1
      /\ \A i \in DOMAIN m : m[i].st # "Active"
  <2>1. \A c : c = Fresh(count, total) =>
          /\ Sound(c, count, total) /\ DOMAIN c = 0 .. count - 1
          /\ \A i \in DOMAIN c : c[i].st = "Pending"
    <3>1. total \in Nat
      BY <1>2
    <3> QED BY <1>2, <3>1, FreshIsSound
  <2> QED BY <2>1
<1> HIDE DEF m
<1> QED BY <1>1, <1>2, <1>3, LaunchKeeps

\* The rows end somewhere.
LEMMA LastRowEnd ==
    ASSUME RowTypes, NEW S, S = {rows[i].end : i \in DOMAIN rows}, DOMAIN rows # {}
    PROVE  Greatest(S) \in Int /\ \A i \in DOMAIN rows : rows[i].end <= Greatest(S)
<1> DEFINE m == [i \in DOMAIN rows |-> Seg(rows[i].end, rows[i].end, 0, "Pending")]
<1>1. \A i \in DOMAIN rows : rows[i].end \in Int
  BY DEF RowTypes, RowRecs
<1>2. PICK n \in Nat : DOMAIN rows \subseteq 0 .. n - 1
  BY DEF RowTypes
<1>3. MapBelow(m, n)
  <2>1. \A i \in DOMAIN rows : m[i] \in SegRecs
    BY <1>1 DEF Seg, SegRecs, States
  <2> QED BY <1>2, <2>1 DEF MapBelow
<1>4. \A i \in DOMAIN rows : m[i].start = rows[i].end
  BY DEF Seg
<1>5. PICK x \in DOMAIN rows : \A y \in DOMAIN rows \ {x} : Before(m, y, x)
  <2>1. DOMAIN m = DOMAIN rows
    OBVIOUS
  <2> HIDE DEF m
  <2> QED BY <1>3, <2>1, FirstAndLast
<1>6. \A y \in DOMAIN rows : rows[y].end <= rows[x].end
  BY <1>1, <1>4, <1>5 DEF Before
<1>7. Greatest(S) \in S /\ \A y \in S : y <= Greatest(S)
  <2>1. rows[x].end \in S /\ \A y \in S : y <= rows[x].end
    BY <1>6
  <2> QED BY <2>1 DEF Greatest
<1> QED BY <1>1, <1>7

\* Rows that pass the check are a map of the file they cover.
LEMMA LoadedIsSound ==
    ASSUME RowTypes, DOMAIN rows # {},
           NEW S, S = {rows[i].end : i \in DOMAIN rows}, NEW t, t = Greatest(S) + 1,
           ValidateCoverage(Loaded, t),
           NEW next, next = Greatest(DOMAIN rows) + 1
    PROVE  /\ t \in Nat \ {0} /\ Sound(Loaded, next, t) /\ DOMAIN Loaded = DOMAIN rows
           /\ \A i \in DOMAIN rows : Loaded[i].st # "Active"
<1>1. DOMAIN Loaded = DOMAIN rows
  BY DEF Loaded
<1>2. ASSUME NEW i \in DOMAIN rows
      PROVE  /\ Loaded[i] \in SegRecs /\ Loaded[i].start <= Loaded[i].end
             /\ Loaded[i].start = rows[i].start /\ Loaded[i].end = rows[i].end
             /\ rows[i].end \in Int /\ rows[i].start <= rows[i].end /\ Loaded[i].st # "Active"
  <2>1. /\ rows[i] \in RowRecs /\ rows[i].start <= rows[i].end
    BY DEF RowTypes
  <2>2. \E st \in States : /\ Loaded[i] = Seg(rows[i].start, rows[i].end, rows[i].dl, st)
                           /\ st # "Active"
    BY DEF Loaded, States
  <2> QED BY <2>1, <2>2 DEF RowRecs, Seg, SegRecs
<1>3. PICK n \in Nat : DOMAIN rows \subseteq 0 .. n - 1
  BY DEF RowTypes
<1>4. Greatest(DOMAIN rows) \in DOMAIN rows /\ \A y \in DOMAIN rows : y <= Greatest(DOMAIN rows)
  <2>1. DOMAIN rows \in SUBSET Int /\ n \in Int /\ \A x \in DOMAIN rows : x <= n
    BY <1>3
  <2> QED BY <2>1, GreatestIsMax
<1>5. MapBelow(Loaded, next)
  <2>1. next \in Nat /\ DOMAIN rows \subseteq 0 .. next - 1
    <3>1. \A y \in DOMAIN rows : y \in Nat
      BY <1>3
    <3> QED BY <1>4, <3>1
  <2> QED BY <1>1, <1>2, <2>1 DEF MapBelow, Loaded
<1>6. t \in Nat \ {0}
  <2>1. Greatest(S) \in Int /\ \A i \in DOMAIN rows : rows[i].end <= Greatest(S)
    BY LastRowEnd
  <2>2. PICK x \in DOMAIN Loaded : \A y \in DOMAIN Loaded \ {x} : Before(Loaded, x, y)
    BY <1>1, <1>5, FirstAndLast
  <2>3. \A j \in DOMAIN Loaded : ~Before(Loaded, j, x)
    BY <1>5, <2>2, BeforeIsOrder
  <2>4. rows[x].start = 0 /\ x \in DOMAIN rows
    BY <1>1, <1>2, <2>3 DEF ValidateCoverage
  <2> QED BY <1>2, <2>1, <2>4
<1>7. IsPartition(Loaded, t)
  <2>1. t \in Nat
    BY <1>6
  <2> QED BY <1>1, <1>2, <1>5, <2>1, CoverageMeansPartition
<1> QED BY <1>1, <1>2, <1>5, <1>6, <1>7 DEF Sound

\* The file check of a resume resets progress and moves no boundary.
LEMMA CheckedKeeps ==
    ASSUME NEW t \in Nat, NEW n, NEW m, Sound(m, n, t), NEW c, c = Checked(m, t),
           \A i \in DOMAIN m : m[i].st # "Active"
    PROVE  Sound(c, n, t) /\ DOMAIN c = DOMAIN m /\ \A i \in DOMAIN c : c[i].st # "Active"
<1>1. CASE c = m
  BY <1>1
<1>2. CASE c = [i \in DOMAIN m |-> [m[i] EXCEPT !.dl = 0, !.st = "Pending"]]
  <2>1. DOMAIN c = DOMAIN m
    BY <1>2
  <2>2. ASSUME NEW i \in DOMAIN m
        PROVE  /\ c[i] \in SegRecs /\ c[i].start = m[i].start /\ c[i].end = m[i].end
               /\ c[i].st = "Pending"
    <3>1. m[i] \in SegRecs
      BY DEF Sound, MapBelow
    <3>2. c[i] = [m[i] EXCEPT !.dl = 0, !.st = "Pending"]
      BY <1>2
    <3> DEFINE g == [m[i] EXCEPT !.dl = 0]
    <3>4. g \in SegRecs /\ g.start = m[i].start /\ g.end = m[i].end
      BY <3>1 DEF SegRecs
    <3>5. c[i] = [g EXCEPT !.st = "Pending"]
      BY <3>2
    <3> HIDE DEF g
    <3> QED BY <3>4, <3>5 DEF SegRecs, States
  <2>3. c \in [DOMAIN c -> SegRecs]
    BY <1>2, <2>2
  <2>4. Sound(c, n, t)
    BY <2>1, <2>2, <2>3, SameBounds
  <2> QED BY <2>1, <2>2, <2>4
<1> QED BY <1>1, <1>2 DEF Checked

\* A resume: rows that pass validate_coverage make a sound map, others are deleted.
LEMMA ResumeKeeps ==
    ASSUME CoordInv, Resume
    PROVE  CoordInv'
<1> DEFINE S == {rows[i].end : i \in DOMAIN rows}
           covered == Greatest(S) + 1
           m == Checked(Loaded, covered)
           next == Greatest(DOMAIN m) + 1
<1>1. PICK n \in 1 .. MaxTotal :
        \/ /\ ValidateCoverage(Loaded, covered)
           /\ rows' = [i \in DOMAIN m |-> Row(m[i])]
           /\ taskTotal' = covered
           /\ Launch(m, covered, next)
        \/ /\ rows' = <<>>
           /\ total' = n
           /\ cpc' = "rebuild"
           /\ UNCHANGED <<allowed, segs, nextIdx, fileLen, shared, anyData, verdict,
                          openSeg, slots, wpc, asg, result, taskTotal>>
  BY DEF Resume
<1>2. ~Running /\ UnchangedByLaunch /\ rows # <<>> /\ RowTypes
  BY DEF Resume, Running, CoordInv, Types
<1>3. CASE /\ ValidateCoverage(Loaded, covered)
           /\ rows' = [i \in DOMAIN m |-> Row(m[i])]
           /\ taskTotal' = covered
           /\ Launch(m, covered, next)
  <2>1. DOMAIN rows # {}
    BY <1>3 DEF ValidateCoverage, Loaded
  <2> HIDE DEF S
  <2>2. /\ covered \in Nat \ {0} /\ DOMAIN Loaded = DOMAIN rows
        /\ Sound(Loaded, Greatest(DOMAIN rows) + 1, covered)
        /\ \A i \in DOMAIN rows : Loaded[i].st # "Active"
    <3>1. \A t : t = Greatest(S) + 1 /\ ValidateCoverage(Loaded, t) =>
            /\ t \in Nat \ {0} /\ DOMAIN Loaded = DOMAIN rows
            /\ Sound(Loaded, Greatest(DOMAIN rows) + 1, t)
            /\ \A i \in DOMAIN rows : Loaded[i].st # "Active"
      BY <1>2, <2>1, LoadedIsSound DEF S
    <3> QED BY <1>3, <3>1
  <2> HIDE DEF covered
  <2>3. /\ Sound(m, Greatest(DOMAIN rows) + 1, covered) /\ DOMAIN m = DOMAIN rows
        /\ \A i \in DOMAIN m : m[i].st # "Active"
    <3>1. covered \in Nat
      BY <2>2
    <3>2. \A c : c = Checked(Loaded, covered) =>
            /\ Sound(c, Greatest(DOMAIN rows) + 1, covered) /\ DOMAIN c = DOMAIN rows
            /\ \A i \in DOMAIN c : c[i].st # "Active"
      BY <2>2, <3>1, CheckedKeeps
    <3> QED BY <3>2
  <2>4. Sound(m, next, covered) /\ Launch(m, covered, next)
    BY <1>3, <2>3
  <2> HIDE DEF m, next
  <2> QED BY <1>2, <1>3, <2>2, <2>3, <2>4, LaunchKeeps
<1>4. CASE /\ rows' = <<>>
           /\ total' = n
           /\ cpc' = "rebuild"
           /\ UNCHANGED <<allowed, segs, nextIdx, fileLen, shared, anyData, verdict,
                          openSeg, slots, wpc, asg, result, taskTotal>>
  <2>1. /\ job' = job /\ late' = late /\ events' = events /\ got' = got /\ chunk' = chunk
        /\ stopped' = stopped
    BY <1>2 DEF UnchangedByLaunch
  <2>2. job.then = "loop" /\ ~Running' /\ n \in Nat \ {0}
    BY <1>2, <1>4, NobodyYet DEF Running
  <2>3. Types'
    <3>1. CoordTypes'
      BY <1>2, <1>4, <2>1, <2>2 DEF CoordInv, Types, CoordTypes
    <3>2. MapTypes' /\ WorkerTypes'
      BY <1>4, <2>1 DEF CoordInv, Types, MapTypes, WorkerTypes
    <3>3. RowTypes'
      <4>1. DOMAIN rows' = {} /\ 0 \in Nat
        BY <1>4
      <4> QED BY <4>1 DEF RowTypes
    <3> QED BY <3>1, <3>2, <3>3 DEF Types
  <2>4. Mapped' /\ RowsMatch' /\ JobSound'
    BY <1>4, <2>2 DEF Mapped, RowsMatch, JobSound
  <2>5. Holding'
    <3>1. Holding
      BY DEF CoordInv, Holding
    <3>2. ~Sending /\ ~Sending' /\ ~Engaged' /\ ~AtWork' /\ SameActive
      BY <1>4, <2>1, <2>2 DEF Sending, Engaged, AtWork, SameActive
    <3> QED BY <1>4, <2>1, <3>1, <3>2, HoldersSame
  <2> QED BY <2>3, <2>4, <2>5 DEF CoordInv, Holding
<1> QED BY <1>1, <1>3, <1>4
-----------------------------------------------------------------------------
(***************************************************************************)
(* The statement of a handler, and what follows it.                        *)
(***************************************************************************)

\* What the invariant says of the map of a run.
LEMMA MapIsSound ==
    ASSUME CoordInv, Running
    PROVE  /\ Sound(segs, nextIdx, total) /\ total \in Nat \ {0} /\ total \in Nat
           /\ nextIdx \in Nat /\ NoSeg \notin DOMAIN segs
           /\ \A i \in DOMAIN segs :
                /\ segs[i] \in SegRecs /\ i \in 0 .. nextIdx - 1
                /\ segs[i].start \in Int /\ segs[i].start <= segs[i].end
<1>1. Sound(segs, nextIdx, total) /\ total \in Nat \ {0}
  BY DEF CoordInv, Types, CoordTypes, MapTypes, Mapped, Sound
<1>2. total \in Nat /\ nextIdx \in Nat /\ DOMAIN segs \subseteq 0 .. nextIdx - 1
  BY <1>1 DEF Sound, MapBelow
<1>3. NoSeg \notin DOMAIN segs
  BY <1>2 DEF NoSeg
<1>4. \A i \in DOMAIN segs : segs[i] \in SegRecs /\ segs[i].start <= segs[i].end
  BY <1>1, <1>2, SoundSegment
<1> QED BY <1>1, <1>2, <1>3, <1>4 DEF SegRecs

\* The rows after a statement are of segments of the map as well.
LEMMA CommitKeeps ==
    ASSUME CoordInv, cpc = "persist", rows' = Commit(rows, job.st),
           UNCHANGED <<segs, nextIdx, total>>, Running'
    PROVE  /\ RowTypes' /\ RowsMatch'
           /\ job.then = "merged" => DOMAIN rows' \cap job.st.del = {}
<1> DEFINE st == job.st
<1>1. Running
  BY DEF Running
<1>2. /\ Sound(segs, nextIdx, total) /\ total \in Nat /\ nextIdx \in Nat /\ NoSeg \notin DOMAIN segs
      /\ \A i \in DOMAIN segs :
           /\ segs[i] \in SegRecs /\ i \in 0 .. nextIdx - 1
           /\ segs[i].start \in Int /\ segs[i].start <= segs[i].end
  BY <1>1, MapIsSound
<1>3. /\ \A i \in DOMAIN st.put : i \in DOMAIN segs /\ st.put[i] = Row(segs[i])
      /\ st.par # NoSeg =>
            st.par \in DOMAIN segs /\ st.end \in Int /\ segs[st.par].start <= st.end
      /\ job.then = "merged" => DOMAIN st.put = {}
  BY DEF CoordInv, JobSound
<1>4. \A i \in DOMAIN rows :
        /\ i \in DOMAIN segs /\ rows[i].start = segs[i].start
        /\ rows[i] \in RowRecs /\ rows[i].start <= rows[i].end
  BY <1>1 DEF CoordInv, RowsMatch, Types, RowTypes
<1> HIDE DEF st
<1>5. /\ DOMAIN rows' = (DOMAIN rows \ st.del) \cup DOMAIN st.put
      /\ \A i \in DOMAIN rows' :
            rows'[i] = IF i \in DOMAIN st.put THEN st.put[i]
                       ELSE IF i = st.par THEN [rows[i] EXCEPT !.end = st.end] ELSE rows[i]
  BY DEF Commit, st
<1>6. ASSUME NEW i \in DOMAIN rows'
      PROVE  /\ i \in DOMAIN segs /\ rows'[i].start = segs[i].start
             /\ rows'[i] \in RowRecs /\ rows'[i].start <= rows'[i].end
  <2>1. CASE i \in DOMAIN st.put
    <3>1. rows'[i] = Row(segs[i]) /\ i \in DOMAIN segs
      BY <1>3, <1>5, <2>1
    <3> QED BY <1>2, <3>1 DEF Row, RowRecs, SegRecs
  <2>2. CASE i \notin DOMAIN st.put /\ i = st.par
    <3>1. i \in DOMAIN rows /\ rows'[i] = [rows[i] EXCEPT !.end = st.end]
      BY <1>5, <2>2
    <3>2. i \in DOMAIN segs /\ rows[i].start = segs[i].start /\ rows[i] \in RowRecs
      BY <1>4, <3>1
    <3>3. st.end \in Int /\ segs[i].start <= st.end
      BY <1>2, <1>3, <2>2, <3>2
    <3> QED BY <3>1, <3>2, <3>3 DEF RowRecs
  <2>3. CASE i \notin DOMAIN st.put /\ i # st.par
    BY <1>4, <1>5, <2>3
  <2> QED BY <2>1, <2>2, <2>3
<1>7. RowTypes'
  <2>1. DOMAIN rows' \subseteq 0 .. nextIdx - 1
    BY <1>2, <1>6
  <2> QED BY <1>2, <1>6, <2>1 DEF RowTypes
<1>8. RowsMatch'
  BY <1>6 DEF RowsMatch
<1>9. job.then = "merged" => DOMAIN rows' \cap job.st.del = {}
  BY <1>3, <1>5 DEF st
<1> QED BY <1>7, <1>8, <1>9

\* The statement of a handler is executed, or fails.
LEMMA PersistKeeps ==
    ASSUME CoordInv, Persist
    PROVE  CoordInv'
<1>1. /\ cpc = "persist"
      /\ UNCHANGED <<segs, nextIdx, openSeg, total, taskTotal, late, stopped, shared, events,
                     wpc, asg, got, chunk>>
  BY DEF Persist, mapVars, controlVars, sharedVars, localVars
<1>2. \/ rows' = Commit(rows, job.st) /\ cpc' = "resume" /\ UNCHANGED job
      \/ UNCHANGED rows /\ job.then = "merged" /\ cpc' = "loop" /\ job' = NoJob
      \/ UNCHANGED <<rows, job>> /\ job.then # "merged" /\ cpc' = "resume"
  BY DEF Persist
<1>3. Running /\ Running'
  BY <1>1, <1>2 DEF Running
<1>4. CoordTypes' /\ MapTypes' /\ WorkerTypes' /\ Mapped'
  <2>1. CoordTypes'
    BY <1>1, <1>2, <1>3 DEF CoordInv, Types, CoordTypes, NoJob
  <2>2. MapTypes' /\ WorkerTypes'
    BY <1>1 DEF CoordInv, Types, MapTypes, WorkerTypes
  <2>3. Mapped'
    BY <1>1, <1>3 DEF CoordInv, Mapped
  <2> QED BY <2>1, <2>2, <2>3
<1>5. RowTypes' /\ RowsMatch' /\ JobSound'
  <2>1. CASE rows' = Commit(rows, job.st) /\ cpc' = "resume" /\ UNCHANGED job
    <3>1. /\ RowTypes' /\ RowsMatch'
          /\ job.then = "merged" => DOMAIN rows' \cap job.st.del = {}
      BY <1>1, <1>3, <2>1, CommitKeeps
    <3>2. JobSound'
      BY <1>1, <2>1, <3>1 DEF CoordInv, JobSound
    <3> QED BY <3>1, <3>2
  <2>2. CASE UNCHANGED rows
    <3>1. RowTypes' /\ RowsMatch'
      BY <1>1, <1>3, <2>2 DEF CoordInv, Types, RowTypes, RowsMatch
    <3>2. CASE cpc' = "loop"
      BY <3>1, <3>2 DEF JobSound
    <3>3. CASE UNCHANGED job /\ job.then # "merged" /\ cpc' = "resume"
      BY <1>1, <3>1, <3>3 DEF CoordInv, JobSound
    <3>4. CASE rows' = Commit(rows, job.st) /\ cpc' = "resume" /\ UNCHANGED job
      BY <2>1, <3>4
    <3> QED BY <1>2, <3>2, <3>3, <3>4
  <2> QED BY <1>2, <2>1, <2>2
<1>6. Holding'
  <2>1. Holding
    BY DEF CoordInv, Holding
  <2>2. (Sending' <=> Sending) /\ (Sending => job' = job)
    BY <1>2 DEF Sending, NoJob
  <2>3. Engaged' => Engaged /\ job'.w = job.w
    BY <1>1, <1>2 DEF Engaged, NoJob
  <2>4. (AtWork' => AtWork) /\ SameActive
    BY <1>1, <1>2 DEF AtWork, SameActive
  <2> QED BY <1>1, <2>1, <2>2, <2>3, <2>4, HoldersSame
<1> QED BY <1>4, <1>5, <1>6 DEF CoordInv, Types, Holding

\* The handler goes on: a merge changes the map, an assignment is sent.
LEMMA ContinueKeeps ==
    ASSUME CoordInv, Continue
    PROVE  CoordInv'
<1> DEFINE sends == job.then \in {"send", "spawn"}
           m == IF job.then = "merged" THEN Merge(segs, job.st.par, job.st.del) ELSE segs
<1>1. /\ cpc = "resume"
      /\ segs' = m
      /\ shared' = Rebuilt(m)
      /\ taskTotal' = IF job.then = "grown" THEN total ELSE taskTotal
      /\ wpc' = IF sends THEN [wpc EXCEPT ![job.w] = "assigned"] ELSE wpc
      /\ asg' = IF sends THEN [asg EXCEPT ![job.w] = job.asg] ELSE asg
      /\ openSeg' = IF sends /\ job.asg.open THEN job.asg.idx ELSE openSeg
      /\ cpc' = CASE job.then = "spawn" -> "refill"
                  [] job.then = "short" -> "dispatch"
                  [] job.then = "grown" -> "redispatch"
                  [] OTHER -> "loop"
      /\ job' = IF job.then \in {"short", "grown"} THEN [NoJob EXCEPT !.w = job.w] ELSE NoJob
      /\ UNCHANGED <<nextIdx, late, total, stopped, events, got, chunk, rows>>
  BY DEF Continue, diskVars
<1>2. job.then \in {"loop", "send", "spawn", "short", "grown", "merged"}
  BY DEF CoordInv, Types, CoordTypes
<1>3. /\ cpc' \in {"refill", "dispatch", "redispatch", "loop"}
      /\ cpc' = "dispatch" => job.then = "short"
      /\ cpc' = "redispatch" => job.then = "grown"
      /\ job'.then = "loop"
      /\ job.then \in {"short", "grown"} => job'.w = job.w
  BY <1>1, <1>2 DEF NoJob
<1>4. Running /\ Running'
  BY <1>1, <1>3 DEF Running
<1>5. /\ Sound(segs, nextIdx, total) /\ total \in Nat \ {0} /\ total \in Nat
      /\ NoSeg \notin DOMAIN segs
  BY <1>4, MapIsSound
<1>6. /\ Sound(m, nextIdx, total)
      /\ \A i \in DOMAIN m : i \in DOMAIN segs /\ m[i].start = segs[i].start
      /\ InState(m, "Active") = InState(segs, "Active")
      /\ \A i \in DOMAIN rows : i \in DOMAIN m
      /\ openSeg # NoSeg => openSeg \in DOMAIN m
      /\ job.then # "merged" => m = segs
  <2>1. CASE job.then = "merged"
    <3> DEFINE p == job.st.par
               A == job.st.del
    <3>1. /\ p = openSeg /\ p \in InState(segs, "Active") /\ A = Absorbable(segs, p) /\ A # {}
          /\ DOMAIN rows \cap A = {}
      BY <1>1, <2>1 DEF CoordInv, JobSound
    <3> HIDE DEF p, A
    <3>2. \A c : c = Merge(segs, p, A) =>
            /\ Sound(c, nextIdx, total) /\ DOMAIN c = DOMAIN segs \ A /\ p \in DOMAIN c
            /\ InState(c, "Active") = InState(segs, "Active")
            /\ \A i \in DOMAIN c : c[i].start = segs[i].start
      BY <1>5, <3>1, MergeKeeps
    <3>3. m = Merge(segs, p, A)
      BY <2>1 DEF p, A
    <3> HIDE DEF m
    <3>4. DOMAIN rows \subseteq DOMAIN segs
      BY <1>4 DEF CoordInv, RowsMatch
    <3> QED BY <2>1, <3>1, <3>2, <3>3, <3>4
  <2>2. CASE job.then # "merged"
    BY <1>4, <1>5, <2>2 DEF CoordInv, RowsMatch, Types, MapTypes
  <2> QED BY <2>1, <2>2
<1> HIDE DEF m
<1>7. Types'
  <2>1. CoordTypes'
    BY <1>1, <1>3, <1>4, <1>5 DEF CoordInv, Types, CoordTypes
  <2>2. MapTypes'
    <3>1. MapBelow(segs', nextIdx')
      BY <1>1, <1>6 DEF Sound
    <3>2. sends => job.asg.idx \in DOMAIN segs
      BY DEF CoordInv, HoldersActive, Sending, InState
    <3>3. openSeg' = NoSeg \/ openSeg' \in DOMAIN segs'
      BY <1>1, <1>6, <3>2
    <3> QED BY <3>1, <3>3 DEF MapTypes
  <2>3. WorkerTypes'
    <3>1. WorkerTypes
      BY DEF CoordInv, Types
    <3>2. \A i \in DOMAIN shared' : shared'[i] \in [end : Int, dl : Nat]
      <4>1. \A i \in DOMAIN m : m[i] \in SegRecs
        BY <1>6 DEF Sound, MapBelow
      <4> QED BY <1>1, <3>1, <4>1 DEF WorkerTypes, Rebuilt, SegRecs
    <3>3. wpc' \in [Workers -> WorkerPCs]
      BY <1>1, <3>1 DEF WorkerTypes, WorkerPCs
    <3>4. sends => job.w \in Workers /\ GoodAssignment(job.asg)
      BY DEF CoordInv, HoldersActive, ReportersRest, Sending, Engaged
    <3>5. /\ asg' \in [Workers -> Assignments]
          /\ \A w \in Workers : asg'[w].start <= asg'[w].from /\ asg'[w].start <= asg'[w].end
      BY <1>1, <3>1, <3>4 DEF WorkerTypes, GoodAssignment
    <3> QED BY <1>1, <3>1, <3>2, <3>3, <3>5 DEF WorkerTypes
  <2>4. RowTypes'
    BY <1>1 DEF CoordInv, Types, RowTypes
  <2> QED BY <2>1, <2>2, <2>3, <2>4 DEF Types
<1>8. Mapped' /\ RowsMatch' /\ JobSound'
  <2>1. Mapped'
    BY <1>1, <1>6 DEF Mapped, Sound
  <2>2. RowsMatch'
    BY <1>1, <1>4, <1>6 DEF CoordInv, RowsMatch
  <2>3. JobSound'
    BY <1>3 DEF JobSound
  <2> QED BY <2>1, <2>2, <2>3
<1>9. Holding'
  <2>1. Holding /\ wpc \in [Workers -> WorkerPCs] /\ asg \in [Workers -> Assignments]
    BY DEF CoordInv, Holding, Types, WorkerTypes
  <2>2. ~Sending' /\ (AtWork' => AtWork)
    BY <1>1, <1>3 DEF Sending, AtWork
  <2>3. CASE sends
    <3>1. segs' = segs /\ ~Engaged' /\ Sending
      BY <1>1, <1>3, <1>6, <2>3 DEF Engaged, Sending
    <3> QED BY <1>1, <2>1, <2>2, <2>3, <3>1, WorkSent
  <2>4. CASE ~sends
    <3>1. ~Sending /\ SameActive
      <4>1. InState(segs, "Active") \subseteq DOMAIN m
        BY <1>6 DEF InState
      <4> QED BY <1>1, <1>6, <2>4, <4>1 DEF Sending, SameActive
    <3>2. Engaged' => Engaged /\ job'.w = job.w
      BY <1>3 DEF Engaged
    <3> QED BY <1>1, <2>1, <2>2, <2>4, <3>1, <3>2, HoldersSame
  <2> QED BY <2>3, <2>4
<1> QED BY <1>7, <1>8, <1>9 DEF CoordInv, Holding
-----------------------------------------------------------------------------
(***************************************************************************)
(* The event loop.                                                         *)
(***************************************************************************)

\* A handler changes the map and leaves the workers and the rows alone.
LEMMA HandlerKeeps ==
    ASSUME CoordInv, Running, Running',
           Sound(segs', nextIdx', total'), Carried(segs, segs'), total' \in Nat \ {0},
           UNCHANGED <<rows, shared, wpc, asg, got, chunk, late, taskTotal>>,
           events' = events \/ (events # <<>> /\ events' = Tail(events)),
           openSeg' = openSeg \/ openSeg' = NoSeg,
           cpc' \in {"loop", "dispatch", "redispatch", "persist", "refill", "ramp", "join"},
           job'.then \in {"loop", "send", "spawn", "short", "grown", "merged"},
           cpc' # "persist" => job'.then = "loop"
    PROVE  Types' /\ Mapped' /\ RowsMatch'
<1>1. CoordTypes'
  BY DEF CoordInv, Types, CoordTypes
<1>2. MapTypes'
  BY DEF CoordInv, Types, MapTypes, Sound, Carried
<1>3. WorkerTypes'
  <2>1. WorkerTypes
    BY DEF CoordInv, Types
  <2>2. events' \in Seq(EventRecs)
    BY <2>1, TailOfEvents DEF WorkerTypes
  <2> QED BY <2>1, <2>2 DEF WorkerTypes
<1>4. RowTypes'
  BY DEF CoordInv, Types, RowTypes
<1>5. Mapped' /\ RowsMatch'
  BY DEF CoordInv, Mapped, RowsMatch, Sound, Carried
<1> QED BY <1>1, <1>2, <1>3, <1>4, <1>5 DEF Types

\* The row of a segment, or of a segment and the one it was cut from.
LEMMA StatementSound ==
    ASSUME Sound(segs', nextIdx', total'), total' \in Nat, job'.then # "merged",
           NEW i \in DOMAIN segs',
           job'.st = Upsert(segs', i) \/ \E p \in DOMAIN segs' : job'.st = PersistSplit(segs', i, p)
    PROVE  JobSound'
<1>1. /\ \A k \in DOMAIN job'.st.put : k \in DOMAIN segs' /\ job'.st.put[k] = Row(segs'[k])
      /\ job'.st.del = {}
      /\ job'.st.par = NoSeg \/ \E p \in DOMAIN segs' : job'.st.par = p /\ job'.st.end = segs'[p].end
  <2>1. CASE job'.st = Upsert(segs', i)
    <3>1. /\ job'.st.put = [k \in {i} |-> Row(segs'[i])] /\ job'.st.del = {}
          /\ job'.st.par = NoSeg
      BY <2>1 DEF Upsert
    <3> QED BY <3>1
  <2>2. CASE \E p \in DOMAIN segs' : job'.st = PersistSplit(segs', i, p)
    <3>1. PICK p \in DOMAIN segs' : job'.st = PersistSplit(segs', i, p)
      BY <2>2
    <3>2. /\ job'.st.put = [k \in {i} |-> Row(segs'[i])] /\ job'.st.del = {}
          /\ job'.st.par = p /\ job'.st.end = segs'[p].end
      BY <3>1 DEF PersistSplit
    <3> QED BY <3>2
  <2> QED BY <2>1, <2>2
<1>2. \A p \in DOMAIN segs' : segs'[p].end \in Int /\ segs'[p].start <= segs'[p].end
  <2>1. \A c, n, t : Sound(c, n, t) /\ t \in Nat =>
          \A p \in DOMAIN c : c[p] \in SegRecs /\ c[p].start <= c[p].end
    BY SoundSegment
  <2>2. \A p \in DOMAIN segs' : segs'[p] \in SegRecs /\ segs'[p].start <= segs'[p].end
    BY <2>1
  <2> QED BY <2>2 DEF SegRecs
<1> QED BY <1>1, <1>2 DEF JobSound, Row

\* The Pending segments after the open stream, to be merged into it.
LEMMA AbsorbSound ==
    ASSUME Sound(segs', nextIdx', total'), total' \in Nat,
           openSeg' = NoSeg \/ openSeg' \in DOMAIN segs',
           ToAbsorb(segs', openSeg') # {}, cpc' = "persist",
           job' = Job(PersistMerge(openSeg', MergedEnd(segs', ToAbsorb(segs', openSeg')),
                                   ToAbsorb(segs', openSeg')), "merged", 0, NoWork)
    PROVE  JobSound'
<1> DEFINE A == ToAbsorb(segs', openSeg')
<1>1. openSeg' \in InState(segs', "Active") /\ A = Absorbable(segs', openSeg') /\ A # {}
  BY DEF ToAbsorb, InState
<1>2. MergedEnd(segs', A) \in Int /\ segs'[openSeg'].start <= MergedEnd(segs', A)
  <2>1. \A c, n, t, o :
          (Sound(c, n, t) /\ t \in Nat /\ o \in InState(c, "Active") /\ Absorbable(c, o) # {}) =>
          /\ MergedEnd(c, Absorbable(c, o)) \in Int
          /\ c[o].start <= MergedEnd(c, Absorbable(c, o))
    BY MergeKeeps
  <2>2. Absorbable(segs', openSeg') # {}
    BY <1>1
  <2> QED BY <1>1, <2>1, <2>2
<1>3. /\ job'.then = "merged" /\ job'.st.par = openSeg' /\ job'.st.del = A
      /\ job'.st.end = MergedEnd(segs', A) /\ DOMAIN job'.st.put = {}
  BY DEF Job, PersistMerge
<1>4. openSeg' \in DOMAIN segs'
  BY <1>1 DEF InState
<1> HIDE DEF A
<1> QED BY <1>1, <1>2, <1>3, <1>4 DEF JobSound

\* A report is about an active segment, which leaves the hands of the worker.
LEMMA ReportAtHead ==
    ASSUME CoordInv, NEW kinds, Handling(kinds), kinds \cap Verdicts = {}
    PROVE  /\ Running /\ AtWork /\ ~Sending /\ events # <<>> /\ events \in Seq(EventRecs) /\ Holding
           /\ Head(events).kind \notin Verdicts
           /\ Head(events).idx \in InState(segs, "Active") /\ Head(events).idx \in DOMAIN segs
           /\ Head(events) \in EventRecs /\ Head(events).n \in Nat
<1>1. cpc = "loop" /\ ~stopped /\ events # <<>> /\ Head(events).kind \in kinds
  BY DEF Handling, Looping
<1>2. Running /\ AtWork /\ ~Sending
  BY <1>1 DEF Running, AtWork, Sending, CoordInv, Types, CoordTypes
<1>3. events \in Seq(EventRecs) /\ Holding
  BY DEF CoordInv, Types, WorkerTypes, Holding
<1>4. Head(events) = events[1] /\ 1 \in DOMAIN events /\ Head(events) \in EventRecs
  <2>1. Len(events) \in Nat /\ Len(events) >= 1 /\ DOMAIN events = 1 .. Len(events)
    BY <1>1, <1>3, EmptySeq, LenProperties
  <2> QED BY <1>1, <1>3, <2>1, HeadTailProperties, ElementOfSeq
<1>5. 1 \in News
  BY <1>1, <1>4 DEF News
<1>6. events[1].idx \in InState(segs, "Active")
  BY <1>5 DEF CoordInv, HoldersActive
<1> QED BY <1>1, <1>2, <1>3, <1>4, <1>6 DEF InState, EventRecs

\* What follows for the holders when the handler of a report ends.
LEMMA ReportTaken ==
    ASSUME CoordInv, NEW kinds, Handling(kinds), kinds \cap Verdicts = {},
           UNCHANGED <<wpc, asg>>, AtWork' => AtWork, events' = Tail(events), ~Sending',
           Carried(segs, segs'),
           InState(segs', "Active") = InState(segs, "Active") \ {Head(events).idx},
           Engaged' => job'.w = Head(events).w
    PROVE  Holding'
<1>1. /\ ~Sending /\ events # <<>> /\ events \in Seq(EventRecs) /\ Holding
      /\ Head(events).kind \notin Verdicts
  BY ReportAtHead
<1>2. \A i \in InState(segs', "Active") : segs'[i].start = segs[i].start
  BY DEF Carried, InState
<1>3. \A X : X = (IF Head(events).kind \in Verdicts THEN {} ELSE {Head(events).idx}) => Holding'
  <2> SUFFICES ASSUME NEW X, X = IF Head(events).kind \in Verdicts THEN {} ELSE {Head(events).idx}
               PROVE  Holding'
    OBVIOUS
  <2>1. InState(segs', "Active") = InState(segs, "Active") \ X
    BY <1>1
  <2> QED BY <1>1, <1>2, <2>1, HeadTaken
<1> QED BY <1>3

\* A worker's segment is done: in full, or short of a boundary that moved.
LEMMA DoneKeeps ==
    ASSUME CoordInv, NEW e, HandleDone(e)
    PROVE  CoordInv'
<1>1. /\ Handling({"done"}) /\ e = Head(events) /\ events' = Tail(events)
      /\ openSeg' = openSeg \/ openSeg' = NoSeg
      /\ UNCHANGED <<rows, shared, wpc, asg, got, chunk, late, taskTotal, total, stopped>>
      /\ \/ /\ 0 < e.n /\ e.n < Size(segs[e.idx])
            /\ segs' = Shortfall(segs, e.idx, e.n, nextIdx)
            /\ nextIdx' = nextIdx + 1
            /\ job' = Job(PersistSplit(segs', nextIdx, e.idx), "short", e.w, NoWork)
            /\ cpc' = "persist"
         \/ /\ segs' = Finish(segs, e.idx, e.n)
            /\ job' = [NoJob EXCEPT !.w = e.w]
            /\ cpc' = "dispatch"
            /\ nextIdx' = nextIdx
  BY DEF HandleDone, ClearOpen, taskVars, controlVars, localVars, diskVars
<1>2. {"done"} \cap Verdicts = {}
  BY DEF Verdicts
<1>3. /\ Running /\ AtWork /\ events # <<>> /\ e.idx \in InState(segs, "Active")
      /\ e.idx \in DOMAIN segs /\ e.n \in Nat
  BY <1>1, <1>2, ReportAtHead
<1>4. Sound(segs, nextIdx, total) /\ total \in Nat \ {0} /\ total \in Nat
  BY <1>3, MapIsSound
<1>5. CASE /\ 0 < e.n /\ e.n < Size(segs[e.idx])
           /\ segs' = Shortfall(segs, e.idx, e.n, nextIdx)
           /\ nextIdx' = nextIdx + 1
           /\ job' = Job(PersistSplit(segs', nextIdx, e.idx), "short", e.w, NoWork)
           /\ cpc' = "persist"
  <2>1. /\ Sound(segs', nextIdx', total') /\ Carried(segs, segs')
        /\ DOMAIN segs' = DOMAIN segs \cup {nextIdx}
        /\ InState(segs', "Active") = InState(segs, "Active") \ {e.idx}
    <3>1. ASSUME NEW i, i = e.idx, NEW d, d = e.n
          PROVE  \A c : c = Shortfall(segs, i, d, nextIdx) =>
                    /\ Sound(c, nextIdx + 1, total) /\ Carried(segs, c)
                    /\ DOMAIN c = DOMAIN segs \cup {nextIdx}
                    /\ InState(c, "Active") = InState(segs, "Active") \ {i}
      <4>1. i \in DOMAIN segs /\ d \in Nat /\ 0 < d /\ d < Size(segs[i])
        BY <1>3, <1>5, <3>1
      <4> QED BY <1>4, <4>1, ShortfallKeeps
    <3> QED BY <1>1, <1>5, <3>1
  <2>2. job'.then = "short" /\ job'.w = e.w /\ job'.st = PersistSplit(segs', nextIdx, e.idx)
    BY <1>5 DEF Job
  <2>3. Running' /\ ~Sending' /\ (Engaged' => job'.w = e.w)
    BY <1>5, <2>2 DEF Running, Sending, Engaged
  <2>4. Types' /\ Mapped' /\ RowsMatch'
    BY <1>1, <1>3, <1>4, <1>5, <2>1, <2>2, <2>3, HandlerKeeps
  <2>5. JobSound'
    <3>1. nextIdx \in DOMAIN segs' /\ e.idx \in DOMAIN segs' /\ total' \in Nat
      BY <1>1, <1>3, <1>4, <2>1
    <3> QED BY <2>1, <2>2, <3>1, StatementSound
  <2>6. Holding'
    BY <1>1, <1>2, <1>3, <2>1, <2>3, ReportTaken
  <2> QED BY <2>4, <2>5, <2>6 DEF CoordInv, Holding
<1>6. CASE /\ segs' = Finish(segs, e.idx, e.n)
           /\ job' = [NoJob EXCEPT !.w = e.w]
           /\ cpc' = "dispatch"
           /\ nextIdx' = nextIdx
  <2>1. /\ Sound(segs', nextIdx', total') /\ Carried(segs, segs')
        /\ InState(segs', "Active") = InState(segs, "Active") \ {e.idx}
    <3>1. \A c : c = Finish(segs, e.idx, e.n) =>
            /\ Sound(c, nextIdx, total) /\ Carried(segs, c)
            /\ InState(c, "Active") = InState(segs, "Active") \ {e.idx}
      BY <1>3, <1>4, FinishKeeps
    <3> QED BY <1>1, <1>6, <3>1
  <2>2. job'.then = "loop" /\ job'.w = e.w
    BY <1>6 DEF NoJob
  <2>3. Running' /\ ~Sending' /\ (Engaged' => job'.w = e.w)
    BY <1>6, <2>2 DEF Running, Sending
  <2>4. Types' /\ Mapped' /\ RowsMatch'
    BY <1>1, <1>3, <1>4, <1>6, <2>1, <2>2, <2>3, HandlerKeeps
  <2>5. JobSound'
    BY <1>6 DEF JobSound
  <2>6. Holding'
    BY <1>1, <1>2, <1>3, <2>1, <2>3, ReportTaken
  <2> QED BY <2>4, <2>5, <2>6 DEF CoordInv, Holding
<1> QED BY <1>1, <1>5, <1>6

\* A segment that is sent back is Pending again.
LEMMA SentBack ==
    ASSUME CoordInv, Running, NEW i \in DOMAIN segs, segs' = SetState(segs, i, "Pending"),
           UNCHANGED <<nextIdx, total>>
    PROVE  /\ Sound(segs', nextIdx', total') /\ Carried(segs, segs') /\ DOMAIN segs' = DOMAIN segs
           /\ InState(segs', "Active") = InState(segs, "Active") \ {i}
<1>1. Sound(segs, nextIdx, total) /\ total \in Nat /\ "Pending" \in States
  BY MapIsSound DEF States
<1>2. \A c, st : c = SetState(segs, i, st) /\ st \in States /\ st # "Active" =>
        /\ Sound(c, nextIdx, total) /\ Carried(segs, c) /\ DOMAIN c = DOMAIN segs
        /\ InState(c, "Active") = InState(segs, "Active") \ {i}
  BY <1>1, SetStateKeeps
<1> QED BY <1>1, <1>2

\* A report whose segment goes back, without a statement.
LEMMA ReportSentBack ==
    ASSUME CoordInv, NEW kinds, Handling(kinds), kinds \cap Verdicts = {},
           NEW i, i = Head(events).idx, events' = Tail(events),
           segs' = SetState(segs, i, "Pending"),
           UNCHANGED <<rows, shared, wpc, asg, got, chunk, late, taskTotal, nextIdx, total>>,
           openSeg' = openSeg \/ openSeg' = NoSeg, AtWork' => AtWork,
           \/ cpc' = "redispatch" /\ job' = [NoJob EXCEPT !.w = Head(events).w]
           \/ cpc' \in {"loop", "join"} /\ (job' = NoJob \/ job' = job)
    PROVE  CoordInv'
<1>1. /\ Running /\ AtWork /\ events # <<>> /\ i \in InState(segs, "Active")
      /\ i \in DOMAIN segs
  BY ReportAtHead
<1>2. /\ Sound(segs', nextIdx', total') /\ Carried(segs, segs')
      /\ InState(segs', "Active") = InState(segs, "Active") \ {i} /\ total' \in Nat \ {0}
  BY <1>1, SentBack, MapIsSound
<1>3. job.then = "loop"
  BY DEF Handling, Looping, CoordInv, Types, CoordTypes
<1>4. job'.then = "loop" /\ (cpc' = "redispatch" => job'.w = Head(events).w)
  BY <1>3 DEF NoJob
<1>5. Running' /\ ~Sending' /\ (Engaged' => job'.w = Head(events).w)
  BY <1>4 DEF Running, Sending, Engaged
<1>6. Types' /\ Mapped' /\ RowsMatch'
  BY <1>1, <1>2, <1>4, <1>5, HandlerKeeps
<1>7. JobSound'
  BY DEF JobSound
<1>8. Holding'
  BY <1>1, <1>2, <1>5, ReportTaken
<1> QED BY <1>6, <1>7, <1>8 DEF CoordInv, Holding

\* The server reports a larger size: the tail is appended, or the run ends.
LEMMA LargerKeeps ==
    ASSUME CoordInv, NEW e, HandleLarger(e)
    PROVE  CoordInv'
<1>1. /\ Handling({"larger"}) /\ e = Head(events) /\ events' = Tail(events)
      /\ openSeg' = openSeg \/ openSeg' = NoSeg
      /\ UNCHANGED <<rows, shared, wpc, asg, got, chunk, late, taskTotal>>
      /\ \/ /\ segs' = SetState(segs, e.idx, "Pending")
            /\ stopped' = TRUE /\ cpc' = "join" /\ job' = NoJob
            /\ UNCHANGED <<nextIdx, total>>
         \/ /\ e.n > total
            /\ segs' = SetState(Grow(segs, nextIdx, total, e.n), e.idx, "Pending")
            /\ nextIdx' = nextIdx + 1
            /\ total' = e.n
            /\ job' = Job(Upsert(segs', nextIdx), "grown", e.w, NoWork)
            /\ cpc' = "persist" /\ stopped' = stopped
         \/ /\ segs' = SetState(segs, e.idx, "Pending")
            /\ job' = [NoJob EXCEPT !.w = e.w]
            /\ cpc' = "redispatch" /\ stopped' = stopped
            /\ UNCHANGED <<nextIdx, total>>
  BY DEF HandleLarger, ClearOpen, EndLoop, localVars, diskVars
<1>2. {"larger"} \cap Verdicts = {}
  BY DEF Verdicts
<1>3. /\ Running /\ AtWork /\ events # <<>> /\ e.idx \in InState(segs, "Active")
      /\ e.idx \in DOMAIN segs /\ e.n \in Nat
  BY <1>1, <1>2, ReportAtHead
<1>4. CASE /\ segs' = SetState(segs, e.idx, "Pending") /\ cpc' = "join" /\ job' = NoJob
           /\ stopped' = TRUE /\ UNCHANGED <<nextIdx, total>>
  <2>1. AtWork' => AtWork
    BY <1>3
  <2> QED BY <1>1, <1>2, <1>4, <2>1, ReportSentBack
<1>5. CASE /\ segs' = SetState(segs, e.idx, "Pending")
           /\ job' = [NoJob EXCEPT !.w = e.w]
           /\ cpc' = "redispatch" /\ UNCHANGED <<nextIdx, total>>
  <2>1. AtWork' => AtWork
    BY <1>3
  <2>2. job' = [NoJob EXCEPT !.w = Head(events).w] /\ segs' = SetState(segs, Head(events).idx, "Pending")
    BY <1>1, <1>5
  <2> QED BY <1>1, <1>2, <1>5, <2>1, <2>2, ReportSentBack
<1>6. CASE /\ e.n > total
           /\ segs' = SetState(Grow(segs, nextIdx, total, e.n), e.idx, "Pending")
           /\ nextIdx' = nextIdx + 1
           /\ total' = e.n
           /\ job' = Job(Upsert(segs', nextIdx), "grown", e.w, NoWork)
           /\ cpc' = "persist" /\ stopped' = stopped
  <2> DEFINE g == Grow(segs, nextIdx, total, e.n)
  <2>0. Sound(segs, nextIdx, total) /\ total \in Nat /\ nextIdx \in Nat
    BY <1>3, MapIsSound
  <2>1. /\ Sound(g, nextIdx + 1, e.n) /\ Carried(segs, g) /\ nextIdx \in DOMAIN g
        /\ InState(g, "Active") = InState(segs, "Active")
    <3>1. ASSUME NEW r, r \in Nat, NEW t, t \in Nat, t < r, NEW c, c = Grow(segs, nextIdx, t, r),
                 Sound(segs, nextIdx, t)
          PROVE  /\ Sound(c, nextIdx + 1, r) /\ Carried(segs, c)
                 /\ nextIdx \in DOMAIN c /\ InState(c, "Active") = InState(segs, "Active")
      BY <3>1, GrowKeeps
    <3>2. e.n \in Nat /\ total < e.n
      BY <1>3, <1>6, <2>0
    <3> QED BY <2>0, <3>1, <3>2
  <2> HIDE DEF g
  <2>2. /\ Sound(segs', nextIdx', total') /\ Carried(segs, segs')
        /\ nextIdx \in DOMAIN segs' /\ total' \in Nat \ {0}
        /\ InState(segs', "Active") = InState(segs, "Active") \ {e.idx}
    <3>1. ASSUME NEW i, i = e.idx, NEW n, n = nextIdx + 1, NEW t, t = e.n
          PROVE  \A c, st : c = SetState(g, i, st) /\ st \in States /\ st # "Active" =>
                    /\ Sound(c, n, t) /\ Carried(g, c) /\ DOMAIN c = DOMAIN g
                    /\ InState(c, "Active") = InState(g, "Active") \ {i}
      <4>1. t \in Nat /\ i \in DOMAIN g /\ Sound(g, n, t)
        BY <1>3, <2>1, <3>1 DEF Carried
      <4> QED BY <4>1, SetStateKeeps
    <3>2. segs' = SetState(g, e.idx, "Pending") /\ "Pending" \in States
      BY <1>6 DEF g, States
    <3>3. Carried(g, segs') /\ Sound(segs', nextIdx', total') /\ DOMAIN segs' = DOMAIN g
      BY <1>6, <3>1, <3>2
    <3>4. InState(segs', "Active") = InState(g, "Active") \ {e.idx}
      BY <3>1, <3>2
    <3>5. Carried(segs, segs')
      BY <2>1, <3>3 DEF Carried
    <3>6. total' \in Nat \ {0}
      BY <1>3, <1>6, <2>0
    <3> QED BY <2>1, <3>3, <3>4, <3>5, <3>6
  <2>3. job'.then = "grown" /\ job'.w = e.w /\ job'.st = Upsert(segs', nextIdx)
    BY <1>6 DEF Job
  <2>4. Running' /\ ~Sending' /\ (Engaged' => job'.w = Head(events).w) /\ (AtWork' => AtWork)
    BY <1>1, <1>3, <1>6, <2>3 DEF Running, Sending, Engaged
  <2>5. Types' /\ Mapped' /\ RowsMatch'
    BY <1>1, <1>3, <1>6, <2>2, <2>3, <2>4, HandlerKeeps
  <2>6. JobSound'
    <3>1. nextIdx \in DOMAIN segs' /\ total' \in Nat
      BY <2>2
    <3> QED BY <2>2, <2>3, <3>1, StatementSound
  <2>7. Holding'
    BY <1>1, <1>2, <2>2, <2>4, ReportTaken
  <2> QED BY <2>5, <2>6, <2>7 DEF CoordInv, Holding
<1> QED BY <1>1, <1>4, <1>5, <1>6

\* The segment of a failed node waits for the worker's next assignment.
LEMMA NodeFailedKeeps ==
    ASSUME CoordInv, NEW e, HandleNodeFailed(e)
    PROVE  CoordInv'
<1>1. /\ Handling({"node"}) /\ e = Head(events) /\ events' = Tail(events)
      /\ openSeg' = openSeg \/ openSeg' = NoSeg
      /\ UNCHANGED <<rows, shared, wpc, asg, got, chunk, late, taskTotal, nextIdx, total, stopped>>
      /\ segs' = SetState(segs, Head(events).idx, "Pending")
      /\ job' = [NoJob EXCEPT !.w = Head(events).w] /\ cpc' = "redispatch"
  BY DEF HandleNodeFailed, ClearOpen, taskVars, controlVars, localVars, diskVars
<1>2. {"node"} \cap Verdicts = {}
  BY DEF Verdicts
<1>3. AtWork
  BY <1>1, <1>2, ReportAtHead
<1> QED BY <1>1, <1>2, <1>3, ReportSentBack

\* A refused connection: the segment is Pending again and its worker is let go.
LEMMA RejectionKeeps ==
    ASSUME CoordInv, NEW e, HandleRejection(e)
    PROVE  CoordInv'
<1> DEFINE K == {"refused", "norange"}
<1>1. /\ Handling(K) /\ e = Head(events) /\ events' = Tail(events)
      /\ openSeg' = openSeg \/ openSeg' = NoSeg
      /\ UNCHANGED <<rows, shared, wpc, asg, got, chunk, late, taskTotal, nextIdx, total, stopped>>
      /\ segs' = SetState(segs, Head(events).idx, "Pending")
      /\ \/ /\ ToAbsorb(segs', openSeg') # {} /\ cpc' = "persist"
            /\ job' = Job(PersistMerge(openSeg', MergedEnd(segs', ToAbsorb(segs', openSeg')),
                                       ToAbsorb(segs', openSeg')), "merged", 0, NoWork)
         \/ cpc' = "join" /\ job' = NoJob
         \/ cpc' = "loop" /\ job' = job
  BY DEF HandleRejection, ClearOpen, Absorb, EndLoop, taskVars, localVars, diskVars
<1>2. K \cap Verdicts = {}
  BY DEF Verdicts
<1>3. /\ Running /\ AtWork /\ events # <<>> /\ Head(events).idx \in DOMAIN segs
  BY <1>1, <1>2, ReportAtHead
<1>4. CASE cpc' \in {"join", "loop"} /\ (job' = NoJob \/ job' = job)
  <2> HIDE DEF K
  <2> QED BY <1>1, <1>2, <1>3, <1>4, ReportSentBack
<1>5. CASE /\ ToAbsorb(segs', openSeg') # {} /\ cpc' = "persist"
           /\ job' = Job(PersistMerge(openSeg', MergedEnd(segs', ToAbsorb(segs', openSeg')),
                                      ToAbsorb(segs', openSeg')), "merged", 0, NoWork)
  <2>1. /\ Sound(segs', nextIdx', total') /\ Carried(segs, segs') /\ DOMAIN segs' = DOMAIN segs
        /\ InState(segs', "Active") = InState(segs, "Active") \ {Head(events).idx}
    BY <1>1, <1>3, SentBack
  <2>2. total' \in Nat /\ total' \in Nat \ {0}
    BY <1>1, <1>3, MapIsSound
  <2>3. job'.then = "merged"
    BY <1>5 DEF Job
  <2>4. Running' /\ ~Sending' /\ ~Engaged' /\ (AtWork' => AtWork)
    BY <1>3, <1>5, <2>3 DEF Running, Sending, Engaged
  <2>5. Types' /\ Mapped' /\ RowsMatch'
    BY <1>1, <1>3, <1>5, <2>1, <2>2, <2>3, <2>4, HandlerKeeps
  <2>6. openSeg' = NoSeg \/ openSeg' \in DOMAIN segs'
    BY <2>5 DEF Types, MapTypes
  <2>7. JobSound'
    BY <1>5, <2>1, <2>2, <2>6, AbsorbSound
  <2>8. Holding'
    <3> HIDE DEF K
    <3> QED BY <1>1, <1>2, <2>1, <2>4, ReportTaken
  <2> QED BY <2>5, <2>7, <2>8 DEF CoordInv, Holding
<1> QED BY <1>1, <1>4, <1>5

\* An error that ends the run stops the workers.
LEMMA FatalKeeps ==
    ASSUME CoordInv, NEW e, HandleFatal(e)
    PROVE  CoordInv'
<1> DEFINE K == {"refused", "norange", "replaced", "broken"}
<1>1. /\ Handling(K) /\ e = Head(events) /\ events' = Tail(events)
      /\ openSeg' = openSeg \/ openSeg' = NoSeg
      /\ UNCHANGED <<rows, shared, wpc, asg, got, chunk, late, taskTotal, nextIdx, total>>
      /\ segs' = SetState(segs, Head(events).idx, "Pending")
      /\ cpc' = "join" /\ job' = NoJob
  BY DEF HandleFatal, ClearOpen, EndLoop, taskVars, localVars, diskVars
<1>2. K \cap Verdicts = {}
  BY DEF Verdicts
<1>3. AtWork
  BY <1>1, <1>2, ReportAtHead
<1> HIDE DEF K
<1> QED BY <1>1, <1>2, <1>3, ReportSentBack

\* A verdict on Range may start a merge.
LEMMA VerdictKeeps ==
    ASSUME CoordInv, NEW e, HandleVerdict(e)
    PROVE  CoordInv'
<1>1. /\ cpc = "loop" /\ ~stopped /\ events # <<>> /\ Head(events).kind \in Verdicts
      /\ events' = Tail(events)
      /\ UNCHANGED <<rows, shared, wpc, asg, got, chunk, late, taskTotal, segs, nextIdx, openSeg,
                     total, stopped>>
      /\ \/ /\ ToAbsorb(segs', openSeg') # {} /\ cpc' = "persist"
            /\ job' = Job(PersistMerge(openSeg', MergedEnd(segs', ToAbsorb(segs', openSeg')),
                                       ToAbsorb(segs', openSeg')), "merged", 0, NoWork)
         \/ cpc' = cpc /\ job' = job
  BY DEF HandleVerdict, Handling, Looping, Absorb, Verdicts, mapVars, controlVars, localVars,
         diskVars
<1>2. /\ Running /\ job.then = "loop" /\ events \in Seq(EventRecs) /\ Holding
  BY <1>1 DEF Running, CoordInv, Types, CoordTypes, WorkerTypes, Holding
<1>3. /\ Sound(segs', nextIdx', total') /\ Carried(segs, segs') /\ total' \in Nat
      /\ total' \in Nat \ {0}
  BY <1>1, <1>2, MapIsSound DEF Carried
<1>4. /\ job'.then \in {"merged", "loop"} /\ cpc' \in {"persist", "loop"}
      /\ cpc' # "persist" => job' = job
  BY <1>1, <1>2 DEF Job
<1>5. Running' /\ ~Sending /\ ~Sending' /\ ~Engaged' /\ (AtWork' => AtWork)
  BY <1>1, <1>2, <1>4 DEF Running, Sending, Engaged, AtWork
<1>6. Types' /\ Mapped' /\ RowsMatch'
  BY <1>1, <1>2, <1>3, <1>4, <1>5, HandlerKeeps
<1>7. JobSound'
  <2>1. CASE cpc' = "loop"
    BY <2>1 DEF JobSound
  <2>2. CASE cpc' = "persist"
    <3>1. openSeg' = NoSeg \/ openSeg' \in DOMAIN segs'
      BY <1>6 DEF Types, MapTypes
    <3> QED BY <1>1, <1>3, <2>2, <3>1, AbsorbSound
  <2> QED BY <1>4, <2>1, <2>2
<1>8. Holding'
  <2>1. ASSUME NEW X, X = {}
        PROVE  Holding'
    <3>1. /\ X = IF Head(events).kind \in Verdicts THEN {} ELSE {Head(events).idx}
          /\ InState(segs', "Active") = InState(segs, "Active") \ X
          /\ \A i \in InState(segs', "Active") : segs'[i].start = segs[i].start
      BY <1>1, <2>1
    <3> QED BY <1>1, <1>2, <1>5, <3>1, HeadTaken
  <2> QED BY <2>1
<1> QED BY <1>6, <1>7, <1>8 DEF CoordInv, Holding

\* Whatever message the loop takes.
LEMMA HandleEventKeeps ==
    ASSUME CoordInv, HandleEvent
    PROVE  CoordInv'
<1> DEFINE e == Head(events)
<1>1. \/ HandleDone(e) \/ HandleLarger(e) \/ HandleNodeFailed(e)
      \/ HandleRejection(e) \/ HandleFatal(e) \/ HandleVerdict(e)
  BY DEF HandleEvent
<1> HIDE DEF e
<1> QED BY <1>1, DoneKeeps, LargerKeeps, NodeFailedKeeps, RejectionKeeps, FatalKeeps,
           VerdictKeeps
-----------------------------------------------------------------------------
(***************************************************************************)
(* Handing out work, the timers and the end of a run.                      *)
(***************************************************************************)

\* The map a handler looks at, with the workers' own progress in it.
LEMMA SyncedMap ==
    ASSUME CoordInv, Running, NEW m, m = Synced(segs)
    PROVE  /\ Sound(m, nextIdx, total) /\ Carried(segs, m) /\ DOMAIN m = DOMAIN segs
           /\ InState(m, "Active") = InState(segs, "Active")
<1>1. Sound(segs, nextIdx, total) /\ total \in Nat
  BY MapIsSound
<1>2. \A i \in DOMAIN shared : shared[i] \in [end : Int, dl : Nat]
  BY DEF CoordInv, Types, WorkerTypes
<1>3. \A t \in Nat : Sound(segs, nextIdx, t) =>
        /\ Sound(m, nextIdx, t) /\ Carried(segs, m) /\ DOMAIN m = DOMAIN segs
        /\ InState(m, "Active") = InState(segs, "Active")
  BY <1>2, SyncedKeeps
<1> QED BY <1>1, <1>3

\* Work found for a resting worker is recorded before it is sent.
LEMMA HandOutKeeps ==
    ASSUME CoordInv, cpc \in {"dispatch", "redispatch", "refill"},
           NEW m, Sound(m, nextIdx, total), Carried(segs, m),
           InState(m, "Active") = InState(segs, "Active"),
           NEW split \in BOOLEAN, Found(m, split), NEW w \in Workers, ~Busy(w),
           \A k \in News : events[k].w # w,
           NEW then \in {"send", "spawn"}, NEW z \in BOOLEAN,
           HandOut(NextWork(m, split), w, then, z),
           UNCHANGED <<rows, shared, wpc, asg, got, chunk, late, taskTotal, events, openSeg,
                       total, stopped>>
    PROVE  CoordInv'
<1> DEFINE f == NextWork(m, split)
           a == Assignment(f.m[f.i], f.i, z, z)
<1>1. /\ segs' = f.m
      /\ nextIdx' = IF f.par = NoSeg THEN nextIdx ELSE nextIdx + 1
      /\ job' = Job(WorkStmt(f), then, w, a)
      /\ cpc' = "persist"
  BY DEF HandOut
<1>2. /\ Running /\ job.then = "loop" /\ Holding
  BY DEF Running, CoordInv, Types, CoordTypes, Holding
<1>3. Sound(segs, nextIdx, total) /\ total \in Nat \ {0} /\ total \in Nat
  BY <1>2, MapIsSound
<1>4. /\ Sound(f.m, IF f.par = NoSeg THEN nextIdx ELSE nextIdx + 1, total)
      /\ Carried(m, f.m)
      /\ f.i \in DOMAIN f.m /\ f.i \notin InState(m, "Active")
      /\ InState(f.m, "Active") = InState(m, "Active") \cup {f.i}
      /\ f.par # NoSeg => f.par \in DOMAIN f.m
  <2>1. ASSUME NEW t \in Nat, Sound(m, nextIdx, t)
        PROVE  \A g : g = NextWork(m, split) =>
                 /\ Sound(g.m, IF g.par = NoSeg THEN nextIdx ELSE nextIdx + 1, t)
                 /\ Carried(m, g.m)
                 /\ g.i \in DOMAIN g.m /\ g.i \notin InState(m, "Active")
                 /\ InState(g.m, "Active") = InState(m, "Active") \cup {g.i}
                 /\ g.par # NoSeg => g.par \in DOMAIN g.m
    BY <2>1, NextWorkKeeps
  <2> QED BY <1>3, <2>1
<1> HIDE DEF f
<1>5. /\ Sound(segs', nextIdx', total') /\ Carried(segs, segs') /\ total' \in Nat \ {0}
      /\ total' \in Nat /\ f.i \in DOMAIN segs' /\ f.i \notin InState(segs, "Active")
      /\ InState(segs', "Active") = InState(segs, "Active") \cup {f.i}
  BY <1>1, <1>3, <1>4 DEF Carried
<1>6. /\ job'.st = WorkStmt(f) /\ job'.then = then /\ job'.w = w /\ job'.asg = a
  BY <1>1 DEF Job
<1>7. /\ GoodAssignment(a) /\ a.idx = f.i /\ a.start = segs'[f.i].start
  <2> DEFINE g == segs'[f.i]
  <2>1. g \in SegRecs /\ f.i \in Nat /\ g.start <= g.end
    <3>1. \A t \in Nat : \A n, c : Sound(c, n, t) =>
            \A i \in DOMAIN c : c[i] \in SegRecs /\ i \in Nat /\ c[i].start <= c[i].end
      BY SoundSegment
    <3> QED BY <1>5, <3>1
  <2>2. a = Assignment(g, f.i, z, z)
    BY <1>1
  <2> HIDE DEF g, a
  <2>3. /\ a.idx = f.i /\ a.start = g.start /\ a.from = g.start + g.dl /\ a.end = g.end
        /\ a \in Assignments
    BY <2>1, <2>2 DEF Assignment, Assignments, SegRecs
  <2>4. g.start <= a.from /\ g.start <= g.end
    BY <2>1, <2>3 DEF SegRecs
  <2> QED BY <2>3, <2>4 DEF GoodAssignment, g
<1> HIDE DEF a
<1>8. Running' /\ ~Sending /\ Sending' /\ (AtWork' => AtWork)
  BY <1>1, <1>2, <1>6 DEF Running, Sending, AtWork
<1>9. Types' /\ Mapped' /\ RowsMatch'
  BY <1>1, <1>2, <1>5, <1>6, <1>8, HandlerKeeps
<1>10. JobSound'
  <2>1. job'.st = Upsert(segs', f.i) \/ \E p \in DOMAIN segs' : job'.st = PersistSplit(segs', f.i, p)
    BY <1>1, <1>4, <1>6 DEF WorkStmt
  <2> QED BY <1>5, <1>6, <2>1, StatementSound
<1>11. Holding'
  <2>1. \A j \in InState(segs, "Active") : segs'[j].start = segs[j].start
    BY <1>5 DEF Carried, InState
  <2> QED BY <1>2, <1>5, <1>6, <1>7, <1>8, <2>1, WorkHandedOut
<1> QED BY <1>9, <1>10, <1>11 DEF CoordInv, Holding

\* A step of the coordinator that hands out nothing and says nothing.
LEMMA QuietStepKeeps ==
    ASSUME CoordInv, Running, Running', cpc \notin {"persist", "resume"},
           Sound(segs', nextIdx', total'), Carried(segs, segs'), total' \in Nat \ {0},
           InState(segs', "Active") = InState(segs, "Active"),
           UNCHANGED <<rows, shared, wpc, asg, got, chunk, late, taskTotal, events, openSeg>>,
           cpc' \in {"loop", "persist", "refill", "ramp", "join"}, AtWork' => AtWork,
           job'.then = "loop",
           cpc' = "persist" => \E i, p \in DOMAIN segs' : job'.st = PersistSplit(segs', i, p)
    PROVE  CoordInv'
<1>1. Types' /\ Mapped' /\ RowsMatch'
  BY HandlerKeeps
<1>2. JobSound'
  <2>1. CASE cpc' = "persist"
    <3>1. PICK i \in DOMAIN segs', p \in DOMAIN segs' : job'.st = PersistSplit(segs', i, p)
      BY <2>1
    <3>2. total' \in Nat
      OBVIOUS
    <3> QED BY <3>1, <3>2, StatementSound
  <2>2. CASE cpc' # "persist"
    BY <2>2 DEF JobSound
  <2> QED BY <2>1, <2>2
<1>3. Holding'
  <2>1. Holding /\ ~Sending /\ ~Sending' /\ ~Engaged'
    BY DEF CoordInv, Holding, Types, CoordTypes, Sending, Engaged
  <2>2. SameActive
    BY DEF SameActive, Carried, InState
  <2> QED BY <2>1, <2>2, HoldersSame
<1> QED BY <1>1, <1>2, <1>3 DEF CoordInv, Holding

\* The worker of a finished segment is given work or retired.
LEMMA DispatchKeeps ==
    ASSUME CoordInv, Dispatch
    PROVE  CoordInv'
<1> DEFINE m == Synced(segs)
<1>1. /\ cpc = "dispatch"
      /\ \/ Found(m, ~serial) /\ HandOut(NextWork(m, ~serial), job.w, "send", FALSE)
         \/ segs' = m /\ job' = NoJob /\ nextIdx' = nextIdx /\ cpc' \in {"join", "loop"}
      /\ UNCHANGED <<rows, shared, wpc, asg, got, chunk, late, taskTotal, events, openSeg, total,
                     stopped>>
  BY DEF Dispatch, taskVars, workerVars, sharedVars, localVars, diskVars
<1>2. Running
  BY <1>1 DEF Running
<1>3. /\ Sound(m, nextIdx, total) /\ Carried(segs, m) /\ total \in Nat \ {0}
      /\ InState(m, "Active") = InState(segs, "Active")
  BY <1>2, SyncedMap, MapIsSound
<1>4. job.w \in Workers /\ ~Busy(job.w) /\ \A k \in News : events[k].w # job.w
  BY <1>1 DEF CoordInv, ReportersRest, Engaged
<1> HIDE DEF m
<1>5. CASE Found(m, ~serial) /\ HandOut(NextWork(m, ~serial), job.w, "send", FALSE)
  <2>1. (~serial) \in BOOLEAN
    OBVIOUS
  <2>2. \A split : split = (~serial) =>
          Found(m, split) /\ HandOut(NextWork(m, split), job.w, "send", FALSE)
    BY <1>5
  <2>3. ASSUME NEW split \in BOOLEAN, split = (~serial)
        PROVE  CoordInv'
    BY <1>1, <1>3, <1>4, <2>2, <2>3, HandOutKeeps
  <2> QED BY <2>1, <2>3
<1>6. CASE segs' = m /\ job' = NoJob /\ nextIdx' = nextIdx /\ cpc' \in {"join", "loop"}
  <2>1. Running' /\ (AtWork' => AtWork) /\ job'.then = "loop"
    BY <1>1, <1>6 DEF Running, AtWork, NoJob
  <2>2. Sound(segs', nextIdx', total') /\ total' \in Nat \ {0}
    BY <1>1, <1>3, <1>6
  <2> QED BY <1>1, <1>2, <1>3, <1>6, <2>1, <2>2, QuietStepKeeps
<1> QED BY <1>1, <1>5, <1>6

\* The worker that reported a larger size, or lost its node, is given work.
LEMMA RedispatchKeeps ==
    ASSUME CoordInv, Redispatch
    PROVE  CoordInv'
<1> DEFINE plain == verdict # "supported"
           split == ~plain /\ ~serial
<1>1. /\ cpc = "redispatch"
      /\ \/ Found(segs, split) /\ HandOut(NextWork(segs, split), job.w, "send", plain)
         \/ segs' = segs /\ job' = NoJob /\ nextIdx' = nextIdx /\ cpc' = "loop"
      /\ UNCHANGED <<rows, shared, wpc, asg, got, chunk, late, taskTotal, events, openSeg, total,
                     stopped>>
  BY DEF Redispatch, taskVars, workerVars, sharedVars, localVars, diskVars, Found
<1>2. Running
  BY <1>1 DEF Running
<1>3. /\ Sound(segs, nextIdx, total) /\ Carried(segs, segs) /\ total \in Nat \ {0}
  BY <1>2, MapIsSound DEF Carried
<1>4. job.w \in Workers /\ ~Busy(job.w) /\ \A k \in News : events[k].w # job.w
  BY <1>1 DEF CoordInv, ReportersRest, Engaged
<1>5. CASE Found(segs, split) /\ HandOut(NextWork(segs, split), job.w, "send", plain)
  <2>1. split \in BOOLEAN /\ plain \in BOOLEAN
    OBVIOUS
  <2> HIDE DEF split, plain
  <2> QED BY <1>1, <1>3, <1>4, <1>5, <2>1, HandOutKeeps
<1>6. CASE segs' = segs /\ job' = NoJob /\ nextIdx' = nextIdx /\ cpc' = "loop"
  <2>1. Running' /\ (AtWork' => AtWork) /\ job'.then = "loop"
    BY <1>1, <1>6 DEF Running, AtWork, NoJob
  <2>2. Sound(segs', nextIdx', total') /\ total' \in Nat \ {0} /\ Carried(segs, segs')
    BY <1>1, <1>3, <1>6
  <2> HIDE DEF split, plain
  <2> QED BY <1>1, <1>2, <1>6, <2>1, <2>2, QuietStepKeeps
<1> QED BY <1>1, <1>5, <1>6

\* The ramp spawns a worker, with work, or not.
LEMMA RefillKeeps ==
    ASSUME CoordInv, Refill
    PROVE  CoordInv'
<1> DEFINE m == Synced(segs)
<1>1. /\ cpc = "refill"
      /\ \/ Spare # {} /\ Found(m, TRUE) /\ HandOut(NextWork(m, TRUE), Least(Spare), "spawn", FALSE)
         \/ (segs' = m \/ segs' = segs) /\ job' = job /\ nextIdx' = nextIdx /\ cpc' \in {"join", "loop"}
      /\ UNCHANGED <<rows, shared, wpc, asg, got, chunk, late, taskTotal, events, openSeg, total,
                     stopped>>
  BY DEF Refill, taskVars, controlVars, workerVars, sharedVars, localVars, diskVars
<1>2. Running /\ job.then = "loop"
  BY <1>1 DEF Running, CoordInv, Types, CoordTypes
<1>3. /\ Sound(m, nextIdx, total) /\ Carried(segs, m) /\ total \in Nat \ {0}
      /\ InState(m, "Active") = InState(segs, "Active")
      /\ Sound(segs, nextIdx, total) /\ Carried(segs, segs)
  BY <1>2, SyncedMap, MapIsSound DEF Carried
<1> HIDE DEF m
<1>4. CASE Spare # {} /\ Found(m, TRUE) /\ HandOut(NextWork(m, TRUE), Least(Spare), "spawn", FALSE)
  <2>1. Spare \in SUBSET Nat
    BY WorkersAssumption DEF Spare, Gone
  <2>2. Least(Spare) \in Spare
    BY <1>4, <2>1, LeastIsMin
  <2> DEFINE w == Least(Spare)
  <2>3. w \in Workers /\ ~Busy(w) /\ \A k \in News : events[k].w # w
    BY <2>2 DEF Spare, Gone, Busy, News
  <2> HIDE DEF w
  <2>4. HandOut(NextWork(m, TRUE), w, "spawn", FALSE)
    BY <1>4 DEF w
  <2> QED BY <1>1, <1>3, <1>4, <2>3, <2>4, HandOutKeeps
<1>5. CASE (segs' = m \/ segs' = segs) /\ job' = job /\ nextIdx' = nextIdx /\ cpc' \in {"join", "loop"}
  <2>1. Running' /\ (AtWork' => AtWork) /\ job'.then = "loop"
    BY <1>1, <1>2, <1>5 DEF Running, AtWork
  <2>2. /\ Sound(segs', nextIdx', total') /\ total' \in Nat \ {0} /\ Carried(segs, segs')
        /\ InState(segs', "Active") = InState(segs, "Active")
    BY <1>1, <1>3, <1>5
  <2> QED BY <1>1, <1>2, <1>5, <2>1, <2>2, QuietStepKeeps
<1> QED BY <1>1, <1>4, <1>5

\* The split timer cuts the largest segment before anybody asks.
LEMMA ProactiveSplitKeeps ==
    ASSUME CoordInv, ProactiveSplit
    PROVE  CoordInv'
<1> DEFINE m == Synced(segs)
           p == LargestActive(m)
<1>1. /\ cpc = "loop" /\ ~stopped
      /\ \/ /\ CanSplit(m) /\ segs' = Split(m, nextIdx, "Pending") /\ nextIdx' = nextIdx + 1
            /\ job' = Job(PersistSplit(segs', nextIdx, p), "loop", 0, NoWork)
            /\ cpc' = "persist"
         \/ segs' = m /\ job' = job /\ nextIdx' = nextIdx /\ cpc' = cpc
      /\ UNCHANGED <<rows, shared, wpc, asg, got, chunk, late, taskTotal, events, openSeg, total,
                     stopped>>
  BY DEF ProactiveSplit, Quiet, Looping, taskVars, controlVars, workerVars, sharedVars, localVars,
         diskVars
<1>2. Running /\ job.then = "loop"
  BY <1>1 DEF Running, CoordInv, Types, CoordTypes
<1>3. /\ Sound(m, nextIdx, total) /\ Carried(segs, m) /\ total \in Nat \ {0} /\ total \in Nat
      /\ InState(m, "Active") = InState(segs, "Active")
  BY <1>2, SyncedMap, MapIsSound
<1> HIDE DEF m
<1>4. CASE /\ CanSplit(m) /\ segs' = Split(m, nextIdx, "Pending") /\ nextIdx' = nextIdx + 1
           /\ job' = Job(PersistSplit(segs', nextIdx, p), "loop", 0, NoWork)
           /\ cpc' = "persist"
  <2>1. /\ Sound(segs', nextIdx + 1, total) /\ Carried(m, segs') /\ nextIdx \in DOMAIN segs'
        /\ p \in InState(m, "Active") /\ InState(segs', "Active") = InState(m, "Active")
    <3>1. ASSUME NEW t \in Nat, Sound(m, nextIdx, t), NEW st \in States, st # "Active",
                 NEW c, c = Split(m, nextIdx, st)
          PROVE  /\ Sound(c, nextIdx + 1, t) /\ Carried(m, c) /\ nextIdx \in DOMAIN c
                 /\ LargestActive(m) \in InState(m, "Active")
                 /\ \A j : j \in InState(c, "Active") <=> j \in InState(m, "Active")
      BY <1>4, <3>1, SplitKeeps
    <3>2. "Pending" \in States
      BY DEF States
    <3> QED BY <1>3, <1>4, <3>1, <3>2
  <2> HIDE DEF p
  <2>2. job'.then = "loop" /\ job'.st = PersistSplit(segs', nextIdx, p)
    BY <1>4 DEF Job
  <2>3. Running' /\ (AtWork' => AtWork)
    BY <1>1, <1>4 DEF Running, AtWork
  <2>4. Sound(segs', nextIdx', total') /\ Carried(segs, segs') /\ total' \in Nat \ {0}
    BY <1>1, <1>3, <1>4, <2>1 DEF Carried
  <2>5. \E i, q \in DOMAIN segs' : job'.st = PersistSplit(segs', i, q)
    <3>1. p \in DOMAIN segs' /\ nextIdx \in DOMAIN segs'
      BY <2>1 DEF InState, Carried
    <3> QED BY <2>2, <3>1
  <2> QED BY <1>1, <1>2, <1>3, <1>4, <2>1, <2>2, <2>3, <2>4, <2>5, QuietStepKeeps
<1>5. CASE segs' = m /\ job' = job /\ nextIdx' = nextIdx /\ cpc' = cpc
  <2>1. Running' /\ (AtWork' => AtWork) /\ job'.then = "loop" /\ cpc' = "loop"
    BY <1>1, <1>2, <1>5 DEF Running, AtWork
  <2>2. Sound(segs', nextIdx', total') /\ total' \in Nat \ {0} /\ Carried(segs, segs')
    BY <1>1, <1>3, <1>5
  <2> QED BY <1>1, <1>2, <1>3, <1>5, <2>1, <2>2, QuietStepKeeps
<1> QED BY <1>1, <1>4, <1>5

\* The polls and the ticks of the ramp, and the pause at the loop's turn.
LEMMA TimersKeep ==
    ASSUME CoordInv, RampPoll \/ RampTick \/ HandlePause
    PROVE  CoordInv'
<1>1. /\ cpc \in {"loop", "ramp"} /\ cpc' \in {"ramp", "refill", "join", "loop"}
      /\ cpc' # "join" => stopped' = stopped
      /\ job' = job \/ job' = NoJob
      /\ UNCHANGED <<segs, nextIdx, openSeg, rows, shared, wpc, asg, got, chunk, late, taskTotal,
                     events, total>>
  <2>1. CASE RampPoll
    BY <2>1 DEF RampPoll, Quiet, Looping, mapVars, taskVars, controlVars, workerVars, sharedVars,
                localVars, diskVars
  <2>2. CASE RampTick
    BY <2>2 DEF RampTick, Quiet, Looping, mapVars, taskVars, workerVars, sharedVars, localVars,
                diskVars
  <2>3. CASE HandlePause
    BY <2>3 DEF HandlePause, EndLoop, mapVars, taskVars, workerVars, sharedVars, localVars,
                diskVars
  <2> QED BY <2>1, <2>2, <2>3
<1>2. Running /\ Running' /\ job.then = "loop"
  BY <1>1 DEF Running, CoordInv, Types, CoordTypes
<1>3. Sound(segs', nextIdx', total') /\ total' \in Nat \ {0} /\ Carried(segs, segs')
  BY <1>1, <1>2, MapIsSound DEF Carried
<1>4. (AtWork' => AtWork) /\ job'.then = "loop"
  BY <1>1, <1>2 DEF AtWork, NoJob
<1> QED BY <1>1, <1>2, <1>3, <1>4, QuietStepKeeps
-----------------------------------------------------------------------------
(***************************************************************************)
(* The workers.                                                            *)
(***************************************************************************)

\* The rows stay, with their bounds.
RowsStand ==
    /\ DOMAIN rows' = DOMAIN rows
    /\ \A i \in DOMAIN rows :
         rows'[i] \in RowRecs /\ rows'[i].start = rows[i].start /\ rows'[i].end = rows[i].end

\* What a step that leaves the map, the job and the bounds of the rows alone
\* keeps of the invariant.
LEMMA MapLeftAlone ==
    ASSUME CoordInv, UNCHANGED <<cpc, segs, nextIdx, openSeg, job, total, taskTotal, late>>,
           WorkerTypes', RowsStand, Holding'
    PROVE  CoordInv'
<1>1. Running' = Running
  BY DEF Running
<1>2. CoordTypes' /\ MapTypes' /\ Mapped'
  BY <1>1 DEF CoordInv, Types, CoordTypes, MapTypes, Mapped
<1>3. RowTypes'
  <2>1. \E n \in Nat : DOMAIN rows' \subseteq 0 .. n - 1
    BY DEF CoordInv, Types, RowTypes, RowsStand
  <2>2. \A i \in DOMAIN rows' : rows'[i] \in RowRecs /\ rows'[i].start <= rows'[i].end
    BY DEF CoordInv, Types, RowTypes, RowsStand
  <2> QED BY <2>1, <2>2 DEF RowTypes
<1>4. RowsMatch'
  BY <1>1 DEF CoordInv, RowsMatch, RowsStand
<1>5. JobSound'
  BY DEF CoordInv, JobSound, RowsStand
<1> QED BY <1>2, <1>3, <1>4, <1>5 DEF CoordInv, Types, Holding

\* Rows that are not written stand.
LEMMA RowsUntouched ==
    ASSUME CoordInv, rows' = rows
    PROVE  RowsStand
BY DEF CoordInv, Types, RowTypes, RowsStand

\* A busy worker's row, if there is one, begins where its assignment does.
LEMMA BusyWorker ==
    ASSUME CoordInv, NEW w \in Workers, Busy(w)
    PROVE  /\ asg[w] \in Assignments /\ asg[w].idx \in Nat /\ asg[w].start \in Int
           /\ asg[w].from \in Int /\ asg[w].end \in Int
           /\ asg[w].start <= asg[w].from /\ asg[w].start <= asg[w].end
           /\ got[w] \in Nat /\ chunk[w] \in [len : Nat, cut : BOOLEAN] /\ chunk[w].len \in Nat
           /\ \A i \in DOMAIN rows : i = asg[w].idx =>
                rows[i] \in RowRecs /\ rows[i].start = asg[w].start /\ rows[i].start <= rows[i].end
<1>1. asg[w] \in Assignments /\ asg[w].start <= asg[w].from /\ asg[w].start <= asg[w].end
  BY DEF CoordInv, Types, WorkerTypes
<1>2. got[w] \in Nat /\ chunk[w] \in [len : Nat, cut : BOOLEAN]
  BY DEF CoordInv, Types, WorkerTypes
<1>3. asg[w].idx \in InState(segs, "Active") /\ asg[w].start = segs[asg[w].idx].start
  BY DEF CoordInv, HoldersActive
<1>4. Running
  BY <1>3 DEF CoordInv, Types, CoordTypes, InState
<1>5. \A i \in DOMAIN rows : i = asg[w].idx =>
        rows[i] \in RowRecs /\ rows[i].start = asg[w].start /\ rows[i].start <= rows[i].end
  BY <1>3, <1>4 DEF CoordInv, RowsMatch, Types, RowTypes
<1>6. /\ asg[w].idx \in Nat /\ asg[w].start \in Int
      /\ asg[w].from \in Int /\ asg[w].end \in Int
  BY <1>1 DEF Assignments
<1>7. chunk[w].len \in Nat
  BY <1>2
<1> QED BY <1>1, <1>2, <1>5, <1>6, <1>7

\* A worker's save of its progress moves no bound of a row.
LEMMA RowSaved ==
    ASSUME CoordInv, NEW w \in Workers, NEW d \in Nat, SaveRow(w, d)
    PROVE  RowsStand
<1> DEFINE i == asg[w].idx
<1>1. \A j \in DOMAIN rows : rows[j] \in RowRecs /\ rows[j].start <= rows[j].end
  BY DEF CoordInv, Types, RowTypes
<1>2. CASE rows' = rows
  BY <1>2, RowsUntouched
<1>3. CASE i \in DOMAIN rows /\ rows' = [rows EXCEPT ![i].dl = Lesser(d, RowSize(rows[i]))]
  <2> DEFINE x == Lesser(d, RowSize(rows[i]))
  <2>1. x \in Nat
    BY <1>1, <1>3 DEF RowRecs, RowSize, Lesser
  <2> HIDE DEF x
  <2>2. rows' = [rows EXCEPT ![i].dl = x]
    BY <1>3 DEF x
  <2> HIDE DEF i
  <2> QED BY <1>1, <1>3, <2>1, <2>2 DEF RowsStand, RowRecs
<1> QED BY <1>2, <1>3 DEF SaveRow

\* What a step of a worker leaves alone of the coordinator's state.
Elsewhere ==
    UNCHANGED <<cpc, segs, nextIdx, openSeg, job, total, taskTotal, late, stopped>>

\* The worker w goes on, to the place p, without a word.
LEMMA GoesOnQuietly ==
    ASSUME CoordInv, Elsewhere, NEW w \in Workers, NEW p \in WorkerPCs,
           Goto(w, p), UNCHANGED events,
           Busy(w) <=> p \notin {"gone", "wait"},
           asg' \in [Workers -> Assignments], got' \in [Workers -> Nat],
           \A v \in Workers : /\ asg'[v].idx = asg[v].idx /\ asg'[v].start = asg[v].start
                              /\ asg'[v].start <= asg'[v].from /\ asg'[v].start <= asg'[v].end,
           chunk' \in [Workers -> [len : Nat, cut : BOOLEAN]],
           \A i \in DOMAIN shared' : shared'[i] \in [end : Int, dl : Nat],
           RowsStand
    PROVE  CoordInv'
<1>1. wpc \in [Workers -> WorkerPCs] /\ events \in Seq(EventRecs)
  BY DEF CoordInv, Types, WorkerTypes
<1>2. wpc' \in [Workers -> WorkerPCs] /\ \A v \in Workers : wpc'[v] = IF v = w THEN p ELSE wpc[v]
  BY <1>1 DEF Goto
<1>3. WorkerTypes'
  BY <1>1, <1>2 DEF WorkerTypes
<1>4. \A v \in Workers : Busy(v)' <=> Busy(v)
  BY <1>2 DEF Busy
<1>5. News' = News /\ \A k \in News : events'[k] = events[k]
  BY DEF News
<1>6. Holding
  BY DEF CoordInv, Holding
<1>7. UNCHANGED <<segs, job, cpc, stopped>>
  BY DEF Elsewhere
<1>8. Holding'
  BY <1>4, <1>5, <1>6, <1>7, WorkerGoesOn
<1> QED BY <1>3, <1>8, MapLeftAlone DEF Elsewhere

\* The worker w reports its assignment as over.
LEMMA ReportKeeps ==
    ASSUME CoordInv, Elsewhere, NEW w \in Workers, Busy(w), UNCHANGED shared, RowsStand,
           NEW kind \in EventKinds \ Verdicts, NEW n \in Nat, NEW next \in {"wait", "gone"},
           w \in Nat,
           Report(w, Event(kind, w, asg[w].idx, n), next)
    PROVE  CoordInv'
<1> DEFINE e == Event(kind, w, asg[w].idx, n)
<1>1. /\ wpc \in [Workers -> WorkerPCs] /\ events \in Seq(EventRecs)
      /\ asg \in [Workers -> Assignments] /\ got \in [Workers -> Nat]
      /\ chunk \in [Workers -> [len : Nat, cut : BOOLEAN]]
      /\ \A v \in Workers : asg[v].start <= asg[v].from /\ asg[v].start <= asg[v].end
  BY DEF CoordInv, Types, WorkerTypes
<1>2. /\ events' = Append(events, e) /\ wpc' = [wpc EXCEPT ![w] = next]
      /\ asg' = [asg EXCEPT ![w] = NoWork] /\ got' = [got EXCEPT ![w] = 0]
      /\ chunk' = [chunk EXCEPT ![w] = NoChunk]
  BY DEF Report, Send
<1>3. asg[w].idx \in Nat
  BY BusyWorker
<1>4. e \in EventRecs /\ e.kind \notin Verdicts /\ e.w = w /\ e.idx = asg[w].idx
  BY <1>3 DEF Event, EventRecs
<1> HIDE DEF e
<1>5. events' \in Seq(EventRecs)
  BY <1>1, <1>2, <1>4, EventAppended
<1>6. NoWork \in Assignments /\ NoWork.start <= NoWork.from /\ NoWork.start <= NoWork.end
  BY DEF NoWork, Assignments
<1>7. NoChunk \in [len : Nat, cut : BOOLEAN]
  BY DEF NoChunk
<1>8. /\ wpc' \in [Workers -> WorkerPCs] /\ got' \in [Workers -> Nat]
      /\ \A v \in Workers : wpc'[v] = IF v = w THEN next ELSE wpc[v]
  BY <1>1, <1>2 DEF WorkerPCs
<1>9. /\ asg' \in [Workers -> Assignments]
      /\ \A v \in Workers : asg'[v] = IF v = w THEN NoWork ELSE asg[v]
  BY <1>1, <1>2, <1>6
<1>10. chunk' \in [Workers -> [len : Nat, cut : BOOLEAN]]
  BY <1>1, <1>2, <1>7
<1>11. \A v \in Workers : asg'[v].start <= asg'[v].from /\ asg'[v].start <= asg'[v].end
  BY <1>1, <1>6, <1>9
<1>12. \A i \in DOMAIN shared' : shared'[i] \in [end : Int, dl : Nat]
  BY DEF CoordInv, Types, WorkerTypes
<1>13. WorkerTypes'
  BY <1>5, <1>8, <1>9, <1>10, <1>11, <1>12 DEF WorkerTypes
<1>14. /\ ~Busy(w)' /\ \A v \in Workers \ {w} : (Busy(v)' <=> Busy(v)) /\ asg'[v] = asg[v]
  BY <1>8, <1>9 DEF Busy
<1>15. Holding
  BY DEF CoordInv, Holding
<1>16. UNCHANGED <<segs, job, cpc, stopped>>
  BY DEF Elsewhere
<1>17. Holding'
  BY <1>1, <1>2, <1>4, <1>14, <1>15, <1>16, WorkerReports
<1> QED BY <1>13, <1>17, MapLeftAlone DEF Elsewhere

\* A failure is reported in one of the kinds of the channel.
LEMMA FailureKeeps ==
    ASSUME CoordInv, Elsewhere, NEW w \in Workers, Busy(w), UNCHANGED <<shared, rows>>,
           NEW kind \in EventKinds \ Verdicts, NEW n \in Nat, ReportFailed(w, kind, n)
    PROVE  CoordInv'
<1>1. w \in Nat
  BY WorkersAssumption
<1>2. RowsStand
  BY RowsUntouched
<1>3. CASE Report(w, Event(kind, w, asg[w].idx, n), IF kind = "larger" THEN "wait" ELSE "gone")
  <2>1. ASSUME NEW next \in {"wait", "gone"}, Report(w, Event(kind, w, asg[w].idx, n), next)
        PROVE  CoordInv'
    BY <1>1, <1>2, <2>1, ReportKeeps
  <2> QED BY <1>3, <2>1
<1>4. CASE Report(w, Event("node", w, asg[w].idx, 0), "wait")
  <2>1. "node" \in EventKinds \ Verdicts /\ 0 \in Nat /\ "wait" \in {"wait", "gone"}
    BY DEF EventKinds, Verdicts
  <2> QED BY <1>1, <1>2, <1>4, <2>1, ReportKeeps
<1> QED BY <1>3, <1>4 DEF ReportFailed

\* The same for a segment reported as done.
LEMMA DoneReported ==
    ASSUME CoordInv, Elsewhere, NEW w \in Workers, Busy(w), UNCHANGED shared, RowsStand,
           NEW d \in Nat, ReportDone(w, d)
    PROVE  CoordInv'
<1>1. w \in Nat
  BY WorkersAssumption
<1>2. "done" \in EventKinds \ Verdicts /\ "wait" \in {"wait", "gone"}
  BY DEF EventKinds, Verdicts
<1> QED BY <1>1, <1>2, ReportKeeps DEF ReportDone

\* What GoesOnQuietly asks of the parts of a worker a step leaves alone.
LEMMA PartsTyped ==
    ASSUME CoordInv
    PROVE  /\ wpc \in [Workers -> WorkerPCs]
           /\ asg \in [Workers -> Assignments] /\ got \in [Workers -> Nat]
           /\ \A v \in Workers : asg[v].start <= asg[v].from /\ asg[v].start <= asg[v].end
           /\ chunk \in [Workers -> [len : Nat, cut : BOOLEAN]]
           /\ \A i \in DOMAIN shared : shared[i] \in [end : Int, dl : Nat]
           /\ events \in Seq(EventRecs)
BY DEF CoordInv, Types, WorkerTypes

\* The same for a step that changes nothing but where the worker stands, and
\* the rows.
LEMMA MovesOn ==
    ASSUME CoordInv, Elsewhere, NEW w \in Workers, NEW p \in WorkerPCs, Goto(w, p),
           UNCHANGED <<events, shared, asg, got, chunk>>,
           Busy(w) <=> p \notin {"gone", "wait"}, RowsStand
    PROVE  CoordInv'
<1>1. /\ asg' \in [Workers -> Assignments] /\ got' \in [Workers -> Nat]
      /\ \A v \in Workers : /\ asg'[v].idx = asg[v].idx /\ asg'[v].start = asg[v].start
                            /\ asg'[v].start <= asg'[v].from /\ asg'[v].start <= asg'[v].end
      /\ chunk' \in [Workers -> [len : Nat, cut : BOOLEAN]]
      /\ \A i \in DOMAIN shared' : shared'[i] \in [end : Int, dl : Nat]
  BY PartsTyped
<1> QED BY <1>1, GoesOnQuietly

\* A worker that leaves when the run is stopped says nothing.
LEMMA WorkerLeaves ==
    ASSUME CoordInv, Elsewhere, NEW w \in Workers, Busy(w), stopped, Goto(w, "gone"),
           UNCHANGED <<events, shared>>, RowsStand,
           asg' = asg \/ asg' = [asg EXCEPT ![w] = NoWork],
           got' = got \/ got' = [got EXCEPT ![w] = 0],
           chunk' = chunk
    PROVE  CoordInv'
<1>1. /\ wpc \in [Workers -> WorkerPCs]
      /\ asg \in [Workers -> Assignments] /\ got \in [Workers -> Nat]
      /\ \A v \in Workers : asg[v].start <= asg[v].from /\ asg[v].start <= asg[v].end
      /\ chunk \in [Workers -> [len : Nat, cut : BOOLEAN]]
      /\ \A i \in DOMAIN shared : shared[i] \in [end : Int, dl : Nat]
      /\ events \in Seq(EventRecs)
  BY PartsTyped
<1>2. /\ wpc' \in [Workers -> WorkerPCs]
      /\ \A v \in Workers : wpc'[v] = IF v = w THEN "gone" ELSE wpc[v]
  BY <1>1 DEF Goto, WorkerPCs
<1>3. NoWork \in Assignments /\ NoWork.start <= NoWork.from /\ NoWork.start <= NoWork.end
  BY DEF NoWork, Assignments
<1>4. /\ asg' \in [Workers -> Assignments]
      /\ \A v \in Workers : asg'[v] = asg[v] \/ (v = w /\ asg'[v] = NoWork)
  BY <1>1, <1>3
<1>5. \A v \in Workers : asg'[v].start <= asg'[v].from /\ asg'[v].start <= asg'[v].end
  BY <1>1, <1>3, <1>4
<1>6. got' \in [Workers -> Nat]
  <2>1. CASE got' = got
    BY <1>1, <2>1
  <2>2. CASE got' = [got EXCEPT ![w] = 0]
    BY <1>1, <2>2
  <2> QED BY <2>1, <2>2
<1>7. WorkerTypes'
  BY <1>1, <1>2, <1>4, <1>5, <1>6 DEF WorkerTypes
<1>8. /\ ~Busy(w)' /\ \A v \in Workers \ {w} : (Busy(v)' <=> Busy(v)) /\ asg'[v] = asg[v]
  BY <1>2, <1>4 DEF Busy
<1>9. News' = News /\ \A k \in News : events'[k] = events[k]
  BY DEF News
<1>10. Holding /\ UNCHANGED <<segs, job, cpc, stopped>>
  BY DEF CoordInv, Holding, Elsewhere
<1>11. Holding'
  BY <1>8, <1>9, <1>10, WorkerGoesOn
<1> QED BY <1>7, <1>11, MapLeftAlone DEF Elsewhere

\* A worker takes its assignment, or leaves because the run was stopped.
LEMMA ReceiveKeeps ==
    ASSUME CoordInv, Elsewhere, NEW w \in Workers, Receive(w)
    PROVE  CoordInv'
<1>1. Busy(w) /\ RowsStand /\ UNCHANGED <<events, shared, asg, got, chunk>>
  BY RowsUntouched DEF Receive, Busy, sharedVars, diskVars
<1>2. CASE stopped
  BY <1>1, <1>2, WorkerLeaves DEF Receive
<1>3. CASE ~stopped
  <2>1. "request" \in WorkerPCs /\ Goto(w, "request")
    BY <1>3 DEF WorkerPCs, Receive
  <2> QED BY <1>1, <2>1, MovesOn
<1> QED BY <1>2, <1>3

\* Nothing is left of the segment: it is reported as done.
LEMMA AlreadyCompleteKeeps ==
    ASSUME CoordInv, Elsewhere, NEW w \in Workers, AlreadyComplete(w)
    PROVE  CoordInv'
<1>1. Busy(w) /\ RowsStand /\ UNCHANGED shared
  BY RowsUntouched DEF AlreadyComplete, Busy, diskVars
<1> DEFINE d == asg[w].end - asg[w].start + 1
<1>2. d \in Nat
  BY <1>1, BusyWorker
<1>3. ReportDone(w, d)
  BY DEF AlreadyComplete
<1> HIDE DEF d
<1> QED BY <1>1, <1>2, <1>3, DoneReported

\* The request fails: the attempt is retried, or the worker gives the segment back.
LEMMA RequestFailsKeeps ==
    ASSUME CoordInv, Elsewhere, NEW w \in Workers, RequestFails(w)
    PROVE  CoordInv'
<1>1. Busy(w) /\ UNCHANGED <<shared, rows>>
  BY DEF RequestFails, Requesting, Busy, diskVars
<1>2. CASE ReportFailed(w, "refused", 0)
  <2>1. "refused" \in EventKinds \ Verdicts /\ 0 \in Nat
    BY DEF EventKinds, Verdicts
  <2> QED BY <1>1, <1>2, <2>1, FailureKeeps
<1>3. CASE Goto(w, "retry") /\ UNCHANGED <<events, asg, got, chunk>>
  <2>1. "retry" \in WorkerPCs /\ RowsStand
    BY <1>1, RowsUntouched DEF WorkerPCs
  <2> QED BY <1>1, <1>3, <2>1, MovesOn
<1> QED BY <1>2, <1>3 DEF RequestFails

\* The first response decides on Range and tells the coordinator; the segment stays.
LEMMA RuleKeeps ==
    ASSUME CoordInv, Elsewhere, NEW w \in Workers, NEW v \in Verdicts, Rule(w, v)
    PROVE  CoordInv'
<1>1. /\ Busy(w) /\ UNCHANGED <<shared, rows, asg, got, chunk>>
      /\ events' = Append(events, Event(v, w, 0, 0))
  BY DEF Rule, Requesting, Busy, diskVars, Send
<1>2. PICK p \in {"ignored", "answered"} : Goto(w, p)
  BY DEF Rule
<1>3. /\ wpc \in [Workers -> WorkerPCs]
      /\ asg \in [Workers -> Assignments] /\ got \in [Workers -> Nat]
      /\ \A x \in Workers : asg[x].start <= asg[x].from /\ asg[x].start <= asg[x].end
      /\ chunk \in [Workers -> [len : Nat, cut : BOOLEAN]]
      /\ \A i \in DOMAIN shared : shared[i] \in [end : Int, dl : Nat]
      /\ events \in Seq(EventRecs)
  BY PartsTyped
<1>4. wpc' \in [Workers -> WorkerPCs] /\ \A x \in Workers : Busy(x)' <=> Busy(x)
  BY <1>1, <1>2, <1>3 DEF Goto, WorkerPCs, Busy
<1> DEFINE e == Event(v, w, 0, 0)
<1>5. e \in EventRecs /\ e.kind \in Verdicts
  BY WorkersAssumption DEF Event, EventRecs, EventKinds
<1>6. events' = Append(events, e)
  BY <1>1
<1> HIDE DEF e
<1>7. /\ events' \in Seq(EventRecs)
      /\ \A k \in News : k \in News' /\ events'[k] = events[k]
      /\ \A k \in News' : \/ k \in News /\ events'[k] = events[k]
                          \/ k \notin News /\ events'[k] = e
  BY <1>3, <1>5, <1>6, EventAppended
<1>8. News' = News
  BY <1>5, <1>7 DEF News
<1>9. WorkerTypes'
  BY <1>1, <1>3, <1>4, <1>7 DEF WorkerTypes
<1>10. Holding /\ UNCHANGED <<segs, job, cpc, stopped>>
  BY DEF CoordInv, Holding, Elsewhere
<1>11. Holding'
  BY <1>1, <1>4, <1>7, <1>8, <1>10, WorkerGoesOn
<1>12. RowsStand
  BY <1>1, RowsUntouched
<1> QED BY <1>9, <1>11, <1>12, MapLeftAlone DEF Elsewhere

\* A response is accepted.
LEMMA AcceptedKeeps ==
    ASSUME CoordInv, Elsewhere, NEW w \in Workers, Accepted(w)
    PROVE  CoordInv'
<1>1. Busy(w) /\ RowsStand /\ UNCHANGED <<events, shared, asg, chunk>>
  BY RowsUntouched DEF Accepted, Answered, Requesting, Busy, sharedVars, diskVars
<1>2. "stream" \in WorkerPCs /\ Goto(w, "stream")
  BY DEF WorkerPCs, Accepted
<1>3. asg[w].from - asg[w].start \in Nat
  BY <1>1, BusyWorker
<1>4. got' \in [Workers -> Nat]
  <2> DEFINE x == asg[w].from - asg[w].start
  <2>1. got' = [got EXCEPT ![w] = x] /\ got \in [Workers -> Nat]
    BY PartsTyped DEF Accepted
  <2>2. x \in Nat
    BY <1>3
  <2> HIDE DEF x
  <2> QED BY <2>1, <2>2
<1>5. /\ asg' \in [Workers -> Assignments]
      /\ \A v \in Workers : /\ asg'[v].idx = asg[v].idx /\ asg'[v].start = asg[v].start
                            /\ asg'[v].start <= asg'[v].from /\ asg'[v].start <= asg'[v].end
      /\ chunk' \in [Workers -> [len : Nat, cut : BOOLEAN]]
      /\ \A i \in DOMAIN shared' : shared'[i] \in [end : Int, dl : Nat]
  BY <1>1, PartsTyped
<1> QED BY <1>1, <1>2, <1>4, <1>5, GoesOnQuietly

\* The server ignores Range.
LEMMA RangeIgnoredKeeps ==
    ASSUME CoordInv, Elsewhere, NEW w \in Workers, RangeIgnored(w)
    PROVE  CoordInv'
<1>1. Busy(w) /\ UNCHANGED <<shared, rows>>
  BY DEF RangeIgnored, Answered, Requesting, Busy, diskVars
<1>2. CASE ReportFailed(w, "norange", 0)
  <2>1. "norange" \in EventKinds \ Verdicts /\ 0 \in Nat
    BY DEF EventKinds, Verdicts
  <2> QED BY <1>1, <1>2, <2>1, FailureKeeps
<1>3. CASE Goto(w, "rangeRetry") /\ UNCHANGED <<events, asg, got, chunk>>
  <2>1. "rangeRetry" \in WorkerPCs /\ RowsStand
    BY <1>1, RowsUntouched DEF WorkerPCs
  <2> QED BY <1>1, <1>3, <2>1, MovesOn
<1> QED BY <1>2, <1>3 DEF RangeIgnored

\* The file has been replaced on the server.
LEMMA ReplacedKeeps ==
    ASSUME CoordInv, Elsewhere, NEW w \in Workers, Replaced(w)
    PROVE  CoordInv'
<1>1. Busy(w) /\ UNCHANGED <<shared, rows>>
  BY DEF Replaced, Answered, Requesting, Busy, diskVars
<1>2. "replaced" \in EventKinds \ Verdicts /\ 0 \in Nat /\ ReportFailed(w, "replaced", 0)
  BY DEF EventKinds, Verdicts, Replaced
<1> QED BY <1>1, <1>2, FailureKeeps

\* The server reports a larger size.
LEMMA TrueSizeLargerKeeps ==
    ASSUME CoordInv, Elsewhere, NEW w \in Workers, NEW n \in Nat, TrueSizeLarger(w, n)
    PROVE  CoordInv'
<1>1. Busy(w) /\ UNCHANGED <<shared, rows>>
  BY DEF TrueSizeLarger, Answered, Requesting, Busy, diskVars
<1>2. "larger" \in EventKinds \ Verdicts /\ ReportFailed(w, "larger", n)
  BY DEF EventKinds, Verdicts, TrueSizeLarger
<1> QED BY <1>1, <1>2, FailureKeeps

\* A chunk is cut to what may be written before the shared boundary.
LEMMA ReadKeeps ==
    ASSUME CoordInv, Elsewhere, NEW w \in Workers, Read(w)
    PROVE  CoordInv'
<1>1. Busy(w) /\ RowsStand /\ UNCHANGED <<events, shared, asg, got>>
  BY RowsUntouched DEF Read, Busy, sharedVars, diskVars
<1>2. CASE Goto(w, "finish") /\ UNCHANGED chunk
  <2>1. "finish" \in WorkerPCs
    BY DEF WorkerPCs
  <2> QED BY <1>1, <1>2, <2>1, MovesOn
<1>3. CASE /\ Goto(w, "write")
           /\ \E n \in 1 .. Lesser(MaxChunk, BodyLeft(w)) :
                chunk' = [chunk EXCEPT ![w] = [len |-> Lesser(n, Budget(w)),
                                               cut |-> Lesser(n, Budget(w)) < n]]
  <2>1. PICK n \in 1 .. Lesser(MaxChunk, BodyLeft(w)) :
            chunk' = [chunk EXCEPT ![w] = [len |-> Lesser(n, Budget(w)),
                                           cut |-> Lesser(n, Budget(w)) < n]]
    BY <1>3
  <2>2. n \in Nat
    OBVIOUS
  <2>3. Budget(w) \in Nat
    <3>1. asg[w].start \in Int /\ asg[w].end \in Int /\ got[w] \in Nat
      BY <1>1, BusyWorker
    <3>2. SharedEnd(w) \in Int /\ Pos(w) \in Int
      BY <3>1, PartsTyped DEF SharedEnd, Pos
    <3> QED BY <3>2 DEF Budget
  <2> DEFINE l == Lesser(n, Budget(w))
             c == [len |-> l, cut |-> l < n]
  <2>4. l \in Nat
    BY <2>2, <2>3 DEF Lesser
  <2> HIDE DEF l
  <2>5. c \in [len : Nat, cut : BOOLEAN]
    BY <2>4
  <2>6. chunk' = [chunk EXCEPT ![w] = c]
    BY <2>1 DEF l
  <2> HIDE DEF c
  <2>7. chunk' \in [Workers -> [len : Nat, cut : BOOLEAN]]
    BY <2>5, <2>6, PartsTyped
  <2>8. /\ asg' \in [Workers -> Assignments] /\ got' \in [Workers -> Nat]
        /\ \A v \in Workers : /\ asg'[v].idx = asg[v].idx /\ asg'[v].start = asg[v].start
                              /\ asg'[v].start <= asg'[v].from /\ asg'[v].start <= asg'[v].end
        /\ \A i \in DOMAIN shared' : shared'[i] \in [end : Int, dl : Nat]
    BY <1>1, PartsTyped
  <2>9. "write" \in WorkerPCs /\ Goto(w, "write")
    BY <1>3 DEF WorkerPCs
  <2> QED BY <1>1, <2>7, <2>8, <2>9, GoesOnQuietly
<1> QED BY <1>2, <1>3 DEF Read

\* A chunk is written and its progress published.
LEMMA WriteKeeps ==
    ASSUME CoordInv, Elsewhere, NEW w \in Workers, Write(w)
    PROVE  CoordInv'
<1> DEFINE d == got[w] + chunk[w].len
           i == asg[w].idx
<1>1. Busy(w) /\ RowsStand /\ UNCHANGED <<events, asg>>
  BY RowsUntouched DEF Write, Busy
<1>2. d \in Nat
  BY <1>1, BusyWorker
<1>3. /\ got' = [got EXCEPT ![w] = d] /\ chunk' = [chunk EXCEPT ![w] = NoChunk]
      /\ shared' = IF i \in DOMAIN shared THEN [shared EXCEPT ![i].dl = d] ELSE shared
  BY DEF Write, Publish
<1>4. PICK p \in {"finish", "stream"} : Goto(w, p)
  BY DEF Write
<1> HIDE DEF d, i
<1>5. \A j \in DOMAIN shared' : shared'[j] \in [end : Int, dl : Nat]
  BY <1>2, <1>3, PartsTyped
<1>6. NoChunk \in [len : Nat, cut : BOOLEAN]
  BY DEF NoChunk
<1>7. got' \in [Workers -> Nat] /\ chunk' \in [Workers -> [len : Nat, cut : BOOLEAN]]
  BY <1>2, <1>3, <1>6, PartsTyped
<1>8. /\ asg' \in [Workers -> Assignments]
      /\ \A v \in Workers : /\ asg'[v].idx = asg[v].idx /\ asg'[v].start = asg[v].start
                            /\ asg'[v].start <= asg'[v].from /\ asg'[v].start <= asg'[v].end
  BY <1>1, PartsTyped
<1>9. p \in WorkerPCs /\ p \notin {"gone", "wait"}
  BY DEF WorkerPCs
<1> QED BY <1>1, <1>4, <1>5, <1>7, <1>8, <1>9, GoesOnQuietly

\* The stream ends or breaks; the progress is saved.
LEMMA StreamExitsKeep ==
    ASSUME CoordInv, Elsewhere, NEW w \in Workers, StreamEnds(w) \/ StreamBreaks(w)
    PROVE  CoordInv'
<1>1. Busy(w) /\ UNCHANGED <<events, shared, asg, got, chunk>>
  BY DEF StreamEnds, StreamBreaks, Busy, sharedVars
<1>2. RowsStand
  <2>1. got[w] \in Nat
    BY <1>1, BusyWorker
  <2> QED BY <2>1, RowSaved, RowsUntouched DEF StreamEnds, StreamBreaks
<1>3. PICK p \in {"finish", "retry"} : Goto(w, p)
  BY DEF StreamEnds, StreamBreaks
<1>4. p \in WorkerPCs /\ p \notin {"gone", "wait"}
  BY DEF WorkerPCs
<1> QED BY <1>1, <1>2, <1>3, <1>4, MovesOn

\* The boundary is reached: progress saved, segment reported.
LEMMA FinishSegmentKeeps ==
    ASSUME CoordInv, Elsewhere, NEW w \in Workers, FinishSegment(w)
    PROVE  CoordInv'
<1>1. Busy(w) /\ UNCHANGED shared /\ ReportDone(w, got[w])
  BY DEF FinishSegment, Busy
<1>2. got[w] \in Nat
  BY <1>1, BusyWorker
<1>3. RowsStand
  BY <1>2, RowSaved DEF FinishSegment
<1> QED BY <1>1, <1>2, <1>3, DoneReported

\* The attempts are used up.
LEMMA GiveUpKeeps ==
    ASSUME CoordInv, Elsewhere, NEW w \in Workers, GiveUp(w)
    PROVE  CoordInv'
<1>1. Busy(w) /\ UNCHANGED <<shared, rows>>
  BY DEF GiveUp, Busy, diskVars
<1>2. {"norange", "broken"} \subseteq EventKinds \ Verdicts /\ 0 \in Nat
  BY DEF EventKinds, Verdicts
<1>3. PICK kind \in {"norange", "broken"} : ReportFailed(w, kind, 0)
  BY DEF GiveUp
<1> QED BY <1>1, <1>2, <1>3, FailureKeeps

\* The next attempt stays within the segment: the row begins where it does.
LEMMA RetryKeeps ==
    ASSUME CoordInv, Elsewhere, NEW w \in Workers, Retry(w)
    PROVE  CoordInv'
<1> DEFINE i == asg[w].idx
           row == rows[i]
           from == asg[w].start + row.dl
<1>1. Busy(w) /\ UNCHANGED shared /\ RowsStand
  BY RowsUntouched DEF Retry, Busy, diskVars
<1>2. "request" \in WorkerPCs
  BY DEF WorkerPCs
<1>3. asg[w].start \in Int
  BY <1>1, BusyWorker
<1>4. i \in DOMAIN rows => row \in RowRecs /\ asg[w].start <= row.end
  BY <1>1, BusyWorker
<1>5. CASE i \in DOMAIN rows /\ ReportDone(w, row.dl)
  <2>1. row.dl \in Nat
    BY <1>4, <1>5 DEF RowRecs
  <2> HIDE DEF row
  <2> QED BY <1>1, <1>5, <2>1, DoneReported
<1>6. CASE /\ i \in DOMAIN rows
           /\ asg' = [asg EXCEPT ![w].end = row.end, ![w].from = from]
           /\ got' = [got EXCEPT ![w] = 0] /\ Goto(w, "request") /\ UNCHANGED <<chunk, events>>
  <2> DEFINE a == [asg[w] EXCEPT !.end = row.end, !.from = from]
  <2>1. row.end \in Int /\ from \in Int /\ asg[w].start <= from /\ asg[w].start <= row.end
    BY <1>3, <1>4, <1>6 DEF RowRecs
  <2>2. asg \in [Workers -> Assignments] /\ asg' = [asg EXCEPT ![w] = a]
    <3>1. asg \in [Workers -> Assignments]
      BY PartsTyped
    <3> HIDE DEF from, row
    <3> QED BY <1>6, <3>1
  <2> HIDE DEF from, row
  <2>3. a \in Assignments /\ a.idx = asg[w].idx /\ a.start = asg[w].start /\ a.start <= a.from
        /\ a.start <= a.end
    BY <2>1, <2>2 DEF Assignments
  <2> HIDE DEF a
  <2>4. /\ asg' \in [Workers -> Assignments]
        /\ \A v \in Workers : asg'[v] = IF v = w THEN a ELSE asg[v]
    BY <2>2, <2>3
  <2>5. \A v \in Workers : /\ asg'[v].idx = asg[v].idx /\ asg'[v].start = asg[v].start
                           /\ asg'[v].start <= asg'[v].from /\ asg'[v].start <= asg'[v].end
    BY <2>3, <2>4, PartsTyped
  <2>6. /\ got' \in [Workers -> Nat] /\ chunk' \in [Workers -> [len : Nat, cut : BOOLEAN]]
        /\ \A j \in DOMAIN shared' : shared'[j] \in [end : Int, dl : Nat]
    BY <1>1, <1>6, PartsTyped
  <2> QED BY <1>1, <1>2, <1>6, <2>4, <2>5, <2>6, GoesOnQuietly
<1>7. CASE /\ got' = [got EXCEPT ![w] = 0] /\ Goto(w, "request")
           /\ UNCHANGED <<asg, chunk, events>>
  <2>1. /\ asg' \in [Workers -> Assignments]
        /\ \A v \in Workers : /\ asg'[v].idx = asg[v].idx /\ asg'[v].start = asg[v].start
                              /\ asg'[v].start <= asg'[v].from /\ asg'[v].start <= asg'[v].end
        /\ got' \in [Workers -> Nat] /\ chunk' \in [Workers -> [len : Nat, cut : BOOLEAN]]
        /\ \A j \in DOMAIN shared' : shared'[j] \in [end : Int, dl : Nat]
    BY <1>1, <1>7, PartsTyped
  <2> QED BY <1>1, <1>2, <1>7, <2>1, GoesOnQuietly
<1> QED BY <1>5, <1>6, <1>7 DEF Retry

\* A stopped worker saves its progress and leaves without a word.
LEMMA CancelledKeeps ==
    ASSUME CoordInv, Elsewhere, NEW w \in Workers, Cancelled(w)
    PROVE  CoordInv'
<1>1. /\ Busy(w) /\ stopped /\ Goto(w, "gone") /\ UNCHANGED <<events, shared, chunk>>
      /\ asg' = [asg EXCEPT ![w] = NoWork] /\ got' = [got EXCEPT ![w] = 0]
  BY DEF Cancelled, Busy, sharedVars
<1>2. RowsStand
  <2>1. got[w] \in Nat
    BY <1>1, BusyWorker
  <2> QED BY <2>1, RowSaved, RowsUntouched DEF Cancelled
<1> QED BY <1>1, <1>2, WorkerLeaves

\* A worker whose channel was closed leaves.
LEMMA RetireKeeps ==
    ASSUME CoordInv, Elsewhere, NEW w \in Workers, Retire(w)
    PROVE  CoordInv'
<1>1. ~Busy(w) /\ RowsStand /\ UNCHANGED <<events, shared, asg, got, chunk>> /\ Goto(w, "gone")
  BY RowsUntouched DEF Retire, Busy, sharedVars, diskVars
<1>2. "gone" \in WorkerPCs
  BY DEF WorkerPCs
<1> QED BY <1>1, <1>2, MovesOn

\* Whatever a worker does.
LEMMA WorkersKeep ==
    ASSUME CoordInv, NEW w \in Workers, WorkerProgress(w) \/ WorkerFault(w), CoordUnchanged
    PROVE  CoordInv'
<1>1. Elsewhere
  <2>1. UNCHANGED <<total, stopped>>
    BY DEF WorkerProgress, WorkerFault, Receive, AlreadyComplete, Rule, Accepted, Read, Write,
           StreamEnds, FinishSegment, Retry, GiveUp, Cancelled, Retire, RequestFails,
           RangeIgnored, Replaced, TrueSizeLarger, StreamBreaks, controlVars
  <2> QED BY <2>1 DEF CoordUnchanged, mapVars, taskVars, Elsewhere
<1>2. CASE WorkerProgress(w)
  <2>1. ASSUME NEW v \in {"supported", "unsupported"}, Rule(w, v)
        PROVE  CoordInv'
    BY <1>1, <2>1, RuleKeeps DEF Verdicts
  <2> QED BY <1>1, <1>2, <2>1, ReceiveKeeps, AlreadyCompleteKeeps, AcceptedKeeps, ReadKeeps,
             WriteKeeps, StreamExitsKeep, FinishSegmentKeeps, RetryKeeps, GiveUpKeeps,
             CancelledKeeps, RetireKeeps DEF WorkerProgress
<1>3. CASE WorkerFault(w)
  <2>1. ASSUME NEW n \in 1 .. MaxTotal, TrueSizeLarger(w, n)
        PROVE  CoordInv'
    <3>1. n \in Nat
      OBVIOUS
    <3> QED BY <1>1, <2>1, <3>1, TrueSizeLargerKeeps
  <2> QED BY <1>1, <1>3, <2>1, RequestFailsKeeps, RangeIgnoredKeeps, ReplacedKeeps,
             StreamExitsKeep DEF WorkerFault
<1> QED BY <1>2, <1>3
-----------------------------------------------------------------------------
(***************************************************************************)
(* The rest of the steps, and the theorems.                                *)
(***************************************************************************)

\* A step that changes only who is stopped, or the progress in the rows.
LEMMA NothingMoves ==
    ASSUME CoordInv,
           UNCHANGED <<cpc, segs, nextIdx, openSeg, job, total, taskTotal, late, shared, wpc, asg,
                       got, chunk, events>>,
           stopped => stopped', RowsStand
    PROVE  CoordInv'
<1>1. WorkerTypes'
  BY DEF CoordInv, Types, WorkerTypes
<1>2. Holding /\ (AtWork' => AtWork) /\ SameActive
  BY DEF CoordInv, Holding, AtWork, SameActive
<1>3. /\ Sending' <=> Sending
      /\ Engaged' => Engaged /\ job'.w = job.w
  BY DEF Sending, Engaged
<1>4. Holding'
  BY <1>2, <1>3, HoldersSame
<1> QED BY <1>1, <1>4, MapLeftAlone

\* The coordinator writes a durable watermark to a row.
LEMMA DrainKeeps ==
    ASSUME CoordInv, NEW w \in Workers, DrainProgress(w)
    PROVE  CoordInv'
<1> DEFINE i == asg[w].idx
           d == Lesser(Lesser(got[w], Size(segs[i])), RowSize(rows[i]))
<1>1. /\ wpc[w] \in {"stream", "write"} /\ i \in DOMAIN rows /\ i \in DOMAIN segs
      /\ d > rows[i].dl /\ rows' = [rows EXCEPT ![i].dl = d]
      /\ UNCHANGED <<cpc, segs, nextIdx, openSeg, job, total, taskTotal, late, shared, wpc, asg,
                     got, chunk, events, stopped>>
  BY DEF DrainProgress, mapVars, taskVars, controlVars, sharedVars, localVars
<1>2. \A j \in DOMAIN rows : rows[j] \in RowRecs /\ rows[j].start <= rows[j].end
  BY DEF CoordInv, Types, RowTypes
<1>3. d \in Nat
  <2>1. Busy(w)
    BY <1>1 DEF Busy
  <2>2. got[w] \in Nat
    BY <2>1, BusyWorker
  <2>3. Running
    BY <1>1 DEF CoordInv, Types, CoordTypes
  <2>4. segs[i] \in SegRecs
    BY <1>1, <2>3, MapIsSound
  <2>5. Size(segs[i]) \in Nat
    BY <2>4 DEF Size, SegRecs
  <2>6. RowSize(rows[i]) \in Nat
    BY <1>1, <1>2 DEF RowSize, RowRecs
  <2> QED BY <2>2, <2>5, <2>6 DEF Lesser
<1>4. RowsStand
  <2> HIDE DEF d, i
  <2> QED BY <1>1, <1>2, <1>3 DEF RowsStand, RowRecs
<1> QED BY <1>1, <1>4, NothingMoves

\* The user pauses.
LEMMA PauseKeeps ==
    ASSUME CoordInv, Pause
    PROVE  CoordInv'
<1>1. /\ UNCHANGED <<cpc, segs, nextIdx, openSeg, job, total, taskTotal, late, shared, wpc, asg,
                     got, chunk, events>>
      /\ stopped' /\ rows' = rows
  BY DEF Pause, mapVars, taskVars, workerVars, sharedVars, localVars, diskVars
<1>2. RowsStand
  BY <1>1, RowsUntouched
<1> QED BY <1>1, <1>2, NothingMoves

\* The loop is over: the map takes the progress of the workers, and so do the rows.
LEMMA JoinKeeps ==
    ASSUME CoordInv, Join
    PROVE  CoordInv'
<1> DEFINE m == Synced(segs)
<1>1. /\ cpc = "join" /\ cpc' = "ended" /\ (segs' = segs \/ segs' = m)
      /\ \/ rows' = rows
         \/ rows' = [i \in DOMAIN rows |->
                        IF i \in DOMAIN m THEN [rows[i] EXCEPT !.dl = m[i].dl] ELSE rows[i]]
      /\ UNCHANGED <<nextIdx, openSeg, job, total, taskTotal, late, stopped, shared, wpc, asg, got,
                     chunk, events>>
  BY DEF Join, taskVars, controlVars, sharedVars, localVars
<1>2. Running /\ Running' /\ job.then = "loop" /\ job'.then = "loop"
  BY <1>1 DEF Running, CoordInv, Types, CoordTypes
<1>3. /\ Sound(m, nextIdx, total) /\ Carried(segs, m) /\ total \in Nat \ {0} /\ total \in Nat
      /\ InState(m, "Active") = InState(segs, "Active")
      /\ Sound(segs, nextIdx, total) /\ Carried(segs, segs)
  BY <1>2, SyncedMap, MapIsSound DEF Carried
<1>4. \A i \in DOMAIN m : m[i] \in SegRecs
  BY <1>3, SoundSegment
<1> HIDE DEF m
<1>5. /\ Sound(segs', nextIdx', total') /\ Carried(segs, segs') /\ total' \in Nat \ {0}
      /\ InState(segs', "Active") = InState(segs, "Active")
  BY <1>1, <1>3
<1>6. RowsStand
  <2>1. \A i \in DOMAIN rows : rows[i] \in RowRecs
    BY DEF CoordInv, Types, RowTypes
  <2> QED BY <1>1, <1>4, <2>1, RowsUntouched DEF RowsStand, RowRecs, SegRecs
<1>7. CoordTypes'
  BY <1>1, <1>2 DEF CoordInv, Types, CoordTypes
<1>8. MapTypes' /\ Mapped'
  <2>1. openSeg' = NoSeg \/ openSeg' \in DOMAIN segs'
    BY <1>1, <1>5 DEF CoordInv, Types, MapTypes, Carried
  <2> QED BY <1>5, <2>1 DEF MapTypes, Mapped, Sound
<1>9. WorkerTypes'
  BY <1>1 DEF CoordInv, Types, WorkerTypes
<1>10. RowTypes' /\ RowsMatch'
  <2>1. \E n \in Nat : DOMAIN rows' \subseteq 0 .. n - 1
    BY <1>6 DEF CoordInv, Types, RowTypes, RowsStand
  <2>2. \A i \in DOMAIN rows' : rows'[i] \in RowRecs /\ rows'[i].start <= rows'[i].end
    BY <1>6 DEF CoordInv, Types, RowTypes, RowsStand
  <2>3. \A i \in DOMAIN rows' : i \in DOMAIN segs' /\ rows'[i].start = segs'[i].start
    BY <1>2, <1>5, <1>6 DEF CoordInv, RowsMatch, RowsStand, Carried
  <2> QED BY <2>1, <2>2, <2>3 DEF RowTypes, RowsMatch
<1>11. JobSound'
  BY <1>1 DEF JobSound
<1>12. Holding'
  <2>1. /\ Holding /\ (AtWork' => AtWork) /\ SameActive
        /\ ~Sending /\ ~Sending' /\ ~Engaged'
    BY <1>1, <1>2, <1>5 DEF CoordInv, Holding, AtWork, SameActive, Carried, InState, Sending, Engaged
  <2> QED BY <1>1, <2>1, HoldersSame
<1> QED BY <1>7, <1>8, <1>9, <1>10, <1>11, <1>12 DEF CoordInv, Types, Holding

\* A crash, or a resume, forgets everything but the rows.
LEMMA RestartKeeps ==
    ASSUME CoordInv, Restart
    PROVE  CoordInv'
<1>1. /\ cpc' = "start" /\ job' = NoJob /\ segs' = <<>> /\ nextIdx' = 0 /\ openSeg' = NoSeg
      /\ total' = taskTotal /\ taskTotal' = taskTotal /\ shared' = <<>>
      /\ events' = <<>> /\ rows' = rows
      /\ wpc' = [w \in Workers |-> "gone"] /\ asg' = [w \in Workers |-> NoWork]
      /\ got' = [w \in Workers |-> 0] /\ chunk' = [w \in Workers |-> NoChunk]
  BY DEF Restart
<1>2. ~Running' /\ DOMAIN segs' = {} /\ DOMAIN shared' = {} /\ job'.then = "loop"
  BY <1>1 DEF Running, NoJob
<1>3. CoordTypes'
  BY <1>1, <1>2 DEF CoordInv, Types, CoordTypes
<1>4. MapTypes' /\ Mapped' /\ RowsMatch' /\ JobSound'
  BY <1>1, <1>2 DEF MapTypes, MapBelow, Mapped, RowsMatch, JobSound
<1>5. WorkerTypes'
  <2>1. NoWork \in Assignments /\ NoWork.start <= NoWork.from /\ NoWork.start <= NoWork.end
    BY DEF NoWork, Assignments
  <2>2. NoChunk \in [len : Nat, cut : BOOLEAN]
    BY DEF NoChunk
  <2>3. wpc' \in [Workers -> WorkerPCs] /\ events' \in Seq(EventRecs)
    BY <1>1 DEF WorkerPCs
  <2> QED BY <1>1, <1>2, <2>1, <2>2, <2>3 DEF WorkerTypes
<1>6. RowTypes'
  BY <1>1 DEF CoordInv, Types, RowTypes
<1>7. Holding'
  <2>1. /\ \A w \in Workers : ~Busy(w)'
        /\ ~Sending' /\ ~Engaged' /\ InState(segs', "Active") = {}
    BY <1>1, <1>2 DEF Busy, Sending, Engaged, InState
  <2> QED BY <1>1, <2>1, NobodyHolds
<1> QED BY <1>3, <1>4, <1>5, <1>6, <1>7 DEF CoordInv, Types, Holding

\* The invariant holds before the first run.
LEMMA InitHolds ==
    ASSUME CoordInit
    PROVE  CoordInv
<1>1. /\ cpc = "start" /\ job = NoJob /\ segs = <<>> /\ nextIdx = 0 /\ openSeg = NoSeg
      /\ total = InitialTotal /\ taskTotal = InitialTotal /\ shared = <<>>
      /\ events = <<>> /\ rows = <<>>
      /\ wpc = [w \in Workers |-> "gone"] /\ asg = [w \in Workers |-> NoWork]
      /\ got = [w \in Workers |-> 0] /\ chunk = [w \in Workers |-> NoChunk]
  BY DEF CoordInit
<1>2. ~Running /\ DOMAIN segs = {} /\ DOMAIN shared = {} /\ DOMAIN rows = {} /\ job.then = "loop"
  BY <1>1 DEF Running, NoJob
<1>3. CoordTypes
  BY <1>1, <1>2, CoordinatorAssumption, WorkersAssumption DEF CoordTypes
<1>4. MapTypes /\ Mapped /\ RowsMatch /\ JobSound
  BY <1>1, <1>2 DEF MapTypes, MapBelow, Mapped, RowsMatch, JobSound
<1>5. WorkerTypes
  <2>1. NoWork \in Assignments /\ NoWork.start <= NoWork.from /\ NoWork.start <= NoWork.end
    BY DEF NoWork, Assignments
  <2>2. NoChunk \in [len : Nat, cut : BOOLEAN]
    BY DEF NoChunk
  <2>3. wpc \in [Workers -> WorkerPCs] /\ events \in Seq(EventRecs)
    BY <1>1 DEF WorkerPCs
  <2> QED BY <1>1, <1>2, <2>1, <2>2, <2>3 DEF WorkerTypes
<1>6. RowTypes
  <2>1. DOMAIN rows \subseteq 0 .. 0 - 1 /\ 0 \in Nat
    BY <1>2
  <2> QED BY <1>2, <2>1 DEF RowTypes
<1>7. /\ \A w \in Workers : ~Busy(w)
      /\ ~Sending /\ ~Engaged /\ InState(segs, "Active") = {} /\ News = {}
  BY <1>1, <1>2 DEF Busy, Sending, Engaged, InState, News
<1>8. HoldersActive /\ OneHolder /\ ReportersRest /\ NoneForgotten
  BY <1>7 DEF HoldersActive, OneHolder, ReportersRest, NoneForgotten
<1> QED BY <1>3, <1>4, <1>5, <1>6, <1>8 DEF CoordInv, Types

\* Every step keeps the invariant, whoever takes it, but the one of a statement
\* that an earlier run left behind.
LEMMA StepKeeps ==
    ASSUME CoordInv, [CoordNext]_vars
    PROVE  CoordInv' \/ LateCommit
<1>1. CASE CoordStep
  <2>1. CASE StartFresh
    BY <2>1, StartFreshKeeps
  <2>2. CASE Resume
    BY <2>2, ResumeKeeps
  <2>3. CASE Rebuild
    BY <2>3, RebuildKeeps
  <2>4. CASE Persist
    BY <2>4, PersistKeeps
  <2>5. CASE Continue
    BY <2>5, ContinueKeeps
  <2>6. CASE HandleEvent
    BY <2>6, HandleEventKeeps
  <2>7. CASE Dispatch
    BY <2>7, DispatchKeeps
  <2>8. CASE Redispatch
    BY <2>8, RedispatchKeeps
  <2>9. CASE Refill
    BY <2>9, RefillKeeps
  <2>10. CASE RampPoll \/ RampTick \/ HandlePause
    BY <2>10, TimersKeep
  <2>11. CASE Join
    BY <2>11, JoinKeeps
  <2> QED BY <1>1, <2>1, <2>2, <2>3, <2>4, <2>5, <2>6, <2>7, <2>8, <2>9, <2>10, <2>11
          DEF CoordStep
<1>2. CASE ProactiveSplit
  BY <1>2, ProactiveSplitKeeps
<1>3. CASE \E w \in Workers : (WorkerProgress(w) \/ WorkerFault(w)) /\ CoordUnchanged
  BY <1>3, WorkersKeep
<1>4. CASE \E w \in Workers : DrainProgress(w)
  BY <1>4, DrainKeeps
<1>5. CASE Pause
  BY <1>5, PauseKeeps
<1>6. CASE Restart
  BY <1>6, RestartKeeps
<1>7. CASE UNCHANGED vars
  <2>1. /\ UNCHANGED <<cpc, segs, nextIdx, openSeg, job, total, taskTotal, late, shared, wpc, asg,
                       got, chunk, events>>
        /\ stopped' = stopped /\ rows' = rows
    BY <1>7 DEF vars, mapVars, taskVars, controlVars, workerVars, sharedVars, localVars, diskVars
  <2>2. RowsStand
    BY <2>1, RowsUntouched
  <2> QED BY <2>1, <2>2, NothingMoves
<1> QED BY <1>1, <1>2, <1>3, <1>4, <1>5, <1>6, <1>7 DEF CoordNext, Ended

\* What has gone astray stays so, and no statement is late but one that may be.
LEMMA StepsAstray ==
    ASSUME [CoordNext]_vars
    PROVE  /\ astray => astray'
           /\ LateCommit => astray' /\ late # NoStmt
           /\ ~LateStatements /\ late = NoStmt => late' = NoStmt
<1>1. CASE \/ StartFresh \/ Resume \/ Rebuild \/ Continue \/ HandleEvent \/ Dispatch \/ Redispatch
           \/ RampPoll \/ RampTick \/ Refill \/ HandlePause \/ Join \/ ProactiveSplit \/ Pause
           \/ \E w \in Workers : CoordUnchanged \/ DrainProgress(w)
           \/ UNCHANGED vars
  <2>1. UNCHANGED <<late, astray>>
    <3>1. CASE StartFresh \/ Resume \/ Rebuild
      BY <3>1 DEF StartFresh, Resume, Rebuild, UnchangedByLaunch
    <3>2. CASE Continue \/ Dispatch \/ Redispatch \/ Refill \/ Join \/ ProactiveSplit
      BY <3>2 DEF Continue, Dispatch, Redispatch, Refill, Join, ProactiveSplit, taskVars
    <3>3. CASE RampPoll \/ RampTick \/ HandlePause \/ Pause
      BY <3>3 DEF RampPoll, RampTick, HandlePause, Pause, taskVars
    <3>4. CASE HandleEvent
      <4> DEFINE e == Head(events)
      <4>1. \/ HandleDone(e) \/ HandleLarger(e) \/ HandleNodeFailed(e)
            \/ HandleRejection(e) \/ HandleFatal(e) \/ HandleVerdict(e)
        BY <3>4 DEF HandleEvent
      <4> HIDE DEF e
      <4> QED BY <4>1 DEF HandleDone, HandleLarger, HandleNodeFailed, HandleRejection,
                          HandleFatal, HandleVerdict, taskVars
    <3>5. CASE UNCHANGED vars \/ \E w \in Workers : CoordUnchanged \/ DrainProgress(w)
      BY <3>5 DEF vars, CoordUnchanged, DrainProgress, taskVars
    <3> QED BY <1>1, <3>1, <3>2, <3>3, <3>4, <3>5
  <2> QED BY <2>1 DEF LateCommit
<1>2. CASE Persist
  BY <1>2 DEF Persist, LateCommit
<1>3. CASE Restart
  BY <1>3 DEF Restart, LateCommit
<1>4. CASE LateCommit
  BY <1>4 DEF LateCommit
<1> QED BY <1>1, <1>2, <1>3, <1>4 DEF CoordNext, CoordStep, Ended

\* CoordInv holds throughout: with the layout of the map, that its state has
\* its types, that the rows are of segments of the map, that the statement under
\* way says what the map says, and who holds what.  A statement of an earlier
\* run that comes late is left out: it may store a row of a map that is gone, and
\* RowsMatch does not survive it.
THEOREM CoordInvHolds ==
    ASSUME LateStatements = FALSE
    PROVE  CoordSpec => [](CoordInv /\ late = NoStmt)
<1>1. CoordInit => CoordInv /\ late = NoStmt
  BY InitHolds DEF CoordInit
<1>2. CoordInv /\ late = NoStmt /\ [CoordNext]_vars => (CoordInv /\ late = NoStmt)'
  BY StepKeeps, StepsAstray DEF NoStmt
<1> QED BY <1>1, <1>2, PTL DEF CoordSpec

\* Where statements may come late, it holds until one has.
THEOREM CoordInvUnlessAstray == CoordSpec => [](astray \/ CoordInv)
<1>1. CoordInit => CoordInv
  BY InitHolds
<1>2. (astray \/ CoordInv) /\ [CoordNext]_vars => (astray \/ CoordInv)'
  BY StepKeeps, StepsAstray
<1> QED BY <1>1, <1>2, PTL DEF CoordSpec

\* The map is a partition of the file in every state of every run that no
\* statement of an earlier run reaches: however many workers there are, whatever
\* they do while the coordinator awaits the database, and whichever statement
\* fails there (run_coordinated_download).
THEOREM LayoutHolds ==
    ASSUME LateStatements = FALSE
    PROVE  CoordSpec => []Layout
<1>1. CoordInv => Layout
  BY DEF CoordInv, Mapped, Layout
<1> QED BY <1>1, CoordInvHolds, PTL

\* A set whose members are all equal has at most one.
LEMMA AtMostOne ==
    ASSUME NEW S, \A x, y \in S : x = y
    PROVE  Cardinality(S) <= 1
<1>1. CASE S = {}
  BY <1>1, FS_EmptySet
<1>2. CASE S # {}
  <2>1. PICK x : x \in S
    BY <1>2
  <2>2. S = {x}
    BY <2>1
  <2> QED BY <2>2, FS_Singleton
<1> QED BY <1>1, <1>2

\* What the invariant says of the holders, in the words of the property.
LEMMA OwnersOfInv ==
    ASSUME CoordInv
    PROVE  OneOwner
<1>1. ASSUME NEW i \in DOMAIN segs, NEW x \in Owners(i), NEW y \in Owners(i)
      PROVE  x = y
  <2>1. \A z \in Owners(i) :
          \/ \E w \in Workers : Busy(w) /\ asg[w].idx = i /\ z = <<"worker", w>>
          \/ \E k \in News : events[k].idx = i /\ z = <<"event", k>>
          \/ Sending /\ job.asg.idx = i /\ z = <<"job", 0>>
    BY DEF Owners, Busy, News, Verdicts, Sending
  <2>2. CASE Sending /\ job.asg.idx = i
    BY <1>1, <2>1, <2>2 DEF CoordInv, OneHolder
  <2>3. CASE \E w \in Workers : Busy(w) /\ asg[w].idx = i
    BY <1>1, <2>1, <2>3 DEF CoordInv, OneHolder
  <2>4. CASE ~ \E w \in Workers : Busy(w) /\ asg[w].idx = i
    BY <1>1, <2>1, <2>4 DEF CoordInv, OneHolder
  <2> QED BY <2>3, <2>4
<1>2. \A i \in DOMAIN segs : Cardinality(Owners(i)) <= 1
  BY <1>1, AtMostOne
<1>3. ASSUME cpc = "loop", ~stopped, NEW i \in InState(segs, "Active")
      PROVE  Owners(i) # {}
  <2>1. Held(i)
    BY <1>3 DEF CoordInv, NoneForgotten
  <2> QED BY <2>1 DEF Held, Owners, Busy, News, Verdicts, Sending
<1> QED BY <1>2, <1>3 DEF OneOwner

\* No segment is downloaded by two workers at once, and none that is active is
\* left without one while the run goes on, through splits, refusals, lost nodes
\* and the awaits between a decision and the message that carries it.
THEOREM OneOwnerHolds ==
    ASSUME LateStatements = FALSE
    PROVE  CoordSpec => []OneOwner
<1>1. CoordInv => OneOwner
  BY OwnersOfInv
<1> QED BY <1>1, CoordInvHolds, PTL
=============================================================================
