----------------------------- MODULE SegmentMap -----------------------------
(***************************************************************************)
(* The segment map of a multi-segment download and the operations on it:   *)
(* the in-half split, the split of a short segment, the tail appended when *)
(* the file proves larger, and the merge into an open-ended stream.        *)
(*                                                                         *)
(* A map is a function from segment indexes to records                     *)
(*   [start, end, dl, st]   (LiveSegment in segment_coordinator.rs)        *)
(* with both byte bounds inclusive and dl counted from start.              *)
(***************************************************************************)
EXTENDS Integers, FiniteSets, Functions

CONSTANTS
    MinSplit,       \* 2 * TAIL_MIN_SPLIT_BYTES: the least remainder ever split
    MaxSegments     \* MAX_SEGMENTS: limit of segments that are not complete

ASSUME MapAssumption ==
    /\ MinSplit \in Nat /\ MinSplit >= 2
    /\ MaxSegments \in Nat \ {0}

States == {"Pending", "Active", "Completed"}
Seg(s, e, d, st) == [start |-> s, end |-> e, dl |-> d, st |-> st]

Least(S) == CHOOSE x \in S : \A y \in S : x <= y
Greatest(S) == CHOOSE x \in S : \A y \in S : y <= x
Lesser(x, y) == IF x <= y THEN x ELSE y

Size(g) == IF g.end >= g.start THEN g.end - g.start + 1 ELSE 0
Remaining(g) == IF g.dl <= Size(g) THEN Size(g) - g.dl ELSE 0
Bytes(g) == g.start .. g.end

InState(m, st) == {i \in DOMAIN m : m[i].st = st}
AllDone(m) == InState(m, "Completed") = DOMAIN m
SumOfDl(m) == SumFunction([i \in DOMAIN m |-> m[i].dl])
SumOfSizes(m) == SumFunction([i \in DOMAIN m |-> Size(m[i])])

\* What the map promises: every byte of the file in exactly one segment.
IsPartition(m, total) ==
    /\ \A i \in DOMAIN m : Bytes(m[i]) # {} /\ Bytes(m[i]) \subseteq 0 .. total - 1
    /\ \A b \in 0 .. total - 1 : \E i \in DOMAIN m : b \in Bytes(m[i])
    /\ \A i, j \in DOMAIN m : i # j => Bytes(m[i]) \cap Bytes(m[j]) = {}

\* The same of the rows of a map, where a segment may be empty.
CoversOnce(m, n) ==
    /\ UNION {Bytes(m[i]) : i \in DOMAIN m} = 0 .. n - 1
    /\ \A i, j \in DOMAIN m : i # j => Bytes(m[i]) \cap Bytes(m[j]) = {}

\* build_fresh_segments: count uniform segments, the last one takes the rest.
Fresh(count, total) ==
    LET chunk == total \div count
    IN  [i \in 0 .. count - 1 |->
            Seg(i * chunk, IF i = count - 1 THEN total - 1 ELSE (i + 1) * chunk - 1,
                0, "Pending")]

\* The stable order of sort_by_key(start_byte).
Before(m, i, j) ==
    i # j /\ (m[i].start < m[j].start \/ (m[i].start = m[j].start /\ i < j))
Adjacent(m, i, j) ==
    Before(m, i, j) /\ \A k \in DOMAIN m : ~(Before(m, i, k) /\ Before(m, k, j))

\* Mutant of ValidateCoverage: only the two ends are checked.
ValidateEndsOnly(m, total) ==
    /\ DOMAIN m # {}
    /\ \A i \in DOMAIN m : (\A j \in DOMAIN m : ~Before(m, j, i)) => m[i].start = 0
    /\ \A i \in DOMAIN m : (\A j \in DOMAIN m : ~Before(m, i, j)) => m[i].end = total - 1

\* validate_coverage.
ValidateCoverage(m, total) ==
    /\ DOMAIN m # {}
    /\ \A i \in DOMAIN m : (\A j \in DOMAIN m : ~Before(m, j, i)) => m[i].start = 0
    /\ \A i \in DOMAIN m : (\A j \in DOMAIN m : ~Before(m, i, j)) => m[i].end = total - 1
    /\ \A i, j \in DOMAIN m : Adjacent(m, i, j) => m[j].start = m[i].end + 1
    /\ SumOfSizes(m) = total

-----------------------------------------------------------------------------
(***************************************************************************)
(* Handing out work.                                                       *)
(***************************************************************************)

SetState(m, i, st) == [m EXCEPT ![i].st = st]

\* max_by_key(remaining): the last of the largest in index order.
LargestActive(m) ==
    CHOOSE i \in InState(m, "Active") :
        \A j \in InState(m, "Active") :
            \/ Remaining(m[j]) < Remaining(m[i])
            \/ Remaining(m[j]) = Remaining(m[i]) /\ j <= i

\* Whether some threshold of find_next_work lets a segment be split.  Every
\* dynamic threshold is above the tail threshold, so the tail rule decides:
\* the largest remainder reaches 2 * TAIL_MIN_SPLIT_BYTES.
CanSplit(m) ==
    /\ Cardinality({i \in DOMAIN m : m[i].st # "Completed"}) < MaxSegments
    /\ \E i \in InState(m, "Active") : Remaining(m[i]) >= MinSplit

\* The midpoint of what is left of a segment.
SplitPoint(g) == g.start + g.dl + Remaining(g) \div 2

\* Segment p ends before byte at, which starts the new segment n.
Cut(m, p, at, n, st) ==
    [i \in DOMAIN m \cup {n} |->
        IF i = n THEN Seg(at, m[p].end, 0, st)
        ELSE IF i = p THEN [m[p] EXCEPT !.end = at - 1]
        ELSE m[i]]

\* Mutant of Split: the parent keeps the first byte of its child.
SplitOverlapping(m, n, st) ==
    LET p == LargestActive(m)
    IN  [Cut(m, p, SplitPoint(m[p]), n, st) EXCEPT ![p].end = SplitPoint(m[p])]

\* try_split_largest (st = "Active") and try_proactive_split (st = "Pending").
Split(m, n, st) ==
    LET p == LargestActive(m) IN Cut(m, p, SplitPoint(m[p]), n, st)

\* A worker finished segment i after d bytes, fewer than its size: the rest
\* becomes the Pending segment n.
Shortfall(m, i, d, n) ==
    Cut([m EXCEPT ![i].dl = d, ![i].st = "Completed"], i, m[i].start + d, n, "Pending")

\* Done in full; the count is capped to the size of the segment.
Finish(m, i, d) ==
    [m EXCEPT ![i].dl = Lesser(d, Size(m[i])), ![i].st = "Completed"]

\* The file is larger than planned: bytes total .. reported - 1 are appended.
Grow(m, n, total, reported) ==
    [i \in DOMAIN m \cup {n} |->
        IF i = n THEN Seg(total, reported - 1, 0, "Pending") ELSE m[i]]

\* The untouched Pending segments that follow segment open without a gap.
Absorbable(m, open) ==
    LET untouched == {i \in InState(m, "Pending") : m[i].dl = 0}
    IN  {i \in untouched :
            /\ m[i].start > m[open].end
            /\ \A b \in m[open].end + 1 .. m[i].start - 1 :
                  \E j \in untouched : b \in Bytes(m[j])}

MergedEnd(m, A) == Greatest({m[i].end : i \in A})

\* Segment open takes over the segments A.
Merge(m, open, A) ==
    [i \in DOMAIN m \ A |->
        IF i = open THEN [m[i] EXCEPT !.end = MergedEnd(m, A)] ELSE m[i]]
=============================================================================
