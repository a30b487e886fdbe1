------------------------- MODULE SegmentBytes_proofs -------------------------
(***************************************************************************)
(* Proofs about SegmentCoordinator: whatever is counted as downloaded is   *)
(* in the file.  What a segment, a row, a worker or a report counts goes   *)
(* from one to the other across the awaits of the coordinator, through     *)
(* splits, growth, merges, failed statements, crashes and resumes; no hand *)
(* on the way counts a byte nobody wrote.                                  *)
(*   Then the rows themselves: the statements keep them divided as the     *)
(* map is, one statement behind it, so that a resume finds a layout of the *)
(* file and its check accepts it.                                          *)
(*   Last the end of a run: nobody who has a segment or a report to make   *)
(* is off the list of channels, so the loop that ends without an error has *)
(* every segment complete, and with it the file.                           *)
(*   And serial mode: whatever is handed out, no other segment is active.  *)
(***************************************************************************)
EXTENDS SegmentCoordinator_proofs

(***************************************************************************)
(* The inductive invariant.                                                *)
(***************************************************************************)

\* The first d bytes from s are in W.
Has(W, s, d) == s .. s + d - 1 \subseteq W

\* What a map counts, and what it calls complete, is in W.
MapHas(W, m) ==
    \A i \in DOMAIN m : /\ Has(W, m[i].start, m[i].dl)
                        /\ m[i].st = "Completed" => Bytes(m[i]) \subseteq W

\* What a worker with an assignment counts: at pc, after got bytes, with a
\* chunk of len bytes in hand.
WorkerHas(W, pc, a, g, len) ==
    /\ Has(W, a.start, a.from - a.start)
    /\ pc \in {"stream", "write", "finish"} => Has(W, a.start, g)
    /\ pc = "write" => len >= 1
    /\ pc = "finish" => g >= 1

SegsWritten == MapHas(written, segs)

\* What is shared with the workers is of the map or of its past: an index is
\* not used twice.
SharedWritten ==
    /\ DOMAIN shared \subseteq 0 .. nextIdx - 1
    /\ \A i \in DOMAIN shared : i \in DOMAIN segs =>
        Has(written, segs[i].start, shared[i].dl) /\ segs[i].start <= shared[i].end

RowsWritten == \A i \in DOMAIN rows : Has(written, rows[i].start, rows[i].dl)

WorkersWritten ==
    \A w \in Workers : Busy(w) => WorkerHas(written, wpc[w], asg[w], got[w], chunk[w].len)

\* A report of a finished segment counts at least a byte.
ReportsWritten ==
    \A k \in News : events[k].kind = "done" =>
        events[k].n >= 1 /\ Has(written, segs[events[k].idx].start, events[k].n)

JobWritten == Sending => Has(written, job.asg.start, job.asg.from - job.asg.start)

\* The inductive invariant, on top of CoordInv.  Neither the segments nor the
\* rows can be trusted by themselves: a segment is completed by a report, a
\* report counts what a worker got, a worker goes on from where a row or an
\* assignment says, and a row repeats what a worker or a segment counts.
BytesInv ==
    /\ SegsWritten /\ SharedWritten /\ RowsWritten
    /\ WorkersWritten /\ ReportsWritten /\ JobWritten
-----------------------------------------------------------------------------
(***************************************************************************)
(* What the operations on a map count.                                     *)
(***************************************************************************)

\* The file never loses a byte.
LEMMA HasMore ==
    ASSUME NEW W, NEW X, W \subseteq X
    PROVE  /\ \A s, d : Has(W, s, d) => Has(X, s, d)
           /\ \A m : MapHas(W, m) => MapHas(X, m)
BY DEF Has, MapHas

\* Fewer bytes from the same place, or none.
LEMMA HasFewer ==
    ASSUME NEW W, NEW s \in Int, NEW d \in Int, NEW c \in Int, c <= d \/ c <= 0, Has(W, s, d)
    PROVE  Has(W, s, c)
BY DEF Has

\* Segment i of c counts what it did in m, or nothing yet.
CountsNoMore(m, c, i) ==
    \/ /\ i \in DOMAIN m /\ c[i].start = m[i].start /\ c[i].dl = m[i].dl
       /\ c[i].st = "Completed" => m[i].st = "Completed" /\ c[i].end = m[i].end
    \/ c[i].start \in Int /\ c[i].dl = 0 /\ c[i].st # "Completed"

\* So does the map.
LEMMA MapCountsNoMore ==
    ASSUME NEW W, NEW m, NEW c, MapHas(W, m), \A i \in DOMAIN c : CountsNoMore(m, c, i)
    PROVE  MapHas(W, c)
<1>1. ASSUME NEW i \in DOMAIN c
      PROVE  /\ Has(W, c[i].start, c[i].dl)
             /\ c[i].st = "Completed" => Bytes(c[i]) \subseteq W
  <2>1. CASE /\ i \in DOMAIN m /\ c[i].start = m[i].start /\ c[i].dl = m[i].dl
             /\ c[i].st = "Completed" => m[i].st = "Completed" /\ c[i].end = m[i].end
    BY <2>1 DEF MapHas, Bytes
  <2>2. CASE c[i].start \in Int /\ c[i].dl = 0 /\ c[i].st # "Completed"
    BY <2>2 DEF Has
  <2> QED BY <1>1, <2>1, <2>2 DEF CountsNoMore
<1> QED BY <1>1 DEF MapHas

\* A segment that goes back or is handed out.
LEMMA SetStateCounts ==
    ASSUME NEW W, NEW t \in Nat, NEW n, NEW m, Sound(m, n, t), MapHas(W, m), NEW i \in DOMAIN m,
           NEW st \in {"Pending", "Active"}, NEW c, c = SetState(m, i, st)
    PROVE  MapHas(W, c)
<1>1. \A j \in DOMAIN m : m[j] \in SegRecs
  BY SoundSegment
<1>2. DOMAIN c = DOMAIN m
  BY DEF SetState
<1>3. ASSUME NEW j \in DOMAIN m
      PROVE  CountsNoMore(m, c, j)
  <2>1. c[j].start = m[j].start /\ c[j].end = m[j].end /\ c[j].dl = m[j].dl
        /\ c[j].st = IF j = i THEN st ELSE m[j].st
    BY <1>1 DEF SetState, SegRecs
  <2> QED BY <2>1 DEF CountsNoMore
<1> QED BY <1>2, <1>3, MapCountsNoMore

\* A segment that is not complete is cut in two.
LEMMA SplitCounts ==
    ASSUME NEW W, NEW t \in Nat, NEW n, NEW m, Sound(m, n, t), MapHas(W, m), CanSplit(m),
           NEW st \in {"Pending", "Active"}, NEW c, c = Split(m, n, st)
    PROVE  MapHas(W, c) /\ (\A i \in DOMAIN c : i \in DOMAIN m \/ i = n)
<1> DEFINE p == LargestActive(m)
           at == SplitPoint(m[p])
<1>1. /\ Sound(c, n + 1, t) /\ p \in InState(m, "Active")
  BY SplitKeeps DEF States
<1>2. \A j \in DOMAIN m : m[j] \in SegRecs
  BY SoundSegment
<1>3. \A j \in DOMAIN c : c[j] \in SegRecs
  BY <1>1, SoundSegment
<1>4. p \in DOMAIN m /\ m[p].st = "Active"
  BY <1>1 DEF InState
<1>5. /\ DOMAIN c = DOMAIN m \cup {n} /\ n \notin DOMAIN m
      /\ c[n].dl = 0 /\ c[n].st = st
      /\ c[p] = [m[p] EXCEPT !.end = at - 1]
      /\ \A j \in DOMAIN m \ {p} : c[j] = m[j]
  <2>1. n \notin DOMAIN m
    BY DEF Sound, MapBelow
  <2> QED BY <1>4, <2>1 DEF Split, Cut, Seg
<1> HIDE DEF p, at
<1>6. ASSUME NEW j \in DOMAIN c
      PROVE  CountsNoMore(m, c, j)
  <2>1. CASE j = n
    BY <1>3, <1>5, <2>1 DEF CountsNoMore, SegRecs
  <2>2. CASE j = p
    BY <1>2, <1>4, <1>5, <2>2 DEF CountsNoMore, SegRecs
  <2>3. CASE j # n /\ j # p
    BY <1>5, <1>6, <2>3 DEF CountsNoMore
  <2> QED BY <2>1, <2>2, <2>3
<1> QED BY <1>5, <1>6, MapCountsNoMore

\* The tail of a file that proved larger.
LEMMA GrowCounts ==
    ASSUME NEW W, NEW t \in Nat, NEW n, NEW m, Sound(m, n, t), MapHas(W, m), NEW r,
           NEW c, c = Grow(m, n, t, r)
    PROVE  MapHas(W, c) /\ \A i \in DOMAIN c : i \in DOMAIN m \/ i = n
<1>1. n \notin DOMAIN m
  BY DEF Sound, MapBelow
<1>2. DOMAIN c = DOMAIN m \cup {n} /\ c[n] = Seg(t, r - 1, 0, "Pending")
      /\ \A j \in DOMAIN m : c[j] = m[j]
  BY <1>1 DEF Grow
<1>3. \A j \in DOMAIN c : CountsNoMore(m, c, j)
  BY <1>2 DEF CountsNoMore, Seg
<1> QED BY <1>2, <1>3, MapCountsNoMore

\* An open segment takes over others; it is not complete.
LEMMA MergeCounts ==
    ASSUME NEW W, NEW t \in Nat, NEW n, NEW m, Sound(m, n, t), MapHas(W, m),
           NEW open \in InState(m, "Active"), NEW A, NEW c, c = Merge(m, open, A)
    PROVE  MapHas(W, c)
<1>1. \A j \in DOMAIN m : m[j] \in SegRecs
  BY SoundSegment
<1>2. open \in DOMAIN m /\ m[open].st = "Active"
  BY DEF InState
<1>3. DOMAIN c = DOMAIN m \ A
  BY DEF Merge
<1>4. ASSUME NEW j \in DOMAIN c
      PROVE  CountsNoMore(m, c, j)
  <2>1. j \in DOMAIN m /\ c[j].start = m[j].start /\ c[j].dl = m[j].dl /\ c[j].st = m[j].st
        /\ (j # open => c[j].end = m[j].end)
    BY <1>1, <1>3 DEF Merge, SegRecs
  <2> QED BY <1>2, <2>1 DEF CountsNoMore
<1> QED BY <1>4, MapCountsNoMore

\* A segment reported in full: its size is counted, and written.
LEMMA FinishCounts ==
    ASSUME NEW W, NEW t \in Nat, NEW n, NEW m, Sound(m, n, t), MapHas(W, m), NEW i \in DOMAIN m,
           NEW d \in Nat, d >= Size(m[i]), Has(W, m[i].start, d), NEW c, c = Finish(m, i, d)
    PROVE  MapHas(W, c)
<1> DEFINE z == Size(m[i])
<1>1. \A j \in DOMAIN m : m[j] \in SegRecs
  BY SoundSegment
<1>2. m[i] \in SegRecs /\ m[i].start \in Int /\ m[i].end \in Int /\ m[i].start <= m[i].end
  BY <1>1, SoundSegment DEF SegRecs
<1>3. z = m[i].end - m[i].start + 1 /\ z \in Nat /\ Lesser(d, z) = z
  BY <1>2 DEF Size, Lesser
<1> HIDE DEF z
<1>4. c = [m EXCEPT ![i].dl = z, ![i].st = "Completed"]
  BY <1>3 DEF Finish, z
<1>5. /\ DOMAIN c = DOMAIN m
      /\ \A j \in DOMAIN m \ {i} : c[j] = m[j]
      /\ c[i].start = m[i].start /\ c[i].end = m[i].end /\ c[i].dl = z
  BY <1>2, <1>4 DEF SegRecs
<1>6. d >= z
  BY DEF z
<1>7. Has(W, c[i].start, c[i].dl) /\ Bytes(c[i]) \subseteq W
  BY <1>2, <1>3, <1>5, <1>6 DEF Has, Bytes
<1> QED BY <1>5, <1>7 DEF MapHas

\* A segment that grew after its worker had stopped is complete up to there.
LEMMA ShortfallCounts ==
    ASSUME NEW W, NEW t \in Nat, NEW n, NEW m, Sound(m, n, t), MapHas(W, m), NEW i \in DOMAIN m,
           NEW d \in Nat, Has(W, m[i].start, d), NEW c, c = Shortfall(m, i, d, n)
    PROVE  MapHas(W, c) /\ \A j \in DOMAIN c : j \in DOMAIN m \/ j = n
<1> DEFINE q == [m EXCEPT ![i].dl = d, ![i].st = "Completed"]
           at == m[i].start + d
<1>1. m[i] \in SegRecs /\ m[i].start \in Int
  BY SoundSegment DEF SegRecs
<1>2. n \notin DOMAIN m
  BY DEF Sound, MapBelow
<1>3. /\ DOMAIN q = DOMAIN m /\ \A j \in DOMAIN m \ {i} : q[j] = m[j]
      /\ q[i] = [m[i] EXCEPT !.dl = d, !.st = "Completed"]
  OBVIOUS
<1>4. c = Cut(q, i, at, n, "Pending")
  BY DEF Shortfall
<1> HIDE DEF q
<1>5. /\ q[i].start = m[i].start /\ q[i].dl = d /\ q[i] \in [start : Int, end : Int, dl : Nat, st : {"Completed"}]
  BY <1>1, <1>3 DEF SegRecs
<1>6. /\ DOMAIN c = DOMAIN m \cup {n} /\ i # n
      /\ c[n].start = at /\ c[n].dl = 0 /\ c[n].st = "Pending"
      /\ c[i] = [q[i] EXCEPT !.end = at - 1]
      /\ \A j \in DOMAIN m \ {i} : c[j] = m[j]
  BY <1>2, <1>3, <1>4 DEF Cut, Seg
<1>7. c[i].start = m[i].start /\ c[i].dl = d /\ c[i].end = m[i].start + d - 1
  BY <1>1, <1>5, <1>6
<1>8. Has(W, c[i].start, c[i].dl) /\ Bytes(c[i]) \subseteq W
  BY <1>7 DEF Has, Bytes
<1>9. Has(W, c[n].start, c[n].dl)
  BY <1>1, <1>6 DEF Has
<1>10. \A j \in DOMAIN c : /\ Has(W, c[j].start, c[j].dl)
                           /\ c[j].st = "Completed" => Bytes(c[j]) \subseteq W
  BY <1>6, <1>8, <1>9 DEF MapHas
<1> QED BY <1>6, <1>10 DEF MapHas

\* The work that is found: a segment sent back, or half of an active one.
LEMMA NextWorkCounts ==
    ASSUME NEW W, NEW t \in Nat, NEW m, Sound(m, nextIdx, t), MapHas(W, m),
           NEW split \in BOOLEAN, Found(m, split), NEW f, f = NextWork(m, split)
    PROVE  MapHas(W, f.m) /\ \A j \in DOMAIN f.m : j \in DOMAIN m \/ (f.par # NoSeg /\ j = nextIdx)
<1>1. CASE InState(m, "Pending") # {}
  <2> DEFINE i == Least(InState(m, "Pending"))
             c == SetState(m, i, "Active")
  <2>1. f.m = c
    BY <1>1 DEF NextWork
  <2>2. i \in DOMAIN m
    <3>1. InState(m, "Pending") \in SUBSET Nat
      BY SoundSegment DEF InState
    <3>2. i \in InState(m, "Pending")
      BY <1>1, <3>1, LeastIsMin
    <3> QED BY <3>2 DEF InState
  <2> HIDE DEF i
  <2>3. MapHas(W, c)
    <3>1. \A x : x = SetState(m, i, "Active") => MapHas(W, x)
      BY <2>2, SetStateCounts
    <3> QED BY <3>1
  <2>4. DOMAIN c = DOMAIN m
    BY DEF SetState
  <2> QED BY <2>1, <2>3, <2>4
<1>2. CASE InState(m, "Pending") = {}
  <2>1. CanSplit(m)
    BY <1>2 DEF Found
  <2>2. f.m = Split(m, nextIdx, "Active") /\ f.par = LargestActive(m)
    BY <1>2 DEF NextWork
  <2>3. \A x : x = Split(m, nextIdx, "Active") =>
          MapHas(W, x) /\ \A j \in DOMAIN x : j \in DOMAIN m \/ j = nextIdx
    BY <2>1, SplitCounts
  <2>4. LargestActive(m) \in InState(m, "Active")
    <3>1. "Active" \in States
      BY DEF States
    <3>2. \A x : x = Split(m, nextIdx, "Active") => LargestActive(m) \in InState(m, "Active")
      BY <2>1, <3>1, SplitKeeps
    <3> QED BY <3>2
  <2>5. f.par # NoSeg
    <3>1. LargestActive(m) \in Nat
      BY <2>4, SoundSegment DEF InState
    <3> QED BY <2>2, <3>1 DEF NoSeg
  <2> QED BY <2>2, <2>3, <2>5
<1> QED BY <1>1, <1>2

\* The map with the workers' progress in it.
LEMMA SyncedCounts ==
    ASSUME CoordInv, BytesInv, NEW m, m = Synced(segs)
    PROVE  MapHas(written, m)
<1>1. DOMAIN m = DOMAIN segs
  BY DEF Synced
<1>2. ASSUME NEW i \in DOMAIN segs
      PROVE  /\ Has(written, m[i].start, m[i].dl)
             /\ m[i].st = "Completed" => Bytes(m[i]) \subseteq written
  <2>1. segs[i] \in SegRecs
    BY DEF CoordInv, Types, MapTypes, MapBelow
  <2>2. CASE segs[i].st = "Active" /\ i \in DOMAIN shared
    <3>1. m[i].start = segs[i].start /\ m[i].dl = shared[i].dl /\ m[i].st = "Active"
      BY <2>1, <2>2 DEF Synced, SegRecs
    <3> QED BY <2>2, <3>1 DEF BytesInv, SharedWritten
  <2>3. CASE ~(segs[i].st = "Active" /\ i \in DOMAIN shared)
    <3>1. m[i] = segs[i]
      BY <2>3 DEF Synced
    <3> QED BY <3>1 DEF BytesInv, SegsWritten, MapHas
  <2> QED BY <2>2, <2>3
<1> QED BY <1>1, <1>2 DEF MapHas
-----------------------------------------------------------------------------
(***************************************************************************)
(* The handlers of the coordinator.  CoordInv' is given: the steps keep it.*)
(***************************************************************************)

\* A handler that changes the map, takes a report or records a statement.
LEMMA HandlerCounts ==
    ASSUME CoordInv, CoordInv', BytesInv, Carried(segs, segs'), MapHas(written, segs'),
           nextIdx' \in {nextIdx, nextIdx + 1},
           \A i \in DOMAIN segs' : i \in DOMAIN segs \/ i = nextIdx,
           UNCHANGED <<rows, shared, wpc, asg, got, chunk, written>>,
           events' = events \/ (events # <<>> /\ events' = Tail(events)),
           Sending' => Has(written, job'.asg.start, job'.asg.from - job'.asg.start)
    PROVE  BytesInv'
<1>1. nextIdx \in Nat
  BY DEF CoordInv, Types, MapTypes, MapBelow
<1>2. SharedWritten'
  <2>1. DOMAIN shared' \subseteq 0 .. nextIdx' - 1 /\ nextIdx \notin DOMAIN shared
    BY <1>1 DEF BytesInv, SharedWritten
  <2>2. \A i \in DOMAIN shared : i \in DOMAIN segs' => i \in DOMAIN segs /\ segs'[i].start = segs[i].start
    BY <2>1 DEF Carried
  <2> QED BY <2>1, <2>2 DEF BytesInv, SharedWritten
<1>3. ReportsWritten'
  <2>1. \A k \in News : events[k].idx \in DOMAIN segs
    BY DEF CoordInv, HoldersActive, InState
  <2>2. \A k \in News : segs'[events[k].idx].start = segs[events[k].idx].start
    BY <2>1 DEF Carried
  <2>3. \A k \in News' : \E j \in News : events'[k] = events[j]
    <3>1. CASE events' = events
      BY <3>1 DEF News
    <3>2. CASE events # <<>> /\ events' = Tail(events)
      <4>1. events \in Seq(EventRecs)
        BY DEF CoordInv, Types, WorkerTypes
      <4> QED BY <3>2, <4>1, TailOfEvents
    <3> QED BY <3>1, <3>2
  <2> QED BY <2>2, <2>3 DEF BytesInv, ReportsWritten
<1>4. WorkersWritten' /\ RowsWritten'
  BY DEF BytesInv, WorkersWritten, RowsWritten, Busy
<1> QED BY <1>2, <1>3, <1>4 DEF BytesInv, SegsWritten, JobWritten

\* A map that is known, and to whom the map at hand belongs.
LEMMA KnownMap ==
    ASSUME CoordInv, BytesInv, Running
    PROVE  /\ Sound(segs, nextIdx, total) /\ total \in Nat /\ MapHas(written, segs)
           /\ \A i \in DOMAIN segs : segs[i] \in SegRecs
BY MapIsSound DEF BytesInv, SegsWritten

\* A segment at the head of the channel goes back.
LEMMA SentBackCounts ==
    ASSUME CoordInv, BytesInv, Running, NEW i \in DOMAIN segs, segs' = SetState(segs, i, "Pending")
    PROVE  Carried(segs, segs') /\ MapHas(written, segs') /\ DOMAIN segs' = DOMAIN segs
<1>1. Sound(segs, nextIdx, total) /\ total \in Nat /\ MapHas(written, segs)
  BY KnownMap
<1>2. \A c : c = SetState(segs, i, "Pending") => MapHas(written, c)
  BY <1>1, SetStateCounts
<1>3. "Pending" \in States
  BY DEF States
<1>4. \A c : c = SetState(segs, i, "Pending") => Carried(segs, c) /\ DOMAIN c = DOMAIN segs
  BY <1>1, <1>3, SetStateKeeps
<1> QED BY <1>2, <1>4

\* A finished segment counts what its worker got.
LEMMA DoneCounts ==
    ASSUME CoordInv, CoordInv', BytesInv, NEW e, HandleDone(e)
    PROVE  BytesInv'
<1>1. /\ Handling({"done"}) /\ e = Head(events) /\ events' = Tail(events) /\ events # <<>>
      /\ UNCHANGED <<rows, shared, wpc, asg, got, chunk, written>>
      /\ \/ /\ 0 < e.n /\ e.n < Size(segs[e.idx])
            /\ segs' = Shortfall(segs, e.idx, e.n, nextIdx)
            /\ nextIdx' = nextIdx + 1
            /\ job' = Job(PersistSplit(segs', nextIdx, e.idx), "short", e.w, NoWork)
         \/ /\ ~(0 < e.n /\ e.n < Size(segs[e.idx]))
            /\ segs' = Finish(segs, e.idx, e.n)
            /\ job' = [NoJob EXCEPT !.w = e.w]
            /\ nextIdx' = nextIdx
  BY DEF HandleDone, Handling, localVars, diskVars
<1>2. {"done"} \cap Verdicts = {}
  BY DEF Verdicts
<1>3. /\ Running /\ events \in Seq(EventRecs) /\ e.idx \in DOMAIN segs
      /\ e \in EventRecs /\ e.n \in Nat
  BY <1>1, <1>2, ReportAtHead
<1>4. e.n >= 1 /\ Has(written, segs[e.idx].start, e.n)
  <2>1. Len(events) \in Nat /\ Len(events) >= 1 /\ DOMAIN events = 1 .. Len(events)
    BY <1>1, <1>3, EmptySeq, LenProperties
  <2>2. e = events[1] /\ 1 \in DOMAIN events
    BY <1>1, <1>3, <2>1, HeadTailProperties
  <2>3. e.kind = "done" /\ 1 \in News
    BY <1>1, <1>2, <2>2 DEF Handling, News
  <2> QED BY <2>2, <2>3 DEF BytesInv, ReportsWritten
<1>5. /\ Sound(segs, nextIdx, total) /\ total \in Nat /\ MapHas(written, segs)
      /\ segs[e.idx] \in SegRecs
  BY <1>3, KnownMap
<1>6. Size(segs[e.idx]) \in Nat
  BY <1>5 DEF Size, SegRecs
<1>7. CASE /\ 0 < e.n /\ e.n < Size(segs[e.idx])
           /\ segs' = Shortfall(segs, e.idx, e.n, nextIdx)
           /\ nextIdx' = nextIdx + 1
           /\ job' = Job(PersistSplit(segs', nextIdx, e.idx), "short", e.w, NoWork)
  <2>1. ASSUME NEW i \in DOMAIN segs, NEW d \in Nat, 0 < d, d < Size(segs[i]),
               Has(written, segs[i].start, d), NEW c, c = Shortfall(segs, i, d, nextIdx)
        PROVE  /\ MapHas(written, c) /\ \A j \in DOMAIN c : j \in DOMAIN segs \/ j = nextIdx
               /\ Carried(segs, c)
    <3>1. MapHas(written, c) /\ \A j \in DOMAIN c : j \in DOMAIN segs \/ j = nextIdx
      BY <1>5, <2>1, ShortfallCounts
    <3>2. Carried(segs, c)
      BY <1>5, <2>1, ShortfallKeeps
    <3> QED BY <3>1, <3>2
  <2>2. /\ MapHas(written, segs') /\ \A j \in DOMAIN segs' : j \in DOMAIN segs \/ j = nextIdx
        /\ Carried(segs, segs')
    BY <1>3, <1>4, <1>7, <2>1
  <2>3. ~Sending'
    BY <1>7 DEF Sending, Job
  <2> QED BY <1>1, <1>7, <2>2, <2>3, HandlerCounts
<1>8. CASE /\ ~(0 < e.n /\ e.n < Size(segs[e.idx]))
           /\ segs' = Finish(segs, e.idx, e.n)
           /\ job' = [NoJob EXCEPT !.w = e.w]
           /\ nextIdx' = nextIdx
  <2>1. e.n >= Size(segs[e.idx])
    BY <1>3, <1>4, <1>6, <1>8
  <2>2. \A c : c = Finish(segs, e.idx, e.n) => MapHas(written, c)
    BY <1>3, <1>4, <1>5, <2>1, FinishCounts
  <2>3. \A c : c = Finish(segs, e.idx, e.n) => Carried(segs, c) /\ DOMAIN c = DOMAIN segs
    BY <1>3, <1>5, FinishKeeps
  <2>4. ~Sending'
    BY <1>8 DEF Sending, NoJob
  <2> QED BY <1>1, <1>8, <2>2, <2>3, <2>4, HandlerCounts
<1> QED BY <1>1, <1>7, <1>8

\* The tail of a larger file is not downloaded yet.
LEMMA LargerCounts ==
    ASSUME CoordInv, CoordInv', BytesInv, NEW e, HandleLarger(e)
    PROVE  BytesInv'
<1>1. /\ Handling({"larger"}) /\ e = Head(events) /\ events' = Tail(events) /\ events # <<>>
      /\ UNCHANGED <<rows, shared, wpc, asg, got, chunk, written>>
      /\ \/ segs' = SetState(segs, e.idx, "Pending") /\ nextIdx' = nextIdx
         \/ /\ e.n > total
            /\ segs' = SetState(Grow(segs, nextIdx, total, e.n), e.idx, "Pending")
            /\ nextIdx' = nextIdx + 1
      /\ job'.then \in {"loop", "grown"}
  BY DEF HandleLarger, Handling, localVars, diskVars, EndLoop, NoJob, Job
<1>2. {"larger"} \cap Verdicts = {}
  BY DEF Verdicts
<1>3. Running /\ e.idx \in DOMAIN segs /\ e.n \in Nat
  BY <1>1, <1>2, ReportAtHead
<1>4. Sound(segs, nextIdx, total) /\ total \in Nat /\ MapHas(written, segs)
  BY <1>3, KnownMap
<1>5. ~Sending'
  BY <1>1 DEF Sending
<1>6. CASE segs' = SetState(segs, e.idx, "Pending") /\ nextIdx' = nextIdx
  <2>1. Carried(segs, segs') /\ MapHas(written, segs') /\ DOMAIN segs' = DOMAIN segs
    BY <1>3, <1>6, SentBackCounts
  <2> QED BY <1>1, <1>5, <1>6, <2>1, HandlerCounts
<1>7. CASE /\ e.n > total
           /\ segs' = SetState(Grow(segs, nextIdx, total, e.n), e.idx, "Pending")
           /\ nextIdx' = nextIdx + 1
  <2>1. PICK r : r = e.n
    OBVIOUS
  <2>2. PICK g : g = Grow(segs, nextIdx, total, r)
    OBVIOUS
  <2>3. /\ Sound(g, nextIdx + 1, r) /\ Carried(segs, g) /\ r \in Nat
        /\ MapHas(written, g) /\ \A j \in DOMAIN g : j \in DOMAIN segs \/ j = nextIdx
    <3>1. r \in Nat /\ total < r
      BY <1>3, <1>4, <1>7, <2>1
    <3>2. Sound(g, nextIdx + 1, r) /\ Carried(segs, g)
      BY <1>4, <2>2, <3>1, GrowKeeps
    <3>3. MapHas(written, g) /\ \A j \in DOMAIN g : j \in DOMAIN segs \/ j = nextIdx
      BY <1>4, <2>2, GrowCounts
    <3> QED BY <3>1, <3>2, <3>3
  <2>4. PICK i : i = e.idx /\ i \in DOMAIN g
    BY <1>3, <2>3 DEF Carried
  <2>5. ASSUME NEW c, c = SetState(g, i, "Pending")
        PROVE  MapHas(written, c) /\ Carried(g, c) /\ DOMAIN c = DOMAIN g
    <3>1. "Pending" \in States
      BY DEF States
    <3>2. MapHas(written, c)
      BY <2>3, <2>4, <2>5, SetStateCounts
    <3>3. Carried(g, c) /\ DOMAIN c = DOMAIN g
      BY <2>3, <2>4, <2>5, <3>1, SetStateKeeps
    <3> QED BY <3>2, <3>3
  <2>6. segs' = SetState(g, i, "Pending")
    BY <1>7, <2>1, <2>2, <2>4
  <2>7. /\ MapHas(written, segs') /\ Carried(segs, segs')
        /\ \A j \in DOMAIN segs' : j \in DOMAIN segs \/ j = nextIdx
    BY <2>3, <2>5, <2>6 DEF Carried
  <2> QED BY <1>1, <1>5, <1>7, <2>7, HandlerCounts
<1> QED BY <1>1, <1>6, <1>7

\* The other reports send their segment back.
LEMMA FailuresCount ==
    ASSUME CoordInv, CoordInv', BytesInv, NEW e,
           HandleNodeFailed(e) \/ HandleRejection(e) \/ HandleFatal(e)
    PROVE  BytesInv'
<1> DEFINE kinds == {"node", "refused", "norange", "replaced", "broken"}
<1>1. /\ Handling(kinds) /\ e = Head(events) /\ events' = Tail(events) /\ events # <<>>
      /\ UNCHANGED <<nextIdx, rows, shared, wpc, asg, got, chunk, written>>
      /\ segs' = SetState(segs, e.idx, "Pending")
      /\ job' = job \/ job'.then \in {"loop", "merged"}
  BY DEF HandleNodeFailed, HandleRejection, HandleFatal, Handling, localVars, diskVars, EndLoop,
         NoJob, Job, Absorb
<1>2. kinds \cap Verdicts = {}
  BY DEF Verdicts
<1> HIDE DEF kinds
<1>3. Running /\ e.idx \in DOMAIN segs /\ ~Sending
  BY <1>1, <1>2, ReportAtHead
<1>4. ~Sending'
  BY <1>1, <1>3 DEF Sending
<1>5. Carried(segs, segs') /\ MapHas(written, segs') /\ DOMAIN segs' = DOMAIN segs
  BY <1>1, <1>3, SentBackCounts
<1> QED BY <1>1, <1>4, <1>5, HandlerCounts

\* A step of the coordinator that leaves the map, or only looks at the progress.
LEMMA QuietStepCounts ==
    ASSUME CoordInv, CoordInv', BytesInv, Running, segs' = segs \/ segs' = Synced(segs),
           UNCHANGED <<nextIdx, rows, shared, wpc, asg, got, chunk, written>>,
           events' = events \/ (events # <<>> /\ events' = Tail(events)),
           ~Sending'
    PROVE  BytesInv'
<1>1. \A m : m = Synced(segs) => /\ MapHas(written, m) /\ Carried(segs, m) /\ DOMAIN m = DOMAIN segs
  BY SyncedCounts, SyncedMap
<1>2. MapHas(written, segs) /\ Carried(segs, segs)
  BY DEF BytesInv, SegsWritten, Carried
<1>3. MapHas(written, segs') /\ Carried(segs, segs') /\ DOMAIN segs' = DOMAIN segs
  BY <1>1, <1>2
<1> QED BY <1>3, HandlerCounts

\* The verdict on Range.
LEMMA VerdictCounts ==
    ASSUME CoordInv, CoordInv', BytesInv, NEW e, HandleVerdict(e)
    PROVE  BytesInv'
<1>1. /\ cpc = "loop" /\ events # <<>> /\ events' = Tail(events)
      /\ UNCHANGED <<segs, nextIdx, rows, shared, wpc, asg, got, chunk, written>>
      /\ job' = job \/ job'.then = "merged"
  BY DEF HandleVerdict, Handling, Looping, localVars, diskVars, mapVars, Absorb, Job
<1>2. Running /\ ~Sending'
  BY <1>1 DEF Running, Sending, CoordInv, Types, CoordTypes
<1> QED BY <1>1, <1>2, QuietStepCounts

\* Work handed out begins at what its segment counts.
LEMMA HandOutCounts ==
    ASSUME CoordInv, CoordInv', BytesInv, cpc \in {"dispatch", "redispatch", "refill"},
           NEW m, m = segs \/ m = Synced(segs),
           NEW split \in BOOLEAN, Found(m, split), NEW w, NEW then, NEW z,
           HandOut(NextWork(m, split), w, then, z),
           UNCHANGED <<rows, shared, wpc, asg, got, chunk, written, events>>
    PROVE  BytesInv'
<1>1. Running
  BY DEF Running
<1>2. /\ Sound(m, nextIdx, total) /\ Carried(segs, m) /\ DOMAIN m = DOMAIN segs
      /\ total \in Nat /\ MapHas(written, m)
  <2>1. CASE m = segs
    BY <1>1, <2>1, KnownMap DEF Carried
  <2>2. CASE m = Synced(segs)
    BY <1>1, <2>2, KnownMap, SyncedMap, SyncedCounts
  <2> QED BY <2>1, <2>2
<1>3. PICK f : f = NextWork(m, split)
  OBVIOUS
<1>4. /\ Sound(f.m, IF f.par = NoSeg THEN nextIdx ELSE nextIdx + 1, total)
      /\ Carried(m, f.m) /\ f.i \in DOMAIN f.m
  BY <1>2, <1>3, NextWorkKeeps
<1>5. /\ MapHas(written, f.m)
      /\ \A j \in DOMAIN f.m : j \in DOMAIN m \/ (f.par # NoSeg /\ j = nextIdx)
  BY <1>2, <1>3, NextWorkCounts
<1>6. /\ segs' = f.m
      /\ nextIdx' = IF f.par = NoSeg THEN nextIdx ELSE nextIdx + 1
      /\ job'.asg = Assignment(f.m[f.i], f.i, z, z)
  BY <1>3 DEF HandOut, Job
<1>7. Has(written, job'.asg.start, job'.asg.from - job'.asg.start)
  <2> DEFINE g == f.m[f.i]
  <2>1. g \in SegRecs
    BY <1>2, <1>4, SoundSegment
  <2>2. job'.asg.start = g.start /\ job'.asg.from = g.start + g.dl
    BY <1>6 DEF Assignment
  <2>3. Has(written, g.start, g.dl)
    BY <1>4, <1>5 DEF MapHas
  <2> HIDE DEF g
  <2>4. (g.start + g.dl) - g.start = g.dl
    BY <2>1 DEF SegRecs
  <2> QED BY <2>2, <2>3, <2>4
<1>8. /\ Carried(segs, segs') /\ MapHas(written, segs')
      /\ \A i \in DOMAIN segs' : i \in DOMAIN segs \/ i = nextIdx
      /\ nextIdx' \in {nextIdx, nextIdx + 1}
  BY <1>2, <1>4, <1>5, <1>6 DEF Carried
<1> QED BY <1>7, <1>8, HandlerCounts

\* Dispatch, Redispatch and Refill give work out or do not.
LEMMA WorkCounts ==
    ASSUME CoordInv, CoordInv', BytesInv, Dispatch \/ Redispatch \/ Refill
    PROVE  BytesInv'
<1>1. /\ cpc \in {"dispatch", "redispatch", "refill"}
      /\ UNCHANGED <<rows, shared, wpc, asg, got, chunk, written, events>>
  BY DEF Dispatch, Redispatch, Refill, workerVars, sharedVars, localVars, diskVars
<1>2. Running /\ job.then = "loop"
  BY <1>1 DEF Running, CoordInv, Types, CoordTypes
<1>3. \/ \E m, w, then, z : \E split \in BOOLEAN :
            /\ m = segs \/ m = Synced(segs)
            /\ Found(m, split) /\ HandOut(NextWork(m, split), w, then, z)
      \/ /\ segs' = segs \/ segs' = Synced(segs)
         /\ nextIdx' = nextIdx /\ (job' = NoJob \/ job' = job)
  <2>1. CASE Dispatch
    <3>1. \/ \E split \in BOOLEAN :
                Found(Synced(segs), split) /\ HandOut(NextWork(Synced(segs), split), job.w, "send", FALSE)
          \/ segs' = Synced(segs) /\ nextIdx' = nextIdx /\ job' = NoJob
      BY <2>1 DEF Dispatch
    <3> QED BY <3>1
  <2>2. CASE Redispatch
    <3>1. \/ \E split \in BOOLEAN :
                Found(segs, split) /\ HandOut(NextWork(segs, split), job.w, "send", verdict # "supported")
          \/ segs' = segs /\ nextIdx' = nextIdx /\ job' = NoJob
      BY <2>2 DEF Redispatch, Found
    <3> QED BY <3>1
  <2>3. CASE Refill
    <3>1. \/ \E split \in BOOLEAN :
                /\ Found(Synced(segs), split)
                /\ HandOut(NextWork(Synced(segs), split), Least(Spare), "spawn", FALSE)
          \/ /\ segs' = segs \/ segs' = Synced(segs)
             /\ nextIdx' = nextIdx /\ job' = job
      BY <2>3 DEF Refill
    <3> QED BY <3>1
  <2> QED BY <2>1, <2>2, <2>3
<1>4. ASSUME NEW m, NEW w, NEW then, NEW z, NEW split \in BOOLEAN,
             m = segs \/ m = Synced(segs),
             Found(m, split), HandOut(NextWork(m, split), w, then, z)
      PROVE  BytesInv'
  BY <1>1, <1>4, HandOutCounts
<1>5. CASE /\ segs' = segs \/ segs' = Synced(segs)
           /\ nextIdx' = nextIdx /\ (job' = NoJob \/ job' = job)
  <2>1. ~Sending'
    BY <1>2, <1>5 DEF Sending, NoJob
  <2> QED BY <1>1, <1>2, <1>5, <2>1, QuietStepCounts
<1> QED BY <1>3, <1>4, <1>5

\* The split timer.
LEMMA ProactiveSplitCounts ==
    ASSUME CoordInv, CoordInv', BytesInv, ProactiveSplit
    PROVE  BytesInv'
<1>1. /\ cpc = "loop" /\ UNCHANGED <<rows, shared, wpc, asg, got, chunk, written, events>>
      /\ \/ /\ CanSplit(Synced(segs)) /\ segs' = Split(Synced(segs), nextIdx, "Pending")
            /\ nextIdx' = nextIdx + 1 /\ job'.then = "loop"
         \/ segs' = Synced(segs) /\ nextIdx' = nextIdx /\ job' = job
  BY DEF ProactiveSplit, Quiet, Looping, Job, workerVars, sharedVars, localVars, diskVars
<1>2. Running /\ job.then = "loop"
  BY <1>1 DEF Running, CoordInv, Types, CoordTypes
<1>3. ~Sending'
  BY <1>1, <1>2 DEF Sending
<1>4. CASE /\ CanSplit(Synced(segs)) /\ segs' = Split(Synced(segs), nextIdx, "Pending")
           /\ nextIdx' = nextIdx + 1
  <2>1. PICK m : m = Synced(segs)
    OBVIOUS
  <2>2. /\ Sound(m, nextIdx, total) /\ Carried(segs, m) /\ DOMAIN m = DOMAIN segs
        /\ total \in Nat /\ MapHas(written, m)
    BY <1>2, <2>1, KnownMap, SyncedMap, SyncedCounts
  <2>3. ASSUME NEW c, c = Split(m, nextIdx, "Pending"), CanSplit(m)
        PROVE  /\ MapHas(written, c) /\ Carried(m, c)
               /\ \A i \in DOMAIN c : i \in DOMAIN m \/ i = nextIdx
    <3>1. MapHas(written, c) /\ \A i \in DOMAIN c : i \in DOMAIN m \/ i = nextIdx
      BY <2>2, <2>3, SplitCounts
    <3>2. "Pending" \in States
      BY DEF States
    <3>3. Carried(m, c)
      BY <2>2, <2>3, <3>2, SplitKeeps
    <3> QED BY <3>1, <3>3
  <2>4. segs' = Split(m, nextIdx, "Pending") /\ CanSplit(m)
    BY <1>4, <2>1
  <2>5. /\ MapHas(written, segs') /\ Carried(segs, segs')
        /\ \A i \in DOMAIN segs' : i \in DOMAIN segs \/ i = nextIdx
    BY <2>2, <2>3, <2>4 DEF Carried
  <2> QED BY <1>1, <1>3, <1>4, <2>5, HandlerCounts
<1>5. CASE segs' = Synced(segs) /\ nextIdx' = nextIdx
  BY <1>1, <1>2, <1>3, <1>5, QuietStepCounts
<1> QED BY <1>1, <1>4, <1>5

\* The ramp's timers and the pause.
LEMMA TimersCount ==
    ASSUME CoordInv, CoordInv', BytesInv, RampPoll \/ RampTick \/ HandlePause
    PROVE  BytesInv'
<1>1. /\ cpc \in {"loop", "ramp"} /\ (job' = job \/ job' = NoJob)
      /\ UNCHANGED <<segs, nextIdx, rows, shared, wpc, asg, got, chunk, written, events>>
  BY DEF RampPoll, RampTick, HandlePause, EndLoop, Quiet, Looping, mapVars, workerVars, sharedVars,
         localVars, diskVars
<1>2. Running /\ ~Sending'
  BY <1>1 DEF Running, Sending, NoJob, CoordInv, Types, CoordTypes
<1> QED BY <1>1, <1>2, QuietStepCounts
-----------------------------------------------------------------------------
(***************************************************************************)
(* The statements, and the start and the end of a run.                     *)
(***************************************************************************)

\* A statement stores what the map counts.
LEMMA PersistCounts ==
    ASSUME CoordInv, CoordInv', BytesInv, Persist
    PROVE  BytesInv'
<1>1. /\ cpc = "persist" /\ (job' = job \/ job' = NoJob)
      /\ UNCHANGED <<segs, nextIdx, shared, wpc, asg, got, chunk, written, events>>
      /\ rows' = rows \/ rows' = Commit(rows, job.st)
  BY DEF Persist, mapVars, sharedVars, localVars
<1>2. RowsWritten'
  <2>1. CASE rows' = rows
    BY <2>1, <1>1 DEF BytesInv, RowsWritten
  <2>2. CASE rows' = Commit(rows, job.st)
    <3>1. ASSUME NEW i \in DOMAIN rows'
          PROVE  Has(written, rows'[i].start, rows'[i].dl)
      <4>1. CASE i \in DOMAIN job.st.put
        <5>1. i \in DOMAIN segs /\ job.st.put[i] = Row(segs[i])
          BY <1>1, <4>1 DEF CoordInv, JobSound
        <5>2. rows'[i] = job.st.put[i]
          BY <2>2, <4>1 DEF Commit
        <5>3. rows'[i].start = segs[i].start /\ rows'[i].dl = segs[i].dl
          BY <5>1, <5>2 DEF Row
        <5> QED BY <5>1, <5>3 DEF BytesInv, SegsWritten, MapHas
      <4>2. CASE i \notin DOMAIN job.st.put
        <5>1. /\ i \in DOMAIN rows
              /\ rows'[i] = rows[i] \/ rows'[i] = [rows[i] EXCEPT !.end = job.st.end]
          BY <2>2, <3>1, <4>2 DEF Commit
        <5>2. rows[i] \in RowRecs
          BY <5>1 DEF CoordInv, Types, RowTypes
        <5>3. rows'[i].start = rows[i].start /\ rows'[i].dl = rows[i].dl
          BY <5>1, <5>2 DEF RowRecs
        <5> QED BY <5>1, <5>3 DEF BytesInv, RowsWritten
      <4> QED BY <4>1, <4>2
    <3> QED BY <1>1, <3>1 DEF RowsWritten
  <2> QED BY <1>1, <2>1, <2>2
<1>3. SegsWritten' /\ SharedWritten' /\ WorkersWritten' /\ ReportsWritten'
  BY <1>1 DEF BytesInv, SegsWritten, SharedWritten, WorkersWritten, ReportsWritten, Busy, News
<1>4. JobWritten'
  <2>1. Sending' => Sending /\ job' = job
    BY <1>1 DEF Sending, NoJob
  <2> QED BY <1>1, <2>1 DEF BytesInv, JobWritten
<1> QED BY <1>2, <1>3, <1>4 DEF BytesInv

\* The change is published, and the work sent.
LEMMA ContinueCounts ==
    ASSUME CoordInv, CoordInv', BytesInv, Continue
    PROVE  BytesInv'
<1>1. /\ cpc = "resume" /\ UNCHANGED <<nextIdx, events, got, chunk, rows, written, total>>
      /\ segs' = IF job.then = "merged" THEN Merge(segs, job.st.par, job.st.del) ELSE segs
      /\ shared' = Rebuilt(segs')
      /\ wpc' = IF Sending THEN [wpc EXCEPT ![job.w] = "assigned"] ELSE wpc
      /\ asg' = IF Sending THEN [asg EXCEPT ![job.w] = job.asg] ELSE asg
      /\ job'.then = "loop"
  BY DEF Continue, diskVars, Sending, NoJob
<1>2. Running /\ Running'
  BY <1>1 DEF Running, Continue
<1>3. Sound(segs, nextIdx, total) /\ total \in Nat /\ MapHas(written, segs)
  BY <1>2, KnownMap
<1>4. /\ MapHas(written, segs') /\ InState(segs', "Active") = InState(segs, "Active")
      /\ \A i \in DOMAIN segs' : i \in DOMAIN segs /\ segs'[i].start = segs[i].start
  <2>1. CASE job.then = "merged"
    <3>1. PICK open, A : open = job.st.par /\ A = job.st.del
      OBVIOUS
    <3>2. open \in InState(segs, "Active") /\ A = Absorbable(segs, open) /\ A # {}
      BY <1>1, <2>1, <3>1 DEF CoordInv, JobSound
    <3>3. ASSUME NEW c, c = Merge(segs, open, A)
          PROVE  /\ MapHas(written, c) /\ InState(c, "Active") = InState(segs, "Active")
                 /\ \A i \in DOMAIN c : i \in DOMAIN segs /\ c[i].start = segs[i].start
      <4>1. MapHas(written, c)
        BY <1>3, <3>2, <3>3, MergeCounts
      <4>2. /\ InState(c, "Active") = InState(segs, "Active") /\ DOMAIN c = DOMAIN segs \ A
            /\ \A i \in DOMAIN c : c[i].start = segs[i].start
        BY <1>3, <3>2, <3>3, MergeKeeps
      <4> QED BY <4>1, <4>2
    <3> QED BY <1>1, <2>1, <3>1, <3>3
  <2>2. CASE job.then # "merged"
    BY <1>1, <1>3, <2>2
  <2> QED BY <2>1, <2>2
<1>5. /\ DOMAIN segs' \subseteq 0 .. nextIdx' - 1
      /\ \A i \in DOMAIN segs' : segs'[i].start <= segs'[i].end
  <2>1. Sound(segs', nextIdx', total') /\ total' \in Nat
    BY <1>2 DEF CoordInv, Types, CoordTypes, MapTypes, Mapped, Sound
  <2>2. \A t \in Nat : \A n, c : Sound(c, n, t) => \A i \in DOMAIN c : c[i].start <= c[i].end
    BY SoundSegment
  <2> QED BY <2>1, <2>2 DEF Sound, MapBelow
<1>6. SharedWritten'
  <2>1. /\ DOMAIN shared' = DOMAIN segs'
        /\ \A i \in DOMAIN segs' : /\ shared'[i].end = segs'[i].end
                                   /\ shared'[i].dl = IF i \in DOMAIN shared THEN shared[i].dl
                                                      ELSE segs'[i].dl
    BY <1>1 DEF Rebuilt
  <2>2. ASSUME NEW i \in DOMAIN segs'
        PROVE  Has(written, segs'[i].start, shared'[i].dl)
    <3>1. CASE i \in DOMAIN shared
      BY <1>4, <2>1, <3>1 DEF BytesInv, SharedWritten
    <3>2. CASE i \notin DOMAIN shared
      BY <1>4, <2>1, <3>2 DEF MapHas
    <3> QED BY <3>1, <3>2
  <2> QED BY <1>1, <1>5, <2>1, <2>2 DEF SharedWritten
<1>7. ReportsWritten'
  <2>1. News' = News /\ events' = events
    BY <1>1 DEF News
  <2>2. \A k \in News : segs'[events[k].idx].start = segs[events[k].idx].start
    <3>1. \A k \in News : events[k].idx \in InState(segs', "Active")
      BY <1>4 DEF CoordInv, HoldersActive
    <3> QED BY <1>4, <3>1 DEF InState
  <2> QED BY <1>1, <2>1, <2>2 DEF BytesInv, ReportsWritten
<1>8. WorkersWritten'
  <2>1. CASE Sending
    <3>1. wpc \in [Workers -> WorkerPCs] /\ asg \in [Workers -> Assignments]
      BY PartsTyped
    <3>2. \A w \in Workers :
            /\ wpc'[w] = IF w = job.w THEN "assigned" ELSE wpc[w]
            /\ asg'[w] = IF w = job.w THEN job.asg ELSE asg[w]
      BY <1>1, <2>1, <3>1
    <3>3. ASSUME NEW w \in Workers, Busy(w)'
          PROVE  WorkerHas(written', wpc'[w], asg'[w], got'[w], chunk'[w].len)
      <4>1. CASE w = job.w
        BY <1>1, <2>1, <3>2, <4>1 DEF BytesInv, JobWritten, WorkerHas
      <4>2. CASE w # job.w
        <5>1. Busy(w) /\ wpc'[w] = wpc[w] /\ asg'[w] = asg[w]
          BY <3>2, <3>3, <4>2 DEF Busy
        <5> QED BY <1>1, <5>1 DEF BytesInv, WorkersWritten
      <4> QED BY <4>1, <4>2
    <3> QED BY <3>3 DEF WorkersWritten
  <2>2. CASE ~Sending
    BY <1>1, <2>2 DEF BytesInv, WorkersWritten, Busy
  <2> QED BY <2>1, <2>2
<1>9. RowsWritten' /\ JobWritten' /\ SegsWritten'
  BY <1>1, <1>4 DEF BytesInv, RowsWritten, JobWritten, Sending, SegsWritten
<1> QED BY <1>6, <1>7, <1>8, <1>9 DEF BytesInv

\* A run begins with a map that counts only what is in the file.
LEMMA LaunchCounts ==
    ASSUME CoordInv, CoordInv', BytesInv, ~Running, NEW t \in Nat \ {0}, NEW n, NEW m,
           Sound(m, n, t), MapHas(written, m), rows' = [i \in DOMAIN m |-> Row(m[i])],
           Launch(m, t, n), UnchangedByLaunch
    PROVE  BytesInv'
<1> DEFINE pend == InState(m, "Pending")
           fromZero == {i \in pend : m[i].start + m[i].dl = 0}
           limit(a) == IF fromZero # {} THEN 1 ELSE a
           rank(i) == Cardinality({j \in pend : j <= i})
           chosen(a) == {i \in pend : rank(i) <= limit(a)}
           team(a) == {rank(i) : i \in chosen(a)}
           segOf(a, w) == CHOOSE i \in chosen(a) : rank(i) = w
<1>1. PICK a \in 1 .. MaxAllowed :
        /\ segs' = [i \in DOMAIN m |->
                       IF i \in chosen(a) THEN [m[i] EXCEPT !.st = "Active"] ELSE m[i]]
        /\ nextIdx' = n
        /\ shared' = [i \in DOMAIN m |-> [end |-> m[i].end, dl |-> m[i].dl]]
        /\ wpc' = [w \in Workers |-> IF w \in team(a) THEN "assigned" ELSE "gone"]
        /\ asg' = [w \in Workers |->
                      IF w \in team(a)
                      THEN Assignment(m[segOf(a, w)], segOf(a, w), segOf(a, w) \in fromZero,
                                      estimate /\ segOf(a, w) \in fromZero)
                      ELSE NoWork]
  BY DEF Launch
<1> DEFINE C == chosen(a)
           T == team(a)
<1>2. \A w \in Workers :
        /\ wpc'[w] = "assigned" \/ ~Busy(w)'
        /\ Busy(w)' => \E i, x, y : asg'[w] = Assignment(m[i], i, x, y)
  BY <1>1 DEF Busy
<1>3. segs' = [i \in DOMAIN m |-> IF i \in C THEN [m[i] EXCEPT !.st = "Active"] ELSE m[i]]
  BY <1>1
<1> HIDE DEF pend, fromZero, limit, rank, chosen, team, segOf, C, T
<1>4. /\ job' = job /\ events' = events /\ written' = written
  BY DEF UnchangedByLaunch
<1>5. News = {} /\ job.then = "loop"
  BY NobodyYet
<1>6. \A i \in DOMAIN m : m[i] \in SegRecs /\ i \in 0 .. n - 1 /\ m[i].start <= m[i].end
  <2>1. t \in Nat
    OBVIOUS
  <2> QED BY <2>1, SoundSegment DEF Sound, MapBelow
<1>7. /\ DOMAIN segs' = DOMAIN m
      /\ \A i \in DOMAIN m : /\ segs'[i].start = m[i].start /\ segs'[i].dl = m[i].dl
                             /\ segs'[i].end = m[i].end
                             /\ segs'[i].st = m[i].st \/ segs'[i].st = "Active"
  BY <1>3, <1>6 DEF SegRecs
<1>8. SegsWritten'
  <2>1. \A i \in DOMAIN segs' : CountsNoMore(m, segs', i)
    BY <1>7 DEF CountsNoMore
  <2> QED BY <1>4, <2>1, MapCountsNoMore DEF SegsWritten
<1>9. SharedWritten'
  <2>1. DOMAIN shared' = DOMAIN m /\ \A i \in DOMAIN m : shared'[i].end = m[i].end /\ shared'[i].dl = m[i].dl
    BY <1>1
  <2> QED BY <1>1, <1>4, <1>6, <1>7, <2>1 DEF SharedWritten, MapHas
<1>10. WorkersWritten'
  <2>1. ASSUME NEW w \in Workers, Busy(w)'
        PROVE  WorkerHas(written', wpc'[w], asg'[w], got'[w], chunk'[w].len)
    <3>1. PICK i, x, y : asg'[w] = Assignment(m[i], i, x, y)
      BY <1>2, <2>1
    <3>2. asg'[w].idx = i /\ asg'[w].start = m[i].start /\ asg'[w].from = m[i].start + m[i].dl
      BY <3>1 DEF Assignment
    <3>3. i \in DOMAIN m
      BY <1>7, <2>1, <3>2 DEF CoordInv, HoldersActive, InState
    <3>4. (m[i].start + m[i].dl) - m[i].start = m[i].dl
      BY <1>6, <3>3 DEF SegRecs
    <3>5. Has(written', asg'[w].start, asg'[w].from - asg'[w].start)
      BY <1>4, <3>2, <3>3, <3>4 DEF MapHas
    <3> QED BY <1>2, <2>1, <3>5 DEF WorkerHas
  <2> QED BY <2>1 DEF WorkersWritten
<1>11. RowsWritten'
  <2>1. \A i \in DOMAIN m : rows'[i].start = m[i].start /\ rows'[i].dl = m[i].dl
    BY DEF Row
  <2> QED BY <1>4, <2>1 DEF RowsWritten, MapHas
<1>12. ReportsWritten' /\ JobWritten'
  BY <1>4, <1>5 DEF ReportsWritten, JobWritten, Sending, News
<1> QED BY <1>8, <1>9, <1>10, <1>11, <1>12 DEF BytesInv

\* A fresh map counts nothing.
LEMMA FreshCounts ==
    ASSUME NEW W, NEW count \in Nat \ {0}, NEW t \in Nat, count <= t, NEW c, c = Fresh(count, t)
    PROVE  /\ MapHas(W, c) /\ Sound(c, count, t) /\ DOMAIN c = 0 .. count - 1
<1>1. Sound(c, count, t) /\ DOMAIN c = 0 .. count - 1 /\ \A i \in DOMAIN c : c[i].st = "Pending"
  BY FreshIsSound
<1>2. \A i \in DOMAIN c : c[i].dl = 0
  BY <1>1 DEF Fresh, Seg
<1>3. \A i \in DOMAIN c : c[i].start \in Int
  BY <1>1, SoundSegment DEF SegRecs
<1>4. \A i \in DOMAIN c : Has(W, c[i].start, c[i].dl)
  BY <1>2, <1>3 DEF Has
<1> QED BY <1>1, <1>4 DEF MapHas

\* A first run, or one whose rows did not pass.
LEMMA StartCounts ==
    ASSUME CoordInv, CoordInv', BytesInv, StartFresh \/ Rebuild
    PROVE  BytesInv'
<1>1. PICK n, count :
        /\ n \in Nat \ {0} /\ count \in Nat \ {0} /\ count <= n
        /\ rows' = [i \in 0 .. count - 1 |-> Row(Fresh(count, n)[i])]
        /\ Launch(Fresh(count, n), n, count)
  <2>1. CASE StartFresh
    <3>1. PICK n \in 1 .. MaxTotal :
            LET count == IF estimate THEN 1 ELSE Lesser(Plan, n)
            IN  /\ rows' = [i \in 0 .. count - 1 |-> Row(Fresh(count, n)[i])]
                /\ Launch(Fresh(count, n), n, count)
      BY <2>1 DEF StartFresh
    <3> DEFINE count == IF estimate THEN 1 ELSE Lesser(Plan, n)
    <3>2. n \in Nat \ {0} /\ count \in Nat \ {0} /\ count <= n
      BY WorkersAssumption, CoordinatorAssumption DEF Lesser
    <3> QED BY <3>1, <3>2
  <2>2. CASE Rebuild
    <3> DEFINE count == Lesser(Plan, total)
    <3>1. /\ rows' = [i \in 0 .. count - 1 |-> Row(Fresh(count, total)[i])]
          /\ Launch(Fresh(count, total), total, count)
      BY <2>2 DEF Rebuild
    <3>2. total \in Nat \ {0} /\ count \in Nat \ {0} /\ count <= total
      BY CoordinatorAssumption DEF CoordInv, Types, CoordTypes, Lesser
    <3> QED BY <3>1, <3>2
  <2> QED BY <2>1, <2>2
<1>2. ~Running /\ UnchangedByLaunch
  BY DEF StartFresh, Rebuild, Running
<1>3. PICK m : m = Fresh(count, n)
  OBVIOUS
<1>4. MapHas(written, m) /\ Sound(m, count, n) /\ DOMAIN m = 0 .. count - 1
  <2>1. n \in Nat
    BY <1>1
  <2> QED BY <1>1, <1>3, <2>1, FreshCounts
<1>5. rows' = [i \in DOMAIN m |-> Row(m[i])] /\ Launch(m, n, count)
  BY <1>1, <1>3, <1>4
<1> QED BY <1>1, <1>2, <1>4, <1>5, LaunchCounts

\* The rows a resume loads count what they did; a segment it takes for complete
\* has all its bytes.
LEMMA LoadedCounts ==
    ASSUME CoordInv, BytesInv, NEW t, NEW c, c = Checked(Loaded, t)
    PROVE  MapHas(written, Loaded) /\ MapHas(written, c)
<1>1. DOMAIN Loaded = DOMAIN rows
  BY DEF Loaded
<1>2. ASSUME NEW i \in DOMAIN rows
      PROVE  /\ Has(written, Loaded[i].start, Loaded[i].dl)
             /\ Loaded[i].st = "Completed" => Bytes(Loaded[i]) \subseteq written
             /\ Loaded[i].start \in Int /\ Loaded[i] \in SegRecs
  <2>1. /\ Loaded[i].start = rows[i].start /\ Loaded[i].end = rows[i].end
        /\ Loaded[i].dl = rows[i].dl
        /\ Loaded[i].st = IF rows[i].dl >= RowSize(rows[i]) THEN "Completed" ELSE "Pending"
        /\ Loaded[i] = Seg(rows[i].start, rows[i].end, rows[i].dl,
                           IF rows[i].dl >= RowSize(rows[i]) THEN "Completed" ELSE "Pending")
    BY DEF Loaded, Seg
  <2>2. /\ rows[i] \in RowRecs
        /\ rows[i].start \in Int /\ rows[i].end \in Int /\ rows[i].dl \in Nat
    BY DEF CoordInv, Types, RowTypes, RowRecs
  <2>3. Has(written, rows[i].start, rows[i].dl)
    BY DEF BytesInv, RowsWritten
  <2>4. Loaded[i].st = "Completed" => Bytes(Loaded[i]) \subseteq written
    BY <2>1, <2>2, <2>3 DEF RowSize, Bytes, Has
  <2>5. Loaded[i] \in SegRecs
    BY <2>1, <2>2 DEF Seg, SegRecs, States
  <2> QED BY <2>1, <2>2, <2>3, <2>4, <2>5
<1>3. MapHas(written, Loaded)
  BY <1>1, <1>2 DEF MapHas
<1>4. CASE c = Loaded
  BY <1>3, <1>4
<1>5. CASE c = [i \in DOMAIN Loaded |-> [Loaded[i] EXCEPT !.dl = 0, !.st = "Pending"]]
  <2>1. \A i \in DOMAIN c : c[i].start \in Int /\ c[i].dl = 0 /\ c[i].st # "Completed"
    <3>1. PICK m : m = Loaded
      OBVIOUS
    <3>2. \A i \in DOMAIN m : m[i] \in SegRecs
      BY <1>1, <1>2, <3>1
    <3>3. c = [i \in DOMAIN m |-> [m[i] EXCEPT !.dl = 0, !.st = "Pending"]]
      BY <1>5, <3>1
    <3>4. DOMAIN c = DOMAIN m /\ \A i \in DOMAIN m : c[i] = [m[i] EXCEPT !.dl = 0, !.st = "Pending"]
      BY <3>3
    <3> SUFFICES ASSUME NEW i \in DOMAIN m
                 PROVE  c[i].start \in Int /\ c[i].dl = 0 /\ c[i].st # "Completed"
      BY <3>4
    <3>5. m[i] \in SegRecs
      BY <3>2
    <3> QED BY <3>4, <3>5 DEF SegRecs
  <2>2. \A i \in DOMAIN c : CountsNoMore(Loaded, c, i)
    BY <2>1 DEF CountsNoMore
  <2> QED BY <1>3, <2>2, MapCountsNoMore
<1> QED BY <1>3, <1>4, <1>5 DEF Checked

\* A run that resumes, or starts over.
LEMMA ResumeCounts ==
    ASSUME CoordInv, CoordInv', BytesInv, Resume
    PROVE  BytesInv'
<1> DEFINE S == {rows[i].end : i \in DOMAIN rows}
           covered == Greatest(S) + 1
           m == Checked(Loaded, covered)
           next == Greatest(DOMAIN m) + 1
<1>1. \/ /\ ValidateCoverage(Loaded, covered)
         /\ rows' = [i \in DOMAIN m |-> Row(m[i])]
         /\ Launch(m, covered, next)
      \/ rows' = <<>> /\ UNCHANGED <<segs, nextIdx, shared, wpc, asg>>
  BY DEF Resume
<1>2. ~Running /\ UnchangedByLaunch /\ RowTypes
  BY DEF Resume, Running, CoordInv, Types
<1>3. CASE /\ ValidateCoverage(Loaded, covered)
           /\ rows' = [i \in DOMAIN m |-> Row(m[i])]
           /\ Launch(m, covered, next)
  <2>1. DOMAIN rows # {}
    BY <1>3 DEF ValidateCoverage, Loaded
  <2> HIDE DEF S
  <2>2. /\ covered \in Nat \ {0} /\ DOMAIN Loaded = DOMAIN rows
        /\ Sound(Loaded, Greatest(DOMAIN rows) + 1, covered)
        /\ \A i \in DOMAIN rows : Loaded[i].st # "Active"
    <3>1. \A t : t = Greatest(S) + 1 /\ ValidateCoverage(Loaded, t) =>
            /\ t \in Nat \ {0} /\ DOMAIN Loaded = DOMAIN rows
            /\ Sound(Loaded, Greatest(DOMAIN rows) + 1, t)
            /\ \A i \in DOMAIN rows : Loaded[i].st # "Active"
      BY <1>2, <2>1, LoadedIsSound DEF S
    <3> QED BY <1>3, <3>1
  <2> HIDE DEF covered
  <2>3. Sound(m, Greatest(DOMAIN rows) + 1, covered) /\ DOMAIN m = DOMAIN rows
    <3>1. covered \in Nat
      BY <2>2
    <3>2. \A c : c = Checked(Loaded, covered) =>
            Sound(c, Greatest(DOMAIN rows) + 1, covered) /\ DOMAIN c = DOMAIN rows
      BY <2>2, <3>1, CheckedKeeps
    <3> QED BY <3>2
  <2>4. Sound(m, next, covered)
    BY <2>3
  <2>5. MapHas(written, m)
    BY LoadedCounts
  <2> HIDE DEF m, next
  <2> QED BY <1>2, <1>3, <2>2, <2>4, <2>5, LaunchCounts
<1>4. CASE rows' = <<>> /\ UNCHANGED <<segs, nextIdx, shared, wpc, asg>>
  <2>1. /\ job' = job /\ events' = events /\ got' = got /\ chunk' = chunk /\ written' = written
    BY <1>2 DEF UnchangedByLaunch
  <2>2. RowsWritten'
    BY <1>4 DEF RowsWritten
  <2> QED BY <1>4, <2>1, <2>2
          DEF BytesInv, SegsWritten, SharedWritten, WorkersWritten, ReportsWritten, JobWritten,
              Busy, News, Sending
<1> QED BY <1>1, <1>3, <1>4

\* The loop is over: the progress of the workers goes to the map and the rows.
LEMMA JoinCounts ==
    ASSUME CoordInv, CoordInv', BytesInv, Join
    PROVE  BytesInv'
<1> DEFINE m == Synced(segs)
<1>1. /\ cpc = "join" /\ (segs' = segs \/ segs' = m)
      /\ \/ rows' = rows
         \/ rows' = [i \in DOMAIN rows |->
                        IF i \in DOMAIN m THEN [rows[i] EXCEPT !.dl = m[i].dl] ELSE rows[i]]
      /\ UNCHANGED <<nextIdx, job, shared, wpc, asg, got, chunk, events, written>>
  BY DEF Join, sharedVars, localVars
<1>2. Running
  BY <1>1 DEF Running
<1>3. MapHas(written, m) /\ Carried(segs, m) /\ DOMAIN m = DOMAIN segs
  BY <1>2, SyncedCounts, SyncedMap
<1> HIDE DEF m
<1>4. MapHas(written, segs') /\ Carried(segs, segs') /\ DOMAIN segs' = DOMAIN segs
  BY <1>1, <1>3 DEF BytesInv, SegsWritten, Carried
<1>5. RowsWritten'
  <2>1. ASSUME NEW i \in DOMAIN rows'
        PROVE  Has(written, rows'[i].start, rows'[i].dl)
    <3>1. CASE rows' = rows
      BY <2>1, <3>1 DEF BytesInv, RowsWritten
    <3>2. CASE rows' = [j \in DOMAIN rows |->
                           IF j \in DOMAIN m THEN [rows[j] EXCEPT !.dl = m[j].dl] ELSE rows[j]]
      <4>1. /\ i \in DOMAIN rows /\ i \in DOMAIN segs /\ rows[i].start = segs[i].start
            /\ rows[i] \in RowRecs
        BY <1>2, <2>1, <3>2 DEF CoordInv, RowsMatch, Types, RowTypes
      <4>2. rows'[i].start = m[i].start /\ rows'[i].dl = m[i].dl
        BY <1>3, <3>2, <4>1 DEF RowRecs, Carried
      <4> QED BY <1>3, <4>1, <4>2 DEF MapHas
    <3> QED BY <1>1, <3>1, <3>2
  <2> QED BY <1>1, <2>1 DEF RowsWritten
<1>6. SharedWritten'
  <2>1. \A i \in DOMAIN segs : segs'[i].start = segs[i].start
    BY <1>4 DEF Carried
  <2> QED BY <1>1, <1>4, <2>1 DEF BytesInv, SharedWritten
<1>7. ReportsWritten'
  <2>1. \A k \in News : segs'[events[k].idx].start = segs[events[k].idx].start
    BY <1>4 DEF Carried, CoordInv, HoldersActive, InState
  <2> QED BY <1>1, <2>1 DEF BytesInv, ReportsWritten, News
<1> QED BY <1>1, <1>4, <1>5, <1>6, <1>7
        DEF BytesInv, SegsWritten, WorkersWritten, JobWritten, Busy, Sending

\* A crash, or a resume, forgets everything but the rows and the file.
LEMMA RestartCounts ==
    ASSUME BytesInv, Restart
    PROVE  BytesInv'
<1>1. /\ job' = NoJob /\ segs' = <<>> /\ shared' = <<>> /\ events' = <<>>
      /\ rows' = rows /\ written' = written
      /\ wpc' = [w \in Workers |-> "gone"]
  BY DEF Restart
<1>2. /\ DOMAIN segs' = {} /\ DOMAIN shared' = {} /\ News' = {}
      /\ ~Sending' /\ \A w \in Workers : ~Busy(w)'
  BY <1>1 DEF News, Sending, NoJob, Busy
<1>3. SegsWritten' /\ SharedWritten' /\ WorkersWritten' /\ ReportsWritten' /\ JobWritten'
  BY <1>2 DEF SegsWritten, MapHas, SharedWritten, WorkersWritten, ReportsWritten, JobWritten
<1> QED BY <1>1, <1>3 DEF BytesInv, RowsWritten

\* Before the first run nothing is counted.
LEMMA InitCounts ==
    ASSUME CoordInit
    PROVE  BytesInv
<1>1. /\ job = NoJob /\ segs = <<>> /\ shared = <<>> /\ events = <<>> /\ rows = <<>>
      /\ wpc = [w \in Workers |-> "gone"]
  BY DEF CoordInit
<1>2. /\ DOMAIN segs = {} /\ DOMAIN shared = {} /\ News = {} /\ DOMAIN rows = {}
      /\ ~Sending /\ \A w \in Workers : ~Busy(w)
  BY <1>1 DEF News, Sending, NoJob, Busy
<1> QED BY <1>2 DEF BytesInv, SegsWritten, MapHas, SharedWritten, WorkersWritten, ReportsWritten,
                    JobWritten, RowsWritten
-----------------------------------------------------------------------------
(***************************************************************************)
(* The workers.                                                            *)
(***************************************************************************)

\* At most one row is given another count, of bytes that are in the file.
RowsCounted ==
    \/ rows' = rows
    \/ \E i \in DOMAIN rows : \E d :
          Has(written, rows[i].start, d) /\ rows' = [rows EXCEPT ![i].dl = d]

\* So for what is shared.
SharedCounted(w) ==
    \/ shared' = shared
    \/ \E d : /\ Has(written', segs[asg[w].idx].start, d)
              /\ asg[w].idx \in DOMAIN shared /\ shared' = [shared EXCEPT ![asg[w].idx].dl = d]

\* A report that is new counts bytes of its segment, if it counts any.
NewsCounted ==
    \A k \in News' : events'[k].kind = "done" =>
        \/ k \in News /\ events'[k] = events[k]
        \/ events'[k].n >= 1 /\ Has(written', segs[events'[k].idx].start, events'[k].n)

\* Rows that are given counts within the file.
LEMMA RowsStayWritten ==
    ASSUME CoordInv, BytesInv, written \subseteq written', RowsCounted
    PROVE  RowsWritten'
<1>1. \A i \in DOMAIN rows : rows[i] \in RowRecs /\ Has(written', rows[i].start, rows[i].dl)
  BY HasMore DEF CoordInv, Types, RowTypes, BytesInv, RowsWritten
<1>2. CASE rows' = rows
  BY <1>1, <1>2 DEF RowsWritten
<1>3. ASSUME NEW i \in DOMAIN rows, NEW d, Has(written, rows[i].start, d),
             rows' = [rows EXCEPT ![i].dl = d]
      PROVE  RowsWritten'
  <2>1. \A j \in DOMAIN rows : /\ rows'[j].start = rows[j].start
                               /\ rows'[j].dl = IF j = i THEN d ELSE rows[j].dl
    BY <1>1, <1>3 DEF RowRecs
  <2>2. Has(written', rows[i].start, d)
    BY <1>3, HasMore
  <2> QED BY <1>1, <1>3, <2>1, <2>2 DEF RowsWritten
<1> QED BY <1>2, <1>3 DEF RowsCounted

\* What a step of the worker w has to show.
LEMMA WorkerCounts ==
    ASSUME CoordInv, CoordInv', BytesInv, Elsewhere, NEW w \in Workers, written \subseteq written',
           \A v \in Workers \ {w} : /\ wpc'[v] = wpc[v] /\ asg'[v] = asg[v]
                                    /\ got'[v] = got[v] /\ chunk'[v] = chunk[v],
           Busy(w)' => WorkerHas(written', wpc'[w], asg'[w], got'[w], chunk'[w].len),
           RowsCounted, SharedCounted(w), NewsCounted
    PROVE  BytesInv'
<1>1. UNCHANGED <<segs, nextIdx, job>>
  BY DEF Elsewhere
<1>2. (\A s, d : Has(written, s, d) => Has(written', s, d)) /\ MapHas(written', segs)
  BY HasMore DEF BytesInv, SegsWritten
<1>3. SharedWritten'
  <2>1. CASE shared' = shared
    BY <1>1, <1>2, <2>1 DEF BytesInv, SharedWritten
  <2>2. ASSUME NEW i, i = asg[w].idx, NEW d, Has(written', segs[i].start, d), i \in DOMAIN shared,
               shared' = [shared EXCEPT ![i].dl = d]
        PROVE  SharedWritten'
    <3>1. \A j \in DOMAIN shared : shared[j] \in [end : Int, dl : Nat]
      BY PartsTyped
    <3>2. /\ DOMAIN shared' = DOMAIN shared
          /\ \A j \in DOMAIN shared : /\ shared'[j].end = shared[j].end
                                      /\ shared'[j].dl = IF j = i THEN d ELSE shared[j].dl
      BY <2>2, <3>1
    <3> QED BY <1>1, <1>2, <2>2, <3>2 DEF BytesInv, SharedWritten
  <2> QED BY <2>1, <2>2 DEF SharedCounted
<1>4. WorkersWritten'
  <2>1. ASSUME NEW v \in Workers, v # w, Busy(v)'
        PROVE  WorkerHas(written', wpc'[v], asg'[v], got'[v], chunk'[v].len)
    <3>1. Busy(v) /\ wpc'[v] = wpc[v] /\ asg'[v] = asg[v] /\ got'[v] = got[v] /\ chunk'[v] = chunk[v]
      BY <2>1 DEF Busy
    <3>2. WorkerHas(written, wpc[v], asg[v], got[v], chunk[v].len)
      BY <3>1 DEF BytesInv, WorkersWritten
    <3> QED BY <1>2, <3>1, <3>2 DEF WorkerHas
  <2> QED BY <2>1 DEF WorkersWritten
<1>5. ReportsWritten'
  BY <1>1, <1>2 DEF NewsCounted, BytesInv, ReportsWritten
<1>6. JobWritten'
  BY <1>1, <1>2 DEF BytesInv, JobWritten, Sending
<1>7. RowsWritten'
  BY RowsStayWritten
<1> QED BY <1>1, <1>2, <1>3, <1>4, <1>5, <1>6, <1>7 DEF BytesInv, SegsWritten

\* The assignment of a busy worker is of the map, and its boundary ahead of it.
LEMMA BusyCounts ==
    ASSUME CoordInv, BytesInv, NEW w \in Workers, Busy(w)
    PROVE  /\ asg[w].idx \in DOMAIN segs /\ asg[w].start = segs[asg[w].idx].start
           /\ WorkerHas(written, wpc[w], asg[w], got[w], chunk[w].len)
           /\ SharedEnd(w) \in Int /\ asg[w].start <= SharedEnd(w)
<1>1. asg[w].idx \in DOMAIN segs /\ asg[w].start = segs[asg[w].idx].start
  BY DEF CoordInv, HoldersActive, InState
<1>2. SharedEnd(w) \in Int /\ asg[w].start <= SharedEnd(w)
  <2>1. CASE asg[w].idx \in DOMAIN shared
    <3>1. shared[asg[w].idx] \in [end : Int, dl : Nat]
      BY <2>1, PartsTyped
    <3> QED BY <1>1, <2>1, <3>1 DEF BytesInv, SharedWritten, SharedEnd
  <2>2. CASE asg[w].idx \notin DOMAIN shared
    BY <2>2, BusyWorker DEF SharedEnd
  <2> QED BY <2>1, <2>2
<1> QED BY <1>1, <1>2 DEF BytesInv, WorkersWritten

\* A worker's save stores no more than it counts.
LEMMA SaveCounts ==
    ASSUME CoordInv, NEW w \in Workers, Busy(w), NEW d \in Nat, Has(written, asg[w].start, d),
           SaveRow(w, d)
    PROVE  RowsCounted
<1> DEFINE i == asg[w].idx
           x == Lesser(d, RowSize(rows[i]))
<1>1. CASE i \in DOMAIN rows /\ rows[i].start = asg[w].start /\ rows' = [rows EXCEPT ![i].dl = x]
  <2>1. rows[i] \in RowRecs /\ rows[i].start \in Int /\ RowSize(rows[i]) \in Int
    BY <1>1, BusyWorker DEF RowRecs, RowSize
  <2>2. x \in Int /\ x <= d
    BY <2>1 DEF Lesser
  <2> HIDE DEF x
  <2>3. Has(written, rows[i].start, x)
    BY <1>1, <2>1, <2>2, HasFewer
  <2> QED BY <1>1, <2>3 DEF RowsCounted
<1>2. CASE rows' = rows
  BY <1>2 DEF RowsCounted
<1> QED BY <1>1, <1>2 DEF SaveRow

\* A worker that goes on to the place p with what it has.
LEMMA MoveCounts ==
    ASSUME CoordInv, CoordInv', BytesInv, Elsewhere, NEW w \in Workers, Busy(w),
           NEW p \in WorkerPCs \ {"stream", "write"}, Goto(w, p),
           p = "finish" => got[w] >= 1 /\ Has(written, asg[w].start, got[w]),
           UNCHANGED <<shared, asg, got, chunk, written>>, RowsCounted, NewsCounted
    PROVE  BytesInv'
<1>1. wpc' = [wpc EXCEPT ![w] = p] /\ wpc \in [Workers -> WorkerPCs]
  BY PartsTyped DEF Goto
<1>2. WorkerHas(written, wpc[w], asg[w], got[w], chunk[w].len)
  BY BusyCounts
<1>3. WorkerHas(written', wpc'[w], asg'[w], got'[w], chunk'[w].len)
  BY <1>1, <1>2 DEF WorkerHas
<1>4. SharedCounted(w)
  BY DEF SharedCounted
<1> QED BY <1>1, <1>3, <1>4, WorkerCounts

\* No news, as long as the channel is left alone.
LEMMA NoNews ==
    ASSUME UNCHANGED events
    PROVE  NewsCounted
BY DEF NewsCounted, News

\* A worker that reports.
LEMMA ReportCounts ==
    ASSUME CoordInv, CoordInv', BytesInv, Elsewhere, NEW w \in Workers, Busy(w),
           UNCHANGED <<shared, written>>, RowsCounted,
           NEW kind \in EventKinds \ Verdicts, NEW n \in Nat, NEW next \in {"wait", "gone"},
           Report(w, Event(kind, w, asg[w].idx, n), next),
           kind = "done" => n >= 1 /\ Has(written, asg[w].start, n)
    PROVE  BytesInv'
<1> DEFINE e == Event(kind, w, asg[w].idx, n)
<1>1. /\ wpc \in [Workers -> WorkerPCs] /\ events \in Seq(EventRecs)
      /\ asg \in [Workers -> Assignments] /\ got \in [Workers -> Nat]
      /\ chunk \in [Workers -> [len : Nat, cut : BOOLEAN]]
  BY PartsTyped
<1>2. /\ events' = Append(events, e) /\ wpc' = [wpc EXCEPT ![w] = next]
      /\ asg' = [asg EXCEPT ![w] = NoWork] /\ got' = [got EXCEPT ![w] = 0]
      /\ chunk' = [chunk EXCEPT ![w] = NoChunk]
  BY DEF Report, Send
<1>3. asg[w].idx \in Nat /\ w \in Nat
  BY BusyWorker, WorkersAssumption
<1>4. e \in EventRecs /\ e.kind = kind /\ e.idx = asg[w].idx /\ e.n = n
  BY <1>3 DEF Event, EventRecs
<1> HIDE DEF e
<1>5. \A k \in News' : (k \in News /\ events'[k] = events[k]) \/ events'[k] = e
  BY <1>1, <1>2, <1>4, EventAppended
<1>6. NewsCounted
  <2>1. asg[w].start = segs[asg[w].idx].start
    BY BusyCounts
  <2> QED BY <1>4, <1>5, <2>1 DEF NewsCounted
<1>7. ~Busy(w)' /\ SharedCounted(w)
  BY <1>1, <1>2 DEF Busy, SharedCounted
<1>8. \A v \in Workers \ {w} : /\ wpc'[v] = wpc[v] /\ asg'[v] = asg[v]
                               /\ got'[v] = got[v] /\ chunk'[v] = chunk[v]
  BY <1>1, <1>2
<1> QED BY <1>6, <1>7, <1>8, WorkerCounts

\* A failure counts nothing.
LEMMA FailureCounts ==
    ASSUME CoordInv, CoordInv', BytesInv, Elsewhere, NEW w \in Workers, Busy(w),
           UNCHANGED <<shared, rows, written>>,
           NEW kind \in EventKinds \ Verdicts, kind # "done", NEW n \in Nat,
           ReportFailed(w, kind, n)
    PROVE  BytesInv'
<1>1. RowsCounted
  BY DEF RowsCounted
<1>2. CASE Report(w, Event(kind, w, asg[w].idx, n), IF kind = "larger" THEN "wait" ELSE "gone")
  <2>1. ASSUME NEW next \in {"wait", "gone"}, Report(w, Event(kind, w, asg[w].idx, n), next)
        PROVE  BytesInv'
    BY <1>1, <2>1, ReportCounts
  <2> QED BY <1>2, <2>1
<1>3. CASE Report(w, Event("node", w, asg[w].idx, 0), "wait")
  <2>1. "node" \in EventKinds \ Verdicts /\ 0 \in Nat /\ "wait" \in {"wait", "gone"}
    BY DEF EventKinds, Verdicts
  <2> QED BY <1>1, <1>3, <2>1, ReportCounts
<1> QED BY <1>2, <1>3 DEF ReportFailed

\* Steps that move the worker, change nothing it counts, and report nothing done.
LEMMA RequestsCount ==
    ASSUME CoordInv, CoordInv', BytesInv, Elsewhere, NEW w \in Workers,
           \/ RequestFails(w) \/ RangeIgnored(w) \/ Replaced(w) \/ GiveUp(w)
           \/ \E n \in 1 .. MaxTotal : TrueSizeLarger(w, n)
    PROVE  BytesInv'
<1>1. Busy(w) /\ UNCHANGED <<shared, rows, written>>
  BY DEF RequestFails, RangeIgnored, Replaced, GiveUp, TrueSizeLarger, Requesting, Answered, Busy,
         diskVars
<1>2. \/ \E kind \in EventKinds \ Verdicts : \E n \in Nat : kind # "done" /\ ReportFailed(w, kind, n)
      \/ \E p \in {"retry", "rangeRetry"} : Goto(w, p) /\ UNCHANGED <<events, asg, got, chunk>>
  <2>1. {"refused", "norange", "replaced", "broken", "larger"} \subseteq EventKinds \ Verdicts
    BY DEF EventKinds, Verdicts
  <2>2. CASE RequestFails(w)
    BY <2>1, <2>2 DEF RequestFails
  <2>3. CASE RangeIgnored(w)
    BY <2>1, <2>3 DEF RangeIgnored
  <2>4. CASE Replaced(w)
    BY <2>1, <2>4 DEF Replaced
  <2>5. CASE GiveUp(w)
    BY <2>1, <2>5 DEF GiveUp
  <2>6. ASSUME NEW n \in 1 .. MaxTotal, TrueSizeLarger(w, n)
        PROVE  ReportFailed(w, "larger", n) /\ n \in Nat
    BY <2>6 DEF TrueSizeLarger
  <2> QED BY <2>1, <2>2, <2>3, <2>4, <2>5, <2>6
<1>3. ASSUME NEW kind \in EventKinds \ Verdicts, NEW n \in Nat, kind # "done",
             ReportFailed(w, kind, n)
      PROVE  BytesInv'
  BY <1>1, <1>3, FailureCounts
<1>4. ASSUME NEW p \in {"retry", "rangeRetry"}, Goto(w, p), UNCHANGED <<events, asg, got, chunk>>
      PROVE  BytesInv'
  <2>1. p \in WorkerPCs \ {"stream", "write"}
    BY DEF WorkerPCs
  <2>2. RowsCounted /\ NewsCounted
    BY <1>1, <1>4, NoNews DEF RowsCounted
  <2> QED BY <1>1, <1>4, <2>1, <2>2, MoveCounts
<1> QED BY <1>2, <1>3, <1>4

\* A worker takes its assignment, and nothing changes but its place.
LEMMA ReceiveCounts ==
    ASSUME CoordInv, CoordInv', BytesInv, Elsewhere, NEW w \in Workers, Receive(w) \/ Retire(w)
    PROVE  BytesInv'
<1>1. /\ UNCHANGED <<events, shared, asg, got, chunk, rows, written>>
      /\ \/ Busy(w) /\ Goto(w, "request")
         \/ Goto(w, "gone")
  BY DEF Receive, Retire, Busy, sharedVars, diskVars
<1>2. NewsCounted /\ RowsCounted /\ SharedCounted(w)
  BY <1>1, NoNews DEF RowsCounted, SharedCounted
<1>3. CASE Busy(w) /\ Goto(w, "request")
  <2>1. "request" \in WorkerPCs \ {"stream", "write"}
    BY DEF WorkerPCs
  <2> QED BY <1>1, <1>2, <1>3, <2>1, MoveCounts
<1>4. CASE Goto(w, "gone")
  <2>1. wpc' = [wpc EXCEPT ![w] = "gone"] /\ wpc \in [Workers -> WorkerPCs]
    BY <1>4, PartsTyped DEF Goto
  <2>2. ~Busy(w)' /\ \A v \in Workers \ {w} : wpc'[v] = wpc[v]
    BY <2>1 DEF Busy
  <2> QED BY <1>1, <1>2, <2>2, WorkerCounts
<1> QED BY <1>1, <1>3, <1>4

\* Nothing was left of the segment.
LEMMA AlreadyCompleteCounts ==
    ASSUME CoordInv, CoordInv', BytesInv, Elsewhere, NEW w \in Workers, AlreadyComplete(w)
    PROVE  BytesInv'
<1> DEFINE d == asg[w].end - asg[w].start + 1
<1>1. /\ Busy(w) /\ UNCHANGED <<shared, rows, written>> /\ asg[w].from > asg[w].end
      /\ Report(w, Event("done", w, asg[w].idx, d), "wait")
  BY DEF AlreadyComplete, Busy, diskVars, ReportDone
<1>2. /\ asg[w].start \in Int /\ asg[w].from \in Int /\ asg[w].end \in Int
      /\ asg[w].start <= asg[w].end
  BY <1>1, BusyWorker
<1>3. d \in Nat /\ d >= 1 /\ d <= asg[w].from - asg[w].start
  BY <1>1, <1>2
<1>4. Has(written, asg[w].start, asg[w].from - asg[w].start)
  BY <1>1, BusyCounts DEF WorkerHas
<1> HIDE DEF d
<1>5. Has(written, asg[w].start, d)
  <2>1. asg[w].from - asg[w].start \in Int
    BY <1>2
  <2> QED BY <1>2, <1>3, <1>4, <2>1, HasFewer
<1>6. "done" \in EventKinds \ Verdicts /\ "wait" \in {"wait", "gone"} /\ RowsCounted
  BY <1>1 DEF EventKinds, Verdicts, RowsCounted
<1> QED BY <1>1, <1>3, <1>5, <1>6, ReportCounts

\* The verdict on Range is no report.
LEMMA RuleCounts ==
    ASSUME CoordInv, CoordInv', BytesInv, Elsewhere, NEW w \in Workers, NEW v \in Verdicts, Rule(w, v)
    PROVE  BytesInv'
<1> DEFINE e == Event(v, w, 0, 0)
<1>1. /\ Busy(w) /\ UNCHANGED <<shared, rows, written, asg, got, chunk>>
      /\ events' = Append(events, e)
  BY DEF Rule, Requesting, Busy, diskVars, Send
<1>2. PICK p \in {"ignored", "answered"} : Goto(w, p)
  BY DEF Rule
<1>3. p \in WorkerPCs \ {"stream", "write"} /\ p # "finish"
  BY DEF WorkerPCs
<1>4. e \in EventRecs /\ e.kind # "done"
  BY WorkersAssumption DEF Event, EventRecs, EventKinds, Verdicts
<1> HIDE DEF e
<1>5. NewsCounted
  <2>1. events \in Seq(EventRecs)
    BY PartsTyped
  <2>2. \A k \in News' : (k \in News /\ events'[k] = events[k]) \/ events'[k] = e
    BY <1>1, <1>4, <2>1, EventAppended
  <2> QED BY <1>4, <2>2 DEF NewsCounted
<1>6. RowsCounted
  BY <1>1 DEF RowsCounted
<1> QED BY <1>1, <1>2, <1>3, <1>5, <1>6, MoveCounts

\* The stream begins at what the assignment counts.
LEMMA AcceptedCounts ==
    ASSUME CoordInv, CoordInv', BytesInv, Elsewhere, NEW w \in Workers, Accepted(w)
    PROVE  BytesInv'
<1> DEFINE x == asg[w].from - asg[w].start
<1>1. /\ Busy(w) /\ UNCHANGED <<events, shared, asg, chunk, rows, written>>
      /\ wpc' = [wpc EXCEPT ![w] = "stream"] /\ got' = [got EXCEPT ![w] = x]
  BY DEF Accepted, Answered, Requesting, Busy, sharedVars, diskVars, Goto
<1>2. wpc \in [Workers -> WorkerPCs] /\ got \in [Workers -> Nat]
  BY PartsTyped
<1>3. Has(written, asg[w].start, x)
  BY <1>1, BusyCounts DEF WorkerHas
<1> HIDE DEF x
<1>4. /\ wpc'[w] = "stream" /\ got'[w] = x
      /\ \A v \in Workers \ {w} : wpc'[v] = wpc[v] /\ got'[v] = got[v]
  BY <1>1, <1>2
<1>5. WorkerHas(written', wpc'[w], asg'[w], got'[w], chunk'[w].len)
  BY <1>1, <1>3, <1>4 DEF WorkerHas, x
<1>6. NewsCounted /\ RowsCounted /\ SharedCounted(w)
  BY <1>1, NoNews DEF RowsCounted, SharedCounted
<1> QED BY <1>1, <1>4, <1>5, <1>6, WorkerCounts

\* A chunk in hand has a byte; at the boundary the worker has one.
LEMMA ReadCounts ==
    ASSUME CoordInv, CoordInv', BytesInv, Elsewhere, NEW w \in Workers, Read(w)
    PROVE  BytesInv'
<1>1. /\ wpc[w] = "stream" /\ Busy(w) /\ UNCHANGED <<events, shared, asg, got, rows, written>>
  BY DEF Read, Busy, sharedVars, diskVars
<1>2. PICK n \in 1 .. Lesser(MaxChunk, BodyLeft(w)) :
        IF Lesser(n, Budget(w)) = 0
        THEN Goto(w, "finish") /\ UNCHANGED chunk
        ELSE /\ Goto(w, "write")
             /\ chunk' = [chunk EXCEPT ![w] = [len |-> Lesser(n, Budget(w)),
                                               cut |-> Lesser(n, Budget(w)) < n]]
  BY DEF Read
<1>3. /\ SharedEnd(w) \in Int /\ asg[w].start <= SharedEnd(w) /\ Has(written, asg[w].start, got[w])
      /\ Has(written, asg[w].start, asg[w].from - asg[w].start)
  BY <1>1, BusyCounts DEF WorkerHas
<1>4. asg[w].start \in Int /\ got[w] \in Nat
  BY <1>1, BusyWorker
<1> DEFINE B == Budget(w)
           len == Lesser(n, B)
<1>5. B \in Nat /\ (B = 0 => got[w] >= 1)
  BY <1>3, <1>4 DEF Budget, Pos
<1> HIDE DEF B
<1>6. n \in Int /\ n >= 1
  OBVIOUS
<1>7. NewsCounted /\ RowsCounted /\ SharedCounted(w)
  BY <1>1, NoNews DEF RowsCounted, SharedCounted
<1>8. CASE len = 0
  <2>1. got[w] >= 1
    BY <1>5, <1>6, <1>8 DEF Lesser
  <2>2. Goto(w, "finish") /\ UNCHANGED chunk /\ "finish" \in WorkerPCs \ {"stream", "write"}
    BY <1>2, <1>8 DEF WorkerPCs, B
  <2> QED BY <1>1, <1>3, <1>7, <2>1, <2>2, MoveCounts
<1>9. CASE len # 0
  <2>1. len >= 1
    BY <1>5, <1>6, <1>9 DEF Lesser
  <2>2. /\ wpc' = [wpc EXCEPT ![w] = "write"]
        /\ chunk' = [chunk EXCEPT ![w] = [len |-> len, cut |-> len < n]]
    BY <1>2, <1>9 DEF B, Goto
  <2> HIDE DEF len
  <2>3. wpc \in [Workers -> WorkerPCs] /\ chunk \in [Workers -> [len : Nat, cut : BOOLEAN]]
    BY PartsTyped
  <2>4. /\ wpc'[w] = "write" /\ chunk'[w].len = len
        /\ \A v \in Workers \ {w} : wpc'[v] = wpc[v] /\ chunk'[v] = chunk[v]
    BY <2>2, <2>3
  <2>5. WorkerHas(written', wpc'[w], asg'[w], got'[w], chunk'[w].len)
    BY <1>1, <1>3, <2>1, <2>4 DEF WorkerHas
  <2> QED BY <1>1, <1>7, <2>4, <2>5, WorkerCounts
<1> QED BY <1>8, <1>9

\* A chunk is written before it is counted.
LEMMA WriteCounts ==
    ASSUME CoordInv, CoordInv', BytesInv, Elsewhere, NEW w \in Workers, Write(w)
    PROVE  BytesInv'
<1> DEFINE s == asg[w].start
           g == got[w]
           len == chunk[w].len
           d == g + len
<1>1. /\ wpc[w] = "write" /\ Busy(w) /\ UNCHANGED <<events, asg, rows>>
      /\ written' = written \cup Pos(w) .. Pos(w) + len - 1
      /\ got' = [got EXCEPT ![w] = d] /\ chunk' = [chunk EXCEPT ![w] = NoChunk]
      /\ shared' = IF asg[w].idx \in DOMAIN shared
                   THEN [shared EXCEPT ![asg[w].idx].dl = d] ELSE shared
  BY DEF Write, Busy, Publish
<1>2. PICK p \in {"finish", "stream"} : wpc' = [wpc EXCEPT ![w] = p]
  BY DEF Write, Goto
<1>3. s \in Int /\ g \in Nat /\ len \in Nat
  BY <1>1, BusyWorker
<1>4. /\ Has(written, s, g) /\ Has(written, s, asg[w].from - s) /\ len >= 1
      /\ s = segs[asg[w].idx].start
  BY <1>1, BusyCounts DEF WorkerHas
<1>5. written' = written \cup s + g .. s + g + len - 1
  BY <1>1 DEF Pos
<1>6. d \in Nat /\ d >= 1
  BY <1>3, <1>4
<1>7. \A b \in s .. s + d - 1 : b \in s .. s + g - 1 \/ b \in s + g .. s + g + len - 1
  BY <1>3
<1>8. Has(written', s, d) /\ Has(written', s, asg[w].from - s) /\ written \subseteq written'
  BY <1>4, <1>5, <1>7 DEF Has
<1> HIDE DEF d, s, g, len
<1>9. /\ wpc \in [Workers -> WorkerPCs] /\ got \in [Workers -> Nat]
      /\ chunk \in [Workers -> [len : Nat, cut : BOOLEAN]]
  BY PartsTyped
<1>10. /\ wpc'[w] = p /\ got'[w] = d
       /\ \A v \in Workers \ {w} : wpc'[v] = wpc[v] /\ got'[v] = got[v] /\ chunk'[v] = chunk[v]
  BY <1>1, <1>2, <1>9
<1>11. WorkerHas(written', wpc'[w], asg'[w], got'[w], chunk'[w].len)
  BY <1>1, <1>6, <1>8, <1>10 DEF WorkerHas, s
<1>12. SharedCounted(w)
  BY <1>1, <1>4, <1>8 DEF SharedCounted
<1>13. NewsCounted /\ RowsCounted
  BY <1>1, NoNews DEF RowsCounted
<1> QED BY <1>1, <1>8, <1>10, <1>11, <1>12, <1>13, WorkerCounts

\* The stream ends or breaks: only past the boundary is the segment done.
LEMMA StreamExitsCount ==
    ASSUME CoordInv, CoordInv', BytesInv, Elsewhere, NEW w \in Workers,
           StreamEnds(w) \/ StreamBreaks(w)
    PROVE  BytesInv'
<1>1. wpc[w] = "stream" /\ Busy(w) /\ UNCHANGED <<events, shared, asg, got, chunk, written>>
  BY DEF StreamEnds, StreamBreaks, Busy, sharedVars
<1>2. /\ SharedEnd(w) \in Int /\ asg[w].start <= SharedEnd(w) /\ Has(written, asg[w].start, got[w])
  BY <1>1, BusyCounts DEF WorkerHas
<1>3. asg[w].start \in Int /\ got[w] \in Nat
  BY <1>1, BusyWorker
<1>4. RowsCounted
  BY <1>1, <1>2, <1>3, SaveCounts DEF StreamEnds, StreamBreaks, RowsCounted
<1>5. PICK p \in {"finish", "retry"} : Goto(w, p) /\ (p = "finish" => got[w] >= 1)
  BY <1>2, <1>3 DEF StreamEnds, StreamBreaks, Pos
<1>6. p \in WorkerPCs \ {"stream", "write"} /\ NewsCounted
  BY <1>1, NoNews DEF WorkerPCs
<1> QED BY <1>1, <1>2, <1>4, <1>5, <1>6, MoveCounts

\* The boundary is reached: what the worker got is saved and reported.
LEMMA FinishSegmentCounts ==
    ASSUME CoordInv, CoordInv', BytesInv, Elsewhere, NEW w \in Workers, FinishSegment(w)
    PROVE  BytesInv'
<1>1. /\ wpc[w] = "finish" /\ Busy(w) /\ UNCHANGED <<shared, written>> /\ SaveRow(w, got[w])
      /\ Report(w, Event("done", w, asg[w].idx, got[w]), "wait")
  BY DEF FinishSegment, Busy, ReportDone
<1>2. Has(written, asg[w].start, got[w]) /\ got[w] >= 1
  BY <1>1, BusyCounts DEF WorkerHas
<1>3. got[w] \in Nat
  BY <1>1, BusyWorker
<1>4. RowsCounted
  BY <1>1, <1>2, <1>3, SaveCounts
<1>5. "done" \in EventKinds \ Verdicts /\ "wait" \in {"wait", "gone"}
  BY DEF EventKinds, Verdicts
<1> QED BY <1>1, <1>2, <1>3, <1>4, <1>5, ReportCounts

\* The next attempt goes on from the row, which counts what is in the file.
LEMMA RetryCounts ==
    ASSUME CoordInv, CoordInv', BytesInv, Elsewhere, NEW w \in Workers, Retry(w)
    PROVE  BytesInv'
<1> DEFINE i == asg[w].idx
           row == rows[i]
           from == asg[w].start + row.dl
<1>1. Busy(w) /\ UNCHANGED <<shared, rows, written>>
  BY DEF Retry, Busy, diskVars
<1>2. \/ /\ i \in DOMAIN rows /\ asg[w].start + row.dl > row.end
         /\ Report(w, Event("done", w, i, row.dl), "wait")
      \/ /\ i \in DOMAIN rows
         /\ asg' = [asg EXCEPT ![w].end = row.end, ![w].from = from]
         /\ got' = [got EXCEPT ![w] = 0] /\ Goto(w, "request") /\ UNCHANGED <<chunk, events>>
      \/ /\ got' = [got EXCEPT ![w] = 0] /\ Goto(w, "request") /\ UNCHANGED <<asg, chunk, events>>
  BY DEF Retry, ReportDone
<1>3. asg[w].start \in Int /\ Has(written, asg[w].start, asg[w].from - asg[w].start)
  BY <1>1, BusyWorker, BusyCounts DEF WorkerHas
<1>4. i \in DOMAIN rows =>
        /\ row \in RowRecs /\ row.dl \in Nat /\ row.end \in Int /\ asg[w].start <= row.end
        /\ Has(written, asg[w].start, row.dl)
  BY <1>1, BusyWorker DEF RowRecs, BytesInv, RowsWritten
<1>5. RowsCounted /\ SharedCounted(w)
  BY <1>1 DEF RowsCounted, SharedCounted
<1>6. CASE /\ i \in DOMAIN rows /\ asg[w].start + row.dl > row.end
           /\ Report(w, Event("done", w, i, row.dl), "wait")
  <2>1. row.dl \in Nat /\ row.dl >= 1 /\ Has(written, asg[w].start, row.dl)
    BY <1>3, <1>4, <1>6
  <2>2. "done" \in EventKinds \ Verdicts /\ "wait" \in {"wait", "gone"}
    BY DEF EventKinds, Verdicts
  <2> HIDE DEF row
  <2> QED BY <1>1, <1>5, <1>6, <2>1, <2>2, ReportCounts
<1>7. wpc \in [Workers -> WorkerPCs] /\ got \in [Workers -> Nat] /\ asg \in [Workers -> Assignments]
  BY PartsTyped
<1>8. CASE /\ i \in DOMAIN rows
           /\ asg' = [asg EXCEPT ![w].end = row.end, ![w].from = from]
           /\ got' = [got EXCEPT ![w] = 0] /\ Goto(w, "request") /\ UNCHANGED <<chunk, events>>
  <2>1. from - asg[w].start = row.dl
    BY <1>3, <1>4, <1>8
  <2> HIDE DEF from, row
  <2>2. asg[w] \in Assignments
    BY <1>7
  <2>3. /\ asg'[w].start = asg[w].start /\ asg'[w].from = from
        /\ \A v \in Workers \ {w} : asg'[v] = asg[v]
    BY <1>7, <1>8, <2>2 DEF Assignments
  <2>4. /\ wpc'[w] = "request"
        /\ \A v \in Workers \ {w} : wpc'[v] = wpc[v] /\ got'[v] = got[v] /\ chunk'[v] = chunk[v]
    BY <1>7, <1>8 DEF Goto
  <2>5. WorkerHas(written', wpc'[w], asg'[w], got'[w], chunk'[w].len)
    BY <1>1, <1>4, <1>8, <2>1, <2>3, <2>4 DEF WorkerHas
  <2>6. NewsCounted
    BY <1>8, NoNews
  <2> QED BY <1>1, <1>5, <2>3, <2>4, <2>5, <2>6, WorkerCounts
<1>9. CASE /\ got' = [got EXCEPT ![w] = 0] /\ Goto(w, "request") /\ UNCHANGED <<asg, chunk, events>>
  <2>1. /\ wpc'[w] = "request"
        /\ \A v \in Workers \ {w} : wpc'[v] = wpc[v] /\ got'[v] = got[v] /\ chunk'[v] = chunk[v]
    BY <1>7, <1>9 DEF Goto
  <2>2. WorkerHas(written', wpc'[w], asg'[w], got'[w], chunk'[w].len)
    BY <1>1, <1>3, <1>9, <2>1 DEF WorkerHas
  <2>3. NewsCounted
    BY <1>9, NoNews
  <2> QED BY <1>1, <1>5, <1>9, <2>1, <2>2, <2>3, WorkerCounts
<1> QED BY <1>2, <1>6, <1>8, <1>9

\* A stopped worker saves what it got.
LEMMA CancelledCounts ==
    ASSUME CoordInv, CoordInv', BytesInv, Elsewhere, NEW w \in Workers, Cancelled(w)
    PROVE  BytesInv'
<1>1. /\ Busy(w) /\ UNCHANGED <<events, shared, chunk, written>>
      /\ wpc' = [wpc EXCEPT ![w] = "gone"]
      /\ asg' = [asg EXCEPT ![w] = NoWork] /\ got' = [got EXCEPT ![w] = 0]
      /\ IF wpc[w] = "stream" THEN SaveRow(w, got[w]) ELSE UNCHANGED rows
  BY DEF Cancelled, Busy, sharedVars, Goto
<1>2. RowsCounted
  <2>1. CASE wpc[w] = "stream"
    <3>1. Has(written, asg[w].start, got[w]) /\ got[w] \in Nat
      BY <1>1, <2>1, BusyCounts, BusyWorker DEF WorkerHas
    <3> QED BY <1>1, <2>1, <3>1, SaveCounts
  <2>2. CASE wpc[w] # "stream"
    BY <1>1, <2>2 DEF RowsCounted
  <2> QED BY <2>1, <2>2
<1>3. wpc \in [Workers -> WorkerPCs] /\ got \in [Workers -> Nat] /\ asg \in [Workers -> Assignments]
  BY PartsTyped
<1>4. /\ ~Busy(w)'
      /\ \A v \in Workers \ {w} : /\ wpc'[v] = wpc[v] /\ asg'[v] = asg[v]
                                  /\ got'[v] = got[v] /\ chunk'[v] = chunk[v]
  BY <1>1, <1>3 DEF Busy
<1>5. NewsCounted /\ SharedCounted(w)
  BY <1>1, NoNews DEF SharedCounted
<1> QED BY <1>1, <1>2, <1>4, <1>5, WorkerCounts
\* Whatever a worker does by itself, or meets.
LEMMA WorkersCount ==
    ASSUME CoordInv, CoordInv', BytesInv, NEW w \in Workers,
           WorkerProgress(w) \/ WorkerFault(w), CoordUnchanged
    PROVE  BytesInv'
<1>1. Elsewhere
  <2>1. UNCHANGED <<total, stopped>>
    BY DEF WorkerProgress, WorkerFault, Receive, AlreadyComplete, Rule, Accepted, Read, Write,
           StreamEnds, FinishSegment, Retry, GiveUp, Cancelled, Retire, RequestFails,
           RangeIgnored, Replaced, TrueSizeLarger, StreamBreaks, controlVars
  <2> QED BY <2>1 DEF CoordUnchanged, mapVars, taskVars, Elsewhere
<1>2. CASE WorkerProgress(w)
  <2>1. ASSUME NEW v \in {"supported", "unsupported"}, Rule(w, v)
        PROVE  BytesInv'
    BY <1>1, <2>1, RuleCounts DEF Verdicts
  <2> QED BY <1>1, <1>2, <2>1, ReceiveCounts, AlreadyCompleteCounts, AcceptedCounts, ReadCounts,
             WriteCounts, StreamExitsCount, FinishSegmentCounts, RetryCounts, RequestsCount,
             CancelledCounts DEF WorkerProgress
<1>3. CASE WorkerFault(w)
  BY <1>1, <1>3, RequestsCount, StreamExitsCount DEF WorkerFault
<1> QED BY <1>2, <1>3
-----------------------------------------------------------------------------
(***************************************************************************)
(* The rest of the steps, and the theorems.                                *)
(***************************************************************************)

\* A step that changes at most what the rows count.
LEMMA OnlyRowsCounted ==
    ASSUME CoordInv, BytesInv, RowsCounted,
           UNCHANGED <<segs, nextIdx, shared, wpc, asg, got, chunk, events, job, written>>
    PROVE  BytesInv'
<1>1. RowsWritten'
  BY RowsStayWritten
<1>2. SegsWritten' /\ SharedWritten' /\ JobWritten'
  BY DEF BytesInv, SegsWritten, SharedWritten, JobWritten, Sending
<1>3. WorkersWritten'
  <2>1. \A w \in Workers : Busy(w)' <=> Busy(w)
    BY DEF Busy
  <2> QED BY <2>1 DEF BytesInv, WorkersWritten
<1>4. ReportsWritten'
  BY DEF BytesInv, ReportsWritten, News
<1> QED BY <1>1, <1>2, <1>3, <1>4 DEF BytesInv

\* The coordinator writes the durable watermark of a worker to its row: what the
\* worker has got, the chunk it is about to write not counted.
LEMMA DrainCounts ==
    ASSUME CoordInv, BytesInv, NEW w \in Workers, DrainProgress(w)
    PROVE  BytesInv'
<1> DEFINE i == asg[w].idx
           d == Lesser(Lesser(got[w], Size(segs[i])), RowSize(rows[i]))
<1>1. /\ wpc[w] \in {"stream", "write"} /\ i \in DOMAIN rows /\ i \in DOMAIN segs
      /\ rows[i].start = segs[i].start /\ rows' = [rows EXCEPT ![i].dl = d]
      /\ UNCHANGED <<cpc, segs, nextIdx, job, shared, wpc, asg, got, chunk, events, written>>
  BY DEF DrainProgress, mapVars, taskVars, controlVars, sharedVars, localVars
<1>2. Busy(w)
  BY <1>1 DEF Busy
<1>3. /\ asg[w].start = segs[i].start /\ asg[w].start \in Int /\ got[w] \in Int
      /\ Has(written, asg[w].start, got[w])
  BY <1>1, <1>2, BusyWorker, BusyCounts DEF WorkerHas
<1>4. d \in Int /\ d <= got[w]
  <2>1. Running
    BY <1>1 DEF CoordInv, Types, CoordTypes
  <2>2. segs[i] \in SegRecs
    BY <1>1, <2>1, MapIsSound
  <2>3. rows[i] \in RowRecs
    BY <1>1 DEF CoordInv, Types, RowTypes
  <2>4. Size(segs[i]) \in Int /\ RowSize(rows[i]) \in Int
    BY <2>2, <2>3 DEF Size, RowSize, SegRecs, RowRecs
  <2> QED BY <1>3, <2>4 DEF Lesser
<1> HIDE DEF d
<1>5. Has(written, rows[i].start, d)
  BY <1>1, <1>3, <1>4, HasFewer
<1>6. RowsCounted
  BY <1>1, <1>5 DEF RowsCounted
<1> QED BY <1>1, <1>6, OnlyRowsCounted

\* The coordinator takes a message.
LEMMA HandleEventCounts ==
    ASSUME CoordInv, CoordInv', BytesInv, HandleEvent
    PROVE  BytesInv'
<1> DEFINE e == Head(events)
<1>1. \/ HandleDone(e) \/ HandleLarger(e) \/ HandleNodeFailed(e)
      \/ HandleRejection(e) \/ HandleFatal(e) \/ HandleVerdict(e)
  BY DEF HandleEvent
<1> HIDE DEF e
<1> QED BY <1>1, DoneCounts, LargerCounts, FailuresCount, VerdictCounts

\* Every step keeps the invariant, whoever takes it, but the one of a statement
\* that an earlier run left behind.
LEMMA StepCounts ==
    ASSUME CoordInv, CoordInv', BytesInv, [CoordNext]_vars
    PROVE  BytesInv' \/ LateCommit
<1>1. CASE CoordStep
  BY <1>1, StartCounts, ResumeCounts, PersistCounts, ContinueCounts, HandleEventCounts,
     WorkCounts, TimersCount, JoinCounts DEF CoordStep
<1>2. CASE ProactiveSplit
  BY <1>2, ProactiveSplitCounts
<1>3. CASE \E w \in Workers : (WorkerProgress(w) \/ WorkerFault(w)) /\ CoordUnchanged
  BY <1>3, WorkersCount
<1>4. CASE \E w \in Workers : DrainProgress(w)
  BY <1>4, DrainCounts
<1>5. CASE Pause \/ UNCHANGED vars
  <2>1. /\ UNCHANGED <<segs, nextIdx, shared, wpc, asg, got, chunk, events, job, written>>
        /\ rows' = rows
    BY <1>5 DEF Pause, vars, mapVars, taskVars, controlVars, workerVars, sharedVars, localVars,
                diskVars
  <2> QED BY <2>1, OnlyRowsCounted DEF RowsCounted
<1>6. CASE Restart
  BY <1>6, RestartCounts
<1> QED BY <1>1, <1>2, <1>3, <1>4, <1>5, <1>6 DEF CoordNext, Ended

\* Nobody counts a byte that is not in the file: not the map, not what is shared
\* with the workers, not the rows, not a worker, not a report under way and not
\* the assignment the coordinator is about to send.  A statement that fails does
\* not change that; one of an earlier run that comes late is left out.
THEOREM BytesInvHolds ==
    ASSUME LateStatements = FALSE
    PROVE  CoordSpec => [](CoordInv /\ BytesInv)
<1>1. CoordInit => BytesInv
  BY InitCounts
<1>2. CoordInv /\ CoordInv' /\ late = NoStmt /\ BytesInv /\ [CoordNext]_vars => BytesInv'
  BY StepCounts, StepsAstray
<1> QED BY <1>1, <1>2, CoordInvHolds, PTL DEF CoordSpec

\* Where statements may come late, that holds until one has.
THEOREM BytesInvUnlessAstray == CoordSpec => [](astray \/ (CoordInv /\ BytesInv))
<1>1. CoordInit => CoordInv /\ BytesInv
  BY InitHolds, InitCounts
<1>2. (astray \/ (CoordInv /\ BytesInv)) /\ [CoordNext]_vars
        => (astray \/ (CoordInv /\ BytesInv))'
  BY StepKeeps, StepCounts, StepsAstray
<1> QED BY <1>1, <1>2, PTL DEF CoordSpec

\* A segment the coordinator counts as complete is wholly in the file, although
\* it may have been split, grown or cut while the worker that reports it was
\* writing, and although its bytes may be of several workers and of several runs
\* (handle_segment_done, run_coordinated_download).
THEOREM CompletedMeansWrittenHolds ==
    ASSUME LateStatements = FALSE
    PROVE  CoordSpec => []CompletedMeansWritten
<1>1. BytesInv => CompletedMeansWritten
  BY DEF BytesInv, SegsWritten, MapHas, CompletedMeansWritten, InState
<1> QED BY <1>1, BytesInvHolds, PTL

\* No row claims bytes that are not in the file, whenever the process dies: the
\* saves of the workers, the watermarks, the splits and merges that are stored
\* leave it so, as long as every statement was executed in its turn; nothing is
\* asked of the constants.
THEOREM RowsTrustworthyHolds == CoordSpec => []RowsTrustworthy
<1>1. astray \/ BytesInv => RowsTrustworthy
  BY DEF BytesInv, RowsWritten, Has, RowsTrustworthy
<1> QED BY <1>1, BytesInvUnlessAstray, PTL
-----------------------------------------------------------------------------
(***************************************************************************)
(* The layout of the rows.  The rows follow the map one statement behind:  *)
(* what they hold, with the statement under way, is the map the run will   *)
(* have when the handler has gone on.                                      *)
(***************************************************************************)

\* Segment by segment the bounds are the same.
SameLayout(r, m) ==
    /\ DOMAIN r = DOMAIN m
    /\ \A i \in DOMAIN m : r[i].start = m[i].start /\ r[i].end = m[i].end

\* The map after the handler under way, and the rows after its statement.
Target == IF job.then = "merged" THEN Merge(segs, job.st.par, job.st.del) ELSE segs
Stored == IF cpc = "persist" THEN Commit(rows, job.st) ELSE rows

\* There are no rows, or they divide a file.
RowsCover == rows = <<>> \/ \E t \in Nat \ {0} : IsPartition(rows, t)

\* The inductive invariant.  That the rows divide a file is not inductive by
\* itself: a statement stores one or two rows and relies on the others being
\* those of the map it was computed from.
RowsInv == RowsCover /\ (Running => SameLayout(Stored, Target))

\* A statement that stores segment i and moves the end of segment p.
LEMMA CommitStores ==
    ASSUME NEW r, NEW m, SameLayout(r, m), \A j \in DOMAIN r : r[j] \in RowRecs,
           NEW c, NEW i, \A j : j \in DOMAIN c <=> j \in DOMAIN m \/ j = i, NEW p,
           \A j \in DOMAIN m : j # i => c[j].start = m[j].start /\ (j # p => c[j].end = m[j].end),
           NEW st, st.put = [k \in {i} |-> Row(c[i])], st.del = {}, st.par = p,
           p \in DOMAIN m => st.end = c[p].end
    PROVE  SameLayout(Commit(r, st), c)
<1> DEFINE s == Commit(r, st)
<1>1. DOMAIN s = DOMAIN c
  BY DEF Commit, SameLayout
<1>2. ASSUME NEW j \in DOMAIN c
      PROVE  s[j].start = c[j].start /\ s[j].end = c[j].end
  <2>1. s[j] = IF j = i THEN Row(c[i]) ELSE IF j = p THEN [r[j] EXCEPT !.end = st.end] ELSE r[j]
    BY DEF Commit, SameLayout
  <2>2. CASE j = i
    BY <2>1, <2>2 DEF Row
  <2>3. CASE j # i
    <3>1. j \in DOMAIN m /\ j \in DOMAIN r /\ r[j] \in RowRecs
      BY <2>3 DEF SameLayout
    <3> HIDE DEF s
    <3> QED BY <2>1, <2>3, <3>1 DEF SameLayout, RowRecs
  <2> QED BY <2>2, <2>3
<1> QED BY <1>1, <1>2 DEF SameLayout

\* The row of a new segment, or of one whose bounds did not move.
LEMMA UpsertStores ==
    ASSUME NEW r, NEW m, SameLayout(r, m), \A j \in DOMAIN r : r[j] \in RowRecs,
           NoSeg \notin DOMAIN m,
           NEW c, NEW i, \A j : j \in DOMAIN c <=> j \in DOMAIN m \/ j = i,
           \A j \in DOMAIN m : j # i => c[j].start = m[j].start /\ c[j].end = m[j].end
    PROVE  SameLayout(Commit(r, Upsert(c, i)), c)
<1> DEFINE st == Upsert(c, i)
<1>1. st.put = [k \in {i} |-> Row(c[i])] /\ st.del = {} /\ st.par = NoSeg
  BY DEF Upsert
<1> HIDE DEF st
<1>2. SameLayout(Commit(r, st), c)
  BY <1>1, CommitStores
<1> QED BY <1>2 DEF st

\* The rows of a segment and of the one it was cut from.
LEMMA SplitStores ==
    ASSUME NEW r, NEW m, SameLayout(r, m), \A j \in DOMAIN r : r[j] \in RowRecs,
           NEW c, NEW i, \A j : j \in DOMAIN c <=> j \in DOMAIN m \/ j = i, NEW p,
           \A j \in DOMAIN m : j # i => c[j].start = m[j].start /\ (j # p => c[j].end = m[j].end)
    PROVE  SameLayout(Commit(r, PersistSplit(c, i, p)), c)
<1> DEFINE st == PersistSplit(c, i, p)
<1>1. st.put = [k \in {i} |-> Row(c[i])] /\ st.del = {} /\ st.par = p /\ st.end = c[p].end
  BY DEF PersistSplit
<1> HIDE DEF st
<1>2. SameLayout(Commit(r, st), c)
  BY <1>1, CommitStores
<1> QED BY <1>2 DEF st

\* The rows of a merge.
LEMMA MergeStores ==
    ASSUME NEW r, NEW m, SameLayout(r, m), \A j \in DOMAIN r : r[j] \in RowRecs,
           \A j \in DOMAIN m : m[j] \in SegRecs,
           NEW open, NEW A, NEW st, st = PersistMerge(open, MergedEnd(m, A), A)
    PROVE  SameLayout(Commit(r, st), Merge(m, open, A))
<1> DEFINE e == MergedEnd(m, A)
           s == Commit(r, st)
           c == Merge(m, open, A)
<1>1. DOMAIN st.put = {} /\ st.del = A /\ st.par = open /\ st.end = e
  BY DEF PersistMerge
<1> HIDE DEF e
<1>2. DOMAIN s = DOMAIN r \ A /\ DOMAIN c = DOMAIN m \ A /\ DOMAIN r = DOMAIN m
  BY <1>1 DEF Commit, Merge, SameLayout
<1>3. ASSUME NEW j \in DOMAIN m \ A
      PROVE  s[j].start = c[j].start /\ s[j].end = c[j].end
  <2>1. s[j] = IF j = open THEN [r[j] EXCEPT !.end = e] ELSE r[j]
    BY <1>1, <1>2 DEF Commit
  <2>2. c[j] = IF j = open THEN [m[j] EXCEPT !.end = e] ELSE m[j]
    BY DEF Merge, e
  <2>3. r[j] \in RowRecs /\ m[j] \in SegRecs /\ r[j].start = m[j].start /\ r[j].end = m[j].end
    BY <1>2 DEF SameLayout
  <2> HIDE DEF s, c
  <2> QED BY <2>1, <2>2, <2>3 DEF RowRecs, SegRecs
<1> QED BY <1>2, <1>3 DEF SameLayout

\* Where a cut moves the bounds.
LEMMA CutBounds ==
    ASSUME NEW n, NEW m, MapBelow(m, n), NEW p, NEW at, NEW st, NEW c, c = Cut(m, p, at, n, st)
    PROVE  /\ \A j : j \in DOMAIN c <=> j \in DOMAIN m \/ j = n
           /\ \A j \in DOMAIN m : j # n => c[j].start = m[j].start /\ (j # p => c[j].end = m[j].end)
<1>1. \A j : j \in DOMAIN c <=> j \in DOMAIN m \/ j = n
  BY DEF Cut
<1>2. ASSUME NEW j \in DOMAIN m, j # n
      PROVE  c[j].start = m[j].start /\ (j # p => c[j].end = m[j].end)
  <2>1. c[j] = IF j = p THEN [m[j] EXCEPT !.end = at - 1] ELSE m[j]
    BY <1>2 DEF Cut
  <2>2. m[j] \in SegRecs
    BY DEF MapBelow
  <2> QED BY <2>1, <2>2 DEF SegRecs
<1> QED BY <1>1, <1>2

\* The rows of the work that is handed out.
LEMMA WorkStores ==
    ASSUME NEW r, NEW m, SameLayout(r, m), \A j \in DOMAIN r : r[j] \in RowRecs,
           NEW t \in Nat, Sound(m, nextIdx, t), NEW split \in BOOLEAN, Found(m, split),
           NEW f, f = NextWork(m, split)
    PROVE  SameLayout(Commit(r, WorkStmt(f)), f.m)
<1>1. /\ MapBelow(m, nextIdx) /\ IsPartition(m, t) /\ t \in Int
      /\ NoSeg \notin DOMAIN m /\ \A j \in DOMAIN m : j \in Nat
  BY DEF Sound, MapBelow, NoSeg
<1>2. CASE InState(m, "Pending") # {}
  <2> DEFINE i == Least(InState(m, "Pending"))
             c == SetState(m, i, "Active")
  <2>1. f = [m |-> c, i |-> i, par |-> NoSeg]
    BY <1>2 DEF NextWork
  <2>2. i \in DOMAIN m
    <3>1. InState(m, "Pending") \in SUBSET Nat
      BY <1>1 DEF InState
    <3>2. i \in InState(m, "Pending")
      BY <1>2, <3>1, LeastIsMin
    <3> QED BY <3>2 DEF InState
  <2> HIDE DEF i
  <2>3. /\ \A j : j \in DOMAIN c <=> j \in DOMAIN m \/ j = i
        /\ \A j \in DOMAIN m : j # i => c[j] = m[j]
    BY <2>2 DEF SetState
  <2> HIDE DEF c
  <2>4. SameLayout(Commit(r, Upsert(c, i)), c)
    BY <1>1, <2>3, UpsertStores
  <2>5. WorkStmt(f) = Upsert(c, i) /\ f.m = c
    BY <2>1 DEF WorkStmt
  <2> QED BY <2>4, <2>5
<1>3. CASE InState(m, "Pending") = {}
  <2> DEFINE c == Split(m, nextIdx, "Active")
             p == LargestActive(m)
  <2>1. f = [m |-> c, i |-> nextIdx, par |-> p]
    BY <1>3 DEF NextWork
  <2>2. p # NoSeg
    <3>1. CanSplit(m)
      BY <1>3 DEF Found
    <3>2. InState(m, "Active") # {}
      BY <3>1 DEF CanSplit
    <3>3. p \in InState(m, "Active")
      BY <1>1, <3>2, LargestActiveIsLargest
    <3> QED BY <1>1, <3>3 DEF InState
  <2>3. c = Cut(m, p, SplitPoint(m[p]), nextIdx, "Active")
    BY DEF Split
  <2> HIDE DEF p, c
  <2>4. /\ \A j : j \in DOMAIN c <=> j \in DOMAIN m \/ j = nextIdx
        /\ \A j \in DOMAIN m : j # nextIdx =>
             c[j].start = m[j].start /\ (j # p => c[j].end = m[j].end)
    <3> DEFINE at == SplitPoint(m[p])
    <3>1. c = Cut(m, p, at, nextIdx, "Active") /\ MapBelow(m, nextIdx)
      BY <1>1, <2>3
    <3> HIDE DEF at
    <3> QED BY <3>1, CutBounds
  <2>5. SameLayout(Commit(r, PersistSplit(c, nextIdx, p)), c)
    BY <2>4, SplitStores
  <2>6. WorkStmt(f) = PersistSplit(c, nextIdx, p) /\ f.m = c
    BY <2>1, <2>2 DEF WorkStmt
  <2> QED BY <2>5, <2>6
<1> QED BY <1>2, <1>3

\* What has the layout of a partition is one.
LEMMA CoverFollows ==
    ASSUME NEW t, NEW r, NEW m, IsPartition(m, t), SameLayout(r, m)
    PROVE  IsPartition(r, t)
<1>1. \A i \in DOMAIN m : Bytes(r[i]) = Bytes(m[i])
  BY DEF SameLayout, Bytes
<1> QED BY <1>1, BoundsDecide DEF SameLayout

\* Between handlers the rows have the layout of the map.
LEMMA RowsStandStill ==
    ASSUME CoordInv, RowsInv, Running, cpc \notin {"persist", "resume"}
    PROVE  /\ SameLayout(rows, segs) /\ job.then = "loop"
           /\ \A j \in DOMAIN rows : rows[j] \in RowRecs
           /\ Sound(segs, nextIdx, total) /\ MapBelow(segs, nextIdx) /\ total \in Nat
           /\ NoSeg \notin DOMAIN segs /\ \A i \in DOMAIN segs : segs[i] \in SegRecs
<1>1. job.then = "loop"
  BY DEF CoordInv, Types, CoordTypes
<1>2. SameLayout(rows, segs)
  BY <1>1 DEF RowsInv, Stored, Target
<1>3. \A j \in DOMAIN rows : rows[j] \in RowRecs
  BY DEF CoordInv, Types, RowTypes
<1> QED BY <1>1, <1>2, <1>3, MapIsSound DEF Sound

\* A handler that moves no bound has nothing to record about the layout.
LEMMA NothingRecorded ==
    ASSUME CoordInv, RowsInv, Running, cpc \notin {"persist", "resume"},
           rows' = rows, SameLayout(segs', segs), cpc' # "persist", job'.then = "loop"
    PROVE  RowsInv'
<1>1. SameLayout(rows, segs)
  BY RowsStandStill
<1>2. SameLayout(Stored', Target')
  BY <1>1 DEF Stored, Target, SameLayout
<1> QED BY <1>2 DEF RowsInv, RowsCover

\* A handler that moves bounds records them.
LEMMA ChangeRecorded ==
    ASSUME RowsInv, rows' = rows, cpc' = "persist", job'.then # "merged",
           SameLayout(Commit(rows, job'.st), segs')
    PROVE  RowsInv'
BY DEF RowsInv, RowsCover, Stored, Target

\* Nothing but a cut, a growth or a merge moves a bound.
LEMMA LayoutStays ==
    ASSUME NEW m, \A i \in DOMAIN m : m[i] \in SegRecs
    PROVE  /\ SameLayout(m, m)
           /\ \A i, st : SameLayout(SetState(m, i, st), m)
           /\ \A i, d : SameLayout(Finish(m, i, d), m)
           /\ SameLayout(Synced(m), m)
<1>1. ASSUME NEW i, NEW st
      PROVE  SameLayout(SetState(m, i, st), m)
  BY DEF SetState, SegRecs, SameLayout
<1>2. ASSUME NEW i, NEW d
      PROVE  SameLayout(Finish(m, i, d), m)
  <2> DEFINE k == Lesser(d, Size(m[i]))
  <2>1. Finish(m, i, d) = [m EXCEPT ![i].dl = k, ![i].st = "Completed"]
    BY DEF Finish
  <2> HIDE DEF k
  <2> QED BY <2>1 DEF SegRecs, SameLayout
<1>3. SameLayout(Synced(m), m)
  BY DEF Synced, SegRecs, SameLayout
<1> QED BY <1>1, <1>2, <1>3 DEF SameLayout

\* A segment is done, in full or short of a boundary that moved.
LEMMA DoneRecorded ==
    ASSUME CoordInv, RowsInv, NEW e, HandleDone(e)
    PROVE  RowsInv'
<1>1. Running /\ cpc \notin {"persist", "resume"} /\ rows' = rows
  BY DEF HandleDone, Handling, Looping, Running, diskVars
<1>2. /\ SameLayout(rows, segs) /\ \A j \in DOMAIN rows : rows[j] \in RowRecs
      /\ MapBelow(segs, nextIdx) /\ \A i \in DOMAIN segs : segs[i] \in SegRecs
  BY <1>1, RowsStandStill
<1>3. CASE 0 < e.n /\ e.n < Size(segs[e.idx])
  <2> DEFINE q == [segs EXCEPT ![e.idx].dl = e.n, ![e.idx].st = "Completed"]
  <2>1. /\ segs' = Cut(q, e.idx, segs[e.idx].start + e.n, nextIdx, "Pending")
        /\ job'.st = PersistSplit(segs', nextIdx, e.idx) /\ job'.then = "short"
        /\ cpc' = "persist"
    BY <1>3 DEF HandleDone, Shortfall, Job
  <2>2. SameLayout(q, segs)
    BY <1>2 DEF SegRecs, SameLayout
  <2>3. MapBelow(q, nextIdx)
    <3>1. e.idx \in DOMAIN segs /\ e.n \in Nat
      <4>1. e = Head(events) /\ Handling({"done"})
        BY DEF HandleDone
      <4>2. {"done"} \cap Verdicts = {}
        BY DEF Verdicts
      <4> QED BY <4>1, <4>2, ReportAtHead
    <3>2. \A i \in DOMAIN segs : q[i] \in SegRecs
      BY <1>2, <3>1 DEF SegRecs, States
    <3> QED BY <1>2, <3>2 DEF MapBelow
  <2> HIDE DEF q
  <2>4. /\ \A j : j \in DOMAIN segs' <=> j \in DOMAIN q \/ j = nextIdx
        /\ \A j \in DOMAIN q : j # nextIdx =>
             segs'[j].start = q[j].start /\ (j # e.idx => segs'[j].end = q[j].end)
    <3>1. \A at, st, k : k = Cut(q, e.idx, at, nextIdx, st) =>
            /\ \A j : j \in DOMAIN k <=> j \in DOMAIN q \/ j = nextIdx
            /\ \A j \in DOMAIN q : j # nextIdx =>
                 k[j].start = q[j].start /\ (j # e.idx => k[j].end = q[j].end)
      BY <2>3, CutBounds
    <3> QED BY <2>1, <3>1
  <2>5. SameLayout(rows, q)
    BY <1>2, <2>2 DEF SameLayout
  <2>6. SameLayout(Commit(rows, job'.st), segs')
    <3>1. \A c, i, p :
            /\ \A j : j \in DOMAIN c <=> j \in DOMAIN q \/ j = i
            /\ \A j \in DOMAIN q : j # i =>
                 c[j].start = q[j].start /\ (j # p => c[j].end = q[j].end)
            => SameLayout(Commit(rows, PersistSplit(c, i, p)), c)
      BY <1>2, <2>5, SplitStores
    <3> QED BY <2>1, <2>4, <3>1
  <2> QED BY <1>1, <2>1, <2>6, ChangeRecorded
<1>4. CASE ~(0 < e.n /\ e.n < Size(segs[e.idx]))
  <2>1. segs' = Finish(segs, e.idx, e.n) /\ job'.then = "loop" /\ cpc' = "dispatch"
    BY <1>4 DEF HandleDone, NoJob
  <2>2. SameLayout(segs', segs)
    BY <1>2, <2>1, LayoutStays
  <2> QED BY <1>1, <2>1, <2>2, NothingRecorded
<1> QED BY <1>3, <1>4

\* The file is larger than planned.
LEMMA LargerRecorded ==
    ASSUME CoordInv, RowsInv, NEW e, HandleLarger(e)
    PROVE  RowsInv'
<1>1. Running /\ cpc \notin {"persist", "resume"} /\ rows' = rows
  BY DEF HandleLarger, Handling, Looping, Running, diskVars
<1>2. /\ SameLayout(rows, segs) /\ \A j \in DOMAIN rows : rows[j] \in RowRecs
      /\ NoSeg \notin DOMAIN segs /\ \A i \in DOMAIN segs : segs[i] \in SegRecs
      /\ MapBelow(segs, nextIdx)
  BY <1>1, RowsStandStill
<1>3. CASE /\ segs' = SetState(segs, e.idx, "Pending") /\ job'.then = "loop"
           /\ cpc' \in {"join", "redispatch"}
  <2>1. SameLayout(segs', segs)
    BY <1>2, <1>3, LayoutStays
  <2> QED BY <1>1, <1>3, <2>1, NothingRecorded
<1>4. CASE /\ segs' = SetState(Grow(segs, nextIdx, total, e.n), e.idx, "Pending")
           /\ job'.st = Upsert(segs', nextIdx) /\ job'.then = "grown" /\ cpc' = "persist"
  <2> DEFINE g == Grow(segs, nextIdx, total, e.n)
  <2>1. /\ \A j : j \in DOMAIN segs' <=> j \in DOMAIN segs \/ j = nextIdx
        /\ \A j \in DOMAIN segs : j # nextIdx => g[j] = segs[j]
    BY <1>4 DEF SetState, Grow
  <2>2. segs' = [g EXCEPT ![e.idx].st = "Pending"]
    BY <1>4 DEF SetState
  <2>3. \A j \in DOMAIN segs : j \in DOMAIN g
    BY DEF Grow
  <2> HIDE DEF g
  <2>4. \A j \in DOMAIN segs : j # nextIdx =>
          segs'[j].start = segs[j].start /\ segs'[j].end = segs[j].end
    BY <1>2, <2>1, <2>2, <2>3 DEF SegRecs
  <2>5. SameLayout(Commit(rows, job'.st), segs')
    <3>1. \A c, i :
            /\ \A j : j \in DOMAIN c <=> j \in DOMAIN segs \/ j = i
            /\ \A j \in DOMAIN segs : j # i =>
                 c[j].start = segs[j].start /\ c[j].end = segs[j].end
            => SameLayout(Commit(rows, Upsert(c, i)), c)
      BY <1>2, UpsertStores
    <3> QED BY <1>4, <2>1, <2>4, <3>1
  <2> QED BY <1>1, <1>4, <2>5, ChangeRecorded
<1> QED BY <1>3, <1>4 DEF HandleLarger, EndLoop, Job, NoJob

\* Segments that are merged into the open stream are merged in the rows as well.
LEMMA MergeRecorded ==
    ASSUME CoordInv, RowsInv, Running, cpc \notin {"persist", "resume"}, rows' = rows,
           SameLayout(segs', segs), \A i \in DOMAIN segs' : segs'[i] \in SegRecs,
           Absorb(segs', openSeg')
    PROVE  RowsInv'
<1> DEFINE A == ToAbsorb(segs', openSeg')
           st == PersistMerge(openSeg', MergedEnd(segs', A), A)
<1>1. job'.st = st /\ job'.then = "merged" /\ cpc' = "persist"
  BY DEF Absorb, Job
<1>2. SameLayout(rows, segs') /\ \A j \in DOMAIN rows : rows[j] \in RowRecs
  BY RowsStandStill DEF SameLayout
<1>3. SameLayout(Commit(rows, st), Merge(segs', openSeg', A))
  <2>1. \A c, o, B :
          SameLayout(rows, c) /\ (\A i \in DOMAIN c : c[i] \in SegRecs) =>
          SameLayout(Commit(rows, PersistMerge(o, MergedEnd(c, B), B)), Merge(c, o, B))
    BY <1>2, MergeStores
  <2> QED BY <1>2, <2>1
<1>4. st.par = openSeg' /\ st.del = A
  BY DEF PersistMerge
<1> HIDE DEF st, A
<1> QED BY <1>1, <1>3, <1>4 DEF RowsInv, RowsCover, Stored, Target

\* Failures send the segment back, and may merge what follows the open stream.
LEMMA FailuresRecorded ==
    ASSUME CoordInv, RowsInv, NEW e,
           HandleNodeFailed(e) \/ HandleRejection(e) \/ HandleFatal(e)
    PROVE  RowsInv'
<1>1. /\ Running /\ cpc \notin {"persist", "resume"} /\ rows' = rows
      /\ segs' = SetState(segs, e.idx, "Pending")
  BY DEF HandleNodeFailed, HandleRejection, HandleFatal, Handling, Looping, Running, diskVars
<1>2. (\A i \in DOMAIN segs : segs[i] \in SegRecs) /\ job.then = "loop"
  BY <1>1, RowsStandStill
<1>3. SameLayout(segs', segs)
  BY <1>1, <1>2, LayoutStays
<1>4. CASE cpc' # "persist" /\ job'.then = "loop"
  BY <1>1, <1>3, <1>4, NothingRecorded
<1>5. CASE Absorb(segs', openSeg')
  <2>1. \A i \in DOMAIN segs' : segs'[i] \in SegRecs
    BY <1>1, <1>2 DEF SetState, SegRecs, States
  <2> QED BY <1>1, <1>3, <1>5, <2>1, MergeRecorded
<1> QED BY <1>2, <1>4, <1>5 DEF HandleNodeFailed, HandleRejection, HandleFatal, EndLoop, NoJob

\* A verdict against Range merges as well.
LEMMA VerdictRecorded ==
    ASSUME CoordInv, RowsInv, NEW e, HandleVerdict(e)
    PROVE  RowsInv'
<1>1. /\ Running /\ cpc = "loop" /\ rows' = rows /\ segs' = segs /\ openSeg' = openSeg
  BY DEF HandleVerdict, Handling, Looping, Running, diskVars, mapVars
<1>2. (\A i \in DOMAIN segs : segs[i] \in SegRecs) /\ job.then = "loop"
  BY <1>1, RowsStandStill
<1>3. SameLayout(segs', segs)
  BY <1>1 DEF SameLayout
<1>4. CASE UNCHANGED <<job, cpc>>
  BY <1>1, <1>2, <1>3, <1>4, NothingRecorded
<1>5. CASE Absorb(segs, openSeg)
  <2>1. Absorb(segs', openSeg')
    BY <1>1, <1>5 DEF Absorb
  <2> QED BY <1>1, <1>2, <1>3, <2>1, MergeRecorded
<1> QED BY <1>4, <1>5 DEF HandleVerdict

\* Work handed out is recorded with the cut it may take.
LEMMA HandOutRecorded ==
    ASSUME CoordInv, RowsInv, cpc \in {"dispatch", "redispatch", "refill"}, rows' = rows,
           NEW m, m = segs \/ m = Synced(segs),
           NEW split \in BOOLEAN, Found(m, split), NEW w, NEW then, NEW z,
           then \in {"send", "spawn"},
           HandOut(NextWork(m, split), w, then, z)
    PROVE  RowsInv'
<1>1. Running /\ cpc \notin {"persist", "resume"}
  BY DEF Running
<1>2. /\ SameLayout(rows, segs) /\ \A j \in DOMAIN rows : rows[j] \in RowRecs
      /\ Sound(segs, nextIdx, total) /\ total \in Nat
      /\ \A i \in DOMAIN segs : segs[i] \in SegRecs
  BY <1>1, RowsStandStill
<1>3. SameLayout(rows, m) /\ Sound(m, nextIdx, total)
  <2>1. SameLayout(m, segs)
    BY <1>2, LayoutStays
  <2>2. Sound(m, nextIdx, total)
    BY <1>1, <1>2, SyncedMap
  <2> QED BY <1>2, <2>1, <2>2 DEF SameLayout
<1>4. PICK f : f = NextWork(m, split)
  OBVIOUS
<1>5. SameLayout(Commit(rows, WorkStmt(f)), f.m)
  BY <1>2, <1>3, <1>4, WorkStores
<1>6. segs' = f.m /\ job'.st = WorkStmt(f) /\ job'.then = then /\ cpc' = "persist"
  BY <1>4 DEF HandOut, Job
<1> QED BY <1>5, <1>6, ChangeRecorded

\* Dispatch, Redispatch and Refill give work out or do not.
LEMMA WorkRecorded ==
    ASSUME CoordInv, RowsInv, Dispatch \/ Redispatch \/ Refill
    PROVE  RowsInv'
<1>1. /\ cpc \in {"dispatch", "redispatch", "refill"} /\ rows' = rows /\ Running
  BY DEF Dispatch, Redispatch, Refill, workerVars, diskVars, Running
<1>2. (\A i \in DOMAIN segs : segs[i] \in SegRecs) /\ job.then = "loop"
  BY <1>1, RowsStandStill
<1>3. \/ \E m, w, then, z : \E split \in BOOLEAN :
            /\ m = segs \/ m = Synced(segs)
            /\ then \in {"send", "spawn"}
            /\ Found(m, split) /\ HandOut(NextWork(m, split), w, then, z)
      \/ /\ segs' = segs \/ segs' = Synced(segs)
         /\ cpc' # "persist" /\ (job' = NoJob \/ job' = job)
  <2>1. CASE Dispatch
    <3>1. \/ \E split \in BOOLEAN :
                Found(Synced(segs), split) /\ HandOut(NextWork(Synced(segs), split), job.w, "send", FALSE)
          \/ segs' = Synced(segs) /\ cpc' # "persist" /\ job' = NoJob
      BY <2>1 DEF Dispatch
    <3> QED BY <3>1
  <2>2. CASE Redispatch
    <3>1. \/ \E split \in BOOLEAN :
                Found(segs, split) /\ HandOut(NextWork(segs, split), job.w, "send", verdict # "supported")
          \/ segs' = segs /\ cpc' # "persist" /\ job' = NoJob
      BY <2>2 DEF Redispatch, Found
    <3> QED BY <3>1
  <2>3. CASE Refill
    <3>1. \/ \E split \in BOOLEAN :
                /\ Found(Synced(segs), split)
                /\ HandOut(NextWork(Synced(segs), split), Least(Spare), "spawn", FALSE)
          \/ (segs' = segs \/ segs' = Synced(segs)) /\ cpc' # "persist" /\ job' = job
      BY <2>3 DEF Refill
    <3> QED BY <3>1
  <2> QED BY <2>1, <2>2, <2>3
<1>4. ASSUME NEW m, NEW w, NEW then, NEW z, NEW split \in BOOLEAN,
             m = segs \/ m = Synced(segs), then \in {"send", "spawn"},
             Found(m, split), HandOut(NextWork(m, split), w, then, z)
      PROVE  RowsInv'
  BY <1>1, <1>4, HandOutRecorded
<1>5. CASE /\ segs' = segs \/ segs' = Synced(segs)
           /\ cpc' # "persist" /\ (job' = NoJob \/ job' = job)
  <2>1. SameLayout(segs', segs)
    BY <1>2, <1>5, LayoutStays
  <2>2. job'.then = "loop"
    BY <1>2, <1>5 DEF NoJob
  <2> QED BY <1>1, <1>5, <2>1, <2>2, NothingRecorded
<1> QED BY <1>3, <1>4, <1>5

\* The proactive split records both halves.
LEMMA ProactiveSplitRecorded ==
    ASSUME CoordInv, RowsInv, ProactiveSplit
    PROVE  RowsInv'
<1> DEFINE m == Synced(segs)
           p == LargestActive(m)
<1>1. Running /\ cpc = "loop" /\ rows' = rows
  BY DEF ProactiveSplit, Quiet, Looping, Running, workerVars, diskVars
<1>2. /\ SameLayout(rows, segs) /\ (\A j \in DOMAIN rows : rows[j] \in RowRecs)
      /\ job.then = "loop" /\ \A i \in DOMAIN segs : segs[i] \in SegRecs
  BY <1>1, RowsStandStill
<1>3. SameLayout(m, segs) /\ MapBelow(m, nextIdx)
  <2>1. Sound(m, nextIdx, total)
    BY <1>1, SyncedMap
  <2> QED BY <1>2, <2>1, LayoutStays DEF Sound
<1>4. CASE segs' = m /\ UNCHANGED <<nextIdx, job, cpc>>
  BY <1>1, <1>2, <1>3, <1>4, NothingRecorded
<1>5. CASE /\ segs' = Split(m, nextIdx, "Pending") /\ cpc' = "persist"
           /\ job' = Job(PersistSplit(segs', nextIdx, p), "loop", 0, NoWork)
  <2>1. /\ segs' = Cut(m, p, SplitPoint(m[p]), nextIdx, "Pending") /\ cpc' = "persist"
        /\ job'.st = PersistSplit(segs', nextIdx, p) /\ job'.then = "loop"
    BY <1>5 DEF Split, Job
  <2> HIDE DEF m, p
  <2>2. /\ \A j : j \in DOMAIN segs' <=> j \in DOMAIN m \/ j = nextIdx
        /\ \A j \in DOMAIN m : j # nextIdx =>
             segs'[j].start = m[j].start /\ (j # p => segs'[j].end = m[j].end)
    <3>1. \A at, st, k : k = Cut(m, p, at, nextIdx, st) =>
            /\ \A j : j \in DOMAIN k <=> j \in DOMAIN m \/ j = nextIdx
            /\ \A j \in DOMAIN m : j # nextIdx =>
                 k[j].start = m[j].start /\ (j # p => k[j].end = m[j].end)
      BY <1>3, CutBounds
    <3> QED BY <2>1, <3>1
  <2>3. SameLayout(rows, m)
    BY <1>2, <1>3 DEF SameLayout
  <2>4. SameLayout(Commit(rows, job'.st), segs')
    <3>1. \A c, i, q :
            /\ \A j : j \in DOMAIN c <=> j \in DOMAIN m \/ j = i
            /\ \A j \in DOMAIN m : j # i =>
                 c[j].start = m[j].start /\ (j # q => c[j].end = m[j].end)
            => SameLayout(Commit(rows, PersistSplit(c, i, q)), c)
      BY <1>2, <2>3, SplitStores
    <3> QED BY <2>1, <2>2, <3>1
  <2> QED BY <1>1, <2>1, <2>4, ChangeRecorded
<1> QED BY <1>4, <1>5 DEF ProactiveSplit

\* The ramp timer and the two ends of a pause record nothing.
LEMMA TimersRecorded ==
    ASSUME CoordInv, RowsInv, RampPoll \/ RampTick \/ HandlePause
    PROVE  RowsInv'
<1>1. /\ cpc \in {"loop", "ramp"} /\ cpc' # "persist" /\ rows' = rows /\ segs' = segs
      /\ job' = job \/ job' = NoJob
  BY DEF RampPoll, RampTick, HandlePause, Quiet, Looping, EndLoop, mapVars, workerVars, diskVars
<1>2. Running
  BY <1>1 DEF Running
<1>3. job'.then = "loop" /\ SameLayout(segs', segs)
  BY <1>1, <1>2, RowsStandStill DEF NoJob, SameLayout
<1> QED BY <1>1, <1>2, <1>3, NothingRecorded

\* The statement is executed, and the rows are those of the map to come.
LEMMA PersistRecorded ==
    ASSUME CoordInv, RowsInv, Persist
    PROVE  RowsInv' \/ astray'
<1>1. cpc = "persist" /\ Running /\ segs' = segs
  BY DEF Persist, Running, mapVars
<1>2. CASE rows' = Commit(rows, job.st) /\ cpc' = "resume" /\ job' = job
  <2>1. SameLayout(rows', Target)
    BY <1>1, <1>2 DEF RowsInv, Stored
  <2>2. total \in Nat \ {0} /\ total \in Nat /\ Sound(segs, nextIdx, total)
    BY <1>1, MapIsSound
  <2>3. IsPartition(Target, total)
    <3>1. CASE job.then = "merged"
      <4>1. /\ job.st.par \in InState(segs, "Active")
            /\ job.st.del = Absorbable(segs, job.st.par) /\ job.st.del # {}
        BY <1>1, <3>1 DEF CoordInv, JobSound
      <4>2. \A c, n, t, o :
              Sound(c, n, t) /\ t \in Nat /\ o \in InState(c, "Active") /\ Absorbable(c, o) # {} =>
              Sound(Merge(c, o, Absorbable(c, o)), n, t)
        BY MergeKeeps
      <4>3. Sound(Merge(segs, job.st.par, job.st.del), nextIdx, total)
        BY <2>2, <4>1, <4>2
      <4> QED BY <3>1, <4>3 DEF Sound, Target
    <3>2. CASE job.then # "merged"
      BY <2>2, <3>2 DEF Sound, Target
    <3> QED BY <3>1, <3>2
  <2>4. IsPartition(rows', total)
    BY <2>1, <2>3, CoverFollows
  <2>5. Target' = Target /\ Stored' = rows'
    BY <1>1, <1>2 DEF Target, Stored
  <2> QED BY <2>1, <2>2, <2>4, <2>5 DEF RowsInv, RowsCover
<1> QED BY <1>2 DEF Persist

\* The handler goes on, and the map is the one the rows already have.
LEMMA ContinueRecorded ==
    ASSUME CoordInv, RowsInv, Continue
    PROVE  RowsInv'
<1>1. cpc = "resume" /\ Running /\ rows' = rows
  BY DEF Continue, Running, diskVars
<1>2. segs' = Target /\ cpc' # "persist" /\ job'.then = "loop"
  BY DEF Continue, Target, NoJob
<1>3. SameLayout(rows, Target)
  BY <1>1 DEF RowsInv, Stored
<1>4. Stored' = rows /\ Target' = Target
  BY <1>1, <1>2 DEF Stored, Target
<1> QED BY <1>1, <1>3, <1>4 DEF RowsInv, RowsCover

\* A run starts with the rows of its map.
LEMMA LaunchRecorded ==
    ASSUME NEW t \in Nat \ {0}, NEW n, NEW m, Sound(m, n, t), NEW next, Launch(m, t, next),
           job'.then = "loop",
           rows' = [i \in DOMAIN m |-> Row(m[i])]
    PROVE  RowsInv'
<1>1. cpc' # "persist" /\ SameLayout(segs', m)
  <2>1. \A i \in DOMAIN m : m[i] \in SegRecs
    BY DEF Sound, MapBelow
  <2> QED BY <2>1 DEF Launch, SegRecs, SameLayout
<1>2. SameLayout(rows', m)
  BY DEF Row, SameLayout
<1>3. IsPartition(rows', t)
  BY <1>2, CoverFollows DEF Sound
<1>4. Stored' = rows' /\ Target' = segs'
  BY <1>1 DEF Stored, Target
<1> QED BY <1>1, <1>2, <1>3, <1>4 DEF RowsInv, RowsCover, SameLayout

\* A first start, and a start over.
LEMMA StartRecorded ==
    ASSUME CoordInv, StartFresh \/ Rebuild
    PROVE  RowsInv'
<1>1. PICK n \in Nat \ {0}, count \in Nat \ {0} :
        /\ count <= n /\ Launch(Fresh(count, n), n, count)
        /\ rows' = [i \in 0 .. count - 1 |-> Row(Fresh(count, n)[i])]
  <2>1. CASE StartFresh
    <3>1. PICK n \in 1 .. MaxTotal :
            LET count == IF estimate THEN 1 ELSE Lesser(Plan, n)
            IN  /\ rows' = [i \in 0 .. count - 1 |-> Row(Fresh(count, n)[i])]
                /\ Launch(Fresh(count, n), n, count)
      BY <2>1 DEF StartFresh
    <3> DEFINE count == IF estimate THEN 1 ELSE Lesser(Plan, n)
    <3>2. n \in Nat \ {0} /\ count \in Nat \ {0} /\ count <= n
      BY WorkersAssumption, CoordinatorAssumption DEF Lesser
    <3> QED BY <3>1, <3>2
  <2>2. CASE Rebuild
    <3> DEFINE count == Lesser(Plan, total)
    <3>1. total \in Nat \ {0} /\ count \in Nat \ {0} /\ count <= total
      BY CoordinatorAssumption DEF CoordInv, Types, CoordTypes, Lesser
    <3> QED BY <2>2, <3>1 DEF Rebuild
  <2> QED BY <2>1, <2>2
<1> DEFINE m == Fresh(count, n)
<1>2. Sound(m, count, n) /\ DOMAIN m = 0 .. count - 1
  <2>1. \A c : c = Fresh(count, n) => Sound(c, count, n) /\ DOMAIN c = 0 .. count - 1
    <3>1. n \in Nat
      OBVIOUS
    <3> QED BY <1>1, <3>1, FreshIsSound
  <2> QED BY <2>1
<1>3. Launch(m, n, count) /\ rows' = [i \in DOMAIN m |-> Row(m[i])]
  BY <1>1, <1>2
<1> HIDE DEF m
<1>4. job'.then = "loop"
  <2>1. ~Running /\ job' = job
    BY DEF StartFresh, Rebuild, UnchangedByLaunch, Running
  <2> QED BY <2>1, NobodyYet
<1> QED BY <1>2, <1>3, <1>4, LaunchRecorded

\* A resume keeps the layout of the rows it trusts, and deletes the others.
LEMMA ResumeRecorded ==
    ASSUME CoordInv, Resume
    PROVE  RowsInv'
<1> DEFINE S == {rows[i].end : i \in DOMAIN rows}
           covered == Greatest(S) + 1
           m == Checked(Loaded, covered)
           next == Greatest(DOMAIN m) + 1
<1>1. \/ /\ ValidateCoverage(Loaded, covered)
         /\ rows' = [i \in DOMAIN m |-> Row(m[i])]
         /\ Launch(m, covered, next)
      \/ rows' = <<>> /\ cpc' = "rebuild"
  BY DEF Resume
<1>2. ~Running /\ job' = job /\ RowTypes
  BY DEF Resume, Running, UnchangedByLaunch, CoordInv, Types
<1>3. job'.then = "loop"
  BY <1>2, NobodyYet
<1>4. CASE /\ ValidateCoverage(Loaded, covered)
           /\ rows' = [i \in DOMAIN m |-> Row(m[i])]
           /\ Launch(m, covered, next)
  <2>1. DOMAIN rows # {}
    BY <1>4 DEF ValidateCoverage, Loaded
  <2> HIDE DEF S
  <2>2. /\ covered \in Nat \ {0} /\ DOMAIN Loaded = DOMAIN rows
        /\ Sound(Loaded, Greatest(DOMAIN rows) + 1, covered)
        /\ \A i \in DOMAIN rows : Loaded[i].st # "Active"
    <3>1. \A t : t = Greatest(S) + 1 /\ ValidateCoverage(Loaded, t) =>
            /\ t \in Nat \ {0} /\ DOMAIN Loaded = DOMAIN rows
            /\ Sound(Loaded, Greatest(DOMAIN rows) + 1, t)
            /\ \A i \in DOMAIN rows : Loaded[i].st # "Active"
      BY <1>2, <2>1, LoadedIsSound DEF S
    <3> QED BY <1>4, <3>1
  <2> HIDE DEF covered
  <2>3. Sound(m, Greatest(DOMAIN rows) + 1, covered)
    <3>1. covered \in Nat
      BY <2>2
    <3>2. \A c : c = Checked(Loaded, covered) => Sound(c, Greatest(DOMAIN rows) + 1, covered)
      BY <2>2, <3>1, CheckedKeeps
    <3> QED BY <3>2
  <2> HIDE DEF m, next
  <2> QED BY <1>3, <1>4, <2>2, <2>3, LaunchRecorded
<1>5. CASE rows' = <<>> /\ cpc' = "rebuild"
  BY <1>5 DEF RowsInv, RowsCover, Running
<1> QED BY <1>1, <1>4, <1>5

\* Nothing but what the rows count changes.
OnlyProgress ==
    \/ rows' = rows
    \/ \E i \in DOMAIN rows, d \in Nat : rows' = [rows EXCEPT ![i].dl = d]

\* A save of progress moves no bound, not even between the two sides of an await.
LEMMA SaveRecorded ==
    ASSUME CoordInv, RowsInv, OnlyProgress, UNCHANGED <<segs, cpc, job>>
    PROVE  RowsInv'
<1>1. CASE rows' = rows
  BY <1>1 DEF RowsInv, RowsCover, Running, Stored, Target
<1>2. ASSUME NEW i \in DOMAIN rows, NEW d \in Nat, rows' = [rows EXCEPT ![i].dl = d]
      PROVE  RowsInv'
  <2>1. \A j \in DOMAIN rows : rows[j] \in RowRecs
    BY DEF CoordInv, Types, RowTypes
  <2>2. /\ DOMAIN rows' = DOMAIN rows
        /\ \A j \in DOMAIN rows : /\ rows'[j].start = rows[j].start /\ rows'[j].end = rows[j].end
                                  /\ rows'[j] \in RowRecs
    BY <1>2, <2>1 DEF RowRecs
  <2>3. RowsCover'
    <3>1. PICK t \in Nat \ {0} : IsPartition(rows, t)
      <4>1. rows # <<>>
        BY <1>2
      <4> QED BY <4>1 DEF RowsInv, RowsCover
    <3>2. SameLayout(rows', rows)
      BY <2>2 DEF SameLayout
    <3> QED BY <3>1, <3>2, CoverFollows DEF RowsCover
  <2>4. Running' => SameLayout(Stored', Target')
    <3> SUFFICES ASSUME Running
                 PROVE  SameLayout(Stored', Target')
      BY DEF Running
    <3>1. SameLayout(Stored, Target) /\ Target' = Target
      BY DEF RowsInv, Target
    <3>2. CASE cpc # "persist"
      BY <2>2, <3>1, <3>2 DEF Stored, SameLayout
    <3>3. CASE cpc = "persist"
      <4> DEFINE a == Commit(rows, job.st)
                 b == Commit(rows', job.st)
      <4>1. Stored = a /\ Stored' = b
        BY <3>3 DEF Stored
      <4>2. DOMAIN b = DOMAIN a
        BY <2>2 DEF Commit
      <4>3. ASSUME NEW j \in DOMAIN a
            PROVE  b[j].start = a[j].start /\ b[j].end = a[j].end
        <5>1. CASE j \in DOMAIN job.st.put
          BY <4>2, <5>1 DEF Commit
        <5>2. CASE j \notin DOMAIN job.st.put
          <6>1. j \in DOMAIN rows
            BY <5>2 DEF Commit
          <6>2. /\ a[j] = IF j = job.st.par THEN [rows[j] EXCEPT !.end = job.st.end] ELSE rows[j]
                /\ b[j] = IF j = job.st.par THEN [rows'[j] EXCEPT !.end = job.st.end] ELSE rows'[j]
            BY <4>2, <5>2 DEF Commit
          <6>3. rows[j] \in RowRecs /\ rows'[j] \in RowRecs
            BY <2>1, <2>2, <6>1
          <6> HIDE DEF a, b
          <6> QED BY <2>2, <6>1, <6>2, <6>3 DEF RowRecs
        <5> QED BY <5>1, <5>2
      <4> HIDE DEF a, b
      <4> QED BY <3>1, <4>1, <4>2, <4>3 DEF SameLayout
    <3> QED BY <3>2, <3>3
  <2> QED BY <2>3, <2>4 DEF RowsInv
<1> QED BY <1>1, <1>2 DEF OnlyProgress

\* The workers save what they got, and the coordinator their watermarks.
LEMMA ProgressRecorded ==
    ASSUME CoordInv, RowsInv, NEW w \in Workers,
           \/ (WorkerProgress(w) \/ WorkerFault(w)) /\ CoordUnchanged
           \/ DrainProgress(w)
    PROVE  RowsInv'
<1>1. UNCHANGED <<segs, cpc, job>>
  BY DEF CoordUnchanged, DrainProgress, mapVars
<1>2. \A j \in DOMAIN rows : rows[j] \in RowRecs /\ RowSize(rows[j]) \in Int
  BY DEF CoordInv, Types, RowTypes, RowRecs, RowSize
<1>3. \A j \in DOMAIN rows : rows[j].start <= rows[j].end => RowSize(rows[j]) \in Nat
  BY <1>2 DEF RowRecs, RowSize
<1>4. \A j \in DOMAIN rows : RowSize(rows[j]) \in Nat
  BY <1>3 DEF CoordInv, Types, RowTypes
<1>5. \A a, b : a \in Nat /\ b \in Nat => Lesser(a, b) \in Nat
  BY DEF Lesser
<1>6. got[w] \in Nat
  BY DEF CoordInv, Types, WorkerTypes
<1>7. SaveRow(w, got[w]) => OnlyProgress
  BY <1>4, <1>5, <1>6 DEF SaveRow, OnlyProgress
<1>8. CASE DrainProgress(w)
  <2> DEFINE i == asg[w].idx
             d == Lesser(Lesser(got[w], Size(segs[i])), RowSize(rows[i]))
  <2>1. i \in DOMAIN rows /\ i \in DOMAIN segs /\ rows' = [rows EXCEPT ![i].dl = d]
    BY <1>8 DEF DrainProgress
  <2>2. Size(segs[i]) \in Nat
    <3>1. Running
      BY <2>1 DEF CoordInv, Types, CoordTypes
    <3>2. segs[i] \in SegRecs
      BY <2>1, <3>1, MapIsSound
    <3> QED BY <3>2, SizeFacts
  <2>3. d \in Nat
    BY <1>4, <1>5, <1>6, <2>1, <2>2
  <2> HIDE DEF i, d
  <2>4. OnlyProgress
    BY <2>1, <2>3 DEF OnlyProgress
  <2> QED BY <1>1, <2>4, SaveRecorded
<1>9. CASE (WorkerProgress(w) \/ WorkerFault(w)) /\ CoordUnchanged
  <2>1. rows' = rows \/ SaveRow(w, got[w])
    <3>1. CASE \/ Receive(w) \/ AlreadyComplete(w) \/ Accepted(w) \/ Read(w) \/ Write(w)
               \/ \E v \in {"supported", "unsupported"} : Rule(w, v)
      BY <3>1 DEF Receive, AlreadyComplete, Accepted, Read, Write, Rule, diskVars
    <3>2. CASE StreamEnds(w) \/ FinishSegment(w) \/ Cancelled(w) \/ StreamBreaks(w)
      BY <3>2 DEF StreamEnds, FinishSegment, Cancelled, StreamBreaks
    <3>3. CASE Retry(w) \/ GiveUp(w) \/ Retire(w)
      BY <3>3 DEF Retry, GiveUp, Retire, diskVars
    <3>4. CASE \/ RequestFails(w) \/ RangeIgnored(w) \/ Replaced(w)
               \/ \E n \in 1 .. MaxTotal : TrueSizeLarger(w, n)
      BY <3>4 DEF RequestFails, RangeIgnored, Replaced, TrueSizeLarger, diskVars
    <3> QED BY <1>9, <3>1, <3>2, <3>3, <3>4 DEF WorkerProgress, WorkerFault
  <2> QED BY <1>1, <1>7, <2>1, SaveRecorded DEF OnlyProgress
<1> QED BY <1>8, <1>9

\* The run is over: the rows take the progress of the map.
LEMMA JoinRecorded ==
    ASSUME CoordInv, RowsInv, Join
    PROVE  RowsInv'
<1> DEFINE m == Synced(segs)
<1>1. /\ cpc = "join" /\ cpc' = "ended" /\ job' = job /\ (segs' = segs \/ segs' = m)
      /\ \/ rows' = rows
         \/ rows' = [i \in DOMAIN rows |->
                        IF i \in DOMAIN m THEN [rows[i] EXCEPT !.dl = m[i].dl] ELSE rows[i]]
  BY DEF Join
<1>2. /\ SameLayout(rows, segs) /\ job.then = "loop" /\ IsPartition(segs, total)
      /\ \A i \in DOMAIN rows : rows[i] \in RowRecs
      /\ \A i \in DOMAIN segs : segs[i] \in SegRecs
  BY <1>1, RowsStandStill DEF Running, Sound
<1>3. SameLayout(m, segs)
  BY <1>2, LayoutStays
<1> HIDE DEF m
<1>4. SameLayout(segs', segs)
  BY <1>1, <1>3 DEF SameLayout
<1>5. SameLayout(rows', segs)
  <2>1. CASE rows' = rows
    BY <1>2, <2>1
  <2>2. CASE rows' = [i \in DOMAIN rows |->
                         IF i \in DOMAIN m THEN [rows[i] EXCEPT !.dl = m[i].dl] ELSE rows[i]]
    <3>1. \A i \in DOMAIN rows : rows'[i].start = rows[i].start /\ rows'[i].end = rows[i].end
      BY <1>2, <2>2 DEF RowRecs
    <3> QED BY <1>2, <2>2, <3>1 DEF SameLayout
  <2> QED BY <1>1, <2>1, <2>2
<1>6. IsPartition(rows', total)
  BY <1>2, <1>5, CoverFollows
<1>7. Stored' = rows' /\ Target' = segs'
  BY <1>1, <1>2 DEF Stored, Target
<1>8. total \in Nat \ {0}
  BY DEF CoordInv, Types, CoordTypes
<1> QED BY <1>4, <1>5, <1>6, <1>7, <1>8 DEF RowsInv, RowsCover, SameLayout

\* Every step keeps the rows in step with the map, but that of a statement which
\* fails or comes late.
LEMMA StepRecorded ==
    ASSUME CoordInv, RowsInv, [CoordNext]_vars
    PROVE  RowsInv' \/ astray'
<1>1. CASE CoordStep
  <2>1. CASE HandleEvent
    <3> DEFINE e == Head(events)
    <3>1. \/ HandleDone(e) \/ HandleLarger(e) \/ HandleNodeFailed(e)
          \/ HandleRejection(e) \/ HandleFatal(e) \/ HandleVerdict(e)
      BY <2>1 DEF HandleEvent
    <3> HIDE DEF e
    <3> QED BY <3>1, DoneRecorded, LargerRecorded, FailuresRecorded, VerdictRecorded
  <2> QED BY <1>1, <2>1, StartRecorded, ResumeRecorded, PersistRecorded, ContinueRecorded,
             WorkRecorded, TimersRecorded, JoinRecorded DEF CoordStep
<1>2. CASE ProactiveSplit
  BY <1>2, ProactiveSplitRecorded
<1>3. ASSUME NEW w \in Workers,
             \/ (WorkerProgress(w) \/ WorkerFault(w)) /\ CoordUnchanged
             \/ DrainProgress(w)
      PROVE  RowsInv'
  BY <1>3, ProgressRecorded
<1>4. CASE Pause \/ UNCHANGED vars
  <2>1. rows' = rows /\ UNCHANGED <<segs, cpc, job>>
    BY <1>4 DEF Pause, vars, mapVars, workerVars, diskVars
  <2> QED BY <2>1, SaveRecorded DEF OnlyProgress
<1>5. CASE Restart
  <2>1. rows' = rows /\ cpc' = "start"
    BY <1>5 DEF Restart
  <2> QED BY <2>1 DEF RowsInv, RowsCover, Running
<1>6. CASE LateCommit
  BY <1>6 DEF LateCommit
<1> QED BY <1>1, <1>2, <1>3, <1>4, <1>5, <1>6 DEF CoordNext, Ended

\* The rows are those of the map the run has or is about to have, and divide a
\* file, in every state before a statement has failed or come late.
THEOREM RowsInvUnlessAstray == CoordSpec => [](astray \/ (CoordInv /\ RowsInv))
<1>1. CoordInit => CoordInv /\ RowsInv
  <2>1. CoordInit => RowsInv
    BY DEF CoordInit, RowsInv, RowsCover, Running
  <2> QED BY <2>1, InitHolds
<1>2. (astray \/ (CoordInv /\ RowsInv)) /\ [CoordNext]_vars
        => (astray \/ (CoordInv /\ RowsInv))'
  BY StepKeeps, StepRecorded, StepsAstray
<1> QED BY <1>1, <1>2, PTL DEF CoordSpec

-----------------------------------------------------------------------------
(***************************************************************************)
(* The check a resume makes of the rows.                                   *)
(***************************************************************************)

\* The rows as a map have the bounds of the rows.
LEMMA LoadedIsMap ==
    ASSUME RowTypes
    PROVE  \E n : MapBelow(Loaded, n) /\ SameLayout(Loaded, rows)
<1>1. PICK n \in Nat : DOMAIN rows \subseteq 0 .. n - 1
  BY DEF RowTypes
<1>2. DOMAIN Loaded = DOMAIN rows
  BY DEF Loaded
<1>3. ASSUME NEW i \in DOMAIN rows
      PROVE  /\ Loaded[i] \in SegRecs
             /\ Loaded[i].start = rows[i].start /\ Loaded[i].end = rows[i].end
  <2>1. rows[i] \in RowRecs
    BY DEF RowTypes
  <2>2. \E st \in States : Loaded[i] = Seg(rows[i].start, rows[i].end, rows[i].dl, st)
    BY DEF Loaded, States
  <2> QED BY <2>1, <2>2 DEF RowRecs, Seg, SegRecs
<1>4. MapBelow(Loaded, n)
  BY <1>1, <1>2, <1>3 DEF MapBelow, Loaded
<1>5. SameLayout(Loaded, rows)
  BY <1>2, <1>3 DEF SameLayout
<1> QED BY <1>4, <1>5

\* A download that is interrupted is never started over for the layout of its
\* rows: whenever the process dies, the rows pass the check of the next run, as
\* long as every statement was executed in its turn; nothing is asked of the
\* constants.
THEOREM RowsRecoverableHolds == CoordSpec => []RowsRecoverable
<1>1. ASSUME CoordInv, RowsInv
      PROVE  RowsRecoverable
  <2> DEFINE S == {rows[i].end : i \in DOMAIN rows}
  <2> SUFFICES ASSUME rows # <<>>
               PROVE  ValidateCoverage(Loaded, Greatest(S) + 1)
    BY DEF RowsRecoverable
  <2>1. PICK t \in Nat \ {0} : IsPartition(rows, t)
    BY <1>1 DEF RowsInv, RowsCover
  <2>2. RowTypes
    BY <1>1 DEF CoordInv, Types
  <2>3. PICK n : MapBelow(Loaded, n) /\ SameLayout(Loaded, rows)
    BY <2>2, LoadedIsMap
  <2>4. IsPartition(Loaded, t)
    BY <2>1, <2>3, CoverFollows
  <2>5. ValidateCoverage(Loaded, t)
    BY <2>3, <2>4, PartitionPasses
  <2>6. Greatest(S) = t - 1
    <3>1. PICK x \in DOMAIN rows : t - 1 \in Bytes(rows[x])
      BY <2>1 DEF IsPartition
    <3>2. \A i \in DOMAIN rows : rows[i].end \in Int /\ rows[i].end <= t - 1
      <4>1. t \in Int
        OBVIOUS
      <4>2. \A i \in DOMAIN Loaded : Loaded[i].end <= t - 1
        BY <2>3, <2>4, <4>1, WithinFile
      <4>3. \A i \in DOMAIN rows : rows[i] \in RowRecs
        BY <2>2 DEF RowTypes
      <4> QED BY <2>3, <4>2, <4>3 DEF SameLayout, RowRecs
    <3>3. t - 1 <= rows[x].end
      <4>1. rows[x] \in RowRecs
        BY <2>2 DEF RowTypes
      <4> QED BY <3>1, <4>1 DEF Bytes, RowRecs
    <3>4. Greatest(S) \in Int /\ \A i \in DOMAIN rows : rows[i].end <= Greatest(S)
      BY <2>2, <3>1, LastRowEnd
    <3>5. Greatest(S) \in S
      <4>1. S \in SUBSET Int /\ S # {} /\ t - 1 \in Int /\ \A y \in S : y <= t - 1
        BY <3>1, <3>2
      <4> HIDE DEF S
      <4> QED BY <4>1, GreatestIsMax
    <3>6. PICK y \in DOMAIN rows : Greatest(S) = rows[y].end
      BY <3>5
    <3> HIDE DEF S
    <3> QED BY <3>1, <3>2, <3>3, <3>4, <3>6
  <2> HIDE DEF S
  <2> QED BY <2>5, <2>6
<1>2. astray \/ (CoordInv /\ RowsInv) => RowsRecoverable
  BY <1>1 DEF RowsRecoverable
<1> QED BY <1>2, RowsInvUnlessAstray, PTL

\* The check is exact for all rows that have their types.
LEMMA CheckIsExact == RowTypes => ValidationIsExact
<1> SUFFICES ASSUME RowTypes, NEW t \in 1 .. MaxTotal
             PROVE  /\ ValidateCoverage(Loaded, t) => CoversOnce(Loaded, t)
                    /\ IsPartition(Loaded, t) => ValidateCoverage(Loaded, t)
  BY DEF ValidationIsExact
<1>1. t \in Nat /\ t \in Nat \ {0}
  BY WorkersAssumption
<1>2. PICK n : MapBelow(Loaded, n)
  BY LoadedIsMap
<1> QED BY <1>1, <1>2, CoverageIsExact, PartitionPasses

\* What a resume accepts gives every byte of the file to one segment, and no
\* layout of segments with bytes that does is refused, wherever crashes and
\* failed statements left the rows (validate_coverage).
THEOREM ValidationIsExactHolds ==
    ASSUME LateStatements = FALSE
    PROVE  CoordSpec => []ValidationIsExact
<1>1. CoordInv => ValidationIsExact
  BY CheckIsExact DEF CoordInv, Types
<1> QED BY <1>1, CoordInvHolds, PTL

\* Where statements may come late, that holds until one has.
THEOREM ValidationIsExactUnlessAstray == CoordSpec => [](astray \/ ValidationIsExact)
<1>1. CoordInv => ValidationIsExact
  BY CheckIsExact DEF CoordInv, Types
<1> QED BY <1>1, CoordInvUnlessAstray, PTL

-----------------------------------------------------------------------------
(***************************************************************************)
(* How a run ends.  The loop ends without an error when every segment is   *)
(* complete, or when no channel is open; the second must not come first.   *)
(***************************************************************************)

\* Worker v has a report in the channel.
Reported(v) == \E k \in News : events[k].w = v

\* Who is on the staff: a worker with a segment, one whose report waits, and the
\* one a handler is about to give work or to retire.
Staff(v) == Busy(v) \/ Reported(v) \/ (Engaged /\ job.then # "spawn" /\ job.w = v)

\* The channels that are open are those of the staff.
Manned == AtWork => \A v \in Workers : v \in slots <=> Staff(v)

\* The size was probed, so that Range is known to work.
Ranged == ~estimate /\ (Running => verdict = "supported")

\* There is a limit, and no channel but of a worker.
Sized == allowed \in Nat \ {0} /\ slots \subseteq Workers /\ IsFiniteSet(slots)

\* The timers split, and spawn workers, in parallel mode only.
Parallel ==
    serial => /\ cpc \notin {"start", "rebuild", "refill"}
              /\ cpc \in {"persist", "resume"} => job.then \notin {"loop", "spawn"}

\* In serial mode somebody is at work while there is work.
SerialGoes ==
    cpc = "loop" /\ serial /\ ~stopped => AllDone(segs) \/ InState(segs, "Active") # {}

\* The ramp finds no open channel only when nobody has a segment.
RefillKnows == cpc = "refill" /\ slots = {} => InState(segs, "Active") = {}

\* The loop ends without an error only when every segment is complete.
EndsDone ==
    /\ cpc = "join" /\ result = "none" => AllDone(segs)
    /\ result = "ok" => cpc = "ended" /\ AllDone(segs)

\* The inductive invariant of how a run ends.
EndInv ==
    /\ Ranged /\ Sized /\ Manned /\ Parallel
    /\ SerialGoes /\ RefillKnows /\ EndsDone

-----------------------------------------------------------------------------

\* A report sent is one more that waits.
LEMMA ReportAdded ==
    ASSUME events \in Seq(EventRecs), NEW e \in EventRecs, events' = Append(events, e), NEW v
    PROVE  Reported(v)' <=> Reported(v) \/ (e.kind \notin Verdicts /\ e.w = v)
<1>1. Reported(v)' => Reported(v) \/ (e.kind \notin Verdicts /\ e.w = v)
  <2> SUFFICES ASSUME NEW k \in News', events'[k].w = v
               PROVE  Reported(v) \/ (e.kind \notin Verdicts /\ e.w = v)
    BY DEF Reported
  <2>1. \/ k \in News /\ events'[k] = events[k]
        \/ k \notin News /\ events'[k] = e /\ k = Len(events) + 1
    BY EventAppended
  <2> QED BY <2>1 DEF Reported, News
<1>2. Reported(v) \/ (e.kind \notin Verdicts /\ e.w = v) => Reported(v)'
  <2>1. CASE Reported(v)
    <3>1. PICK k \in News : events[k].w = v
      BY <2>1 DEF Reported
    <3>2. k \in News' /\ events'[k] = events[k]
      BY EventAppended
    <3> QED BY <3>1, <3>2 DEF Reported
  <2>2. CASE e.kind \notin Verdicts /\ e.w = v
    <3>1. Len(events) + 1 \in News' /\ events'[Len(events) + 1] = e
      BY <2>2, EventAppended
    <3> QED BY <2>2, <3>1 DEF Reported
  <2> QED BY <2>1, <2>2
<1> QED BY <1>1, <1>2

\* A report taken from the channel was the only one of its worker.
LEMMA ReportRemoved ==
    ASSUME CoordInv, events # <<>>, events' = Tail(events), NEW v
    PROVE  Reported(v)' <=> Reported(v) /\ ~(Head(events).kind \notin Verdicts /\ Head(events).w = v)
<1>0. events \in Seq(EventRecs) /\ ReportersRest
  BY DEF CoordInv, Types, WorkerTypes
<1>1. /\ Head(events) = events[1] /\ 1 \in DOMAIN events
      /\ \A k \in News' : k + 1 \in News /\ events'[k] = events[k + 1] /\ k + 1 # 1
      /\ \A k \in News \ {1} : \E j \in News' : k = j + 1 /\ events'[j] = events[k]
  BY <1>0, TailOfEvents
<1>2. ASSUME NEW k \in News', events'[k].w = v
      PROVE  Reported(v) /\ ~(Head(events).kind \notin Verdicts /\ Head(events).w = v)
  <2>1. k + 1 \in News /\ events[k + 1].w = v /\ k + 1 # 1
    BY <1>1, <1>2
  <2>2. ASSUME 1 \in News, events[1].w = v PROVE FALSE
    BY <1>0, <2>1, <2>2 DEF ReportersRest
  <2>3. Reported(v)
    BY <2>1 DEF Reported
  <2> QED BY <1>1, <2>2, <2>3 DEF News
<1>3. ASSUME NEW k \in News, events[k].w = v,
             ~(Head(events).kind \notin Verdicts /\ Head(events).w = v)
      PROVE  Reported(v)'
  <2>1. k # 1
    BY <1>1, <1>3 DEF News
  <2>2. PICK j \in News' : events'[j] = events[k]
    BY <1>1, <2>1
  <2> QED BY <1>3, <2>2 DEF Reported
<1> QED BY <1>2, <1>3 DEF Reported

\* Nobody joins or leaves the staff.
LEMMA StaffStays ==
    ASSUME Manned, UNCHANGED <<wpc, slots>>, AtWork' => AtWork,
           \A v \in Workers : Reported(v)' <=> Reported(v),
           \A v \in Workers : (Engaged /\ job.then # "spawn" /\ job.w = v)'
                                 <=> (Engaged /\ job.then # "spawn" /\ job.w = v)
    PROVE  Manned'
<1>1. \A v \in Workers : Busy(v)' <=> Busy(v)
  BY DEF Busy
<1> QED BY <1>1 DEF Manned, Staff

\* Whoever has a segment has an open channel.
LEMMA NobodyIdle ==
    ASSUME CoordInv, Manned, AtWork, ~Engaged
    PROVE  slots = {} => InState(segs, "Active") = {}
<1> SUFFICES ASSUME slots = {}, NEW i \in InState(segs, "Active")
             PROVE  FALSE
  OBVIOUS
<1>1. Held(i)
  BY DEF CoordInv, NoneForgotten, AtWork
<1>2. ~Sending
  BY DEF Sending, Engaged
<1>3. \E v \in Workers : Busy(v) \/ Reported(v)
  BY <1>1, <1>2 DEF Held, Reported, CoordInv, ReportersRest
<1> QED BY <1>3 DEF Manned, Staff

\* Complete, or Pending or Active.
LEMMA StatesOfMap ==
    ASSUME NEW n, NEW m, MapBelow(m, n)
    PROVE  /\ InState(m, "Pending") = {} /\ InState(m, "Active") = {} => AllDone(m)
           /\ AllDone(m) => InState(m, "Active") = {} /\ InState(m, "Pending") = {}
<1>1. \A i \in DOMAIN m : m[i].st \in States
  BY DEF MapBelow, SegRecs
<1> QED BY <1>1 DEF InState, AllDone, States

-----------------------------------------------------------------------------

\* What a launch makes of the map m: nothing but the states of segments changes.
LaunchedFrom(m) ==
    /\ DOMAIN segs' = DOMAIN m
    /\ \A i \in DOMAIN m : /\ segs'[i].start = m[i].start /\ segs'[i].dl = m[i].dl
                           /\ m[i].st = "Completed" => segs'[i].st = "Completed"
    /\ \A i \in DOMAIN shared' : i \in DOMAIN m /\ shared'[i].dl = m[i].dl

\* What a launch does: the segments C of m become active, each for a worker of
\* the team T; one alone when a segment starts at byte 0.
LEMMA LaunchFacts ==
    ASSUME CoordInv, ~Running, NEW t \in Nat \ {0}, NEW n, NEW m, Sound(m, n, t),
           \A i \in DOMAIN m : m[i].st # "Active",
           Launch(m, t, n), UnchangedByLaunch
    PROVE  /\ allowed' \in Nat \ {0}
           /\ slots' \subseteq Workers /\ IsFiniteSet(slots')
           /\ \A w \in Workers : Busy(w)' <=> w \in slots'
           /\ verdict' = IF estimate THEN "unknown" ELSE "supported"
           /\ LaunchedFrom(m)
           /\ \A w \in Workers : wpc'[w] # "write"
           /\ \/ AllDone(m) /\ cpc' = "ended" /\ result' = "ok" /\ AllDone(segs')
              \/ ~AllDone(m) /\ cpc' = "loop" /\ result' = result
           /\ (\E i \in InState(m, "Pending") : m[i].start + m[i].dl = 0)
                => \A i, j \in InState(segs', "Active") : i = j
<1> DEFINE pend == InState(m, "Pending")
           fromZero == {i \in pend : m[i].start + m[i].dl = 0}
           limit(a) == IF fromZero # {} THEN 1 ELSE a
           rank(i) == Cardinality({j \in pend : j <= i})
           chosen(a) == {i \in pend : rank(i) <= limit(a)}
           team(a) == {rank(i) : i \in chosen(a)}
<1>1. PICK a \in 1 .. MaxAllowed :
        /\ allowed' = a
        /\ segs' = [i \in DOMAIN m |->
                       IF i \in chosen(a) THEN [m[i] EXCEPT !.st = "Active"] ELSE m[i]]
        /\ verdict' = IF estimate THEN "unknown" ELSE "supported"
        /\ slots' = team(a)
        /\ shared' = [i \in DOMAIN m |-> [end |-> m[i].end, dl |-> m[i].dl]]
        /\ wpc' = [w \in Workers |-> IF w \in team(a) THEN "assigned" ELSE "gone"]
        /\ IF AllDone(m) THEN cpc' = "ended" /\ result' = "ok"
                         ELSE cpc' = "loop" /\ result' = result
  BY DEF Launch
<1> DEFINE C == chosen(a)
           T == team(a)
<1>2. MaxAllowed \in Nat /\ 1 .. MaxAllowed \subseteq Workers
  BY CoordinatorAssumption, WorkersAssumption
<1>3. \A i \in DOMAIN m : m[i] \in SegRecs /\ i \in Nat /\ i \in 0 .. n - 1
  <2>1. t \in Nat
    OBVIOUS
  <2> QED BY <2>1, SoundSegment DEF Sound, MapBelow
<1>4. pend \subseteq DOMAIN m /\ pend \subseteq 0 .. n - 1 /\ n \in Nat
  BY <1>3 DEF InState, Sound, MapBelow
<1>5. /\ \A i \in pend : rank(i) \in Nat \ {0}
      /\ \A i, j \in pend : rank(i) = rank(j) => i = j
  BY <1>4, RankFacts
<1>6. C \subseteq pend /\ T \subseteq 1 .. MaxAllowed
  <2>1. limit(a) <= MaxAllowed
    BY <1>2
  <2> HIDE DEF limit, pend, rank
  <2>2. \A i \in C : rank(i) \in 1 .. MaxAllowed
    <3>1. ASSUME NEW i \in C
          PROVE  rank(i) \in Nat \ {0} /\ rank(i) <= limit(a)
      BY <1>5
    <3>2. limit(a) \in Int
      BY DEF limit
    <3> QED BY <1>2, <2>1, <3>1, <3>2
  <2> QED BY <2>2
<1>7. IsFiniteSet(T)
  <2>1. IsFiniteSet(1 .. MaxAllowed)
    <3>1. MaxAllowed \in Int /\ 1 \in Int
      BY <1>2
    <3>2. \A x, y \in Int : IsFiniteSet(x .. y)
      BY FS_Interval
    <3> QED BY <3>1, <3>2
  <2> HIDE DEF T
  <2> QED BY <1>6, <2>1, FS_Subset
<1>8. fromZero # {} => \A i, j \in C : i = j
  <2> SUFFICES ASSUME fromZero # {}, NEW i \in C, NEW j \in C
               PROVE  i = j
    OBVIOUS
  <2>1. rank(i) <= 1 /\ rank(j) <= 1
    OBVIOUS
  <2>2. i \in pend /\ j \in pend
    BY <1>6
  <2> HIDE DEF rank, C, pend, fromZero
  <2>3. rank(i) = 1 /\ rank(j) = 1
    BY <1>5, <2>1, <2>2
  <2> QED BY <1>5, <2>2, <2>3
<1> HIDE DEF chosen, team, rank, limit
<1>9. /\ DOMAIN segs' = DOMAIN m
      /\ \A i \in DOMAIN m :
           /\ segs'[i].start = m[i].start /\ segs'[i].dl = m[i].dl
           /\ segs'[i].st = IF i \in C THEN "Active" ELSE m[i].st
  <2> HIDE DEF C, pend, fromZero
  <2>1. DOMAIN segs' = DOMAIN m
    BY <1>1 DEF C
  <2>2. ASSUME NEW i \in DOMAIN m
        PROVE  /\ segs'[i].start = m[i].start /\ segs'[i].dl = m[i].dl
               /\ segs'[i].st = IF i \in C THEN "Active" ELSE m[i].st
    <3>1. segs'[i] = IF i \in C THEN [m[i] EXCEPT !.st = "Active"] ELSE m[i]
      BY <1>1 DEF C
    <3>2. m[i] \in SegRecs
      BY <1>3
    <3> QED BY <3>1, <3>2 DEF SegRecs
  <2> QED BY <2>1, <2>2
<1>10. InState(segs', "Active") \subseteq C
  BY <1>9 DEF InState
<1>11. AllDone(m) => AllDone(segs')
  <2> SUFFICES ASSUME AllDone(m) PROVE AllDone(segs')
    OBVIOUS
  <2>1. \A i \in DOMAIN m : m[i].st = "Completed"
    BY DEF AllDone, InState
  <2>2. C = {}
    BY <1>6, <2>1 DEF InState
  <2> QED BY <1>9, <2>1, <2>2 DEF AllDone, InState
<1>12. \A w \in Workers : Busy(w)' <=> w \in T
  <2> HIDE DEF fromZero
  <2> QED BY <1>1 DEF Busy
<1>13. slots' = T /\ T \subseteq Workers
  BY <1>1, <1>2, <1>6
<1>14. allowed' \in Nat \ {0}
  BY <1>1, <1>2
<1>16. /\ \A i \in DOMAIN shared' : i \in DOMAIN m /\ shared'[i].dl = m[i].dl
       /\ \A w \in Workers : wpc'[w] # "write"
  <2> HIDE DEF C, T, pend, fromZero
  <2> QED BY <1>1
<1>17. \A i \in DOMAIN m : m[i].st = "Completed" => segs'[i].st = "Completed"
  <2>1. \A i \in C : m[i].st = "Pending"
    <3>1. \A i \in pend : m[i].st = "Pending"
      BY DEF InState
    <3> HIDE DEF C, T, pend, fromZero
    <3> QED BY <1>6, <3>1
  <2> HIDE DEF C, T, pend, fromZero
  <2> QED BY <1>9, <2>1
<1>15. (\E i \in InState(m, "Pending") : m[i].start + m[i].dl = 0) => fromZero # {}
  OBVIOUS
<1> HIDE DEF C, T, pend, fromZero
<1>18. LaunchedFrom(m)
  BY <1>9, <1>16, <1>17 DEF LaunchedFrom
<1> QED BY <1>1, <1>7, <1>8, <1>10, <1>11, <1>12, <1>13, <1>14, <1>15, <1>16, <1>18

\* A run begins with a team that is at work.
LEMMA LaunchEnds ==
    ASSUME CoordInv, EndInv, ~Running, NEW t \in Nat \ {0}, NEW n, NEW m, Sound(m, n, t),
           \A i \in DOMAIN m : m[i].st # "Active",
           Launch(m, t, n), UnchangedByLaunch
    PROVE  EndInv'
<1>1. /\ allowed' \in Nat \ {0}
      /\ slots' \subseteq Workers /\ IsFiniteSet(slots')
      /\ \A w \in Workers : Busy(w)' <=> w \in slots'
      /\ verdict' = IF estimate THEN "unknown" ELSE "supported"
      /\ \/ cpc' = "ended" /\ result' = "ok" /\ AllDone(segs')
         \/ cpc' = "loop" /\ result' = result
  BY LaunchFacts
<1>2. serial' = serial /\ job' = job /\ events' = events /\ estimate' = estimate
  BY DEF UnchangedByLaunch
<1>3. News = {} /\ job.then = "loop"
  BY NobodyYet
<1>4. ~serial /\ ~estimate /\ result # "ok"
  BY DEF EndInv, Parallel, Ranged, EndsDone, Running
<1>5. \A v \in Workers : ~Reported(v)' /\ ~Engaged'
  BY <1>1, <1>2, <1>3 DEF Reported, News, Engaged
<1>6. Manned'
  BY <1>1, <1>5 DEF Manned, Staff
<1> QED BY <1>1, <1>2, <1>3, <1>4, <1>6
        DEF EndInv, Ranged, Sized, Parallel, SerialGoes, RefillKnows, EndsDone

\* A run of a fresh file, or of rows that were thrown away.
LEMMA StartFacts ==
    ASSUME CoordInv, StartFresh \/ Rebuild
    PROVE  /\ ~Running /\ UnchangedByLaunch
           /\ \E t \in Nat \ {0} : \E n, m :
                /\ Sound(m, n, t) /\ (\A i \in DOMAIN m : m[i].st # "Active")
                /\ Launch(m, t, n)
<1>1. CASE StartFresh
  <2>1. PICK n \in 1 .. MaxTotal :
          LET count == IF estimate THEN 1 ELSE Lesser(Plan, n)
          IN  Launch(Fresh(count, n), n, count)
    BY <1>1 DEF StartFresh
  <2> DEFINE count == IF estimate THEN 1 ELSE Lesser(Plan, n)
             m == Fresh(count, n)
  <2>2. n \in Nat \ {0} /\ count \in Nat \ {0} /\ count <= n
    BY WorkersAssumption, CoordinatorAssumption DEF Lesser
  <2>3. ~Running /\ UnchangedByLaunch
    BY <1>1 DEF StartFresh, Running
  <2>4. Launch(m, n, count)
    BY <2>1
  <2> HIDE DEF count
  <2>5. Sound(m, count, n) /\ \A i \in DOMAIN m : m[i].st # "Active"
    <3>1. \A c : c = Fresh(count, n) =>
            /\ Sound(c, count, n) /\ DOMAIN c = 0 .. count - 1
            /\ \A i \in DOMAIN c : c[i].st = "Pending"
      <4>1. n \in Nat
        BY <2>2
      <4> QED BY <2>2, <4>1, FreshIsSound
    <3> QED BY <3>1
  <2> HIDE DEF m
  <2> QED BY <2>2, <2>3, <2>4, <2>5
<1>2. CASE Rebuild
  <2> DEFINE count == Lesser(Plan, total)
             m == Fresh(count, total)
  <2>1. Launch(m, total, count) /\ UnchangedByLaunch /\ ~Running
    BY <1>2 DEF Rebuild, Running
  <2>2. total \in Nat \ {0} /\ count \in Nat \ {0} /\ count <= total
    BY CoordinatorAssumption DEF CoordInv, Types, CoordTypes, Lesser
  <2> HIDE DEF count
  <2>3. Sound(m, count, total) /\ \A i \in DOMAIN m : m[i].st # "Active"
    <3>1. \A c : c = Fresh(count, total) =>
            /\ Sound(c, count, total) /\ DOMAIN c = 0 .. count - 1
            /\ \A i \in DOMAIN c : c[i].st = "Pending"
      <4>1. total \in Nat
        BY <2>2
      <4> QED BY <2>2, <4>1, FreshIsSound
    <3> QED BY <3>1
  <2> HIDE DEF m
  <2> QED BY <2>1, <2>2, <2>3
<1> QED BY <1>1, <1>2

\* And what the invariant asks of it.
LEMMA StartEnds ==
    ASSUME CoordInv, EndInv, StartFresh \/ Rebuild
    PROVE  EndInv'
BY StartFacts, LaunchEnds

\* What a resume launches, when it does not delete the rows.
LEMMA ResumeFacts ==
    ASSUME CoordInv, Resume
    PROVE  /\ ~Running /\ UnchangedByLaunch
           /\ \/ \E t \in Nat \ {0} : \E n, m :
                   /\ Sound(m, n, t) /\ (\A i \in DOMAIN m : m[i].st # "Active")
                   /\ Launch(m, t, n)
              \/ /\ cpc' = "rebuild"
                 /\ UNCHANGED <<allowed, segs, nextIdx, fileLen, shared, anyData, verdict,
                                openSeg, slots, wpc, asg, result, taskTotal>>
<1> DEFINE S == {rows[i].end : i \in DOMAIN rows}
           covered == Greatest(S) + 1
           m == Checked(Loaded, covered)
           next == Greatest(DOMAIN m) + 1
<1>1. \/ ValidateCoverage(Loaded, covered) /\ Launch(m, covered, next)
      \/ /\ cpc' = "rebuild"
         /\ UNCHANGED <<allowed, segs, nextIdx, fileLen, shared, anyData, verdict,
                        openSeg, slots, wpc, asg, result, taskTotal>>
  BY DEF Resume
<1>2. ~Running /\ UnchangedByLaunch /\ RowTypes
  BY DEF Resume, Running, CoordInv, Types
<1>3. CASE ValidateCoverage(Loaded, covered) /\ Launch(m, covered, next)
  <2>1. DOMAIN rows # {}
    BY <1>3 DEF ValidateCoverage, Loaded
  <2> HIDE DEF S
  <2>2. /\ covered \in Nat \ {0} /\ DOMAIN Loaded = DOMAIN rows
        /\ Sound(Loaded, Greatest(DOMAIN rows) + 1, covered)
        /\ \A i \in DOMAIN rows : Loaded[i].st # "Active"
    <3>1. \A t : t = Greatest(S) + 1 /\ ValidateCoverage(Loaded, t) =>
            /\ t \in Nat \ {0} /\ DOMAIN Loaded = DOMAIN rows
            /\ Sound(Loaded, Greatest(DOMAIN rows) + 1, t)
            /\ \A i \in DOMAIN rows : Loaded[i].st # "Active"
      BY <1>2, <2>1, LoadedIsSound DEF S
    <3> QED BY <1>3, <3>1
  <2> HIDE DEF covered
  <2>3. /\ Sound(m, Greatest(DOMAIN rows) + 1, covered) /\ DOMAIN m = DOMAIN rows
        /\ \A i \in DOMAIN m : m[i].st # "Active"
    <3>1. covered \in Nat
      BY <2>2
    <3>2. \A c : c = Checked(Loaded, covered) =>
            /\ Sound(c, Greatest(DOMAIN rows) + 1, covered) /\ DOMAIN c = DOMAIN rows
            /\ \A i \in DOMAIN c : c[i].st # "Active"
      BY <2>2, <3>1, CheckedKeeps
    <3> QED BY <3>2
  <2>4. Sound(m, next, covered) /\ Launch(m, covered, next)
    BY <1>3, <2>3
  <2> HIDE DEF m, next
  <2> QED BY <1>2, <2>2, <2>3, <2>4
<1> QED BY <1>1, <1>2, <1>3

\* A run of the rows of an earlier one.
LEMMA ResumeEnds ==
    ASSUME CoordInv, EndInv, Resume
    PROVE  EndInv'
<1>1. ~Running /\ UnchangedByLaunch
  BY ResumeFacts
<1>2. CASE \E t \in Nat \ {0} : \E n, m :
               /\ Sound(m, n, t) /\ (\A i \in DOMAIN m : m[i].st # "Active")
               /\ Launch(m, t, n)
  BY <1>1, <1>2, LaunchEnds
<1>3. CASE /\ cpc' = "rebuild"
           /\ UNCHANGED <<allowed, segs, nextIdx, fileLen, shared, anyData, verdict,
                          openSeg, slots, wpc, asg, result, taskTotal>>
  BY <1>1, <1>3 DEF UnchangedByLaunch, Running, AtWork,
     EndInv, Ranged, Sized, Manned, Parallel, SerialGoes, RefillKnows, EndsDone
<1> QED BY <1>2, <1>3, ResumeFacts

-----------------------------------------------------------------------------

\* A report is taken, and its worker kept in hand for the next work.
LEMMA WorkerInHand ==
    ASSUME CoordInv, EndInv, NEW kinds, Handling(kinds), kinds \cap Verdicts = {},
           events' = Tail(events), UNCHANGED <<wpc, slots, estimate, verdict, allowed, serial, result>>,
           job'.w = Head(events).w,
           \/ cpc' \in {"dispatch", "redispatch"} /\ job'.then = "loop"
           \/ cpc' = "persist" /\ job'.then \in {"short", "grown"}
    PROVE  EndInv'
<1>1. /\ Running /\ AtWork /\ events # <<>> /\ Head(events).kind \notin Verdicts
      /\ cpc = "loop" /\ ~stopped
  BY ReportAtHead DEF Handling, Looping
<1>2. job.then = "loop" /\ ~Engaged
  BY <1>1 DEF CoordInv, Types, CoordTypes, Engaged
<1>3. Engaged' /\ job'.then # "spawn" /\ Running'
  BY DEF Engaged, Running
<1>4. Manned'
  <2> SUFFICES ASSUME NEW v \in Workers
               PROVE  v \in slots' <=> Staff(v)'
    BY DEF Manned
  <2>1. Reported(v)' <=> Reported(v) /\ Head(events).w # v
    BY <1>1, ReportRemoved
  <2>2. Head(events).w = v => Reported(v)
    <3>1. Head(events) = events[1] /\ 1 \in DOMAIN events
      BY <1>1, TailOfEvents DEF CoordInv, Types, WorkerTypes
    <3> QED BY <1>1, <3>1 DEF Reported, News
  <2>3. Busy(v)' <=> Busy(v)
    BY DEF Busy
  <2>4. v \in slots <=> Busy(v) \/ Reported(v)
    BY <1>1, <1>2 DEF EndInv, Manned, Staff
  <2> QED BY <1>3, <2>1, <2>2, <2>3, <2>4 DEF Staff
<1> QED BY <1>1, <1>3, <1>4
        DEF EndInv, Ranged, Sized, Parallel, SerialGoes, RefillKnows, EndsDone

\* The loop ends with an error, and every channel is closed.
LEMMA RunFails ==
    ASSUME CoordInv, EndInv, Running, cpc' = "join", result' \notin {"none", "ok"}, slots' = {},
           UNCHANGED <<estimate, verdict>>, allowed' \in Nat \ {0}
    PROVE  EndInv'
<1>1. IsFiniteSet({})
  BY FS_EmptySet
<1>2. ~AtWork'
  BY DEF AtWork
<1> QED BY <1>1, <1>2 DEF EndInv, Ranged, Sized, Manned, Parallel, SerialGoes, RefillKnows, EndsDone,
        Running

\* The handlers of the reports: a segment is complete,
LEMMA DoneEnds ==
    ASSUME CoordInv, EndInv, NEW e, HandleDone(e)
    PROVE  EndInv'
<1>1. /\ Handling({"done"}) /\ e = Head(events) /\ events' = Tail(events)
      /\ UNCHANGED <<wpc, slots, estimate, verdict, allowed, serial, result>>
      /\ \/ job'.then = "short" /\ job'.w = e.w /\ cpc' = "persist"
         \/ job'.then = "loop" /\ job'.w = e.w /\ cpc' = "dispatch"
  BY DEF HandleDone, Job, NoJob, policyVars, controlVars, localVars
<1>2. {"done"} \cap Verdicts = {}
  BY DEF Verdicts
<1> QED BY <1>1, <1>2, WorkerInHand

\* the file is larger than planned,
LEMMA LargerEnds ==
    ASSUME CoordInv, EndInv, NEW e, HandleLarger(e)
    PROVE  EndInv'
<1>1. /\ Handling({"larger"}) /\ e = Head(events) /\ events' = Tail(events)
      /\ UNCHANGED <<wpc, estimate, verdict, allowed, serial>>
      /\ \/ EndLoop("error")
         \/ /\ UNCHANGED <<result, slots>>
            /\ job'.then = "grown" /\ job'.w = e.w /\ cpc' = "persist"
         \/ /\ UNCHANGED <<result, slots>>
            /\ job'.then = "loop" /\ job'.w = e.w /\ cpc' = "redispatch"
  BY DEF HandleLarger, Job, NoJob, policyVars, controlVars, localVars
<1>2. {"larger"} \cap Verdicts = {}
  BY DEF Verdicts
<1>3. CASE EndLoop("error")
  <2>1. Running /\ cpc' = "join" /\ result' \notin {"none", "ok"} /\ slots' = {}
    BY <1>1, <1>3 DEF EndLoop, Handling, Looping, Running
  <2>2. allowed' \in Nat \ {0}
    BY <1>1 DEF EndInv, Sized
  <2> QED BY <1>1, <2>1, <2>2, RunFails
<1> QED BY <1>1, <1>2, <1>3, WorkerInHand

\* a node of the CDN failed,
LEMMA NodeFailedEnds ==
    ASSUME CoordInv, EndInv, NEW e, HandleNodeFailed(e)
    PROVE  EndInv'
<1>1. /\ Handling({"node"}) /\ e = Head(events) /\ events' = Tail(events)
      /\ UNCHANGED <<wpc, slots, estimate, verdict, allowed, serial, result>>
      /\ job'.then = "loop" /\ job'.w = e.w /\ cpc' = "redispatch"
  BY DEF HandleNodeFailed, NoJob, policyVars, controlVars, localVars
<1>2. {"node"} \cap Verdicts = {}
  BY DEF Verdicts
<1> QED BY <1>1, <1>2, WorkerInHand

\* a worker met an error nobody retries,
LEMMA FatalEnds ==
    ASSUME CoordInv, EndInv, NEW e, HandleFatal(e)
    PROVE  EndInv'
<1>1. /\ Running /\ cpc' = "join" /\ result' \notin {"none", "ok"} /\ slots' = {}
      /\ UNCHANGED <<estimate, verdict, allowed>>
  BY DEF HandleFatal, EndLoop, Handling, Looping, Running, policyVars
<1>2. allowed' \in Nat \ {0}
  BY <1>1 DEF EndInv, Sized
<1> QED BY <1>1, <1>2, RunFails

\* A worker is let go whose report was the last word about it.
LEMMA StaffLeaves ==
    ASSUME Manned, AtWork' => AtWork, UNCHANGED wpc, NEW x, slots' = slots \ {x},
           \A v \in Workers : Staff(v)' <=> Staff(v) /\ v # x
    PROVE  Manned'
BY DEF Manned

\* The first strike leaves at least one connection.
LEMMA DegradeLeavesOne ==
    ASSUME Sized, Degrade
    PROVE  allowed' \in Nat \ {0}
<1>1. Cardinality(slots) \in Nat
  BY FS_CardinalityType DEF Sized
<1>2. \A n \in Nat : n > 2 => n \div 2 \in Nat \ {0}
  OBVIOUS
<1> QED BY <1>1, <1>2 DEF Sized, Degrade

\* the server refused a connection or ignored a range,
LEMMA RejectionEnds ==
    ASSUME CoordInv, EndInv, NEW e, HandleRejection(e)
    PROVE  EndInv'
<1> DEFINE K == {"refused", "norange"}
<1>1. /\ Handling(K) /\ e = Head(events) /\ events' = Tail(events) /\ Degrade
      /\ UNCHANGED <<wpc, estimate, verdict>>
      /\ segs' = SetState(segs, e.idx, "Pending")
      /\ \/ slots' = {} /\ cpc' = "join" /\ result' \notin {"none", "ok"}
         \/ /\ CloseSlot(e.w) /\ result' = result
            /\ \/ cpc' = "persist" /\ job'.then = "merged"
               \/ /\ cpc' = "loop" /\ job' = job
                  /\ ~(slots \subseteq {e.w} /\ InState(segs', "Active") = {})
  BY DEF HandleRejection, EndLoop, Absorb, Job, localVars
<1>2. K \cap Verdicts = {}
  BY DEF Verdicts
<1>3. /\ Running /\ AtWork /\ events # <<>> /\ Head(events).kind \notin Verdicts
      /\ cpc = "loop" /\ ~stopped /\ e.idx \in DOMAIN segs
  BY <1>1, <1>2, ReportAtHead DEF Handling, Looping
<1>4. job.then = "loop" /\ ~Engaged
  BY <1>3 DEF CoordInv, Types, CoordTypes, Engaged
<1>5. allowed' \in Nat \ {0}
  BY <1>1, DegradeLeavesOne DEF EndInv
<1>6. CASE slots' = {} /\ cpc' = "join" /\ result' \notin {"none", "ok"}
  BY <1>1, <1>3, <1>5, <1>6, RunFails
<1>7. CASE /\ CloseSlot(e.w) /\ result' = result
           /\ \/ cpc' = "persist" /\ job'.then = "merged"
              \/ /\ cpc' = "loop" /\ job' = job
                 /\ ~(slots \subseteq {e.w} /\ InState(segs', "Active") = {})
  <2>1. ~Engaged' /\ (AtWork' => AtWork) /\ Running'
    BY <1>3, <1>4, <1>7 DEF Engaged, Running
  <2>2. /\ e = events[1] /\ 1 \in News
    BY <1>1, <1>3, TailOfEvents DEF CoordInv, Types, WorkerTypes, News
  <2>3. ~Busy(e.w)
    BY <2>2 DEF CoordInv, ReportersRest
  <2>4. ASSUME NEW v \in Workers
        PROVE  Staff(v)' <=> Staff(v) /\ v # e.w
    <3>1. Reported(v)' <=> Reported(v) /\ e.w # v
      BY <1>1, <1>3, ReportRemoved
    <3>2. Busy(v)' <=> Busy(v)
      BY <1>1 DEF Busy
    <3> QED BY <1>4, <2>1, <2>3, <3>1, <3>2 DEF Staff
  <2>5. Manned'
    BY <1>1, <1>7, <2>1, <2>4, StaffLeaves DEF EndInv, CloseSlot
  <2>6. ASSUME cpc' = "loop"
        PROVE  InState(segs', "Active") # {}
    <3>1. SUFFICES ASSUME InState(segs', "Active") = {}
                   PROVE  FALSE
      OBVIOUS
    <3>2. PICK v \in slots : v # e.w
      BY <1>7, <2>6, <3>1
    <3>3. v \in Workers /\ (Busy(v) \/ Reported(v))
      BY <1>3, <1>4, <3>2 DEF EndInv, Sized, Manned, Staff
    <3>4. InState(segs', "Active") = InState(segs, "Active") \ {e.idx}
      <4>1. UNCHANGED <<nextIdx, total>>
        BY DEF HandleRejection
      <4> QED BY <1>1, <1>3, <4>1, SentBack
    <3>5. CASE Busy(v)
      <4>1. asg[v].idx \in InState(segs, "Active") /\ asg[v].idx # events[1].idx
        BY <2>2, <3>3, <3>5 DEF CoordInv, HoldersActive, OneHolder
      <4> QED BY <2>2, <3>1, <3>4, <4>1
    <3>6. CASE Reported(v)
      <4>1. PICK k \in News : events[k].w = v
        BY <3>6 DEF Reported
      <4>2. k # 1
        BY <2>2, <3>2, <4>1
      <4>3. events[k].idx \in InState(segs, "Active") /\ events[k].idx # events[1].idx
        BY <2>2, <4>2 DEF CoordInv, HoldersActive, OneHolder
      <4> QED BY <2>2, <3>1, <3>4, <4>3
    <3> QED BY <3>3, <3>5, <3>6
  <2>7. slots' \subseteq Workers /\ IsFiniteSet(slots')
    <3>1. slots' \subseteq slots /\ IsFiniteSet(slots) /\ slots \subseteq Workers
      BY <1>7 DEF CloseSlot, EndInv, Sized
    <3> QED BY <3>1, FS_Subset
  <2>8. Ranged' /\ Sized' /\ Parallel'
    BY <1>1, <1>5, <1>7, <2>1, <2>7, <1>3 DEF EndInv, Ranged, Sized, Parallel
  <2> QED BY <1>3, <1>7, <2>5, <2>6, <2>8 DEF EndInv, SerialGoes, RefillKnows, EndsDone
<1> QED BY <1>1, <1>6, <1>7

\* or the first response ruled on Range, which no run of a probed size waits for.
LEMMA VerdictEnds ==
    ASSUME CoordInv, EndInv, NEW e, HandleVerdict(e)
    PROVE  EndInv'
<1>1. /\ cpc = "loop" /\ ~stopped /\ events # <<>> /\ Head(events).kind \in Verdicts
      /\ events' = Tail(events)
      /\ UNCHANGED <<wpc, slots, estimate, verdict, allowed, serial, result, segs, stopped>>
      /\ \/ cpc' = "persist" /\ job'.then = "merged"
         \/ cpc' = cpc /\ job' = job
  BY DEF HandleVerdict, Handling, Looping, Absorb, Job, Verdicts, mapVars, policyVars, controlVars,
         localVars
<1>2. job.then = "loop" /\ ~Engaged /\ ~Engaged' /\ (AtWork' => AtWork)
  BY <1>1 DEF CoordInv, Types, CoordTypes, Engaged, AtWork
<1>3. \A v \in Workers : Reported(v)' <=> Reported(v)
  BY <1>1, ReportRemoved
<1>4. Manned'
  BY <1>1, <1>2, <1>3, StaffStays DEF EndInv
<1> QED BY <1>1, <1>2, <1>4
        DEF EndInv, Ranged, Sized, Parallel, SerialGoes, RefillKnows, EndsDone, Running

\* Whatever is reported.
LEMMA HandleEventEnds ==
    ASSUME CoordInv, EndInv, HandleEvent
    PROVE  EndInv'
<1> DEFINE e == Head(events)
<1>1. \/ HandleDone(e) \/ HandleLarger(e) \/ HandleNodeFailed(e)
      \/ HandleRejection(e) \/ HandleFatal(e) \/ HandleVerdict(e)
  BY DEF HandleEvent
<1> HIDE DEF e
<1> QED BY <1>1, DoneEnds, LargerEnds, NodeFailedEnds, RejectionEnds, FatalEnds, VerdictEnds

-----------------------------------------------------------------------------

\* The map a handler looks at has its segments in the same states.
LEMMA SyncedStates ==
    ASSUME CoordInv, Running, NEW m, m = Synced(segs)
    PROVE  /\ \A st : InState(m, st) = InState(segs, st)
           /\ AllDone(m) <=> AllDone(segs)
           /\ MapBelow(m, nextIdx)
<1>1. Sound(segs, nextIdx, total) /\ total \in Nat
  BY MapIsSound
<1>2. \A i \in DOMAIN shared : shared[i] \in [end : Int, dl : Nat]
  BY PartsTyped
<1>3. /\ Sound(m, nextIdx, total) /\ DOMAIN m = DOMAIN segs
      /\ \A st : InState(m, st) = InState(segs, st)
  BY <1>1, <1>2, SyncedKeeps
<1> QED BY <1>3 DEF AllDone, Sound

\* Before a handler of the coordinator the job is done; only a report keeps a
\* worker in hand.
LEMMA DeskFacts ==
    ASSUME CoordInv, cpc \notin {"persist", "resume"}
    PROVE  job.then = "loop" /\ (Engaged <=> cpc \in {"dispatch", "redispatch"})
BY DEF CoordInv, Types, CoordTypes, Engaged

\* What follows once work is found, and for whom.
LEMMA HandOutSays ==
    ASSUME NEW f, NEW w, NEW then, NEW z, HandOut(f, w, then, z)
    PROVE  cpc' = "persist" /\ job'.then = then /\ job'.w = w
BY DEF HandOut, Job

\* Work is handed to the worker in hand.
LEMMA SendEnds ==
    ASSUME CoordInv, EndInv, cpc \in {"dispatch", "redispatch"}, cpc' = "persist",
           job'.then = "send", job'.w = job.w,
           UNCHANGED <<wpc, slots, events, estimate, verdict, allowed, serial, result, stopped>>
    PROVE  EndInv'
<1>1. job.then = "loop" /\ Engaged /\ Engaged' /\ Running /\ Running'
  BY DeskFacts DEF Engaged, Running
<1>2. (AtWork' => AtWork) /\ \A v \in Workers : Reported(v)' <=> Reported(v)
  BY DEF AtWork, Reported, News
<1>3. Manned'
  BY <1>1, <1>2, StaffStays DEF EndInv
<1> QED BY <1>1, <1>3 DEF EndInv, Ranged, Sized, Parallel, SerialGoes, RefillKnows, EndsDone

\* Or it is let go, when others are at work or nothing is left.
LEMMA LetGoEnds ==
    ASSUME CoordInv, EndInv, cpc \in {"dispatch", "redispatch"}, cpc' = "loop", job' = NoJob,
           CloseSlot(job.w),
           UNCHANGED <<wpc, events, estimate, verdict, allowed, serial, result, stopped>>,
           serial => AllDone(segs') \/ InState(segs', "Active") # {}
    PROVE  EndInv'
<1>1. job.then = "loop" /\ Engaged /\ ~Engaged' /\ Running /\ Running'
  BY DeskFacts DEF Engaged, Running, NoJob
<1>2. (AtWork' => AtWork) /\ \A v \in Workers : Reported(v)' <=> Reported(v)
  BY DEF AtWork, Reported, News
<1>3. ~Busy(job.w) /\ ~Reported(job.w)
  BY <1>1 DEF CoordInv, ReportersRest, Reported
<1>4. \A v \in Workers : Staff(v)' <=> Staff(v) /\ v # job.w
  <2>1. \A v \in Workers : Busy(v)' <=> Busy(v)
    BY DEF Busy
  <2> QED BY <1>1, <1>2, <1>3, <2>1 DEF Staff
<1>5. Manned'
  BY <1>2, <1>4, StaffLeaves DEF EndInv, CloseSlot
<1>6. slots' \subseteq Workers /\ IsFiniteSet(slots')
  <2>1. slots' \subseteq slots /\ IsFiniteSet(slots) /\ slots \subseteq Workers
    BY DEF CloseSlot, EndInv, Sized
  <2> QED BY <2>1, FS_Subset
<1> QED BY <1>1, <1>5, <1>6 DEF EndInv, Ranged, Sized, Parallel, SerialGoes, RefillKnows, EndsDone

\* The worker in hand gets the next work, or is let go: in serial mode only while
\* another is at work, or when nothing is Pending.
LEMMA DispatchEnds ==
    ASSUME CoordInv, EndInv, Dispatch
    PROVE  EndInv'
<1> DEFINE m == Synced(segs)
           go == Eligible(m) /\ Found(m, ~serial)
<1>0. /\ cpc = "dispatch"
      /\ UNCHANGED <<wpc, events, estimate, verdict, allowed, serial, result, stopped>>
      /\ go => HandOut(NextWork(m, ~serial), job.w, "send", FALSE) /\ UNCHANGED slots
      /\ ~go => /\ segs' = m /\ job' = NoJob
                /\ IF AllDone(m) THEN slots' = {} /\ cpc' = "join"
                                 ELSE CloseSlot(job.w) /\ cpc' = "loop"
  BY DEF Dispatch, policyVars, workerVars, sharedVars, localVars
<1>1. /\ cpc = "dispatch"
      /\ UNCHANGED <<wpc, events, estimate, verdict, allowed, serial, result, stopped>>
      /\ \/ cpc' = "persist" /\ job'.then = "send" /\ job'.w = job.w /\ UNCHANGED slots
         \/ /\ segs' = m /\ job' = NoJob /\ AllDone(m) /\ slots' = {} /\ cpc' = "join"
         \/ /\ segs' = m /\ job' = NoJob /\ cpc' = "loop" /\ CloseSlot(job.w)
            /\ ~go
  <2> HIDE DEF m, go
  <2>1. go => cpc' = "persist" /\ job'.then = "send" /\ job'.w = job.w
    BY <1>0, HandOutSays
  <2> QED BY <1>0, <2>1
<1>2. Running
  BY <1>1 DEF Running
<1>3. MapBelow(m, nextIdx)
  BY <1>2, SyncedStates
<1> HIDE DEF m
<1>4. CASE cpc' = "persist" /\ job'.then = "send" /\ job'.w = job.w /\ UNCHANGED slots
  BY <1>1, <1>4, SendEnds
<1>5. CASE segs' = m /\ job' = NoJob /\ AllDone(m) /\ slots' = {} /\ cpc' = "join"
  <2>1. ~AtWork' /\ IsFiniteSet({})
    BY <1>5, FS_EmptySet DEF AtWork
  <2> QED BY <1>1, <1>2, <1>5, <2>1 DEF EndInv, Ranged, Sized, Manned, Parallel, SerialGoes,
                                        RefillKnows, EndsDone, Running
<1>6. CASE segs' = m /\ job' = NoJob /\ cpc' = "loop" /\ CloseSlot(job.w) /\ ~go
  <2>1. serial => AllDone(segs') \/ InState(segs', "Active") # {}
    BY <1>3, <1>6, StatesOfMap DEF Eligible, Found
  <2> QED BY <1>1, <1>6, <2>1, LetGoEnds
<1> QED BY <1>1, <1>4, <1>5, <1>6

\* The same for the worker of a segment that went back, or of one that was grown.
LEMMA RedispatchEnds ==
    ASSUME CoordInv, EndInv, Redispatch
    PROVE  EndInv'
<1>1. cpc = "redispatch"
  BY DEF Redispatch
<1>2. Running /\ verdict = "supported"
  BY <1>1 DEF Running, EndInv, Ranged
<1>3. /\ UNCHANGED <<wpc, events, estimate, verdict, allowed, serial, result, stopped>>
      /\ \/ cpc' = "persist" /\ job'.then = "send" /\ job'.w = job.w /\ UNCHANGED slots
         \/ /\ segs' = segs /\ job' = NoJob /\ cpc' = "loop" /\ CloseSlot(job.w)
            /\ ~((serial => InState(segs, "Active") = {}) /\ Found(segs, ~serial))
  BY <1>2 DEF Redispatch, HandOut, Job, policyVars, workerVars, sharedVars, localVars
<1>4. MapBelow(segs, nextIdx)
  BY <1>2, MapIsSound DEF Sound
<1>5. CASE /\ segs' = segs /\ job' = NoJob /\ cpc' = "loop" /\ CloseSlot(job.w)
           /\ ~((serial => InState(segs, "Active") = {}) /\ Found(segs, ~serial))
  <2>1. serial => AllDone(segs') \/ InState(segs', "Active") # {}
    BY <1>4, <1>5, StatesOfMap DEF Found
  <2> QED BY <1>1, <1>3, <1>5, <2>1, LetGoEnds
<1> QED BY <1>1, <1>3, <1>5, SendEnds

\* A step that leaves the staff alone.
LEMMA QuietEnds ==
    ASSUME CoordInv, EndInv, Running, Running', AtWork' => AtWork, ~Engaged,
           Engaged' => job'.then = "spawn",
           UNCHANGED <<wpc, slots, events, estimate, verdict, serial>>, allowed' \in Nat \ {0}
    PROVE  Ranged' /\ Sized' /\ Manned'
<1>1. \A v \in Workers : Reported(v)' <=> Reported(v)
  BY DEF Reported, News
<1>2. Manned'
  BY <1>1, StaffStays DEF EndInv
<1> QED BY <1>2 DEF EndInv, Ranged, Sized

\* The ramp fills the free slots; without an open channel nobody is at work, and
\* there is work or every segment is complete.
LEMMA RefillEnds ==
    ASSUME CoordInv, EndInv, Refill
    PROVE  EndInv'
<1> DEFINE m == Synced(segs)
           short == Cardinality(slots) < allowed
<1>0. /\ cpc = "refill"
      /\ UNCHANGED <<wpc, slots, events, estimate, verdict, allowed, serial, result, stopped>>
      /\ \/ HandOut(NextWork(m, TRUE), Least(Spare), "spawn", FALSE)
         \/ /\ ~short \/ ~Found(m, TRUE) \/ slots # {}
            /\ cpc' = IF slots = {} /\ ~AllDone(segs) THEN "join" ELSE "loop"
            /\ job' = job
  BY DEF Refill, policyVars, controlVars, workerVars, sharedVars, localVars
<1>1. /\ cpc = "refill"
      /\ UNCHANGED <<wpc, slots, events, estimate, verdict, allowed, serial, result, stopped>>
      /\ \/ cpc' = "persist" /\ job'.then = "spawn"
         \/ /\ ~short \/ ~Found(m, TRUE) \/ slots # {}
            /\ cpc' = IF slots = {} /\ ~AllDone(segs) THEN "join" ELSE "loop"
            /\ job' = job
  <2> HIDE DEF m, short
  <2> QED BY <1>0, HandOutSays
<1>2. Running /\ ~Engaged /\ job.then = "loop" /\ ~serial /\ result # "ok"
  BY <1>1, DeskFacts DEF Running, EndInv, Parallel, EndsDone
<1>3. /\ MapBelow(m, nextIdx) /\ InState(m, "Active") = InState(segs, "Active")
      /\ AllDone(m) <=> AllDone(segs)
  BY <1>2, SyncedStates
<1> HIDE DEF m
<1>4. allowed' \in Nat \ {0}
  BY <1>1 DEF EndInv, Sized
<1>5. CASE cpc' = "persist" /\ job'.then = "spawn"
  <2>1. Running' /\ (AtWork' => AtWork)
    BY <1>1, <1>5 DEF Running, AtWork
  <2>2. Ranged' /\ Sized' /\ Manned'
    BY <1>1, <1>2, <1>4, <1>5, <2>1, QuietEnds
  <2> QED BY <1>1, <1>2, <1>5, <2>2 DEF EndInv, Parallel, SerialGoes, RefillKnows, EndsDone
<1>6. CASE /\ ~short \/ ~Found(m, TRUE) \/ slots # {}
           /\ cpc' = IF slots = {} /\ ~AllDone(segs) THEN "join" ELSE "loop"
           /\ job' = job
  <2>1. slots = {} => AllDone(segs)
    <3> SUFFICES ASSUME slots = {} PROVE AllDone(m)
      BY <1>3
    <3>1. short
      BY FS_EmptySet DEF EndInv, Sized
    <3>2. InState(m, "Active") = {}
      BY <1>1, <1>3 DEF EndInv, RefillKnows
    <3> QED BY <1>3, <1>6, <3>1, <3>2, StatesOfMap DEF Found
  <2>2. cpc' = "loop"
    BY <1>6, <2>1
  <2>3. Running' /\ (AtWork' => AtWork) /\ ~Engaged'
    BY <1>1, <1>2, <1>6, <2>2 DEF Running, AtWork, Engaged
  <2>4. Ranged' /\ Sized' /\ Manned'
    BY <1>1, <1>2, <1>4, <2>3, QuietEnds
  <2> QED BY <1>1, <1>2, <2>2, <2>4 DEF EndInv, Parallel, SerialGoes, RefillKnows, EndsDone
<1> QED BY <1>1, <1>5, <1>6

\* The timer cuts a segment for the next worker.
LEMMA ProactiveSplitEnds ==
    ASSUME CoordInv, EndInv, ProactiveSplit
    PROVE  EndInv'
<1>1. /\ cpc = "loop" /\ ~stopped /\ ~serial
      /\ UNCHANGED <<wpc, slots, events, estimate, verdict, allowed, serial, result, stopped>>
      /\ \/ cpc' = "persist" /\ job'.then = "loop"
         \/ cpc' = cpc /\ job' = job
  BY DEF ProactiveSplit, Quiet, Looping, Job, policyVars, controlVars, workerVars, sharedVars,
         localVars
<1>2. Running /\ Running' /\ ~Engaged /\ ~Engaged' /\ (AtWork' => AtWork)
  BY <1>1, DeskFacts DEF Running, Engaged, AtWork
<1>3. allowed' \in Nat \ {0}
  BY <1>1 DEF EndInv, Sized
<1>4. Ranged' /\ Sized' /\ Manned'
  BY <1>1, <1>2, <1>3, QuietEnds
<1> QED BY <1>1, <1>4 DEF EndInv, Parallel, SerialGoes, RefillKnows, EndsDone

\* The ramp closes no slot of a worker that has work or a report: at the poll
\* nobody has a report, and the look at the workers is the same step.
LEMMA RampTickEnds ==
    ASSUME RampRace = FALSE, CoordInv, EndInv, RampTick
    PROVE  EndInv'
<1>1. /\ cpc = "loop" /\ ~stopped /\ events = <<>>
      /\ slots' = slots \ Gone(slots)
      /\ allowed' \in 1 .. MaxAllowed
      /\ cpc' = IF ~serial /\ ~AllDone(segs) /\ verdict = "supported" THEN "refill"
                ELSE IF slots' = {} /\ ~AllDone(segs) THEN "join" ELSE "loop"
      /\ UNCHANGED <<wpc, events, estimate, verdict, serial, result, stopped, segs, job>>
  BY DEF RampTick, Quiet, Looping, mapVars, workerVars, sharedVars, localVars
<1>2. Running /\ AtWork /\ ~Engaged /\ job.then = "loop"
  BY <1>1, DeskFacts DEF Running, AtWork
<1>3. verdict = "supported"
  BY <1>2 DEF EndInv, Ranged
<1>4. slots' = slots
  <2>1. ASSUME NEW v \in slots
        PROVE  wpc[v] # "gone"
    <3>1. v \in Workers /\ Staff(v)
      BY <1>2 DEF EndInv, Sized, Manned
    <3>2. ~Reported(v)
      BY <1>1 DEF Reported, News
    <3> QED BY <1>2, <3>1, <3>2 DEF Staff, Busy
  <2> QED BY <1>1, <2>1 DEF Gone
<1>5. slots' = {} => InState(segs, "Active") = {}
  BY <1>2, <1>4, NobodyIdle DEF EndInv
<1>6. cpc' # "join"
  BY <1>1, <1>2, <1>3, <1>5 DEF EndInv, SerialGoes
<1>7. Running' /\ ~Engaged' /\ (AtWork' => AtWork) /\ allowed' \in Nat \ {0}
  BY <1>1, <1>2 DEF Running, Engaged
<1>8. Ranged' /\ Sized' /\ Manned'
  BY <1>1, <1>2, <1>4, <1>7, QuietEnds
<1> QED BY <1>1, <1>2, <1>5, <1>6, <1>8 DEF EndInv, Parallel, SerialGoes, RefillKnows, EndsDone

\* The loop sees that the run is stopped.
LEMMA HandlePauseEnds ==
    ASSUME CoordInv, EndInv, HandlePause
    PROVE  EndInv'
<1>1. /\ Running /\ cpc' = "join" /\ result' \notin {"none", "ok"} /\ slots' = {}
      /\ UNCHANGED <<estimate, verdict, allowed>>
  BY DEF HandlePause, EndLoop, Running, policyVars, workerVars, sharedVars
<1>2. allowed' \in Nat \ {0}
  BY <1>1 DEF EndInv, Sized
<1> QED BY <1>1, <1>2, RunFails

\* The statement is executed or fails; with a merge given up the open stream is
\* still running.
LEMMA PersistEnds ==
    ASSUME CoordInv, EndInv, Persist
    PROVE  EndInv'
<1>1. /\ cpc = "persist"
      /\ UNCHANGED <<wpc, slots, events, estimate, verdict, allowed, serial, result, stopped, segs>>
      /\ \/ cpc' = "resume" /\ job' = job
         \/ cpc' = "loop" /\ job' = NoJob /\ job.then = "merged"
  BY DEF Persist, mapVars, policyVars, controlVars, sharedVars, localVars
<1>2. /\ Running /\ Running' /\ (AtWork' => AtWork)
      /\ \A v \in Workers : Reported(v)' <=> Reported(v)
  BY <1>1 DEF Running, AtWork, Reported, News
<1>3. \A v \in Workers : (Engaged /\ job.then # "spawn" /\ job.w = v)'
                            <=> (Engaged /\ job.then # "spawn" /\ job.w = v)
  BY <1>1 DEF Engaged, NoJob
<1>4. Manned'
  BY <1>1, <1>2, <1>3, StaffStays DEF EndInv
<1>5. job.then = "merged" => InState(segs, "Active") # {}
  BY <1>1 DEF CoordInv, JobSound
<1> QED BY <1>1, <1>2, <1>4, <1>5
        DEF EndInv, Ranged, Sized, Parallel, SerialGoes, RefillKnows, EndsDone

\* The handler goes on: a worker gets its work, or is in hand still.
LEMMA ContinueEnds ==
    ASSUME CoordInv, CoordInv', EndInv, Continue
    PROVE  EndInv'
<1>1. /\ cpc = "resume"
      /\ UNCHANGED <<events, estimate, verdict, allowed, serial, result, stopped>>
      /\ wpc' = IF Sending THEN [wpc EXCEPT ![job.w] = "assigned"] ELSE wpc
      /\ slots' = IF job.then = "spawn" THEN slots \cup {job.w} ELSE slots
      /\ cpc' = CASE job.then = "spawn" -> "refill"
                  [] job.then = "short" -> "dispatch"
                  [] job.then = "grown" -> "redispatch"
                  [] OTHER -> "loop"
      /\ job' = IF job.then \in {"short", "grown"} THEN [NoJob EXCEPT !.w = job.w]
                                                   ELSE NoJob
      /\ segs' = IF job.then = "merged" THEN Merge(segs, job.st.par, job.st.del) ELSE segs
  BY DEF Continue, Sending, policyVars
<1>2. /\ job.then \in {"loop", "send", "spawn", "short", "grown", "merged"}
      /\ wpc \in [Workers -> WorkerPCs]
      /\ Engaged => job.w \in Workers
  BY DEF CoordInv, Types, CoordTypes, WorkerTypes, ReportersRest
<1>3. job'.then = "loop" /\ (job.then \in {"short", "grown"} => job'.w = job.w)
  BY <1>1 DEF NoJob
<1>4. /\ Running /\ Running' /\ (AtWork' => AtWork) /\ result # "ok"
      /\ cpc' \in {"refill", "dispatch", "redispatch", "loop"}
      /\ cpc' = "refill" <=> job.then = "spawn"
      /\ cpc' \in {"dispatch", "redispatch"} <=> job.then \in {"short", "grown"}
  BY <1>1, <1>2 DEF Running, AtWork, EndInv, EndsDone
<1>5. Manned'
  <2> SUFFICES ASSUME AtWork, NEW v \in Workers
               PROVE  v \in slots' <=> Staff(v)'
    BY <1>4 DEF Manned
  <2>1. Reported(v)' <=> Reported(v)
    BY <1>1 DEF Reported, News
  <2>2. v \in slots <=> Staff(v)
    BY DEF EndInv, Manned
  <2>3. CASE Sending
    <3>1. Busy(v)' <=> Busy(v) \/ v = job.w
      BY <1>1, <1>2, <2>3 DEF Busy
    <3>2. ~Engaged'
      BY <1>3, <1>4, <2>3 DEF Engaged, Sending
    <3>3. Engaged
      BY <2>3 DEF Engaged, Sending
    <3> QED BY <1>1, <2>1, <2>2, <2>3, <3>1, <3>2, <3>3 DEF Staff, Sending
  <2>4. CASE ~Sending
    <3>1. Busy(v)' <=> Busy(v)
      BY <1>1, <2>4 DEF Busy
    <3>2. (Engaged /\ job.then # "spawn" /\ job.w = v)'
             <=> (Engaged /\ job.then # "spawn" /\ job.w = v)
      BY <1>1, <1>2, <1>3, <1>4, <2>4 DEF Engaged, Sending
    <3> QED BY <1>1, <2>1, <2>2, <2>4, <3>1, <3>2 DEF Staff, Sending
  <2> QED BY <2>3, <2>4
<1>6. slots' \subseteq Workers /\ IsFiniteSet(slots')
  <2>1. job.then = "spawn" => job.w \in Workers
    BY <1>2 DEF Engaged
  <2>2. IsFiniteSet(slots \cup {job.w})
    BY FS_AddElement DEF EndInv, Sized
  <2> QED BY <1>1, <2>1, <2>2 DEF EndInv, Sized
<1>7. ASSUME job.then \in {"merged", "send"}
      PROVE  InState(segs', "Active") # {}
  <2>1. CASE job.then = "send"
    BY <1>1, <2>1 DEF CoordInv, HoldersActive, Sending
  <2>2. CASE job.then = "merged"
    <3>1. /\ job.st.par \in InState(segs, "Active")
          /\ job.st.del = Absorbable(segs, job.st.par) /\ job.st.del # {}
      BY <1>1, <2>2 DEF CoordInv, JobSound
    <3>2. Sound(segs, nextIdx, total) /\ total \in Nat
      BY <1>4, MapIsSound
    <3>3. InState(segs', "Active") = InState(segs, "Active")
      <4> DEFINE p == job.st.par
                 A == job.st.del
      <4>1. p \in InState(segs, "Active") /\ A = Absorbable(segs, p) /\ A # {}
        BY <3>1
      <4>2. segs' = Merge(segs, p, A)
        BY <1>1, <2>2
      <4> HIDE DEF p, A
      <4>3. \A c : c = Merge(segs, p, A) =>
              /\ Sound(c, nextIdx, total) /\ DOMAIN c = DOMAIN segs \ A /\ p \in DOMAIN c
              /\ InState(c, "Active") = InState(segs, "Active")
              /\ \A i \in DOMAIN c : c[i].start = segs[i].start
        BY <3>2, <4>1, MergeKeeps
      <4> QED BY <4>2, <4>3
    <3> QED BY <3>1, <3>3
  <2> QED BY <1>7, <2>1, <2>2
<1>8. Parallel'
  BY <1>1, <1>3, <1>4 DEF EndInv, Parallel
<1>9. SerialGoes'
  BY <1>1, <1>2, <1>4, <1>7 DEF EndInv, Parallel, SerialGoes
<1>10. RefillKnows'
  BY <1>1, <1>4 DEF RefillKnows
<1> QED BY <1>1, <1>4, <1>5, <1>6, <1>8, <1>9, <1>10 DEF EndInv, Ranged, Sized, EndsDone

\* The map is verified with the progress of the workers in it, in the states it had.
LEMMA JoinEnds ==
    ASSUME CoordInv, EndInv, Join
    PROVE  EndInv'
<1>1. /\ cpc = "join" /\ cpc' = "ended"
      /\ UNCHANGED <<slots, estimate, verdict, allowed, serial, job>>
      /\ \/ result # "none" /\ segs' = segs /\ result' = result
         \/ result = "none" /\ segs' = Synced(segs) /\ result' \in {"ok", "incomplete"}
  BY DEF Join, policyVars, controlVars, sharedVars
<1>2. Running
  BY <1>1 DEF Running
<1>3. result # "ok" /\ (result = "none" => AllDone(segs))
  BY <1>1 DEF EndInv, EndsDone
<1>4. AllDone(Synced(segs)) <=> AllDone(segs)
  BY <1>2, SyncedStates
<1> QED BY <1>1, <1>2, <1>3, <1>4 DEF EndInv, Ranged, Sized, Manned, AtWork, Parallel, SerialGoes,
                                      RefillKnows, EndsDone, Running

\* The user pauses, or the process dies.
LEMMA InterruptedEnds ==
    ASSUME EndInv, Pause \/ Restart
    PROVE  EndInv'
<1>1. CASE Pause
  BY <1>1 DEF Pause, mapVars, policyVars, workerVars, sharedVars, EndInv, Ranged, Sized, Manned,
              AtWork, Parallel, SerialGoes, RefillKnows, EndsDone, Running
<1>2. CASE Restart
  <2>1. IsFiniteSet({}) /\ 1 \in Nat \ {0}
    BY FS_EmptySet
  <2> QED BY <1>2, <2>1 DEF Restart, EndInv, Ranged, Sized, Manned, AtWork, Parallel, SerialGoes,
                           RefillKnows, EndsDone, Running
<1> QED BY <1>1, <1>2

-----------------------------------------------------------------------------

\* The state of the coordinator stands, and so does the staff.
LEMMA StandsStill ==
    ASSUME EndInv, UNCHANGED <<cpc, segs, job, result, allowed, serial, slots, stopped, estimate,
                               verdict>>,
           AtWork => \A v \in Workers : Busy(v)' \/ Reported(v)' <=> Busy(v) \/ Reported(v)
    PROVE  EndInv'
<1>1. Engaged' <=> Engaged
  BY DEF Engaged
<1>2. AtWork' <=> AtWork
  BY DEF AtWork
<1>3. Manned'
  BY <1>1, <1>2 DEF EndInv, Manned, Staff
<1> QED BY <1>3 DEF EndInv, Ranged, Sized, Parallel, SerialGoes, RefillKnows, EndsDone, Running

\* A step of worker w that says nothing and keeps its segment, unless the run is
\* stopped.
LEMMA GoesOnStaff ==
    ASSUME wpc \in [Workers -> WorkerPCs], NEW w \in Workers, NEW p, Goto(w, p), events' = events,
           Busy(w) <=> p \notin {"gone", "wait"}
    PROVE  \A v \in Workers : Busy(v)' \/ Reported(v)' <=> Busy(v) \/ Reported(v)
<1>1. \A v \in Workers : Busy(v)' <=> Busy(v)
  BY DEF Goto, Busy
<1>2. \A v \in Workers : Reported(v)' <=> Reported(v)
  BY DEF Reported, News
<1> QED BY <1>1, <1>2

\* A worker that reports has no segment, but a report that waits.
LEMMA ReportStaff ==
    ASSUME CoordInv, NEW w \in Workers, Busy(w), NEW kind \in EventKinds \ Verdicts, NEW n \in Nat,
           NEW next \in {"wait", "gone"}, Report(w, Event(kind, w, asg[w].idx, n), next)
    PROVE  \A v \in Workers : Busy(v)' \/ Reported(v)' <=> Busy(v) \/ Reported(v)
<1> DEFINE e == Event(kind, w, asg[w].idx, n)
<1>1. e \in EventRecs /\ e.kind = kind /\ e.w = w
  BY BusyWorker, WorkersAssumption DEF Event, EventRecs
<1>2. events' = Append(events, e) /\ wpc' = [wpc EXCEPT ![w] = next]
  BY DEF Report, Send
<1> HIDE DEF e
<1>3. events \in Seq(EventRecs) /\ wpc \in [Workers -> WorkerPCs]
  BY PartsTyped
<1>4. \A v \in Workers : Reported(v)' <=> Reported(v) \/ v = w
  BY <1>1, <1>2, <1>3, ReportAdded
<1>5. \A v \in Workers : Busy(v)' <=> Busy(v) /\ v # w
  BY <1>2, <1>3 DEF Busy
<1> QED BY <1>4, <1>5

\* So it is of an attempt that failed,
LEMMA FailureStaff ==
    ASSUME CoordInv, NEW w \in Workers, Busy(w), NEW kind \in EventKinds \ Verdicts, NEW n \in Nat,
           ReportFailed(w, kind, n)
    PROVE  \A v \in Workers : Busy(v)' \/ Reported(v)' <=> Busy(v) \/ Reported(v)
<1>1. \/ \E next \in {"wait", "gone"} : Report(w, Event(kind, w, asg[w].idx, n), next)
      \/ Report(w, Event("node", w, asg[w].idx, 0), "wait")
  BY DEF ReportFailed
<1>2. CASE \E next \in {"wait", "gone"} : Report(w, Event(kind, w, asg[w].idx, n), next)
  BY <1>2, ReportStaff
<1>3. CASE Report(w, Event("node", w, asg[w].idx, 0), "wait")
  <2>1. \A k, z, next : k = "node" /\ z = 0 /\ next = "wait" =>
          k \in EventKinds \ Verdicts /\ z \in Nat /\ next \in {"wait", "gone"}
          /\ Report(w, Event(k, w, asg[w].idx, z), next)
    BY <1>3 DEF EventKinds, Verdicts
  <2> QED BY <2>1, ReportStaff
<1> QED BY <1>1, <1>2, <1>3

\* and of a segment that is done.
LEMMA DoneStaff ==
    ASSUME CoordInv, NEW w \in Workers, Busy(w), NEW d \in Nat, ReportDone(w, d)
    PROVE  \A v \in Workers : Busy(v)' \/ Reported(v)' <=> Busy(v) \/ Reported(v)
<1>1. \A k, next : k = "done" /\ next = "wait" =>
        k \in EventKinds \ Verdicts /\ next \in {"wait", "gone"}
        /\ Report(w, Event(k, w, asg[w].idx, d), next)
  BY DEF EventKinds, Verdicts, ReportDone
<1> QED BY <1>1, ReportStaff

\* In a run of a probed size no response rules on Range any more.
LEMMA RuledAlready ==
    ASSUME CoordInv, Ranged, NEW w \in Workers, NEW v, Rule(w, v)
    PROVE  FALSE
<1>1. Busy(w) /\ verdict = "unknown"
  BY DEF Rule, Requesting, Busy
<1>2. InState(segs, "Active") # {}
  BY <1>1 DEF CoordInv, HoldersActive
<1>3. Running
  BY <1>2 DEF CoordInv, Types, CoordTypes, InState
<1> QED BY <1>1, <1>3 DEF Ranged

\* What is known of the server, and what the coordinator controls, is not the
\* workers' to change.
LEMMA VerdictStands ==
    ASSUME CoordInv, Ranged, NEW w \in Workers, WorkerProgress(w) \/ WorkerFault(w)
    PROVE  UNCHANGED <<controlVars, verdict>>
<1>1. \A v : ~Rule(w, v)
  BY RuledAlready
<1>2. CASE WorkerProgress(w)
  BY <1>1, <1>2 DEF WorkerProgress, Receive, AlreadyComplete, Accepted, Read, Write, StreamEnds,
                    FinishSegment, Retry, GiveUp, Cancelled, Retire, sharedVars
<1>3. CASE WorkerFault(w)
  BY <1>3 DEF WorkerFault, RequestFails, RangeIgnored, Replaced, TrueSizeLarger, StreamBreaks,
              sharedVars
<1> QED BY <1>2, <1>3

\* While the run goes on, a worker keeps its segment or reports it.
LEMMA WorkerStaff ==
    ASSUME CoordInv, Ranged, ~stopped, NEW w \in Workers, WorkerProgress(w) \/ WorkerFault(w)
    PROVE  \A v \in Workers : Busy(v)' \/ Reported(v)' <=> Busy(v) \/ Reported(v)
<1> DEFINE Same == \A v \in Workers : Busy(v)' \/ Reported(v)' <=> Busy(v) \/ Reported(v)
           Moves == \E p : Goto(w, p) /\ events' = events /\ (Busy(w) <=> p \notin {"gone", "wait"})
           Done == Busy(w) /\ \E d \in Nat : ReportDone(w, d)
           Fails == Busy(w) /\ \E k \in EventKinds \ Verdicts, n \in Nat : ReportFailed(w, k, n)
<1>1. Moves => Same
  <2>1. wpc \in [Workers -> WorkerPCs]
    BY PartsTyped
  <2> QED BY <2>1, GoesOnStaff
<1>2. Done => Same
  BY DoneStaff
<1>3. Fails => Same
  BY FailureStaff
<1>5. Receive(w) => Moves
  BY DEF Receive, sharedVars, Busy
<1>6. AlreadyComplete(w) => Done
  <2> SUFFICES ASSUME AlreadyComplete(w)
               PROVE  Done
    OBVIOUS
  <2>1. Busy(w) /\ ReportDone(w, asg[w].end - asg[w].start + 1)
    BY DEF AlreadyComplete, Busy
  <2>2. asg[w].end - asg[w].start + 1 \in Nat
    BY <2>1, BusyWorker
  <2> QED BY <2>1, <2>2
<1>7. Accepted(w) \/ Read(w) \/ Write(w) \/ StreamEnds(w) \/ StreamBreaks(w) => Moves
  BY DEF Accepted, Answered, Requesting, Read, Write, StreamEnds, StreamBreaks, sharedVars, Busy
<1>8. FinishSegment(w) => Done
  <2> SUFFICES ASSUME FinishSegment(w)
               PROVE  Done
    OBVIOUS
  <2>1. Busy(w) /\ ReportDone(w, got[w])
    BY DEF FinishSegment, Busy
  <2> QED BY <2>1, BusyWorker
<1>9. Retry(w) => Moves \/ Done
  <2> SUFFICES ASSUME Retry(w)
               PROVE  Moves \/ Done
    OBVIOUS
  <2>1. /\ Busy(w)
        /\ \/ Goto(w, "request") /\ events' = events
           \/ asg[w].idx \in DOMAIN rows /\ ReportDone(w, rows[asg[w].idx].dl)
    BY DEF Retry, Busy
  <2>2. CASE Goto(w, "request") /\ events' = events
    BY <2>1, <2>2
  <2>3. CASE asg[w].idx \in DOMAIN rows /\ ReportDone(w, rows[asg[w].idx].dl)
    <3>1. rows[asg[w].idx].dl \in Nat
      BY <2>1, <2>3, BusyWorker DEF RowRecs
    <3> QED BY <2>1, <2>3, <3>1
  <2> QED BY <2>1, <2>2, <2>3
<1>10. ~Cancelled(w)
  BY DEF Cancelled
<1>11. Retire(w) => Moves
  BY DEF Retire, sharedVars, Busy
<1>12. GiveUp(w) \/ RequestFails(w) \/ RangeIgnored(w) \/ Replaced(w) => Moves \/ Fails
  <2> SUFFICES ASSUME GiveUp(w) \/ RequestFails(w) \/ RangeIgnored(w) \/ Replaced(w)
               PROVE  Moves \/ Fails
    OBVIOUS
  <2>1. /\ Busy(w)
        /\ \/ ReportFailed(w, "norange", 0) \/ ReportFailed(w, "broken", 0)
           \/ ReportFailed(w, "refused", 0) \/ ReportFailed(w, "replaced", 0)
           \/ (Goto(w, "retry") \/ Goto(w, "rangeRetry")) /\ events' = events
    BY DEF GiveUp, RequestFails, RangeIgnored, Replaced, Answered, Requesting, Busy
  <2>2. {"norange", "broken", "refused", "replaced"} \subseteq EventKinds \ Verdicts
    BY DEF EventKinds, Verdicts
  <2> QED BY <2>1, <2>2
<1>13. ASSUME NEW n \in 1 .. MaxTotal, TrueSizeLarger(w, n)
       PROVE  Fails
  <2>1. Busy(w) /\ ReportFailed(w, "larger", n)
    BY <1>13 DEF TrueSizeLarger, Answered, Requesting, Busy
  <2>2. "larger" \in EventKinds \ Verdicts /\ n \in Nat
    BY DEF EventKinds, Verdicts
  <2> QED BY <2>1, <2>2
<1>14. \A v : ~Rule(w, v)
  BY RuledAlready
<1> HIDE DEF Same, Moves, Done, Fails
<1>15. Same
  BY <1>1, <1>2, <1>3, <1>5, <1>6, <1>7, <1>8, <1>9, <1>10, <1>11, <1>12, <1>13, <1>14
     DEF WorkerProgress, WorkerFault
<1> QED BY <1>15 DEF Same

\* A step of a worker.
LEMMA WorkersEnd ==
    ASSUME CoordInv, EndInv, NEW w \in Workers, WorkerProgress(w) \/ WorkerFault(w), CoordUnchanged
    PROVE  EndInv'
<1>1. UNCHANGED <<cpc, segs, job, result, allowed, serial, slots, stopped, estimate, verdict>>
  BY VerdictStands DEF EndInv, CoordUnchanged, mapVars, policyVars, controlVars
<1>2. AtWork => \A v \in Workers : Busy(v)' \/ Reported(v)' <=> Busy(v) \/ Reported(v)
  BY WorkerStaff DEF EndInv, AtWork
<1> QED BY <1>1, <1>2, StandsStill

\* A step that only writes to the rows.
LEMMA RowsEnd ==
    ASSUME EndInv, (\E w \in Workers : DrainProgress(w)) \/ LateCommit \/ UNCHANGED vars
    PROVE  EndInv'
<1>1. /\ UNCHANGED <<cpc, segs, job, result, allowed, serial, slots, stopped, estimate, verdict>>
      /\ UNCHANGED <<wpc, events>>
  BY DEF DrainProgress, LateCommit, vars, mapVars, policyVars, controlVars, workerVars, sharedVars,
         localVars
<1>2. \A v \in Workers : Busy(v)' \/ Reported(v)' <=> Busy(v) \/ Reported(v)
  BY <1>1 DEF Busy, Reported, News
<1> QED BY <1>1, <1>2, StandsStill

\* Every step keeps the invariant, where the ramp timer looks at the workers in
\* the step that found the channel empty.
LEMMA StepEnds ==
    ASSUME RampRace = FALSE, CoordInv, CoordInv', EndInv, [CoordNext]_vars
    PROVE  EndInv'
<1>1. CASE CoordStep
  BY <1>1, StartEnds, ResumeEnds, PersistEnds, ContinueEnds, HandleEventEnds, DispatchEnds,
     RedispatchEnds, RampTickEnds, RefillEnds, HandlePauseEnds, JoinEnds DEF CoordStep, RampPoll
<1>2. CASE ProactiveSplit
  BY <1>2, ProactiveSplitEnds
<1>3. CASE \E w \in Workers : (WorkerProgress(w) \/ WorkerFault(w)) /\ CoordUnchanged
  BY <1>3, WorkersEnd
<1>4. CASE (\E w \in Workers : DrainProgress(w)) \/ LateCommit \/ UNCHANGED vars
  BY <1>4, RowsEnd
<1>5. CASE Pause \/ Restart
  BY <1>5, InterruptedEnds
<1> QED BY <1>1, <1>2, <1>3, <1>4, <1>5 DEF CoordNext, Ended

\* The invariant holds before the first run.
LEMMA InitEnds ==
    ASSUME CoordInit, \A s \in Starts : ~s.hint
    PROVE  EndInv
<1>1. IsFiniteSet({}) /\ 1 \in Nat \ {0}
  BY FS_EmptySet
<1>2. /\ cpc = "start" /\ job = NoJob /\ result = "none" /\ allowed = 1 /\ serial = FALSE
      /\ slots = {} /\ ~estimate
  BY DEF CoordInit
<1> QED BY <1>1, <1>2 DEF EndInv, Ranged, Sized, Manned, AtWork, Parallel, SerialGoes, RefillKnows,
                         EndsDone, Running

\* Whoever reports success has the file, in a state the invariants describe.
LEMMA EndedWhole == CoordInv /\ BytesInv /\ EndInv => SuccessMeansWritten
<1> SUFFICES ASSUME CoordInv, BytesInv, EndInv, result = "ok", NEW b \in 0 .. total - 1
             PROVE  b \in written
  BY DEF SuccessMeansWritten
<1>1. Running /\ AllDone(segs)
  BY DEF EndInv, EndsDone, Running
<1>2. PICK i \in DOMAIN segs : b \in Bytes(segs[i])
  BY <1>1 DEF CoordInv, Mapped, IsPartition
<1>3. i \in InState(segs, "Completed")
  BY <1>1, <1>2 DEF AllDone
<1>4. Bytes(segs[i]) \subseteq written
  BY <1>3 DEF BytesInv, SegsWritten, MapHas, InState
<1> QED BY <1>2, <1>4

\* A run that reports success has the whole file: its loop ends without an error
\* only when every segment is complete, as no channel is closed while its worker
\* has a segment or a report to make.  The size was probed, and the ramp timer
\* looks at the workers in the step that found the channel empty; otherwise a
\* loop may end early, and the verdict is that of the sum of the counters
\* (run_coordinated_download).
THEOREM SuccessMeansWrittenHolds ==
    ASSUME LateStatements = FALSE, RampRace = FALSE, \A s \in Starts : ~s.hint
    PROVE  CoordSpec => []SuccessMeansWritten
<1>1. CoordInit => EndInv
  BY InitEnds
<1>2. CoordInv /\ CoordInv' /\ EndInv /\ [CoordNext]_vars => EndInv'
  BY StepEnds
<1>3. CoordInv /\ BytesInv /\ EndInv => SuccessMeansWritten
  BY EndedWhole
<1> QED BY <1>1, <1>2, <1>3, BytesInvHolds, PTL DEF CoordSpec

\* Where statements may come late, that holds until one has.
THEOREM SuccessMeansWrittenUnlessAstray ==
    ASSUME RampRace = FALSE, \A s \in Starts : ~s.hint
    PROVE  CoordSpec => [](astray \/ SuccessMeansWritten)
<1>1. CoordInit => EndInv
  BY InitEnds
<1>2. /\ astray \/ (CoordInv /\ EndInv)
      /\ (astray \/ (CoordInv /\ BytesInv))'
      /\ [CoordNext]_vars
      => (astray \/ (CoordInv /\ EndInv))'
  BY StepEnds, StepsAstray
<1>3. CoordInit => CoordInv
  BY InitHolds
<1>4. (astray \/ (CoordInv /\ BytesInv)) /\ (astray \/ (CoordInv /\ EndInv))
        => astray \/ SuccessMeansWritten
  BY EndedWhole
<1> QED BY <1>1, <1>2, <1>3, <1>4, BytesInvUnlessAstray, PTL DEF CoordSpec

(***************************************************************************)
(* Serial mode.  A handler gives out a segment when no other is active;    *)
(* the repetition of a plain stream does not ask, but until a byte of the  *)
(* first segment is counted one worker at most is at work.                 *)
(***************************************************************************)

\* The first segment is not complete, and nothing of it is counted.
Untouched ==
    \E i \in DOMAIN segs :
        /\ segs[i].start = 0 /\ segs[i].st # "Completed"
        /\ segs[i].dl = 0 \/ (i \in DOMAIN shared /\ shared[i].dl = 0)

\* A worker that has reported is about to get other work.
AtDesk == cpc \in {"dispatch", "redispatch"} \/ job.then \in {"short", "grown"}

\* While Range is not known to work and the first segment is untouched, one worker
\* at most has a segment.
Alone ==
    Running /\ verdict # "supported" /\ Untouched =>
        /\ \A i, j \in InState(segs, "Active") : i = j
        /\ AtDesk => InState(segs, "Active") = {}

\* A run begins in parallel mode, and the ramp spawns workers in no other.
Begins == cpc \in {"start", "rebuild"} => ~serial
Ramps == cpc = "refill" \/ job.then = "spawn" => ~serial /\ verdict = "supported"

\* A chunk has a byte.
Chunks == \A w \in Workers : wpc[w] = "write" => chunk[w].len > 0

\* The inductive invariant of serial mode, and what a step does in it.
SerialInv == Alone /\ Begins /\ Ramps /\ Chunks
Lonely ==
    serial /\ serial' =>
        \/ InState(segs', "Active") \subseteq InState(segs, "Active")
        \/ InState(segs, "Active") = {} /\ Cardinality(InState(segs', "Active")) <= 1

\* What starts at byte 0 in map m, and is not complete, is the first segment, with
\* the progress the map or its worker counts.
Descends(m) ==
    \A i \in DOMAIN m :
        m[i].start = 0 /\ m[i].st # "Completed" =>
            /\ i \in DOMAIN segs /\ segs[i].start = 0 /\ segs[i].st # "Completed"
            /\ \/ m[i].dl = segs[i].dl
               \/ i \in DOMAIN shared /\ m[i].dl = shared[i].dl

-----------------------------------------------------------------------------

\* No segment but the first starts at byte 0, whatever the map becomes.
LEMMA NewNotAtZero ==
    ASSUME NEW t \in Nat \ {0}, NEW n, NEW m, Sound(m, n, t),
           NEW u \in Nat, NEW k, NEW c, Sound(c, k, u), Carried(m, c),
           NEW i \in DOMAIN c, c[i].start = 0
    PROVE  i \in DOMAIN m /\ m[i].start = 0
<1>1. t \in Nat /\ 0 \in 0 .. t - 1
  OBVIOUS
<1>2. PICK j \in DOMAIN m : 0 \in Bytes(m[j])
  BY <1>1 DEF Sound, IsPartition
<1>3. m[j] \in SegRecs /\ 0 <= m[j].start
  BY <1>1, SoundSegment
<1>4. m[j].start = 0
  BY <1>2, <1>3 DEF Bytes, SegRecs
<1>5. j \in DOMAIN c /\ c[j].start = 0
  BY <1>4 DEF Carried
<1>6. \A x \in {i, j} : c[x] \in SegRecs /\ c[x].start <= c[x].end
  BY <1>5, SoundSegment
<1>7. 0 \in Bytes(c[i]) /\ 0 \in Bytes(c[j])
  BY <1>5, <1>6 DEF Bytes, SegRecs
<1>8. i = j
  BY <1>5, <1>7 DEF Sound, IsPartition
<1> QED BY <1>4, <1>8

\* The map itself, and with the progress of the workers in it.
LEMMA MapDescends ==
    ASSUME NEW n, MapBelow(segs, n), NEW m, m = segs \/ m = Synced(segs)
    PROVE  Descends(m)
<1>1. CASE m = segs
  BY <1>1 DEF Descends
<1>2. CASE m = Synced(segs)
  <2>1. DOMAIN m = DOMAIN segs
    BY <1>2 DEF Synced
  <2>2. ASSUME NEW i \in DOMAIN segs
        PROVE  /\ m[i].start = segs[i].start /\ m[i].st = segs[i].st
               /\ m[i].dl = segs[i].dl \/ (i \in DOMAIN shared /\ m[i].dl = shared[i].dl)
    BY <1>2 DEF Synced, MapBelow, SegRecs
  <2> QED BY <2>1, <2>2 DEF Descends
<1> QED BY <1>1, <1>2

\* So is a map in which a segment changed state that was not complete.
LEMMA SetStateDescends ==
    ASSUME NEW n, NEW m, MapBelow(m, n), Descends(m),
           NEW i \in DOMAIN m, m[i].st # "Completed", NEW st, NEW c, c = SetState(m, i, st)
    PROVE  Descends(c)
<1>1. DOMAIN c = DOMAIN m
  BY DEF SetState
<1>2. ASSUME NEW j \in DOMAIN m
      PROVE  /\ c[j].start = m[j].start /\ c[j].dl = m[j].dl
             /\ c[j].st # "Completed" => m[j].st # "Completed"
  BY DEF SetState, MapBelow, SegRecs
<1> QED BY <1>1, <1>2 DEF Descends

\* So is a map in which a segment was completed.
LEMMA FinishDescends ==
    ASSUME NEW n, NEW m, MapBelow(m, n), Descends(m),
           NEW i \in DOMAIN m, NEW d, NEW c, c = Finish(m, i, d)
    PROVE  Descends(c)
<1>1. DOMAIN c = DOMAIN m
  BY DEF Finish
<1>2. ASSUME NEW j \in DOMAIN m, c[j].st # "Completed"
      PROVE  c[j] = m[j]
  BY <1>2 DEF Finish, MapBelow, SegRecs
<1> QED BY <1>1, <1>2 DEF Descends

\* So is a map with one more segment.
LEMMA CutDescends ==
    ASSUME NEW t \in Nat \ {0}, NEW n, NEW m, Sound(m, n, t), Descends(m),
           NEW p \in DOMAIN m, NEW at, NEW st, NEW c, c = Cut(m, p, at, n, st),
           Sound(c, n + 1, t), Carried(m, c)
    PROVE  Descends(c)
<1>1. t \in Nat /\ n \notin DOMAIN m
  BY DEF Sound, MapBelow
<1>2. \A j \in DOMAIN c : c[j].start = 0 => j \in DOMAIN m /\ m[j].start = 0
  BY <1>1, NewNotAtZero
<1>3. ASSUME NEW j \in DOMAIN m
      PROVE  c[j].st = m[j].st /\ c[j].dl = m[j].dl
  <2>1. c[j] = IF j = p THEN [m[p] EXCEPT !.end = at - 1] ELSE m[j]
    BY <1>1 DEF Cut
  <2>2. m[j] \in SegRecs
    BY DEF Sound, MapBelow
  <2> QED BY <2>1, <2>2 DEF SegRecs
<1> QED BY <1>2, <1>3 DEF Descends

\* And behind the end of the file.
LEMMA GrowDescends ==
    ASSUME NEW t \in Nat \ {0}, NEW n, NEW m, Sound(m, n, t), Descends(m),
           NEW u \in Nat, NEW c, c = Grow(m, n, t, u), Sound(c, n + 1, u), Carried(m, c)
    PROVE  Descends(c)
<1>1. n \notin DOMAIN m
  BY DEF Sound, MapBelow
<1>2. \A j \in DOMAIN c : c[j].start = 0 => j \in DOMAIN m /\ m[j].start = 0
  BY NewNotAtZero
<1>3. \A j \in DOMAIN m : c[j] = m[j]
  BY <1>1 DEF Grow
<1> QED BY <1>2, <1>3 DEF Descends

\* And where what a worker left is cut off.
LEMMA ShortfallDescends ==
    ASSUME NEW t \in Nat \ {0}, NEW n, NEW m, Sound(m, n, t), Descends(m),
           NEW i \in DOMAIN m, NEW d, NEW c, c = Shortfall(m, i, d, n),
           Sound(c, n + 1, t), Carried(m, c)
    PROVE  Descends(c)
<1>1. t \in Nat /\ n \notin DOMAIN m
  BY DEF Sound, MapBelow
<1>2. \A j \in DOMAIN c : c[j].start = 0 => j \in DOMAIN m /\ m[j].start = 0
  BY <1>1, NewNotAtZero
<1> DEFINE q == [m EXCEPT ![i].dl = d, ![i].st = "Completed"]
           at == m[i].start + d
<1>3. m[i] \in SegRecs
  BY DEF Sound, MapBelow
<1>4. /\ DOMAIN q = DOMAIN m /\ \A j \in DOMAIN m \ {i} : q[j] = m[j]
      /\ q[i] = [m[i] EXCEPT !.dl = d, !.st = "Completed"]
  OBVIOUS
<1>5. c = Cut(q, i, at, n, "Pending")
  BY DEF Shortfall
<1> HIDE DEF q, at
<1>6. \A j \in DOMAIN m : c[j] = IF j = i THEN [q[i] EXCEPT !.end = at - 1] ELSE m[j]
  BY <1>1, <1>4, <1>5 DEF Cut
<1>7. c[i].st = "Completed"
  <2>1. c[i] = [[m[i] EXCEPT !.dl = d, !.st = "Completed"] EXCEPT !.end = at - 1]
    BY <1>4, <1>6
  <2> QED BY <1>3, <2>1 DEF SegRecs
<1>8. \A j \in DOMAIN m : c[j].st # "Completed" => c[j] = m[j]
  BY <1>6, <1>7
<1> QED BY <1>2, <1>8 DEF Descends

\* Or with fewer.
LEMMA MergeDescends ==
    ASSUME NEW n, NEW m, MapBelow(m, n), Descends(m), NEW o, NEW A, NEW c, c = Merge(m, o, A)
    PROVE  Descends(c)
<1>1. DOMAIN c \subseteq DOMAIN m
  BY DEF Merge
<1>2. ASSUME NEW j \in DOMAIN c
      PROVE  c[j].start = m[j].start /\ c[j].st = m[j].st /\ c[j].dl = m[j].dl
  <2>1. m[j] \in SegRecs
    BY <1>1 DEF MapBelow
  <2>2. c[j] = IF j = o THEN [m[j] EXCEPT !.end = MergedEnd(m, A)] ELSE m[j]
    BY DEF Merge
  <2> QED BY <2>1, <2>2 DEF SegRecs
<1> QED BY <1>1, <1>2 DEF Descends

\* A first segment that was touched stays so.
LEMMA StaysTouched ==
    ASSUME Descends(segs'),
           \A i \in DOMAIN shared' : shared'[i].dl = 0 =>
               \/ i \in DOMAIN shared /\ shared[i].dl = 0
               \/ i \in DOMAIN segs' /\ segs'[i].dl = 0
    PROVE  Untouched' => Untouched
BY DEF Descends, Untouched

\* So is a map in which a segment was split, and one from which work is handed out.
LEMMA SplitDescends ==
    ASSUME NEW t \in Nat \ {0}, NEW n, NEW m, Sound(m, n, t), Descends(m), CanSplit(m),
           NEW st \in States, NEW c, c = Split(m, n, st)
    PROVE  Descends(c)
<1>1. t \in Nat
  OBVIOUS
<1>2. Sound(c, n + 1, t) /\ Carried(m, c) /\ LargestActive(m) \in InState(m, "Active")
  BY <1>1, SplitKeeps
<1>3. PICK p, at : p = LargestActive(m) /\ at = SplitPoint(m[LargestActive(m)])
  OBVIOUS
<1>4. p \in DOMAIN m /\ c = Cut(m, p, at, n, st)
  BY <1>2, <1>3 DEF Split, InState
<1> QED BY <1>2, <1>4, CutDescends

LEMMA NextWorkDescends ==
    ASSUME NEW t \in Nat \ {0}, NEW m, Sound(m, nextIdx, t), Descends(m),
           NEW split \in BOOLEAN, Found(m, split), NEW f, f = NextWork(m, split)
    PROVE  Descends(f.m)
<1>1. CASE InState(m, "Pending") # {}
  <2>1. PICK i : i = Least(InState(m, "Pending"))
    OBVIOUS
  <2>2. f.m = SetState(m, i, "Active")
    BY <1>1, <2>1 DEF NextWork
  <2>3. i \in DOMAIN m /\ m[i].st # "Completed"
    <3>1. InState(m, "Pending") \in SUBSET Nat
      BY SoundSegment DEF InState
    <3>2. i \in InState(m, "Pending")
      BY <1>1, <2>1, <3>1, LeastIsMin
    <3> QED BY <3>2 DEF InState
  <2>4. \A x : x = SetState(m, i, "Active") => Descends(x)
    BY <2>3, SetStateDescends DEF Sound
  <2> QED BY <2>2, <2>4
<1>2. CASE InState(m, "Pending") = {}
  <2>1. CanSplit(m)
    BY <1>2 DEF Found
  <2>2. f.m = Split(m, nextIdx, "Active")
    BY <1>2 DEF NextWork
  <2>3. "Active" \in States
    BY DEF States
  <2>4. \A x : x = Split(m, nextIdx, "Active") => Descends(x)
    BY <2>1, <2>3, SplitDescends
  <2> QED BY <2>2, <2>4
<1> QED BY <1>1, <1>2

-----------------------------------------------------------------------------

\* What keeps one worker alone: as long as the first segment was untouched before,
\* segments only stop being active,
Aging == Untouched' /\ verdict' # "supported" => Untouched /\ verdict # "supported"

\* which is so where the map descends from the one before,
LEMMA HandlerAges ==
    ASSUME Descends(segs'), UNCHANGED <<shared, verdict>>
    PROVE  Aging
<1>1. Untouched' => Untouched
  BY StaysTouched
<1> QED BY <1>1 DEF Aging

\* and the workers only lose segments,
LEMMA Shrinks ==
    ASSUME Alone, Running, Aging, InState(segs', "Active") \subseteq InState(segs, "Active"),
           AtDesk' => \/ AtDesk
                      \/ \E i \in InState(segs, "Active") :
                            InState(segs', "Active") \subseteq InState(segs, "Active") \ {i}
    PROVE  Alone' /\ Lonely
<1>1. SUFFICES ASSUME verdict' # "supported", Untouched'
               PROVE  /\ \A i, j \in InState(segs', "Active") : i = j
                      /\ AtDesk' => InState(segs', "Active") = {}
  BY DEF Alone, Lonely
<1>2. /\ \A i, j \in InState(segs, "Active") : i = j
      /\ AtDesk => InState(segs, "Active") = {}
  BY <1>1 DEF Aging, Alone
<1> QED BY <1>2

\* or the handler at the desk starts one.
LEMMA StartsOne ==
    ASSUME Alone, Running, AtDesk, ~AtDesk', Aging, NEW i,
           InState(segs', "Active") \subseteq InState(segs, "Active") \cup {i},
           serial => \/ InState(segs, "Active") = {}
                     \/ verdict # "supported" /\ Untouched
    PROVE  Alone' /\ Lonely
<1>1. ASSUME InState(segs, "Active") = {}
      PROVE  /\ \A x, y \in InState(segs', "Active") : x = y
             /\ Cardinality(InState(segs', "Active")) <= 1
  <2>1. \A x, y \in InState(segs', "Active") : x = y
    BY <1>1
  <2> QED BY <2>1, AtMostOne
<1>2. verdict # "supported" /\ Untouched => InState(segs, "Active") = {}
  BY DEF Alone
<1>3. Alone'
  BY <1>1, <1>2 DEF Alone, Aging
<1>4. Lonely
  BY <1>1, <1>2 DEF Lonely
<1> QED BY <1>3, <1>4

-----------------------------------------------------------------------------

\* A step of the coordinator during a run that is none of the ramp's.
LEMMA StepSerial ==
    ASSUME SerialInv, Running', Alone' /\ Lonely, UNCHANGED <<wpc, chunk>>,
           cpc' # "refill", job'.then # "spawn"
    PROVE  SerialInv' /\ Lonely
BY DEF SerialInv, Begins, Ramps, Chunks, Running

\* A report is taken from the channel, and its segment is not active any more.
LEMMA ReportSerial ==
    ASSUME CoordInv, SerialInv, NEW kinds, Handling(kinds), kinds \cap Verdicts = {},
           Descends(segs'), InState(segs', "Active") = InState(segs, "Active") \ {Head(events).idx},
           UNCHANGED <<shared, verdict, wpc, chunk>>, Running', cpc' # "refill", job'.then # "spawn"
    PROVE  SerialInv' /\ Lonely
<1>1. Running /\ Head(events).idx \in InState(segs, "Active")
  BY ReportAtHead
<1>2. Alone' /\ Lonely
  BY <1>1, HandlerAges, Shrinks DEF SerialInv
<1> QED BY <1>2, StepSerial

\* A map in the run, and what it descends from.
LEMMA RunningMap ==
    ASSUME CoordInv, Running
    PROVE  /\ Sound(segs, nextIdx, total) /\ total \in Nat \ {0} /\ total \in Nat /\ Descends(segs)
           /\ \A m : m = Synced(segs) => Sound(m, nextIdx, total) /\ Descends(m)
<1>1. Sound(segs, nextIdx, total) /\ total \in Nat \ {0} /\ total \in Nat
  BY MapIsSound
<1>2. MapBelow(segs, nextIdx)
  BY <1>1 DEF Sound
<1>3. \A m : m = segs \/ m = Synced(segs) => Descends(m)
  BY <1>2, MapDescends
<1>4. \A m : m = Synced(segs) => Sound(m, nextIdx, total)
  BY SyncedMap
<1> QED BY <1>1, <1>3, <1>4

\* A segment goes back to Pending.
LEMMA SentBackDescends ==
    ASSUME CoordInv, Running, NEW i \in InState(segs, "Active"), segs' = SetState(segs, i, "Pending")
    PROVE  Descends(segs') /\ InState(segs', "Active") = InState(segs, "Active") \ {i}
<1>1. Sound(segs, nextIdx, total) /\ total \in Nat /\ Descends(segs)
  BY RunningMap
<1>2. i \in DOMAIN segs /\ segs[i].st # "Completed" /\ "Pending" \in States
  BY DEF InState, States
<1>3. \A c : c = SetState(segs, i, "Pending") => Descends(c)
  BY <1>1, <1>2, SetStateDescends DEF Sound
<1>4. \A c : c = SetState(segs, i, "Pending") => InState(c, "Active") = InState(segs, "Active") \ {i}
  BY <1>1, <1>2, SetStateKeeps
<1> QED BY <1>3, <1>4

\* A segment is done.
LEMMA DoneSerial ==
    ASSUME CoordInv, SerialInv, NEW e, HandleDone(e)
    PROVE  SerialInv' /\ Lonely
<1>1. /\ Handling({"done"}) /\ e = Head(events)
      /\ UNCHANGED <<shared, verdict, wpc, chunk>>
      /\ cpc' \in {"persist", "dispatch"} /\ job'.then \in {"short", "loop"}
      /\ \/ 0 < e.n /\ e.n < Size(segs[e.idx]) /\ segs' = Shortfall(segs, e.idx, e.n, nextIdx)
         \/ segs' = Finish(segs, e.idx, e.n)
  BY DEF HandleDone, localVars, Job, NoJob
<1>2. {"done"} \cap Verdicts = {}
  BY DEF Verdicts
<1>3. /\ Running /\ e.idx \in DOMAIN segs /\ e.n \in Nat
  BY <1>1, <1>2, ReportAtHead
<1>4. Sound(segs, nextIdx, total) /\ total \in Nat \ {0} /\ total \in Nat /\ Descends(segs)
  BY <1>3, RunningMap
<1>5. PICK i, d : i = e.idx /\ d = e.n /\ i \in DOMAIN segs /\ d \in Nat
  BY <1>3
<1>6. ASSUME 0 < d, d < Size(segs[i])
      PROVE  \A c : c = Shortfall(segs, i, d, nextIdx) =>
               Descends(c) /\ InState(c, "Active") = InState(segs, "Active") \ {i}
  <2>1. \A c : c = Shortfall(segs, i, d, nextIdx) =>
          /\ Sound(c, nextIdx + 1, total) /\ Carried(segs, c)
          /\ DOMAIN c = DOMAIN segs \cup {nextIdx}
          /\ InState(c, "Active") = InState(segs, "Active") \ {i}
    BY <1>4, <1>5, <1>6, ShortfallKeeps
  <2>2. \A c : c = Shortfall(segs, i, d, nextIdx) => Descends(c)
    BY <1>4, <1>5, <2>1, ShortfallDescends
  <2> QED BY <2>1, <2>2
<1>7. ASSUME NEW c, c = Finish(segs, i, d)
      PROVE  Descends(c) /\ InState(c, "Active") = InState(segs, "Active") \ {i}
  <2>1. InState(c, "Active") = InState(segs, "Active") \ {i}
    BY <1>4, <1>5, <1>7, FinishKeeps
  <2>2. Descends(c)
    BY <1>4, <1>5, <1>7, FinishDescends DEF Sound
  <2> QED BY <2>1, <2>2
<1>8. Descends(segs') /\ InState(segs', "Active") = InState(segs, "Active") \ {Head(events).idx}
  BY <1>1, <1>5, <1>6, <1>7
<1>9. Running' /\ cpc' # "refill" /\ job'.then # "spawn"
  BY <1>1 DEF Running
<1> QED BY <1>1, <1>2, <1>8, <1>9, ReportSerial

\* The file proves larger.
LEMMA LargerSerial ==
    ASSUME CoordInv, SerialInv, NEW e, HandleLarger(e)
    PROVE  SerialInv' /\ Lonely
<1>1. /\ Handling({"larger"}) /\ e = Head(events)
      /\ UNCHANGED <<shared, verdict, wpc, chunk>>
      /\ cpc' \in {"join", "persist", "redispatch"} /\ job'.then \in {"loop", "grown"}
      /\ \/ segs' = SetState(segs, e.idx, "Pending")
         \/ /\ e.n > total
            /\ segs' = SetState(Grow(segs, nextIdx, total, e.n), e.idx, "Pending")
  BY DEF HandleLarger, localVars, EndLoop, NoJob, Job
<1>2. {"larger"} \cap Verdicts = {}
  BY DEF Verdicts
<1>3. Running /\ e.idx \in InState(segs, "Active") /\ e.n \in Nat
  BY <1>1, <1>2, ReportAtHead
<1>4. Sound(segs, nextIdx, total) /\ total \in Nat \ {0} /\ total \in Nat /\ Descends(segs)
  BY <1>3, RunningMap
<1>5. PICK i, r : i = e.idx /\ r = e.n /\ i \in InState(segs, "Active") /\ r \in Nat
  BY <1>3
<1>6. ASSUME segs' = SetState(segs, i, "Pending")
      PROVE  Descends(segs') /\ InState(segs', "Active") = InState(segs, "Active") \ {i}
  BY <1>3, <1>5, <1>6, SentBackDescends
<1>7. ASSUME r > total, segs' = SetState(Grow(segs, nextIdx, total, r), i, "Pending")
      PROVE  Descends(segs') /\ InState(segs', "Active") = InState(segs, "Active") \ {i}
  <2>1. PICK g : g = Grow(segs, nextIdx, total, r)
    OBVIOUS
  <2>2. /\ Sound(g, nextIdx + 1, r) /\ Carried(segs, g)
        /\ InState(g, "Active") = InState(segs, "Active")
    BY <1>4, <1>5, <1>7, <2>1, GrowKeeps
  <2>3. Descends(g)
    BY <1>4, <1>5, <2>1, <2>2, GrowDescends
  <2>4. i \in DOMAIN g /\ g[i].st # "Completed" /\ "Pending" \in States
    BY <1>5, <2>2 DEF InState, States
  <2>5. \A c : c = SetState(g, i, "Pending") => Descends(c)
    BY <2>2, <2>3, <2>4, SetStateDescends DEF Sound
  <2>6. \A c : c = SetState(g, i, "Pending") => InState(c, "Active") = InState(g, "Active") \ {i}
    BY <1>5, <2>2, <2>4, SetStateKeeps
  <2> QED BY <1>7, <2>1, <2>2, <2>5, <2>6
<1>8. Descends(segs') /\ InState(segs', "Active") = InState(segs, "Active") \ {Head(events).idx}
  BY <1>1, <1>5, <1>6, <1>7
<1>9. Running' /\ cpc' # "refill" /\ job'.then # "spawn"
  BY <1>1 DEF Running
<1> QED BY <1>1, <1>2, <1>8, <1>9, ReportSerial

\* The other failures send their segment back.
LEMMA FailuresSerial ==
    ASSUME CoordInv, SerialInv, NEW e,
           HandleNodeFailed(e) \/ HandleRejection(e) \/ HandleFatal(e)
    PROVE  SerialInv' /\ Lonely
<1> DEFINE kinds == {"node", "refused", "norange", "replaced", "broken"}
<1>1. /\ Handling(kinds) /\ e = Head(events)
      /\ UNCHANGED <<shared, verdict, wpc, chunk>>
      /\ segs' = SetState(segs, e.idx, "Pending")
      /\ cpc' \in {"loop", "join", "persist", "redispatch"}
      /\ job' = job \/ job'.then \in {"loop", "merged"}
  BY DEF HandleNodeFailed, HandleRejection, HandleFatal, Handling, localVars, EndLoop,
         NoJob, Job, Absorb
<1>2. kinds \cap Verdicts = {}
  BY DEF Verdicts
<1> HIDE DEF kinds
<1>3. Running /\ e.idx \in InState(segs, "Active") /\ ~Sending
  BY <1>1, <1>2, ReportAtHead
<1>4. Descends(segs') /\ InState(segs', "Active") = InState(segs, "Active") \ {Head(events).idx}
  BY <1>1, <1>3, SentBackDescends
<1>5. Running' /\ cpc' # "refill" /\ job'.then # "spawn"
  BY <1>1, <1>3 DEF Running, Sending
<1> QED BY <1>1, <1>2, <1>4, <1>5, ReportSerial

\* A step that leaves the map, or only looks at the progress.
LEMMA QuietSerial ==
    ASSUME CoordInv, SerialInv, Running, Running', segs' = segs \/ segs' = Synced(segs),
           UNCHANGED <<shared, verdict, wpc, chunk>>, AtDesk' => AtDesk,
           cpc' = "refill" \/ job'.then = "spawn" => ~serial' /\ verdict = "supported"
    PROVE  SerialInv' /\ Lonely
<1>1. Descends(segs')
  BY RunningMap
<1>2. \A m : m = Synced(segs) => InState(m, "Active") = InState(segs, "Active")
  BY SyncedMap
<1>3. Alone' /\ Lonely
  BY <1>1, <1>2, HandlerAges, Shrinks DEF SerialInv
<1> QED BY <1>3 DEF SerialInv, Begins, Ramps, Chunks, Running

\* The verdict on Range.
LEMMA VerdictSerial ==
    ASSUME CoordInv, SerialInv, NEW e, HandleVerdict(e)
    PROVE  SerialInv' /\ Lonely
<1>1. /\ cpc = "loop" /\ UNCHANGED <<segs, shared, verdict, wpc, chunk>>
      /\ \/ cpc' = cpc /\ job' = job
         \/ cpc' = "persist" /\ job'.then = "merged"
  BY DEF HandleVerdict, Handling, Looping, localVars, mapVars, Absorb, Job
<1>2. Running /\ Running' /\ job.then = "loop"
  BY <1>1 DEF Running, CoordInv, Types, CoordTypes
<1>3. ~AtDesk' /\ cpc' # "refill" /\ job'.then # "spawn"
  BY <1>1, <1>2 DEF AtDesk
<1> QED BY <1>1, <1>2, <1>3, QuietSerial

\* The report at the head of the channel.
LEMMA EventSerial ==
    ASSUME CoordInv, SerialInv, HandleEvent
    PROVE  SerialInv' /\ Lonely
BY DoneSerial, LargerSerial, FailuresSerial, VerdictSerial DEF HandleEvent

-----------------------------------------------------------------------------

\* Work is handed out by the handler at the desk.
LEMMA HandOutSerial ==
    ASSUME CoordInv, SerialInv, cpc \in {"dispatch", "redispatch"},
           NEW m, m = segs \/ m = Synced(segs),
           NEW split \in BOOLEAN, Found(m, split), NEW w, NEW z,
           HandOut(NextWork(m, split), w, "send", z),
           UNCHANGED <<shared, verdict, wpc, chunk>>,
           serial => \/ InState(segs, "Active") = {}
                     \/ verdict # "supported" /\ Untouched
    PROVE  SerialInv' /\ Lonely
<1>1. Running /\ AtDesk
  BY DEF Running, AtDesk
<1>2. /\ Sound(m, nextIdx, total) /\ total \in Nat \ {0} /\ total \in Nat /\ Descends(m)
      /\ InState(m, "Active") = InState(segs, "Active")
  <2>1. InState(Synced(segs), "Active") = InState(segs, "Active")
    <3>1. \A x : x = Synced(segs) => InState(x, "Active") = InState(segs, "Active")
      BY <1>1, SyncedMap
    <3> QED BY <3>1
  <2> QED BY <1>1, <2>1, RunningMap
<1>3. PICK f : f = NextWork(m, split)
  OBVIOUS
<1>4. InState(f.m, "Active") = InState(m, "Active") \cup {f.i}
  BY <1>2, <1>3, NextWorkKeeps
<1>5. Descends(f.m)
  BY <1>2, <1>3, NextWorkDescends
<1>6. segs' = f.m /\ cpc' = "persist" /\ job'.then = "send"
  BY <1>3 DEF HandOut, Job
<1>7. Aging
  BY <1>5, <1>6, HandlerAges
<1>8. Running' /\ ~AtDesk' /\ cpc' # "refill" /\ job'.then # "spawn"
  BY <1>6 DEF Running, AtDesk
<1>9. PICK i : i = f.i
  OBVIOUS
<1>10. InState(segs', "Active") \subseteq InState(segs, "Active") \cup {i}
  BY <1>2, <1>4, <1>6, <1>9
<1>11. Alone' /\ Lonely
  BY <1>1, <1>7, <1>8, <1>10, StartsOne DEF SerialInv
<1> QED BY <1>8, <1>11, StepSerial

\* The idle workers that get work.
LEMMA DispatchSerial ==
    ASSUME CoordInv, SerialInv, Dispatch
    PROVE  SerialInv' /\ Lonely
<1> DEFINE m == Synced(segs)
           go == Eligible(m) /\ Found(m, ~serial)
<1>1. /\ cpc = "dispatch"
      /\ UNCHANGED <<shared, verdict, wpc, chunk, serial>>
      /\ go => HandOut(NextWork(m, ~serial), job.w, "send", FALSE)
      /\ ~go => segs' = m /\ job' = NoJob /\ cpc' \in {"join", "loop"}
  BY DEF Dispatch, policyVars, workerVars, sharedVars, localVars
<1>2. Running /\ Running' /\ AtDesk
  <2>1. cpc' \in {"persist", "join", "loop"}
    BY DEF Dispatch, HandOut
  <2> QED BY <1>1, <2>1 DEF Running, AtDesk
<1>3. CASE go
  <2>1. serial => InState(segs, "Active") = {}
    <3>1. \A x : x = Synced(segs) => InState(x, "Active") = InState(segs, "Active")
      BY <1>2, SyncedMap
    <3> QED BY <1>3, <3>1 DEF Eligible
  <2>2. Found(m, ~serial) /\ HandOut(NextWork(m, ~serial), job.w, "send", FALSE)
    BY <1>1, <1>3
  <2>3. PICK split \in BOOLEAN : Found(m, split) /\ HandOut(NextWork(m, split), job.w, "send", FALSE)
    <3>1. (~serial) \in BOOLEAN
      OBVIOUS
    <3> QED BY <2>2, <3>1
  <2>4. m = segs \/ m = Synced(segs)
    OBVIOUS
  <2>5. cpc \in {"dispatch", "redispatch"}
    BY <1>1
  <2> HIDE DEF m, go
  <2> QED BY <1>1, <2>1, <2>3, <2>4, <2>5, HandOutSerial
<1>4. CASE ~go
  <2>1. segs' = Synced(segs) /\ cpc' # "refill" /\ job'.then # "spawn"
    BY <1>1, <1>4 DEF NoJob
  <2> HIDE DEF m, go
  <2> QED BY <1>1, <1>2, <2>1, QuietSerial
<1> QED BY <1>3, <1>4

\* Before Range is known to work only the first segment is handed out again, and
\* only untouched.
LEMMA RedispatchSerial ==
    ASSUME CoordInv, SerialInv, Redispatch
    PROVE  SerialInv' /\ Lonely
<1> DEFINE plain == verdict # "supported"
           first == NextWork(segs, FALSE)
           can == IF plain THEN Found(segs, FALSE) /\ segs[first.i].start + segs[first.i].dl = 0
                  ELSE (serial => InState(segs, "Active") = {}) /\ Found(segs, ~serial)
<1>1. /\ cpc = "redispatch"
      /\ UNCHANGED <<shared, verdict, wpc, chunk>>
      /\ can => HandOut(NextWork(segs, ~plain /\ ~serial), job.w, "send", plain)
      /\ ~can => segs' = segs /\ job' = NoJob /\ cpc' = "loop"
  BY DEF Redispatch, workerVars, sharedVars, localVars
<1>2. Running /\ AtDesk /\ cpc \in {"dispatch", "redispatch"}
  BY <1>1 DEF Running, AtDesk
<1>3. CASE can /\ plain
  <2>1. Found(segs, FALSE) /\ segs[first.i].start + segs[first.i].dl = 0
    BY <1>3
  <2>2. HandOut(NextWork(segs, FALSE), job.w, "send", plain)
    <3>1. (~plain /\ ~serial) = FALSE
      BY <1>3
    <3> QED BY <1>1, <1>3, <3>1
  <2>3. Untouched
    <3>1. InState(segs, "Pending") # {}
      BY <2>1 DEF Found
    <3>2. PICK i : i = Least(InState(segs, "Pending"))
      OBVIOUS
    <3>3. first.i = i
      BY <3>1, <3>2 DEF NextWork
    <3>4. /\ \A j \in DOMAIN segs : segs[j] \in SegRecs /\ j \in Nat /\ 0 <= segs[j].start
      BY <1>2, RunningMap, SoundSegment
    <3>5. i \in InState(segs, "Pending")
      <4>1. InState(segs, "Pending") \in SUBSET Nat
        BY <3>4 DEF InState
      <4> QED BY <3>1, <3>2, <4>1, LeastIsMin
    <3>6. i \in DOMAIN segs /\ segs[i].st # "Completed"
      BY <3>5 DEF InState
    <3>7. segs[i].start + segs[i].dl = 0
      BY <2>1, <3>3
    <3>8. segs[i].start \in Int /\ segs[i].dl \in Nat /\ 0 <= segs[i].start
      BY <3>4, <3>6 DEF SegRecs
    <3>9. segs[i].start = 0 /\ segs[i].dl = 0
      <4> HIDE DEF plain, first, can
      <4> QED BY <3>7, <3>8
    <3> QED BY <3>6, <3>9 DEF Untouched
  <2>4. FALSE \in BOOLEAN /\ verdict # "supported"
    BY <1>3
  <2> HIDE DEF plain, first, can
  <2>5. PICK split \in BOOLEAN : Found(segs, split) /\ HandOut(NextWork(segs, split), job.w, "send", plain)
    BY <2>1, <2>2, <2>4
  <2> QED BY <1>1, <1>2, <2>3, <2>4, <2>5, HandOutSerial
<1>4. CASE can /\ ~plain
  <2>1. (serial => InState(segs, "Active") = {}) /\ Found(segs, ~serial)
    BY <1>4
  <2>2. HandOut(NextWork(segs, ~serial), job.w, "send", plain)
    <3>1. (~plain /\ ~serial) = ~serial
      BY <1>4
    <3> QED BY <1>1, <1>4, <3>1
  <2> HIDE DEF plain, first, can
  <2>3. PICK split \in BOOLEAN : Found(segs, split) /\ HandOut(NextWork(segs, split), job.w, "send", plain)
    <3>1. (~serial) \in BOOLEAN
      OBVIOUS
    <3> QED BY <2>1, <2>2, <3>1
  <2> QED BY <1>1, <1>2, <2>1, <2>3, HandOutSerial
<1>5. CASE ~can
  <2> HIDE DEF plain, first, can
  <2>1. segs' = segs /\ Running' /\ cpc' # "refill" /\ job'.then # "spawn"
    BY <1>1, <1>5 DEF NoJob, Running
  <2> QED BY <1>1, <1>2, <2>1, QuietSerial
<1> HIDE DEF can, plain
<1> QED BY <1>3, <1>4, <1>5

\* The ramp works in parallel mode, when Range is known to work.
LEMMA RampSerial ==
    ASSUME CoordInv, SerialInv, Refill \/ ProactiveSplit
    PROVE  SerialInv' /\ Lonely
<1>1. /\ UNCHANGED <<shared, verdict, wpc, chunk, serial>>
      /\ ~serial /\ verdict = "supported" /\ cpc' \notin {"start", "rebuild"}
  BY DEF Refill, ProactiveSplit, Quiet, Looping, HandOut, SerialInv, Ramps, policyVars, controlVars,
         workerVars, sharedVars, localVars
<1> QED BY <1>1 DEF SerialInv, Alone, Begins, Ramps, Chunks, Lonely

\* The timers and the pause.
LEMMA TimersSerial ==
    ASSUME CoordInv, SerialInv, RampPoll \/ RampTick \/ HandlePause
    PROVE  SerialInv' /\ Lonely
<1>1. /\ cpc \in {"loop", "ramp"} /\ (job' = job \/ job' = NoJob)
      /\ UNCHANGED <<segs, shared, verdict, wpc, chunk>>
      /\ cpc' \in {"ramp", "refill", "join", "loop"}
      /\ cpc' = "refill" => ~serial' /\ verdict = "supported"
  BY DEF RampPoll, RampTick, HandlePause, EndLoop, Quiet, Looping, mapVars, workerVars, sharedVars,
         localVars
<1>2. /\ Running /\ Running' /\ job.then = "loop" /\ job'.then = "loop"
  BY <1>1, DeskFacts DEF Running, NoJob
<1>3. ~AtDesk'
  BY <1>1, <1>2 DEF AtDesk
<1> QED BY <1>1, <1>2, <1>3, QuietSerial

\* The statement is executed or fails.
LEMMA PersistSerial ==
    ASSUME CoordInv, SerialInv, Persist
    PROVE  SerialInv' /\ Lonely
<1>1. /\ cpc = "persist"
      /\ UNCHANGED <<segs, shared, verdict, wpc, chunk, serial>>
      /\ \/ cpc' = "resume" /\ job' = job
         \/ cpc' = "loop" /\ job' = NoJob
  BY DEF Persist, mapVars, policyVars, sharedVars, localVars
<1>2. Running /\ Running' /\ (AtDesk' => AtDesk) /\ cpc' # "refill"
  BY <1>1 DEF Running, AtDesk, NoJob
<1>3. job'.then = "spawn" => ~serial' /\ verdict = "supported"
  BY <1>1 DEF SerialInv, Ramps, NoJob
<1> QED BY <1>1, <1>2, <1>3, QuietSerial

\* The user pauses, or a run ends with what its map says.
LEMMA EndsSerial ==
    ASSUME CoordInv, SerialInv, Pause \/ Join
    PROVE  SerialInv' /\ Lonely
<1>1. /\ segs' = segs \/ segs' = Synced(segs)
      /\ UNCHANGED <<shared, verdict, wpc, chunk, job, serial>>
      /\ \/ cpc' = cpc /\ Running
         \/ cpc = "join" /\ cpc' = "ended"
  BY DEF Pause, Join, Running, mapVars, policyVars, workerVars, sharedVars, localVars
<1>2. Running /\ Running' /\ (AtDesk' => AtDesk)
  BY <1>1 DEF Running, AtDesk
<1>3. cpc' = "refill" \/ job'.then = "spawn" => ~serial' /\ verdict = "supported"
  BY <1>1 DEF SerialInv, Ramps
<1> QED BY <1>1, <1>2, <1>3, QuietSerial

-----------------------------------------------------------------------------

\* A change is published: the progress of known segments is the workers' own.
LEMMA ContinueSerial ==
    ASSUME CoordInv, SerialInv, Continue
    PROVE  SerialInv' /\ Lonely
<1>1. /\ cpc = "resume" /\ UNCHANGED <<verdict, chunk, serial>>
      /\ segs' = IF job.then = "merged" THEN Merge(segs, job.st.par, job.st.del) ELSE segs
      /\ shared' = Rebuilt(segs')
      /\ wpc' = IF Sending THEN [wpc EXCEPT ![job.w] = "assigned"] ELSE wpc
      /\ job'.then = "loop" /\ cpc' \in {"refill", "dispatch", "redispatch", "loop"}
      /\ cpc' = "refill" => job.then = "spawn"
      /\ cpc' \in {"dispatch", "redispatch"} => job.then \in {"short", "grown"}
  BY DEF Continue, Sending, NoJob, policyVars
<1>2. Running /\ Running'
  BY <1>1 DEF Running
<1>3. Sound(segs, nextIdx, total) /\ total \in Nat /\ Descends(segs)
  BY <1>2, RunningMap
<1>4. Descends(segs') /\ InState(segs', "Active") = InState(segs, "Active")
  <2>1. CASE job.then = "merged"
    <3>1. PICK open, A : open = job.st.par /\ A = job.st.del
      OBVIOUS
    <3>2. open \in InState(segs, "Active") /\ A = Absorbable(segs, open) /\ A # {}
      BY <1>1, <2>1, <3>1 DEF CoordInv, JobSound
    <3>3. ASSUME NEW c, c = Merge(segs, open, A)
          PROVE  Descends(c) /\ InState(c, "Active") = InState(segs, "Active")
      <4>1. Descends(c)
        BY <1>3, <3>3, MergeDescends DEF Sound
      <4>2. /\ InState(c, "Active") = InState(segs, "Active") /\ DOMAIN c = DOMAIN segs \ A
            /\ \A i \in DOMAIN c : c[i].start = segs[i].start
        BY <1>3, <3>2, <3>3, MergeKeeps
      <4> QED BY <4>1, <4>2
    <3> QED BY <1>1, <2>1, <3>1, <3>3
  <2>2. CASE job.then # "merged"
    BY <1>1, <1>3, <2>2
  <2> QED BY <2>1, <2>2
<1>5. \A i \in DOMAIN shared' : shared'[i].dl = 0 =>
        \/ i \in DOMAIN shared /\ shared[i].dl = 0
        \/ i \in DOMAIN segs' /\ segs'[i].dl = 0
  BY <1>1 DEF Rebuilt
<1>6. Aging
  BY <1>1, <1>4, <1>5, StaysTouched DEF Aging
<1>7. AtDesk' => AtDesk
  BY <1>1 DEF AtDesk
<1>8. Alone' /\ Lonely
  BY <1>2, <1>4, <1>6, <1>7, Shrinks DEF SerialInv
<1>9. Chunks'
  <2>1. wpc \in [Workers -> WorkerPCs]
    BY PartsTyped
  <2>2. \A w \in Workers : wpc'[w] = "write" => wpc[w] = "write"
    BY <1>1, <2>1
  <2> QED BY <1>1, <2>2 DEF SerialInv, Chunks
<1>10. Begins' /\ Ramps'
  BY <1>1, <1>2 DEF SerialInv, Begins, Ramps, Running
<1> QED BY <1>8, <1>9, <1>10 DEF SerialInv

\* A run begins with one worker, unless no segment is untouched.
LEMMA LaunchSerial ==
    ASSUME CoordInv, SerialInv, ~Running, NEW t \in Nat \ {0}, NEW n, NEW m, Sound(m, n, t),
           \A i \in DOMAIN m : m[i].st # "Active",
           Launch(m, t, n), UnchangedByLaunch
    PROVE  SerialInv' /\ Lonely
<1>1. LaunchedFrom(m)
  BY LaunchFacts
<1>10. \A w \in Workers : wpc'[w] # "write"
  BY LaunchFacts
<1>7. \/ AllDone(m) /\ cpc' = "ended" /\ result' = "ok" /\ AllDone(segs')
      \/ ~AllDone(m) /\ cpc' = "loop" /\ result' = result
  BY LaunchFacts
<1>8. (\E i \in InState(m, "Pending") : m[i].start + m[i].dl = 0)
           => \A i, j \in InState(segs', "Active") : i = j
  BY LaunchFacts
<1>2. serial' = serial /\ job' = job
  BY DEF UnchangedByLaunch
<1>3. ~serial /\ job.then = "loop"
  BY NobodyYet DEF SerialInv, Begins, Running
<1>4. ~AtDesk'
  BY <1>2, <1>3, <1>7 DEF AtDesk
<1>5. Untouched' => \E i \in InState(m, "Pending") : m[i].start + m[i].dl = 0
  <2> SUFFICES ASSUME NEW i \in DOMAIN segs', segs'[i].start = 0, segs'[i].st # "Completed",
                      segs'[i].dl = 0 \/ (i \in DOMAIN shared' /\ shared'[i].dl = 0)
               PROVE  i \in InState(m, "Pending") /\ m[i].start + m[i].dl = 0
    BY DEF Untouched
  <2>1. i \in DOMAIN m
    BY <1>1 DEF LaunchedFrom
  <2>2. segs'[i].start = m[i].start /\ segs'[i].dl = m[i].dl
    BY <1>1, <2>1 DEF LaunchedFrom
  <2>3. m[i].st # "Completed"
    BY <1>1, <2>1 DEF LaunchedFrom
  <2>4. i \in DOMAIN shared' => shared'[i].dl = m[i].dl
    BY <1>1 DEF LaunchedFrom
  <2>5. m[i] \in SegRecs
    BY <2>1 DEF Sound, MapBelow
  <2>6. m[i].st = "Pending"
    BY <2>1, <2>3, <2>5 DEF SegRecs, States
  <2> QED BY <2>1, <2>2, <2>4, <2>6 DEF InState
<1>6. Alone'
  BY <1>4, <1>5, <1>8 DEF Alone
<1> QED BY <1>2, <1>3, <1>6, <1>7, <1>10 DEF SerialInv, Begins, Ramps, Chunks, Lonely

\* The runs that start afresh, and the one that resumes.
LEMMA StartSerial ==
    ASSUME CoordInv, SerialInv, StartFresh \/ Rebuild
    PROVE  SerialInv' /\ Lonely
BY StartFacts, LaunchSerial

LEMMA ResumeSerial ==
    ASSUME CoordInv, SerialInv, Resume
    PROVE  SerialInv' /\ Lonely
<1>1. ~Running /\ UnchangedByLaunch
  BY ResumeFacts
<1>2. CASE \E t \in Nat \ {0} : \E n, m :
               /\ Sound(m, n, t) /\ (\A i \in DOMAIN m : m[i].st # "Active")
               /\ Launch(m, t, n)
  BY <1>1, <1>2, LaunchSerial
<1>3. CASE /\ cpc' = "rebuild"
           /\ UNCHANGED <<allowed, segs, nextIdx, fileLen, shared, anyData, verdict,
                          openSeg, slots, wpc, asg, result, taskTotal>>
  BY <1>1, <1>3, NobodyYet DEF UnchangedByLaunch, Running, SerialInv, Alone, Begins, Ramps, Chunks, Lonely
<1> QED BY <1>2, <1>3, ResumeFacts

-----------------------------------------------------------------------------

\* Only a worker that reads comes to write.
LEMMA ChunksStay ==
    ASSUME CoordInv, Chunks, NEW w \in Workers, NEW p, p # "write", Goto(w, p),
           chunk' = chunk \/ chunk' = [chunk EXCEPT ![w] = NoChunk]
    PROVE  Chunks'
<1>1. \A v \in Workers : wpc'[v] = "write" => v # w /\ wpc[v] = "write"
  BY PartsTyped DEF Goto
<1>2. \A v \in Workers \ {w} : chunk'[v] = chunk[v]
  BY PartsTyped
<1> QED BY <1>1, <1>2 DEF Chunks

\* What it read is cut to what is left of the segment, or it does not write.
LEMMA ReadChunks ==
    ASSUME CoordInv, Chunks, NEW w \in Workers, Read(w)
    PROVE  Chunks'
<1>1. CASE Goto(w, "finish") /\ UNCHANGED chunk
  <2>1. "finish" # "write"
    OBVIOUS
  <2> QED BY <1>1, <2>1, ChunksStay
<1>2. CASE /\ Goto(w, "write")
           /\ \E n \in 1 .. Lesser(MaxChunk, BodyLeft(w)) :
                /\ Lesser(n, Budget(w)) # 0
                /\ chunk' = [chunk EXCEPT ![w] = [len |-> Lesser(n, Budget(w)),
                                                  cut |-> Lesser(n, Budget(w)) < n]]
  <2>1. PICK n \in 1 .. Lesser(MaxChunk, BodyLeft(w)) :
            /\ Lesser(n, Budget(w)) # 0
            /\ chunk' = [chunk EXCEPT ![w] = [len |-> Lesser(n, Budget(w)),
                                              cut |-> Lesser(n, Budget(w)) < n]]
    BY <1>2
  <2>2. n \in Nat
    OBVIOUS
  <2>3. Budget(w) \in Nat
    <3>1. asg[w].start \in Int /\ asg[w].end \in Int /\ got[w] \in Nat
      BY BusyWorker DEF Read, Busy
    <3>2. SharedEnd(w) \in Int /\ Pos(w) \in Int
      BY <3>1, PartsTyped DEF SharedEnd, Pos
    <3> QED BY <3>2 DEF Budget
  <2>4. Lesser(n, Budget(w)) > 0
    BY <2>1, <2>2, <2>3 DEF Lesser
  <2>5. chunk'[w].len > 0
    BY <2>1, <2>4, PartsTyped
  <2>6. \A v \in Workers \ {w} : chunk'[v] = chunk[v] /\ (wpc'[v] = "write" => wpc[v] = "write")
    BY <1>2, <2>1, PartsTyped DEF Goto
  <2> QED BY <2>5, <2>6 DEF Chunks
<1> QED BY <1>1, <1>2 DEF Read

\* A worker that reports has nothing more to write.
LEMMA ReportChunks ==
    ASSUME CoordInv, Chunks, NEW w \in Workers, NEW e, NEW p, p # "write", Report(w, e, p)
    PROVE  Chunks'
BY ChunksStay DEF Report, Goto

\* What the workers do to the chunks, the verdict and the shared counters.
LEMMA WorkersChunk ==
    ASSUME CoordInv, Chunks, NEW w \in Workers, WorkerProgress(w) \/ WorkerFault(w)
    PROVE  Chunks'
<1> DEFINE Moves == \E p : /\ p # "write" /\ Goto(w, p)
                           /\ chunk' = chunk \/ chunk' = [chunk EXCEPT ![w] = NoChunk]
           Tells == \E e, p : p # "write" /\ Report(w, e, p)
<1>1. Moves => Chunks'
  BY ChunksStay
<1>2. Tells => Chunks'
  BY ReportChunks
<1>3. \A d : ReportDone(w, d) => Tells
  BY DEF ReportDone
<1>4. \A kind, n : ReportFailed(w, kind, n) => Tells
  BY DEF ReportFailed
<1>5. ASSUME NEW v, Rule(w, v)
      PROVE  Moves
  BY <1>5 DEF Rule
<1>6. \/ Receive(w) \/ Accepted(w) \/ Write(w) \/ StreamEnds(w) \/ StreamBreaks(w)
      \/ Cancelled(w) \/ Retire(w)
      => Moves
  BY DEF Receive, Accepted, Write, StreamEnds, StreamBreaks, Cancelled, Retire
<1> HIDE DEF Moves, Tells
<1>7. AlreadyComplete(w) \/ FinishSegment(w) => Tells
  BY <1>3 DEF AlreadyComplete, FinishSegment
<1>8. Retry(w) => Moves \/ Tells
  BY <1>3 DEF Retry, Moves
<1>9. GiveUp(w) \/ RequestFails(w) \/ RangeIgnored(w) \/ Replaced(w) => Moves \/ Tells
  BY <1>4 DEF GiveUp, RequestFails, RangeIgnored, Replaced, Moves
<1>10. \A n : TrueSizeLarger(w, n) => Tells
  BY <1>4 DEF TrueSizeLarger
<1> QED BY <1>1, <1>2, <1>5, <1>6, <1>7, <1>8, <1>9, <1>10, ReadChunks DEF WorkerProgress, WorkerFault

\* A verdict is given once, and what is counted of a segment does not become nothing.
LEMMA CountersGrow ==
    ASSUME CoordInv, Chunks, NEW w \in Workers, WorkerProgress(w) \/ WorkerFault(w)
    PROVE  /\ verdict' = verdict \/ verdict = "unknown"
           /\ \A i \in DOMAIN shared' : shared'[i].dl = 0 => i \in DOMAIN shared /\ shared[i].dl = 0
<1>1. ASSUME NEW v, Rule(w, v)
      PROVE  verdict = "unknown" /\ shared' = shared
  BY <1>1 DEF Rule
<1>2. ASSUME Write(w)
      PROVE  /\ verdict' = verdict
             /\ \A i \in DOMAIN shared' : shared'[i].dl = 0 =>
                    i \in DOMAIN shared /\ shared[i].dl = 0
  <2>1. wpc[w] = "write" /\ Publish(w, got[w] + chunk[w].len) /\ verdict' = verdict
    BY <1>2 DEF Write
  <2>2. got[w] \in Nat /\ chunk[w].len \in Nat
    BY PartsTyped
  <2>3. PICK d : d = got[w] + chunk[w].len
    OBVIOUS
  <2>4. d # 0
    BY <2>1, <2>2, <2>3 DEF Chunks
  <2>5. Publish(w, d)
    BY <2>1, <2>3
  <2>6. CASE asg[w].idx \in DOMAIN shared
    <3>1. PICK k : k = asg[w].idx
      OBVIOUS
    <3>2. k \in DOMAIN shared /\ shared' = [shared EXCEPT ![k].dl = d]
      BY <2>5, <2>6, <3>1 DEF Publish
    <3>3. shared[k] \in [end : Int, dl : Nat]
      BY <3>2, PartsTyped
    <3>4. shared'[k].dl = d /\ \A i \in DOMAIN shared \ {k} : shared'[i] = shared[i]
      BY <3>2, <3>3
    <3>5. DOMAIN shared' = DOMAIN shared
      BY <3>2
    <3> QED BY <2>1, <2>4, <3>4, <3>5
  <2>7. CASE asg[w].idx \notin DOMAIN shared
    BY <2>1, <2>5, <2>7 DEF Publish
  <2> QED BY <2>6, <2>7
<1>3. \/ Receive(w) \/ AlreadyComplete(w) \/ Accepted(w) \/ Read(w) \/ StreamEnds(w)
      \/ FinishSegment(w) \/ Retry(w) \/ GiveUp(w) \/ Cancelled(w) \/ Retire(w)
      => shared' = shared /\ verdict' = verdict
  BY DEF Receive, AlreadyComplete, Accepted, Read, StreamEnds, FinishSegment, Retry, GiveUp,
         Cancelled, Retire, sharedVars
<1>4. WorkerFault(w) => shared' = shared /\ verdict' = verdict
  BY DEF WorkerFault, RequestFails, RangeIgnored, Replaced, TrueSizeLarger, StreamBreaks, sharedVars
<1> QED BY <1>1, <1>2, <1>3, <1>4 DEF WorkerProgress

\* A step that leaves the coordinator where it is.
LEMMA AsideSerial ==
    ASSUME CoordInv, SerialInv, UNCHANGED <<segs, cpc, job, serial>>, Chunks',
           verdict' = verdict \/ verdict = "unknown",
           \A i \in DOMAIN shared' : shared'[i].dl = 0 => i \in DOMAIN shared /\ shared[i].dl = 0
    PROVE  SerialInv' /\ Lonely
<1>1. (AtDesk' <=> AtDesk) /\ (Running' <=> Running) /\ Begins'
  BY DEF AtDesk, Running, SerialInv, Begins
<1>2. Lonely
  BY DEF Lonely
<1>3. Alone'
  <2>1. SUFFICES ASSUME Running
                 PROVE  Alone'
    BY <1>1 DEF Alone
  <2>2. Descends(segs')
    BY <2>1, RunningMap DEF Descends
  <2>3. Aging
    BY <2>2, StaysTouched DEF Aging
  <2> QED BY <1>1, <2>1, <2>3, Shrinks DEF SerialInv
<1>4. Ramps'
  BY DEF SerialInv, Ramps
<1> QED BY <1>1, <1>2, <1>3, <1>4 DEF SerialInv

\* A step of a worker.
LEMMA WorkersSerial ==
    ASSUME CoordInv, SerialInv, NEW w \in Workers, WorkerProgress(w) \/ WorkerFault(w),
           CoordUnchanged
    PROVE  SerialInv' /\ Lonely
<1>1. UNCHANGED <<segs, cpc, job, serial>>
  BY DEF CoordUnchanged, mapVars, policyVars
<1>2. Chunks
  BY DEF SerialInv
<1> QED BY <1>1, <1>2, WorkersChunk, CountersGrow, AsideSerial

\* A step that only writes to the rows.
LEMMA RowsSerial ==
    ASSUME CoordInv, SerialInv, (\E w \in Workers : DrainProgress(w)) \/ LateCommit \/ UNCHANGED vars
    PROVE  SerialInv' /\ Lonely
<1>1. UNCHANGED <<segs, cpc, job, serial, shared, verdict, wpc, chunk>>
  BY DEF DrainProgress, LateCommit, vars, mapVars, policyVars, controlVars, workerVars, sharedVars,
         localVars
<1>2. Chunks'
  BY <1>1 DEF SerialInv, Chunks
<1> QED BY <1>1, <1>2, AsideSerial

\* The process ends, and starts again.
LEMMA RestartSerial ==
    ASSUME SerialInv, Restart
    PROVE  SerialInv' /\ Lonely
<1>1. cpc' = "start" /\ serial' = FALSE /\ job' = NoJob /\ \A w \in Workers : wpc'[w] = "gone"
  BY DEF Restart
<1> QED BY <1>1 DEF SerialInv, Alone, Running, Begins, Ramps, Chunks, Lonely, NoJob

\* The invariant holds before the first run,
LEMMA InitSerial == CoordInit => SerialInv
BY DEF CoordInit, SerialInv, Alone, Running, Begins, Ramps, Chunks, NoJob

\* and every step keeps it and acts in serial mode as it should.
LEMMA SerialSteps ==
    ASSUME CoordInv, SerialInv, [CoordNext]_vars
    PROVE  SerialInv' /\ Lonely
<1>1. CASE CoordStep
  BY <1>1, StartSerial, ResumeSerial, PersistSerial, ContinueSerial, EventSerial, DispatchSerial,
     RedispatchSerial, TimersSerial, RampSerial, EndsSerial DEF CoordStep
<1>2. CASE ProactiveSplit
  BY <1>2, RampSerial
<1>3. CASE \E w \in Workers : (WorkerProgress(w) \/ WorkerFault(w)) /\ CoordUnchanged
  BY <1>3, WorkersSerial
<1>4. CASE (\E w \in Workers : DrainProgress(w)) \/ LateCommit \/ UNCHANGED vars
  BY <1>4, RowsSerial
<1>5. CASE Pause
  BY <1>5, EndsSerial
<1>6. CASE Restart
  BY <1>6, RestartSerial
<1> QED BY <1>1, <1>2, <1>3, <1>4, <1>5, <1>6 DEF CoordNext, Ended

\* In serial mode a step only takes segments from workers, or gives one to one
\* worker when none has any, also where the coordinator repeats a plain stream
\* without looking at the active segments (the TrueSizeLarger arm).
THEOREM SerialMeansAloneHolds ==
    ASSUME LateStatements = FALSE
    PROVE  CoordSpec => SerialMeansAlone
<1>1. CoordInit => SerialInv
  BY InitSerial
<1>2. CoordInv /\ SerialInv /\ [CoordNext]_vars => SerialInv' /\ Lonely
  BY SerialSteps
<1>3. Lonely => [serial /\ serial' =>
            \/ InState(segs', "Active") \subseteq InState(segs, "Active")
            \/ InState(segs, "Active") = {} /\ Cardinality(InState(segs', "Active")) <= 1]_vars
  BY DEF Lonely
<1> QED BY <1>1, <1>2, <1>3, CoordInvHolds, PTL DEF CoordSpec, SerialMeansAlone
=============================================================================
