------------------------- MODULE HlsDownload_proofs -------------------------
(***************************************************************************)
(* Proofs about HlsDownload for any number of segments, editions, permits, *)
(* faults, crashes and runs: as long as no run overlaps another, what the  *)
(* file holds is what the run that writes it counts, but for one write in  *)
(* the air, and the mark of a file is a boundary of its segments.          *)
(***************************************************************************)
EXTENDS HlsDownload, SequenceTheorems, TLAPS

USE HlsAssumption DEF Half, Unit

Units == Nat \X Nat \X Nat
Files == Seq(Units)

RunStates == {"over", "parse", "open", "top", "receive", "write", "mark", "join",
              "rename", "report"}
FetchStates == {"gone", "wait", "busy", "stopped", "ok", "failed", "halted", "held"}

RunRecs ==
    [st : RunStates, cancelled : BOOLEAN, resume : BOOLEAN, edition : 0 .. MaxEdition,
     file : Runs \cup {0}, first : 1 .. Count + 1, appends : BOOLEAN,
     next : 1 .. Count + 1, bytes : Nat, part : {0, 1}, air : Files, lost : BOOLEAN,
     fetch : [Segments -> FetchStates], why : {"none", "cancelled", "failed"}]

Marks == [next : 0 .. Count, bytes : Nat, edition : 0 .. MaxEdition]

HlsTypes ==
    /\ edition \in 1 .. MaxEdition
    /\ mark \in Marks /\ mark.edition <= edition
    /\ data \in [Runs -> Files]
    /\ temp \in Runs \cup {0} /\ final \in Runs \cup {0}
    /\ run \in [Runs -> RunRecs]
    /\ last \in 0 .. MaxRuns

-----------------------------------------------------------------------------
(* Contents. *)

\* The i-th unit of an edition.
UnitAt(e, i) == Unit(e, (i + 1) \div 2, 2 - (i % 2))

\* The file begins with n units of an edition, or is them.
Begins(f, e, n) == f \in Files /\ n \in Nat /\ Len(f) >= n /\ \A i \in 1 .. n : f[i] = UnitAt(e, i)
Whole(f, e, n) == Begins(f, e, n) /\ Len(f) = n

LEMMA UnitIsUnit ==
    ASSUME NEW e \in Nat, NEW i \in Nat \ {0}
    PROVE  UnitAt(e, i) \in Units
BY DEF UnitAt, Units

\* The halves of a segment are the units 2s-1 and 2s of its edition.
LEMMA HalvesOf ==
    ASSUME NEW e, NEW s \in Nat \ {0}
    PROVE  Unit(e, s, 1) = UnitAt(e, 2 * s - 1) /\ Unit(e, s, 2) = UnitAt(e, 2 * s)
<1>1. (2 * s - 1 + 1) \div 2 = s /\ 2 - ((2 * s - 1) % 2) = 1
  OBVIOUS
<1>2. (2 * s + 1) \div 2 = s /\ 2 - ((2 * s) % 2) = 2
  OBVIOUS
<1> QED BY <1>1, <1>2 DEF UnitAt

LEMMA PlaceOf ==
    ASSUME NEW e, NEW n \in Nat
    PROVE  /\ Half * (UnitAt(e, n + 1)[2] - 1) + UnitAt(e, n + 1)[3] - 1 = n
           /\ UnitAt(e, n + 1)[2] = (n + 2) \div 2
<1>1. 2 * ((n + 1 + 1) \div 2 - 1) + (2 - ((n + 1) % 2)) - 1 = n
  OBVIOUS
<1> QED BY <1>1 DEF UnitAt

LEMMA PaddedFile ==
    ASSUME NEW f \in Files, NEW n \in Nat
    PROVE  /\ Padded(f, n) \in Files /\ Len(Padded(f, n)) = n
           /\ n = Len(f) => Padded(f, n) = f
<1>1. Hole \in Units
  BY DEF Hole, Units
<1>2. \A i \in 1 .. Len(f) : f[i] \in Units
  BY DEF Files
<1>3. Padded(f, n) \in [1 .. n -> Units]
  BY <1>1, <1>2 DEF Padded
<1>4. Padded(f, n) \in Files /\ Len(Padded(f, n)) = n
  BY <1>3 DEF Files
<1>5. ASSUME n = Len(f) PROVE Padded(f, n) = f
  <2>1. f \in [1 .. n -> Units]
    BY <1>2, <1>5 DEF Files
  <2>2. \A i \in 1 .. n : Padded(f, n)[i] = f[i]
    BY <1>5 DEF Padded
  <2> QED BY <1>3, <2>1, <2>2
<1> QED BY <1>4, <1>5

LEMMA PutFile ==
    ASSUME NEW f \in Files, NEW pos \in Nat, NEW u \in Units
    PROVE  Put(f, pos, u) \in Files
<1>1. CASE pos < Len(f)
  BY <1>1 DEF Put, Files
<1>2. CASE ~(pos < Len(f))
  <2>1. Padded(f, pos) \in Files
    BY PaddedFile
  <2> QED BY <1>2, <2>1 DEF Put, Files
<1> QED BY <1>1, <1>2

\* The unit after the last one is written behind it.
LEMMA PutNext ==
    ASSUME NEW f, NEW e \in Nat, NEW n, Whole(f, e, n)
    PROVE  Whole(Put(f, n, UnitAt(e, n + 1)), e, n + 1)
<1> DEFINE u == UnitAt(e, n + 1)
<1>1. f \in Files /\ n \in Nat /\ Len(f) = n /\ \A i \in 1 .. n : f[i] = UnitAt(e, i)
  BY DEF Whole, Begins
<1>2. u \in Units
  BY <1>1, UnitIsUnit
<1>3. Padded(f, n) = f
  BY <1>1, PaddedFile
<1> HIDE DEF u
<1>4. Put(f, n, u) = Append(f, u)
  BY <1>1, <1>3 DEF Put
<1>5. /\ Append(f, u) \in Files /\ Len(Append(f, u)) = n + 1
      /\ \A i \in 1 .. n : Append(f, u)[i] = f[i]
      /\ Append(f, u)[n + 1] = u
  BY <1>1, <1>2 DEF Files
<1>6. \A i \in 1 .. n + 1 : Append(f, u)[i] = UnitAt(e, i)
  <2> TAKE i \in 1 .. n + 1
  <2>1. CASE i = n + 1
    BY <1>5, <2>1 DEF u
  <2>2. CASE i \in 1 .. n
    BY <1>1, <1>5, <2>2
  <2> QED BY <1>1, <2>1, <2>2
<1>7. Whole(Append(f, u), e, n + 1)
  BY <1>1, <1>5, <1>6 DEF Whole, Begins
<1> QED BY <1>7, <1>4 DEF u

LEMMA SetLenFile ==
    ASSUME NEW f \in Files, NEW n \in Nat
    PROVE  SetLen(f, n) \in Files /\ (n = Len(f) => SetLen(f, n) = f)
<1>1. CASE n < Len(f)
  <2>1. SubSeq(f, 1, n) \in Files
    BY <1>1 DEF Files
  <2> QED BY <1>1, <2>1 DEF SetLen
<1>2. CASE ~(n < Len(f))
  BY <1>2, PaddedFile DEF SetLen
<1> QED BY <1>1, <1>2

LEMMA CutFile ==
    ASSUME NEW f \in Files, mark.bytes \in Nat
    PROVE  /\ Cut(f) \in Files
           /\ \A e : Begins(f, e, mark.bytes) => Whole(Cut(f), e, mark.bytes)
<1>1. CASE Len(f) > mark.bytes
  <2> DEFINE g == SubSeq(f, 1, mark.bytes)
  <2>1. Cut(f) = g
    BY <1>1 DEF Cut
  <2>2. g \in Files /\ Len(g) = mark.bytes /\ \A i \in 1 .. mark.bytes : g[i] = f[i]
    BY <1>1 DEF Files
  <2> HIDE DEF g
  <2> QED BY <2>1, <2>2 DEF Whole, Begins
<1>2. CASE ~(Len(f) > mark.bytes)
  <2>1. Cut(f) = f
    BY <1>2 DEF Cut
  <2> QED BY <1>2, <2>1 DEF Whole, Begins, Files
<1> QED BY <1>1, <1>2

LEMMA BeginsLess ==
    ASSUME NEW f, NEW e, NEW n, Begins(f, e, n), NEW k \in Nat, k <= n
    PROVE  Begins(f, e, k)
BY DEF Begins

\* The content of the first n segments.
LEMMA ContentIs ==
    ASSUME NEW e \in Nat, NEW n \in Nat
    PROVE  /\ Content(e, n) \in Files /\ Len(Content(e, n)) = Half * n
           /\ \A i \in 1 .. Half * n : Content(e, n)[i] = UnitAt(e, i)
<1>1. Content(e, n) = [i \in 1 .. Half * n |-> UnitAt(e, i)]
  BY DEF Content, UnitAt
<1>2. \A i \in 1 .. Half * n : UnitAt(e, i) \in Units
  BY UnitIsUnit
<1>3. Content(e, n) \in [1 .. Half * n -> Units]
  BY <1>1, <1>2
<1>4. Half * n \in Nat
  OBVIOUS
<1>5. Content(e, n) \in Files /\ Len(Content(e, n)) = Half * n
  BY <1>3, <1>4 DEF Files
<1> QED BY <1>1, <1>5

LEMMA WholeIsContent ==
    ASSUME NEW f, NEW e \in Nat, NEW n \in Nat, Whole(f, e, Half * n)
    PROVE  f = Content(e, n)
<1>1. f \in Files /\ Len(f) = Half * n /\ \A i \in 1 .. Half * n : f[i] = UnitAt(e, i)
  BY DEF Whole, Begins
<1>2. f = [i \in 1 .. Half * n |-> f[i]]
  BY <1>1 DEF Files
<1>3. Content(e, n) = [i \in 1 .. Half * n |-> Content(e, n)[i]]
  BY DEF Content
<1>4. \A i \in 1 .. Half * n : f[i] = Content(e, n)[i]
  BY <1>1, ContentIs
<1> QED BY <1>2, <1>3, <1>4

-----------------------------------------------------------------------------
(***************************************************************************)
(* The inductive invariant.                                                *)
(***************************************************************************)

\* The runs that have the file open, and the others.
Writing == {"top", "receive", "write", "mark", "join", "rename"}

\* The units the writer has handed over, and those that have reached the file.
Handed(x) == Half * (x.next - 1) + x.part
Landed(x) == IF x.air = <<>> THEN Handed(x) ELSE Handed(x) - 1

\* Where a run stands.
Shape(x) ==
    /\ x.st \in {"over", "parse", "open"} => x.air = <<>> /\ x.part = 0 /\ x.why = "none"
    /\ x.air # <<>> => Handed(x) >= 1 /\ x.air = <<UnitAt(x.edition, Handed(x))>>
    /\ x.lost => x.air # <<>>
    /\ x.part = 1 => x.st = "write" \/ (x.st = "join" /\ x.why # "none")
    /\ x.st \in {"receive", "write"} => x.next <= Count
    /\ x.st \in {"top", "receive", "write", "mark"} => x.why = "none"
    /\ x.st = "mark" => x.next >= 2
    /\ x.st = "join" /\ x.why = "none" => x.next = Count + 1
    /\ x.st \in {"rename", "report"} => x.next = Count + 1 /\ x.air = <<>>

\* A run writes the file of the task, for the playlist it has parsed.
Placed(x) ==
    /\ x.st \in Writing \cup {"open", "report"} => x.edition = edition
    /\ x.st \in Writing => temp = x.file /\ temp # 0
    /\ x.st = "report" => temp = 0 /\ final # 0

\* What the run writes to was sound when it was opened, and no write was lost.
Trusted(x) == ~late /\ (x.appends => ~stale)

\* What the run counts is in the file, but for the unit in the air.
Filled(x) ==
    /\ x.st \in Writing /\ x.lost /\ x.part = 0 => late
    /\ x.st \in Writing /\ Trusted(x) =>
          x.bytes = Half * (x.next - 1) /\ Whole(data[temp], edition, Landed(x))
    /\ x.st = "report" /\ Trusted(x) => Whole(data[final], edition, Half * Count)

\* The mark is of the file of the task.
Current == ~stale /\ ~late /\ mark.next > 0 /\ mark.edition = edition

\* The mark is not ahead of the run.
Marked(x) ==
    x.st \in Writing /\ Current => mark.bytes = Half * mark.next /\ mark.next <= x.next - 1

RunFits(r) == Shape(run[r]) /\ Placed(run[r]) /\ Filled(run[r]) /\ Marked(run[r])

OneRun == \A r \in Runs : ~Over(r) => r = last

\* While nobody writes, the file holds at least what the mark counts.
Rested ==
    (\A r \in Runs : run[r].st \notin Writing) /\ Current /\ temp # 0 =>
        mark.bytes = Half * mark.next /\ Begins(data[temp], edition, mark.bytes)

Finished ==
    status = "done" =>
        /\ \A r \in Runs : Over(r)
        /\ ~late /\ ~stale =>
              final # 0 /\ \E e \in 1 .. MaxEdition : Whole(data[final], e, Half * Count)

Healthy ==
    /\ HlsTypes /\ OneRun /\ Rested /\ Finished
    /\ \A r \in Runs : RunFits(r)

HlsInv == overlapped \/ Healthy

-----------------------------------------------------------------------------
(* What a step of one run leaves alone. *)

LEMMA UpdateIs ==
    ASSUME HlsTypes, NEW r \in Runs, NEW new \in RunRecs, Update(r, new)
    PROVE  /\ run' \in [Runs -> RunRecs] /\ run'[r] = new
           /\ \A q \in Runs \ {r} : run'[q] = run[q]
BY DEF HlsTypes, Update

LEMMA NoRunFits == NoRun \in RunRecs /\ Shape(NoRun) /\ NoRun.st = "over"
<1>1. <<>> \in Files
  BY DEF Files
<1>2. Count + 1 \in Nat /\ 1 \in 1 .. Count + 1 /\ 0 \in 0 .. MaxEdition
  OBVIOUS
<1>3. NoRun \in RunRecs
  BY <1>1, <1>2 DEF NoRun, RunRecs, RunStates, FetchStates
<1> QED BY <1>3 DEF Shape, NoRun

\* A step of the only run, which leaves the others over.
LEMMA StepKeeps ==
    ASSUME Healthy, NEW r \in Runs, ~Over(r), last' = last,
           \A q \in Runs \ {r} : run'[q] = run[q],
           HlsTypes', RunFits(r)', Rested', Finished'
    PROVE  Healthy'
<1>1. OneRun'
  BY DEF Healthy, OneRun, Over
<1>2. ASSUME NEW q \in Runs, q # r PROVE RunFits(q)'
  <2>1. run'[q] = run[q] /\ run[q].st = "over" /\ Shape(run[q])
    BY <1>2 DEF Healthy, OneRun, Over, RunFits
  <2> QED BY <2>1 DEF RunFits, Placed, Filled, Marked, Writing
<1> QED BY <1>1, <1>2 DEF Healthy

\* From x to y nothing changes of what the invariant speaks of but the place.
Quietly(x, y) ==
    /\ y.edition = x.edition /\ y.file = x.file /\ y.appends = x.appends
    /\ y.next = x.next /\ y.part = x.part /\ y.bytes = x.bytes
    /\ y.air = x.air /\ y.lost = x.lost
    /\ y.st = x.st \/ (y.st \in Writing /\ x.st \in Writing)
    /\ Shape(y)

LEMMA QuietKeeps ==
    ASSUME Healthy, run' \in [Runs -> RunRecs], \A q \in Runs : Quietly(run[q], run'[q]),
           UNCHANGED <<edition, mark, data, temp, final, last, stale, late>>,
           status' = status \/ status' # "done"
    PROVE  Healthy'
<1>1. HlsTypes'
  BY DEF Healthy, HlsTypes
<1>2. \A q \in Runs : /\ run'[q].st \in Writing <=> run[q].st \in Writing
                      /\ Over(q)' <=> Over(q)
                      /\ run'[q].st \notin Writing => run'[q].st = run[q].st
  BY DEF Quietly, Over, Writing
<1>3. OneRun'
  BY <1>2 DEF Healthy, OneRun
<1>4. Current' <=> Current
  BY DEF Current
<1>5. Rested'
  BY <1>2, <1>4 DEF Healthy, Rested
<1>6. Finished'
  BY <1>2 DEF Healthy, Finished
<1>7. ASSUME NEW q \in Runs PROVE RunFits(q)'
  <2>1. RunFits(q) /\ Quietly(run[q], run'[q])
    BY DEF Healthy
  <2>2. Shape(run[q])'
    BY <2>1 DEF Quietly
  <2>3. Placed(run[q])'
    BY <1>2, <2>1 DEF RunFits, Placed, Quietly, Writing
  <2>4. Filled(run[q])'
    <3>1. Trusted(run[q])' <=> Trusted(run[q])
      BY <2>1 DEF Trusted, Quietly
    <3>2. Landed(run[q])' = Landed(run[q])
      BY <2>1 DEF Landed, Handed, Quietly
    <3> QED BY <1>2, <2>1, <3>1, <3>2 DEF RunFits, Filled, Quietly, Writing
  <2>5. Marked(run[q])'
    BY <1>2, <1>4, <2>1 DEF RunFits, Marked, Quietly
  <2> QED BY <2>2, <2>3, <2>4, <2>5 DEF RunFits
<1> QED BY <1>1, <1>3, <1>5, <1>6, <1>7 DEF Healthy

LEMMA QuietStep ==
    ASSUME Healthy, NEW r \in Runs, NEW new \in RunRecs, Update(r, new),
           Quietly(run[r], new),
           UNCHANGED <<edition, mark, data, temp, final, last, stale, late>>,
           status' = status
    PROVE  Healthy'
<1>1. /\ run' \in [Runs -> RunRecs] /\ run'[r] = new
      /\ \A q \in Runs \ {r} : run'[q] = run[q]
  BY UpdateIs DEF Healthy
<1>2. ASSUME NEW q \in Runs PROVE Quietly(run[q], run'[q])
  <2>1. CASE q = r
    BY <1>1, <2>1
  <2>2. CASE q # r
    BY <1>1, <2>2 DEF Healthy, RunFits, Quietly
  <2> QED BY <2>1, <2>2
<1> QED BY <1>1, <1>2, QuietKeeps

\* The file after the last unit of the run has been written, or was lost
\* before its segment was counted.
LEMMA FileAtRest ==
    ASSUME Healthy, NEW r \in Runs, run[r].st \in Writing, Current,
           run[r].air = <<>> \/ run[r].part = 1
    PROVE  mark.bytes = Half * mark.next /\ Begins(data[temp], edition, mark.bytes)
<1>1. run[r] \in RunRecs /\ mark \in Marks
  BY DEF Healthy, HlsTypes
<1>2. /\ mark.bytes = Half * mark.next /\ mark.next <= run[r].next - 1
      /\ Whole(data[temp], edition, Landed(run[r]))
  BY DEF Healthy, RunFits, Marked, Filled, Current, Trusted
<1>3. mark.bytes \in Nat /\ mark.bytes <= Landed(run[r])
  BY <1>1, <1>2 DEF RunRecs, Marks, Landed, Handed
<1> QED BY <1>2, <1>3, BeginsLess DEF Whole

LEMMA WriterKeeps ==
    ASSUME Healthy, NEW r \in Runs, ~Over(r), last' = last, status' = status,
           \A q \in Runs \ {r} : run'[q] = run[q],
           HlsTypes', run'[r].st \in Writing, RunFits(r)'
    PROVE  Healthy'
<1>1. Rested'
  BY DEF Rested
<1>2. Finished'
  BY DEF Healthy, Finished
<1> QED BY <1>1, <1>2, StepKeeps

-----------------------------------------------------------------------------
(* The writer. *)

WriterFrame == UNCHANGED <<edition, status, temp, final, last, overlapped, crashes>>

\* The fields the invariant speaks of, besides the place and its reason.
SameFields(x, y) ==
    /\ y.edition = x.edition /\ y.file = x.file /\ y.appends = x.appends
    /\ y.next = x.next /\ y.part = x.part /\ y.bytes = x.bytes
    /\ y.air = x.air /\ y.lost = x.lost

LEMMA QuietlyIs ==
    ASSUME NEW x \in RunRecs, Shape(x), NEW y \in RunRecs, SameFields(x, y),
           x.st \in {"top", "receive"}, y.st \in {"top", "receive", "write", "join"},
           y.st \in {"receive", "write"} => x.next <= Count,
           y.st # "join" => y.why = "none",
           y.st = "join" /\ y.why = "none" => x.next = Count + 1
    PROVE  Quietly(x, y)
<1>1. Handed(y) = Handed(x)
  BY DEF Handed, SameFields
<1>2. x.part = 0 /\ y.part = 0
  BY DEF Shape, SameFields, RunRecs
<1>3. Shape(y)
  BY <1>1, <1>2 DEF Shape, SameFields
<1> QED BY <1>3 DEF Quietly, SameFields, Writing

LEMMA TopKeeps ==
    ASSUME Healthy, NEW r \in Runs, Top(r), WriterFrame
    PROVE  Healthy'
<1>1. run[r] \in RunRecs /\ Shape(run[r]) /\ run[r].st = "top"
  BY DEF Healthy, HlsTypes, RunFits, Top
<1>2. UNCHANGED <<edition, status, mark, data, temp, final, last, stale, late>>
  BY DEF Top, WriterFrame
<1>3. CASE run[r].next > Count
  <2> DEFINE new == [run[r] EXCEPT !.st = "join"]
  <2>1. new \in RunRecs /\ Quietly(run[r], new)
    <3>1. new \in RunRecs /\ SameFields(run[r], new)
      BY <1>1 DEF RunRecs, RunStates, SameFields
    <3>2. new.st = "join" /\ new.why = run[r].why
      BY <1>1 DEF RunRecs
    <3> HIDE DEF new
    <3> QED BY <1>1, <1>3, <3>1, <3>2, QuietlyIs DEF RunRecs
  <2>2. Update(r, new)
    BY <1>3 DEF Top, Goto
  <2> HIDE DEF new
  <2> QED BY <1>2, <2>1, <2>2, QuietStep
<1>4. CASE ~(run[r].next > Count) /\ run[r].cancelled
  <2> DEFINE new == [run[r] EXCEPT !.st = "join", !.why = "cancelled"]
  <2>1. new \in RunRecs /\ Quietly(run[r], new)
    <3>1. new \in RunRecs /\ SameFields(run[r], new)
      BY <1>1 DEF RunRecs, RunStates, SameFields
    <3>2. new.st = "join" /\ new.why = "cancelled"
      BY <1>1 DEF RunRecs
    <3> HIDE DEF new
    <3> QED BY <1>1, <1>4, <3>1, <3>2, QuietlyIs DEF RunRecs
  <2>2. Update(r, new)
    BY <1>4 DEF Top, Stop
  <2> HIDE DEF new
  <2> QED BY <1>2, <2>1, <2>2, QuietStep
<1>5. CASE ~(run[r].next > Count) /\ ~run[r].cancelled
  <2> DEFINE st == IF run[r].fetch[run[r].next] = "held" THEN "write" ELSE "receive"
             new == [run[r] EXCEPT !.st = st]
  <2>1. st \in {"write", "receive"}
    OBVIOUS
  <2>2. Update(r, new)
    BY <1>5 DEF Top, Goto
  <2> HIDE DEF st
  <2>3. new \in RunRecs /\ Quietly(run[r], new)
    <3>1. new \in RunRecs /\ SameFields(run[r], new)
      BY <1>1, <2>1 DEF RunRecs, RunStates, SameFields
    <3>2. new.st = st /\ new.why = run[r].why /\ run[r].why = "none"
      BY <1>1 DEF RunRecs, Shape
    <3> HIDE DEF new
    <3> QED BY <1>1, <1>5, <2>1, <3>1, <3>2, QuietlyIs DEF RunRecs
  <2> HIDE DEF new
  <2> QED BY <1>2, <2>2, <2>3, QuietStep
<1> QED BY <1>3, <1>4, <1>5

LEMMA ReceiveKeeps ==
    ASSUME Healthy, NEW r \in Runs, Receive(r), WriterFrame
    PROVE  Healthy'
<1>1. run[r] \in RunRecs /\ Shape(run[r]) /\ run[r].st = "receive"
  BY DEF Healthy, HlsTypes, RunFits, Receive
<1>2. UNCHANGED <<edition, status, mark, data, temp, final, last, stale, late>>
  BY DEF Receive, WriterFrame
<1>3. PICK s \in Having(r, InChannel) :
         \/ Update(r, [Fetch(r, s, "held") EXCEPT !.st = IF s = run[r].next THEN "top" ELSE @])
         \/ Update(r, [Fail(r) EXCEPT !.fetch[s] = "gone"])
         \/ Update(r, [Stop(r, "cancelled") EXCEPT !.cancelled = TRUE, !.fetch[s] = "gone"])
  BY DEF Receive
<1>4. s \in Segments
  BY DEF Having
<1>5. CASE Update(r, [Fetch(r, s, "held") EXCEPT !.st = IF s = run[r].next THEN "top" ELSE @])
  <2> DEFINE f == [run[r].fetch EXCEPT ![s] = "held"]
             st == IF s = run[r].next THEN "top" ELSE "receive"
             new == [run[r] EXCEPT !.fetch = f, !.st = st]
  <2>1. f \in [Segments -> FetchStates] /\ st \in {"top", "receive"}
    BY <1>1, <1>4 DEF RunRecs, FetchStates
  <2>2. Update(r, new)
    <3>1. Fetch(r, s, "held") = [run[r] EXCEPT !.fetch = f]
      BY <1>1 DEF Fetch, RunRecs
    <3>2. Update(r, [[run[r] EXCEPT !.fetch = f] EXCEPT !.st = IF s = run[r].next THEN "top" ELSE @])
      BY <1>5, <3>1
    <3> HIDE DEF f
    <3> QED BY <1>1, <3>2 DEF RunRecs
  <2> HIDE DEF f, st
  <2>3. new \in RunRecs /\ Quietly(run[r], new)
    <3>1. new \in RunRecs /\ SameFields(run[r], new)
      BY <1>1, <2>1 DEF RunRecs, RunStates, SameFields
    <3>2. new.st = st /\ new.why = run[r].why /\ run[r].why = "none"
      BY <1>1 DEF RunRecs, Shape
    <3> HIDE DEF new
    <3> QED BY <1>1, <2>1, <3>1, <3>2, QuietlyIs DEF Shape
  <2> HIDE DEF new
  <2> QED BY <1>2, <2>2, <2>3, QuietStep
<1>6. ASSUME NEW why \in {"failed", "cancelled"},
             Update(r, [run[r] EXCEPT !.st = "join", !.why = why, !.cancelled = TRUE,
                                      !.fetch[s] = "gone"])
      PROVE  Healthy'
  <2> DEFINE f == [run[r].fetch EXCEPT ![s] = "gone"]
             new == [run[r] EXCEPT !.st = "join", !.why = why, !.cancelled = TRUE, !.fetch = f]
  <2>1. f \in [Segments -> FetchStates]
    BY <1>1, <1>4 DEF RunRecs, FetchStates
  <2>2. Update(r, new)
    <3>1. [run[r] EXCEPT !.st = "join", !.why = why, !.cancelled = TRUE,
                         !.fetch[s] = "gone"] = new
      BY <1>1 DEF RunRecs
    <3> QED BY <1>6, <3>1
  <2> HIDE DEF f
  <2>3. new \in RunRecs /\ Quietly(run[r], new)
    <3>1. new \in RunRecs /\ SameFields(run[r], new)
      BY <1>1, <2>1 DEF RunRecs, RunStates, SameFields
    <3>2. new.st = "join" /\ new.why = why
      BY <1>1 DEF RunRecs
    <3> HIDE DEF new
    <3> QED BY <1>1, <2>1, <3>1, <3>2, QuietlyIs DEF RunRecs
  <2> HIDE DEF new
  <2> QED BY <1>2, <2>2, <2>3, QuietStep
<1>7. CASE Update(r, [Fail(r) EXCEPT !.fetch[s] = "gone"])
  <2> DEFINE why == "failed"
  <2>1. /\ why \in {"failed", "cancelled"}
        /\ Update(r, [run[r] EXCEPT !.st = "join", !.why = why, !.cancelled = TRUE,
                                    !.fetch[s] = "gone"])
    BY <1>1, <1>7 DEF Fail, Stop, RunRecs
  <2> HIDE DEF why
  <2> QED BY <1>6, <2>1
<1>8. CASE Update(r, [Stop(r, "cancelled") EXCEPT !.cancelled = TRUE, !.fetch[s] = "gone"])
  <2> DEFINE why == "cancelled"
  <2>1. /\ why \in {"failed", "cancelled"}
        /\ Update(r, [run[r] EXCEPT !.st = "join", !.why = why, !.cancelled = TRUE,
                                    !.fetch[s] = "gone"])
    BY <1>1, <1>8 DEF Stop, RunRecs
  <2> HIDE DEF why
  <2> QED BY <1>6, <2>1
<1> QED BY <1>3, <1>5, <1>7, <1>8

\* A producer changes nothing but what is known of its segment.
LEMMA ProducerKeeps ==
    ASSUME Healthy, NEW r \in Runs, NEW s \in Segments, Producer(r, s)
    PROVE  Healthy'
<1>1. run[r] \in RunRecs /\ Shape(run[r])
  BY DEF Healthy, HlsTypes, RunFits
<1>2. UNCHANGED <<edition, status, mark, data, temp, final, last, stale, late>>
  BY DEF Producer, fileVars, historyVars
<1>3. \E st \in FetchStates : Update(r, Fetch(r, s, st))
  BY DEF Producer, Acquire, Send, FetchStates
<1>4. PICK st \in FetchStates : Update(r, Fetch(r, s, st))
  BY <1>3
<1> DEFINE f == [run[r].fetch EXCEPT ![s] = st]
           new == [run[r] EXCEPT !.fetch = f]
<1>5. f \in [Segments -> FetchStates]
  BY <1>1 DEF RunRecs
<1>6. Update(r, new)
  BY <1>1, <1>4 DEF Fetch, RunRecs
<1> HIDE DEF f
<1>7. new \in RunRecs /\ Quietly(run[r], new)
  BY <1>1, <1>5 DEF RunRecs, RunStates, Quietly, Shape, Writing, Handed
<1> HIDE DEF new
<1> QED BY <1>2, <1>6, <1>7, QuietStep

LEMMA PauseKeeps ==
    ASSUME Healthy, Pause
    PROVE  Healthy'
<1>1. run' = [q \in Runs |-> [run[q] EXCEPT !.cancelled = TRUE]] /\ status' = "paused"
  BY DEF Pause, Cancelled
<1>2. UNCHANGED <<edition, mark, data, temp, final, last, stale, late>>
  BY DEF Pause, fileVars, historyVars
<1>3. ASSUME NEW q \in Runs PROVE run'[q] \in RunRecs /\ Quietly(run[q], run'[q])
  <2>1. run[q] \in RunRecs /\ Shape(run[q])
    BY DEF Healthy, HlsTypes, RunFits
  <2> QED BY <1>1, <2>1 DEF RunRecs, RunStates, Quietly, Shape, Writing, Handed
<1>4. run' \in [Runs -> RunRecs]
  BY <1>1, <1>3
<1>5. status' # "done"
  BY <1>1
<1> QED BY <1>2, <1>3, <1>4, <1>5, QuietKeeps

\* A unit is handed over.
LEMMA HandsOver ==
    ASSUME Healthy, NEW r \in Runs, Write(r), WriterFrame, ~run[r].lost
    PROVE  Healthy'
<1> DEFINE x == run[r]
           u == Unit(x.edition, x.next, x.part + 1)
<1>1. x \in RunRecs /\ RunFits(r) /\ x.st = "write" /\ x.air = <<>> /\ ~Over(r)
  BY DEF Healthy, HlsTypes, Write, Over
<1>2. /\ UNCHANGED <<edition, status, mark, data, temp, final, last, stale, late>>
  BY DEF Write, WriterFrame
<1>3. /\ x.edition \in 0 .. MaxEdition /\ x.next \in 1 .. Count /\ x.part \in {0, 1}
      /\ x.bytes \in Nat /\ x.fetch \in [Segments -> FetchStates] /\ x.air \in Files
      /\ x.lost \in BOOLEAN
  BY <1>1 DEF RunRecs, RunFits, Shape
<1>4. u = UnitAt(x.edition, Handed(x) + 1) /\ u \in Units /\ Handed(x) \in Nat
  <2>1. CASE x.part = 0
    BY <1>3, <2>1, HalvesOf DEF Handed, Units
  <2>2. CASE x.part = 1
    BY <1>3, <2>2, HalvesOf DEF Handed, Units
  <2> QED BY <1>3, <2>1, <2>2
<1>5. <<u>> \in Files /\ <<u>> # <<>>
  BY <1>4 DEF Files
<1> HIDE DEF x, u
<1>6. CASE x.part = 0
  <2> DEFINE new == [x EXCEPT !.air = <<u>>, !.part = 1]
  <2>1. Update(r, new)
    <3>1. x.part + 1 < Half
      BY <1>6
    <3>2. Update(r, [[x EXCEPT !.air = <<u>>] EXCEPT !.part = @ + 1])
      BY <3>1 DEF Write, x, u
    <3>3. [[x EXCEPT !.air = <<u>>] EXCEPT !.part = @ + 1] = new
      <4>1. x \in RunRecs /\ x.part + 1 = 1
        BY <1>1, <1>6
      <4> QED BY <4>1 DEF RunRecs
    <3> QED BY <3>2, <3>3
  <2>2. /\ new \in RunRecs /\ new.air = <<u>> /\ new.part = 1 /\ new.st = x.st
        /\ new.next = x.next /\ new.bytes = x.bytes /\ new.edition = x.edition
        /\ new.file = x.file /\ new.lost = x.lost /\ new.why = x.why
        /\ new.appends = x.appends
    BY <1>1, <1>5 DEF RunRecs
  <2> HIDE DEF new
  <2>3. /\ run' \in [Runs -> RunRecs] /\ run'[r] = new
        /\ \A q \in Runs \ {r} : run'[q] = run[q]
    BY <2>1, <2>2, UpdateIs DEF Healthy
  <2>4. Handed(new) = Handed(x) + 1 /\ Landed(new) = Handed(x) /\ Landed(x) = Handed(x)
    BY <1>1, <1>3, <1>4, <1>5, <1>6, <2>2 DEF Handed, Landed, x
  <2>5. Shape(new)
    BY <1>1, <1>3, <1>4, <1>5, <2>2, <2>4 DEF Shape, RunFits, x
  <2>6. RunFits(r)'
    <3>1. Placed(run[r])'
      BY <1>1, <1>2, <2>2, <2>3 DEF RunFits, Placed, Writing, x
    <3>2. Filled(run[r])'
      BY <1>1, <1>2, <2>2, <2>3, <2>4 DEF RunFits, Filled, Trusted, Writing, x
    <3>3. Marked(run[r])'
      BY <1>1, <1>2, <2>2, <2>3 DEF RunFits, Marked, Current, Writing, x
    <3> QED BY <2>3, <2>5, <3>1, <3>2, <3>3 DEF RunFits
  <2>7. HlsTypes' /\ run'[r].st \in Writing
    BY <1>1, <1>2, <2>2, <2>3 DEF Healthy, HlsTypes, Writing, x
  <2> QED BY <1>1, <1>2, <2>3, <2>6, <2>7, WriterKeeps
<1>7. CASE x.part = 1
  <2> DEFINE f == [x.fetch EXCEPT ![x.next] = "gone"]
             n == x.next + 1
             b == x.bytes + Half
             new == [x EXCEPT !.air = <<u>>, !.part = 0, !.bytes = b, !.next = n, !.fetch = f,
                              !.st = "mark"]
  <2>1. Update(r, new)
    <3>1. ~(x.part + 1 < Half)
      BY <1>7
    <3>2. Update(r, [[x EXCEPT !.air = <<u>>] EXCEPT !.part = 0, !.bytes = @ + Half, !.next = @ + 1,
                                              !.fetch[x.next] = "gone", !.st = "mark"])
      BY <3>1 DEF Write, x, u
    <3>3. [[x EXCEPT !.air = <<u>>] EXCEPT !.part = 0, !.bytes = @ + Half, !.next = @ + 1,
                                              !.fetch[x.next] = "gone", !.st = "mark"] = new
      BY <1>1 DEF RunRecs, x
    <3> QED BY <3>2, <3>3
  <2>2. /\ f \in [Segments -> FetchStates] /\ n \in 2 .. Count + 1 /\ b \in Nat
        /\ n = x.next + 1 /\ b = x.bytes + 2
    BY <1>3 DEF FetchStates, Segments
  <2> HIDE DEF f, n, b
  <2>3. /\ new \in RunRecs /\ new.air = <<u>> /\ new.part = 0 /\ new.st = "mark"
        /\ new.next = n /\ new.bytes = b /\ new.edition = x.edition
        /\ new.file = x.file /\ new.lost = x.lost /\ new.why = x.why
        /\ new.appends = x.appends
    <3>1. n \in 1 .. Count + 1
      BY <2>2
    <3> QED BY <1>1, <1>5, <2>2, <3>1 DEF RunRecs, RunStates, x
  <2> HIDE DEF new
  <2>4. /\ run' \in [Runs -> RunRecs] /\ run'[r] = new
        /\ \A q \in Runs \ {r} : run'[q] = run[q]
    BY <2>1, <2>3, UpdateIs DEF Healthy
  <2>5. Handed(new) = Handed(x) + 1 /\ Landed(new) = Handed(x) /\ Landed(x) = Handed(x)
    <3>1. Handed(new) = Handed(x) + 1
      BY <1>3, <1>7, <2>2, <2>3 DEF Handed
    <3>2. x.air = <<>> /\ new.air # <<>>
      BY <1>1, <1>5, <2>3
    <3> QED BY <1>4, <3>1, <3>2 DEF Landed
  <2>6. Shape(new)
    <3>1. new.air = <<UnitAt(new.edition, Handed(new))>> /\ Handed(new) >= 1
      BY <1>4, <2>3, <2>5
    <3>2. x.why = "none" /\ ~x.lost
      BY <1>1 DEF RunFits, Shape, x
    <3> QED BY <1>5, <2>2, <2>3, <3>1, <3>2 DEF Shape
  <2>7. RunFits(r)'
    <3>1. Placed(run[r])'
      BY <1>1, <1>2, <2>3, <2>4 DEF RunFits, Placed, Writing, x
    <3>2. Filled(run[r])'
      <4>1. Trusted(x) => x.bytes = Half * (x.next - 1) /\ Whole(data[temp], edition, Landed(x))
        BY <1>1 DEF RunFits, Filled, Writing, x
      <4>2. ~new.lost
        BY <2>3 DEF x
      <4> QED BY <1>2, <1>3, <2>2, <2>3, <2>4, <2>5, <4>1, <4>2 DEF Filled, Trusted
    <3>3. Marked(run[r])'
      <4>1. Current => mark.bytes = Half * mark.next /\ mark.next <= x.next - 1
        BY <1>1 DEF RunFits, Marked, Writing, x
      <4>2. mark.next \in Nat
        BY DEF Healthy, HlsTypes, Marks
      <4> QED BY <1>2, <1>3, <2>2, <2>3, <2>4, <4>1, <4>2 DEF Marked, Current
    <3> QED BY <2>4, <2>6, <3>1, <3>2, <3>3 DEF RunFits
  <2>8. HlsTypes' /\ run'[r].st \in Writing
    BY <1>1, <1>2, <2>3, <2>4 DEF Healthy, HlsTypes, Writing
  <2> QED BY <1>1, <1>2, <2>4, <2>7, <2>8, WriterKeeps
<1> QED BY <1>3, <1>6, <1>7

\* The roll-back after a lost write changes nothing that the run had counted.
LEMMA RollsBack ==
    ASSUME Healthy, NEW r \in Runs, Write(r), WriterFrame, run[r].lost
    PROVE  Healthy'
<1> DEFINE x == run[r]
           new == [x EXCEPT !.st = "join", !.why = "failed", !.cancelled = TRUE]
<1>1. x \in RunRecs /\ RunFits(r) /\ x.st = "write" /\ ~Over(r) /\ x.lost
  BY DEF Healthy, HlsTypes, Write, Over
<1>2. UNCHANGED <<edition, status, mark, temp, final, last, stale, late>>
  BY DEF Write, WriterFrame
<1>3. Update(r, new)
  BY <1>1 DEF Write, Fail, Stop, RunRecs
<1>4. /\ new \in RunRecs /\ new.st = "join" /\ new.why = "failed" /\ SameFields(x, new)
  BY <1>1 DEF RunRecs, RunStates, SameFields
<1>5. data' = data \/ data' = [data EXCEPT ![x.file] = SetLen(@, x.bytes)]
  BY DEF Write
<1> HIDE DEF x, new
<1>6. /\ run' \in [Runs -> RunRecs] /\ run'[r] = new
      /\ \A q \in Runs \ {r} : run'[q] = run[q]
  BY <1>3, <1>4, UpdateIs DEF Healthy
<1>7. x.file \in Runs /\ data \in [Runs -> Files] /\ x.bytes \in Nat /\ temp = x.file
  BY <1>1 DEF Healthy, HlsTypes, RunFits, Placed, Writing, RunRecs, x
<1>8. data' \in [Runs -> Files]
  <2>1. SetLen(data[x.file], x.bytes) \in Files
    BY <1>7, SetLenFile
  <2> QED BY <1>5, <1>7, <2>1
<1>9. Trusted(x) => data'[temp] = data[temp] /\ x.part = 1
  <2> SUFFICES ASSUME Trusted(x) PROVE data'[temp] = data[temp] /\ x.part = 1
    OBVIOUS
  <2>1. x.part = 1 /\ x.bytes = Half * (x.next - 1) /\ Whole(data[temp], edition, Landed(x))
    BY <1>1 DEF RunFits, Filled, Trusted, Writing, RunRecs, x
  <2>2. x.air # <<>>
    BY <1>1 DEF RunFits, Shape, x
  <2>3. Len(data[temp]) = x.bytes
    BY <1>1, <2>1, <2>2 DEF Landed, Handed, Whole, RunRecs
  <2>4. SetLen(data[temp], x.bytes) = data[temp]
    BY <1>7, <2>3, SetLenFile
  <2> QED BY <1>5, <1>7, <2>1, <2>4
<1>10. Handed(new) = Handed(x) /\ Landed(new) = Landed(x)
  BY <1>4 DEF Handed, Landed, SameFields
<1>11. RunFits(r)'
  <2>1. Shape(new)
    BY <1>1, <1>4, <1>10 DEF RunFits, Shape, SameFields, x
  <2>2. Placed(run[r])'
    BY <1>1, <1>2, <1>4, <1>6 DEF RunFits, Placed, Writing, SameFields, x
  <2>3. Filled(run[r])'
    <3>1. Trusted(run[r])' <=> Trusted(x)
      BY <1>2, <1>4, <1>6 DEF Trusted, SameFields
    <3>2. x.part = 0 => late
      BY <1>1 DEF RunFits, Filled, Writing, x
    <3>3. Trusted(x) => x.bytes = Half * (x.next - 1) /\ Whole(data[temp], edition, Landed(x))
      BY <1>1 DEF RunFits, Filled, Writing, x
    <3> QED BY <1>2, <1>4, <1>6, <1>9, <1>10, <3>1, <3>2, <3>3 DEF Filled, SameFields
  <2>4. Marked(run[r])'
    BY <1>1, <1>2, <1>4, <1>6 DEF RunFits, Marked, Current, Writing, SameFields, x
  <2> QED BY <1>6, <2>1, <2>2, <2>3, <2>4 DEF RunFits
<1>12. HlsTypes' /\ run'[r].st \in Writing
  BY <1>2, <1>4, <1>6, <1>8 DEF Healthy, HlsTypes, Writing
<1> QED BY <1>1, <1>2, <1>6, <1>11, <1>12, WriterKeeps

\* A write that is lost after its segment was counted is remembered.
LEMMA LandKeeps ==
    ASSUME Healthy, NEW r \in Runs, Land(r)
    PROVE  Healthy'
<1> DEFINE x == run[r]
           u == x.air[1]
<1>1. x \in RunRecs /\ RunFits(r) /\ x.air # <<>> /\ ~x.lost
  BY DEF Healthy, HlsTypes, Land
<1>2. UNCHANGED <<edition, status, mark, temp, final, last, stale>>
  BY DEF Land
<1>3. /\ x.st \in Writing /\ x.st # "over" /\ ~Over(r)
      /\ Handed(x) >= 1 /\ x.air = <<UnitAt(x.edition, Handed(x))>>
  BY <1>1 DEF RunFits, Shape, RunRecs, RunStates, Writing, Over
<1>4. /\ x.edition = edition /\ edition \in Nat /\ x.file \in Runs /\ temp = x.file
      /\ Handed(x) \in Nat /\ x.next \in Nat \ {0} /\ x.part \in {0, 1}
      /\ Handed(x) = 2 * (x.next - 1) + x.part
  BY <1>1, <1>3 DEF Healthy, HlsTypes, RunFits, Placed, RunRecs, Handed
<1>5. Landed(x) = Handed(x) - 1
  BY <1>1 DEF Landed
<1> DEFINE n == Handed(x) - 1
<1>6. n \in Nat /\ n + 1 = Handed(x)
  BY <1>3, <1>4
<1>7. u = UnitAt(edition, n + 1) /\ u \in Units
  BY <1>3, <1>4, <1>6, UnitIsUnit
<1>8. Half * (u[2] - 1) + u[3] - 1 = n /\ u[2] = (n + 2) \div 2
  BY <1>4, <1>6, <1>7, PlaceOf
<1>9. Trusted(x) => x.bytes = Half * (x.next - 1) /\ Whole(data[temp], edition, n)
  BY <1>1, <1>3, <1>5 DEF RunFits, Filled
<1>10. data \in [Runs -> Files]
  BY DEF Healthy, HlsTypes
<1>11. CASE /\ data' = [data EXCEPT ![x.file] =
                            Put(@, IF x.appends THEN Len(data[x.file])
                                   ELSE Half * (u[2] - 1) + u[3] - 1, u)]
            /\ Update(r, [x EXCEPT !.air = <<>>])
            /\ late' = late
  <2> DEFINE at == IF x.appends THEN Len(data[x.file]) ELSE Half * (u[2] - 1) + u[3] - 1
             new == [x EXCEPT !.air = <<>>]
  <2>1. at \in Nat /\ (Trusted(x) => at = n)
    <3>1. Len(data[x.file]) \in Nat
      BY <1>4, <1>10 DEF Files
    <3>2. Trusted(x) => Len(data[x.file]) = n
      BY <1>4, <1>9 DEF Whole
    <3> QED BY <1>6, <1>8, <3>1, <3>2
  <2>2. <<>> \in Files
    BY DEF Files
  <2>3. /\ new \in RunRecs /\ new.air = <<>> /\ new.part = x.part /\ new.st = x.st
        /\ new.next = x.next /\ new.bytes = x.bytes /\ new.edition = x.edition
        /\ new.file = x.file /\ new.lost = x.lost /\ new.why = x.why
        /\ new.appends = x.appends
    BY <1>1, <2>2 DEF RunRecs
  <2>4. Update(r, new)
    BY <1>11
  <2>5. data' = [data EXCEPT ![temp] = Put(data[temp], at, u)]
    BY <1>4, <1>11
  <2> HIDE DEF x, u, n, at, new
  <2>6. /\ run' \in [Runs -> RunRecs] /\ run'[r] = new
        /\ \A q \in Runs \ {r} : run'[q] = run[q]
    BY <2>3, <2>4, UpdateIs DEF Healthy
  <2>7. data' \in [Runs -> Files]
    <3>1. Put(data[temp], at, u) \in Files
      BY <1>4, <1>7, <1>10, <2>1, PutFile
    <3> QED BY <1>10, <2>5, <3>1
  <2>8. Trusted(x) => Whole(data'[temp], edition, n + 1)
    <3>1. ASSUME Trusted(x) PROVE Whole(Put(data[temp], n, UnitAt(edition, n + 1)), edition, n + 1)
      BY <1>4, <1>9, <3>1, PutNext
    <3>2. data'[temp] = Put(data[temp], at, u)
      BY <1>4, <1>10, <2>5
    <3> QED BY <1>7, <2>1, <3>1, <3>2
  <2>9. Handed(new) = Handed(x) /\ Landed(new) = n + 1
    BY <1>6, <2>3 DEF Handed, Landed
  <2>10. RunFits(r)'
    <3>1. Shape(new)
      BY <1>1, <2>3 DEF RunFits, Shape, x
    <3>2. Placed(run[r])'
      BY <1>1, <1>2, <1>3, <2>3, <2>6 DEF RunFits, Placed, Writing, x
    <3>3. Filled(run[r])'
      <4>1. Trusted(run[r])' <=> Trusted(x)
        BY <1>2, <1>11, <2>3, <2>6 DEF Trusted
      <4>2. ~new.lost /\ new.st \in Writing
        BY <1>1, <1>3, <2>3
      <4> QED BY <1>2, <1>9, <2>3, <2>6, <2>8, <2>9, <4>1, <4>2 DEF Filled, Writing
    <3>4. Marked(run[r])'
      BY <1>1, <1>2, <1>11, <2>3, <2>6 DEF RunFits, Marked, Current, x
    <3> QED BY <2>6, <3>1, <3>2, <3>3, <3>4 DEF RunFits
  <2>11. HlsTypes' /\ run'[r].st \in Writing
    BY <1>2, <1>3, <2>3, <2>6, <2>7 DEF Healthy, HlsTypes
  <2> QED BY <1>2, <1>3, <2>6, <2>10, <2>11, WriterKeeps
<1>12. CASE /\ Update(r, [x EXCEPT !.lost = TRUE])
            /\ late' = (late \/ InAirCounted(r))
            /\ data' = data
  <2> DEFINE new == [x EXCEPT !.lost = TRUE]
  <2>1. /\ new \in RunRecs /\ new.air = x.air /\ new.part = x.part /\ new.st = x.st
        /\ new.next = x.next /\ new.bytes = x.bytes /\ new.edition = x.edition
        /\ new.file = x.file /\ new.lost /\ new.why = x.why
        /\ new.appends = x.appends
    BY <1>1 DEF RunRecs
  <2>2. Update(r, new)
    BY <1>12
  <2>3. x.part = 0 => late'
    <3>1. x.part = 0 => u[2] < x.next
      BY <1>4, <1>6, <1>8
    <3>2. x.part = 0 => InAirCounted(r)
      BY <1>1, <3>1 DEF InAirCounted
    <3> QED BY <1>12, <3>2
  <2>4. late => late'
    BY <1>12
  <2> HIDE DEF x, u, n, new
  <2>5. /\ run' \in [Runs -> RunRecs] /\ run'[r] = new
        /\ \A q \in Runs \ {r} : run'[q] = run[q]
    BY <2>1, <2>2, UpdateIs DEF Healthy
  <2>6. Handed(new) = Handed(x) /\ Landed(new) = Landed(x)
    BY <2>1 DEF Handed, Landed
  <2>7. RunFits(r)'
    <3>1. Shape(new)
      BY <1>1, <2>1, <2>6 DEF RunFits, Shape, x
    <3>2. Placed(run[r])'
      BY <1>1, <1>2, <1>3, <2>1, <2>5 DEF RunFits, Placed, Writing, x
    <3>3. Filled(run[r])'
      <4>1. Trusted(run[r])' => Trusted(x)
        BY <1>2, <2>1, <2>4, <2>5 DEF Trusted
      <4>2. Trusted(x) => x.bytes = Half * (x.next - 1) /\ Whole(data[temp], edition, Landed(x))
        BY <1>1, <1>3 DEF RunFits, Filled, x
      <4>3. new.st # "report"
        BY <1>3, <2>1 DEF Writing
      <4> QED BY <1>2, <1>12, <2>1, <2>3, <2>5, <2>6, <4>1, <4>2, <4>3 DEF Filled
    <3>4. Marked(run[r])'
      <4>1. Current' => Current
        BY <1>2, <2>4 DEF Current
      <4> QED BY <1>1, <1>2, <2>1, <2>5, <4>1 DEF RunFits, Marked, x
    <3> QED BY <2>5, <3>1, <3>2, <3>3, <3>4 DEF RunFits
  <2>8. HlsTypes' /\ run'[r].st \in Writing
    BY <1>2, <1>3, <1>12, <2>1, <2>5 DEF Healthy, HlsTypes
  <2> QED BY <1>2, <1>3, <2>5, <2>7, <2>8, WriterKeeps
<1> QED
  <2>1. \/ /\ data' = [data EXCEPT ![x.file] =
                            Put(@, IF x.appends THEN Len(data[x.file])
                                   ELSE Half * (u[2] - 1) + u[3] - 1, u)]
           /\ Update(r, [x EXCEPT !.air = <<>>])
           /\ late' = late
        \/ /\ Update(r, [x EXCEPT !.lost = TRUE])
           /\ late' = (late \/ InAirCounted(r))
           /\ data' = data
    BY DEF Land
  <2> QED BY <1>11, <1>12, <2>1

\* The mark that is saved is of the run's own count.
LEMMA SaveKeeps ==
    ASSUME Healthy, NEW r \in Runs, SaveMark(r), WriterFrame
    PROVE  Healthy'
<1> DEFINE x == run[r]
           new == [x EXCEPT !.st = "top"]
           saved == [next |-> x.next - 1, bytes |-> x.bytes, edition |-> x.edition]
<1>1. x \in RunRecs /\ RunFits(r) /\ x.st = "mark" /\ ~Over(r)
  BY DEF Healthy, HlsTypes, SaveMark, Over
<1>2. UNCHANGED <<edition, status, data, temp, final, last, late>> /\ Update(r, new)
  BY DEF SaveMark, WriterFrame, Goto
<1>3. \/ mark' = saved /\ stale' = (stale /\ x.appends)
      \/ mark' = mark /\ stale' = stale
  BY DEF SaveMark
<1>4. new \in RunRecs /\ new.st = "top" /\ new.why = x.why /\ SameFields(x, new)
  BY <1>1 DEF RunRecs, RunStates, SameFields
<1>5. /\ saved.next = x.next - 1 /\ saved.bytes = x.bytes /\ saved.edition = edition
      /\ saved \in Marks
  BY <1>1 DEF RunRecs, Marks, RunFits, Placed, Shape, Writing
<1> HIDE DEF x, new, saved
<1>6. /\ run' \in [Runs -> RunRecs] /\ run'[r] = new
      /\ \A q \in Runs \ {r} : run'[q] = run[q]
  BY <1>2, <1>4, UpdateIs DEF Healthy
<1>7. x.appends => (stale' <=> stale)
  BY <1>3
<1>8. Trusted(run[r])' <=> Trusted(x)
  BY <1>2, <1>4, <1>6, <1>7 DEF Trusted, SameFields
<1>9. Trusted(x) => x.bytes = Half * (x.next - 1) /\ Whole(data[temp], edition, Landed(x))
  BY <1>1 DEF RunFits, Filled, Writing, x
<1>10. Handed(new) = Handed(x) /\ Landed(new) = Landed(x)
  BY <1>4 DEF Handed, Landed, SameFields
<1>11. RunFits(r)'
  <2>1. Shape(new)
    BY <1>1, <1>4, <1>10 DEF RunFits, Shape, SameFields, x
  <2>2. Placed(run[r])'
    BY <1>1, <1>2, <1>4, <1>6 DEF RunFits, Placed, Writing, SameFields, x
  <2>3. Filled(run[r])'
    <3>1. x.lost /\ x.part = 0 => late
      BY <1>1 DEF RunFits, Filled, Writing, x
    <3> QED BY <1>2, <1>4, <1>6, <1>8, <1>9, <1>10, <3>1 DEF Filled, SameFields
  <2>4. Marked(run[r])'
    <3>1. CASE mark' = saved /\ stale' = (stale /\ x.appends)
      <4>1. Current' => Trusted(x)
        BY <1>2, <3>1 DEF Current, Trusted
      <4>2. x.next \in Nat
        BY <1>1 DEF RunRecs
      <4> QED BY <1>4, <1>5, <1>6, <1>9, <3>1, <4>1, <4>2 DEF Marked, SameFields
    <3>2. CASE mark' = mark /\ stale' = stale
      BY <1>1, <1>2, <1>4, <1>6, <3>2 DEF RunFits, Marked, Current, Writing, SameFields, x
    <3> QED BY <1>3, <3>1, <3>2
  <2> QED BY <1>6, <2>1, <2>2, <2>3, <2>4 DEF RunFits
<1>12. HlsTypes' /\ run'[r].st \in Writing
  <2>1. mark' \in Marks /\ mark'.edition <= edition
    BY <1>3, <1>5 DEF Healthy, HlsTypes
  <2> QED BY <1>2, <1>4, <1>6, <2>1 DEF Healthy, HlsTypes, Writing
<1> QED BY <1>1, <1>2, <1>6, <1>11, <1>12, WriterKeeps

LEMMA WriterStepKeeps ==
    ASSUME Healthy, NEW r \in Runs, Writer(r)
    PROVE  Healthy'
<1>1. WriterFrame
  BY DEF Writer, WriterFrame
<1>2. CASE Write(r)
  BY <1>1, <1>2, HandsOver, RollsBack
<1> QED BY <1>1, <1>2, TopKeeps, ReceiveKeeps, SaveKeeps DEF Writer

-----------------------------------------------------------------------------
(* The end and the beginning of a run. *)

\* The only run ends: the file is at rest, and no task is done but by Report.
LEMMA EndKeeps ==
    ASSUME Healthy, NEW r \in Runs, ~Over(r), End(r),
           UNCHANGED <<mark, data, temp, final, last, stale, late>>,
           edition' = edition, status' # "done",
           run[r].st \in Writing =>
               run[r].air = <<>> \/ (run[r].lost /\ run[r].st # "rename")
    PROVE  Healthy'
<1>1. /\ run' \in [Runs -> RunRecs] /\ run'[r] = NoRun
      /\ \A q \in Runs \ {r} : run'[q] = run[q]
  BY NoRunFits, UpdateIs DEF Healthy, End
<1>2. HlsTypes'
  BY <1>1 DEF Healthy, HlsTypes
<1>3. RunFits(r)'
  BY <1>1, NoRunFits DEF RunFits, Placed, Filled, Marked, Writing
<1>4. Finished'
  BY DEF Finished
<1>5. Rested'
  <2> SUFFICES ASSUME Current, temp # 0
               PROVE  mark.bytes = Half * mark.next /\ Begins(data[temp], edition, mark.bytes)
    BY DEF Rested, Current
  <2>1. CASE run[r].st \in Writing
    <3>1. run[r] \in RunRecs /\ RunFits(r)
      BY DEF Healthy, HlsTypes
    <3>2. run[r].air = <<>> \/ run[r].part = 1
      BY <2>1, <3>1 DEF RunFits, Filled, Current, RunRecs
    <3> QED BY <2>1, <3>2, FileAtRest
  <2>2. CASE run[r].st \notin Writing
    <3>1. \A q \in Runs : run[q].st \notin Writing
      BY <2>2 DEF Healthy, OneRun, Over, Writing
    <3> QED BY <3>1 DEF Healthy, Rested
  <2> QED BY <2>1, <2>2
<1> QED BY <1>1, <1>2, <1>3, <1>4, <1>5, StepKeeps

FinishFrame == UNCHANGED <<edition, data, last, historyVars, boundVars>>

LEMMA JoinKeeps ==
    ASSUME Healthy, NEW r \in Runs, Join(r), FinishFrame
    PROVE  Healthy'
<1> DEFINE x == run[r]
           new == [x EXCEPT !.st = "rename"]
<1>1. x \in RunRecs /\ RunFits(r) /\ x.st = "join" /\ ~Over(r)
  BY DEF Healthy, HlsTypes, Join, Over
<1>2. UNCHANGED <<edition, data, temp, final, last, stale, late>>
  BY DEF Join, FinishFrame, historyVars
<1>3. status # "done"
  BY <1>1 DEF Healthy, Finished
<1>4. CASE x.why = "none" /\ ~x.lost
  <2>1. Update(r, new) /\ status' = status /\ (mark' = NoMark \/ mark' = mark)
    BY <1>4 DEF Join, Goto
  <2>2. new \in RunRecs /\ new.st = "rename" /\ new.why = x.why /\ SameFields(x, new)
    BY <1>1 DEF RunRecs, RunStates, SameFields
  <2>3. x.air = <<>>
    BY <1>4 DEF Join
  <2> HIDE DEF x, new
  <2>4. /\ run' \in [Runs -> RunRecs] /\ run'[r] = new
        /\ \A q \in Runs \ {r} : run'[q] = run[q]
    BY <2>1, <2>2, UpdateIs DEF Healthy
  <2>5. Handed(new) = Handed(x) /\ Landed(new) = Landed(x)
    BY <2>2 DEF Handed, Landed, SameFields
  <2>6. Current' => Current /\ mark' = mark
    BY <1>2, <2>1 DEF Current, NoMark
  <2>7. RunFits(r)'
    <3>1. Shape(new)
      BY <1>1, <1>4, <2>2, <2>3, <2>5 DEF RunFits, Shape, SameFields, x
    <3>2. Placed(run[r])'
      BY <1>1, <1>2, <2>2, <2>4 DEF RunFits, Placed, Writing, SameFields, x
    <3>3. Filled(run[r])'
      <4>1. Trusted(run[r])' <=> Trusted(x)
        BY <1>2, <2>2, <2>4 DEF Trusted, SameFields
      <4>2. Trusted(x) => x.bytes = Half * (x.next - 1) /\ Whole(data[temp], edition, Landed(x))
        BY <1>1 DEF RunFits, Filled, Writing, x
      <4> QED BY <1>2, <1>4, <2>2, <2>4, <2>5, <4>1, <4>2 DEF Filled, SameFields
    <3>4. Marked(run[r])'
      BY <1>1, <2>2, <2>4, <2>6 DEF RunFits, Marked, Writing, SameFields, x
    <3> QED BY <2>4, <3>1, <3>2, <3>3, <3>4 DEF RunFits
  <2>8. HlsTypes' /\ run'[r].st \in Writing
    <3>1. mark' \in Marks /\ mark'.edition <= edition
      BY <2>1 DEF Healthy, HlsTypes, NoMark, Marks
    <3> QED BY <1>2, <2>2, <2>4, <3>1 DEF Healthy, HlsTypes, Writing
  <2> QED BY <1>1, <1>2, <2>1, <2>4, <2>7, <2>8, WriterKeeps
<1>5. CASE ~(x.why = "none" /\ ~x.lost)
  <2>1. End(r) /\ mark' = mark /\ (status' = status \/ status' = "error")
    BY <1>5 DEF Join
  <2>2. run[r].air = <<>> \/ (run[r].lost /\ run[r].st # "rename")
    BY <1>1 DEF Join
  <2>3. status' # "done"
    BY <1>3, <2>1
  <2> HIDE DEF x, new
  <2> QED BY <1>1, <1>2, <2>1, <2>2, <2>3, EndKeeps
<1> QED BY <1>4, <1>5

LEMMA RenameKeeps ==
    ASSUME Healthy, NEW r \in Runs, Rename(r), FinishFrame
    PROVE  Healthy'
<1> DEFINE x == run[r]
           new == [x EXCEPT !.st = "report"]
<1>1. x \in RunRecs /\ RunFits(r) /\ x.st = "rename" /\ ~Over(r)
  BY DEF Healthy, HlsTypes, Rename, Over
<1>2. temp # 0 /\ x.edition = edition /\ x.next = Count + 1 /\ x.air = <<>> /\ x.part = 0 /\ ~x.lost
  BY <1>1 DEF RunFits, Placed, Shape, Writing, RunRecs
<1>3. /\ UNCHANGED <<edition, status, mark, data, last, stale, late>>
      /\ Update(r, new) /\ final' = temp /\ temp' = 0
  BY <1>2 DEF Rename, FinishFrame, historyVars, Goto
<1>4. new \in RunRecs /\ new.st = "report" /\ new.why = x.why /\ SameFields(x, new)
  BY <1>1 DEF RunRecs, RunStates, SameFields
<1> HIDE DEF x, new
<1>5. /\ run' \in [Runs -> RunRecs] /\ run'[r] = new
      /\ \A q \in Runs \ {r} : run'[q] = run[q]
  BY <1>3, <1>4, UpdateIs DEF Healthy
<1>6. RunFits(r)'
  <2>1. Shape(new)
    BY <1>2, <1>4 DEF Shape, SameFields
  <2>2. Placed(run[r])'
    BY <1>2, <1>3, <1>4, <1>5 DEF Placed, Writing, SameFields
  <2>3. Filled(run[r])'
    <3>1. Trusted(run[r])' <=> Trusted(x)
      BY <1>3, <1>4, <1>5 DEF Trusted, SameFields
    <3>2. Trusted(x) => Whole(data[temp], edition, Landed(x))
      BY <1>1 DEF RunFits, Filled, Writing, x
    <3>3. Landed(x) = Half * Count
      BY <1>2 DEF Landed, Handed
    <3> QED BY <1>3, <1>4, <1>5, <3>1, <3>2, <3>3 DEF Filled, Writing
  <2>4. Marked(run[r])'
    BY <1>4, <1>5 DEF Marked, Writing
  <2> QED BY <1>5, <2>1, <2>2, <2>3, <2>4 DEF RunFits
<1>7. HlsTypes'
  BY <1>3, <1>5 DEF Healthy, HlsTypes
<1>8. Rested'
  BY <1>3 DEF Rested
<1>9. Finished'
  BY <1>1, <1>3 DEF Healthy, Finished
<1> QED BY <1>1, <1>3, <1>5, <1>6, <1>7, <1>8, <1>9, StepKeeps

\* The task is done, with the file of a run that was over all segments.
LEMMA ReportKeeps ==
    ASSUME Healthy, NEW r \in Runs, Report(r), FinishFrame
    PROVE  Healthy'
<1>1. run[r] \in RunRecs /\ RunFits(r) /\ run[r].st = "report" /\ ~Over(r)
  BY DEF Healthy, HlsTypes, Report, Over
<1>2. /\ UNCHANGED <<edition, mark, data, temp, final, last, stale, late>>
      /\ End(r)
  BY DEF Report, FinishFrame, historyVars
<1>3. /\ run' \in [Runs -> RunRecs] /\ run'[r] = NoRun
      /\ \A q \in Runs \ {r} : run'[q] = run[q]
  BY <1>2, NoRunFits, UpdateIs DEF Healthy, End
<1>4. HlsTypes'
  BY <1>2, <1>3 DEF Healthy, HlsTypes
<1>5. RunFits(r)'
  BY <1>3, NoRunFits DEF RunFits, Placed, Filled, Marked, Writing
<1>6. temp = 0 /\ final # 0
  BY <1>1 DEF RunFits, Placed
<1>7. Rested'
  BY <1>2, <1>6 DEF Rested
<1>8. \A q \in Runs : Over(q)'
  <2> TAKE q \in Runs
  <2>1. q # r => run[q].st = "over"
    BY <1>1 DEF Healthy, OneRun, Over
  <2> QED BY <1>3, <2>1, NoRunFits DEF Over
<1>9. ~late /\ ~stale => \E e \in 1 .. MaxEdition : Whole(data[final], e, Half * Count)
  <2>1. ~late /\ ~stale => Whole(data[final], edition, Half * Count)
    BY <1>1 DEF RunFits, Filled, Trusted
  <2> QED BY <2>1 DEF Healthy, HlsTypes
<1>10. Finished'
  BY <1>2, <1>6, <1>8, <1>9 DEF Finished
<1> QED BY <1>1, <1>2, <1>3, <1>4, <1>5, <1>7, <1>10, StepKeeps

LEMMA FinishKeeps ==
    ASSUME Healthy, NEW r \in Runs, Finish(r)
    PROVE  Healthy'
<1>1. FinishFrame
  BY DEF Finish, FinishFrame
<1> QED BY <1>1, JoinKeeps, RenameKeeps, ReportKeeps DEF Finish

\* The playlist of a run may be a newer one: no mark is of it yet.
LEMMA ParseKeeps ==
    ASSUME Healthy, NEW r \in Runs, Parse(r)
    PROVE  Healthy'
<1> DEFINE x == run[r]
<1>1. x \in RunRecs /\ RunFits(r) /\ x.st = "parse" /\ ~Over(r)
  BY DEF Healthy, HlsTypes, Parse, Over
<1>2. UNCHANGED <<mark, data, temp, final, last, stale, late>>
  BY DEF Parse, fileVars, historyVars
<1>3. status # "done" /\ run[r].st \notin Writing
  BY <1>1 DEF Healthy, Finished, Writing
<1>4. CASE End(r) /\ edition' = edition /\ (status' = status \/ status' = "error")
  <2>1. status' # "done"
    BY <1>3, <1>4
  <2> HIDE DEF x
  <2> QED BY <1>1, <1>2, <1>3, <1>4, <2>1, EndKeeps
<1>5. CASE /\ edition' \in edition .. MaxEdition /\ status' = status
           /\ Update(r, [x EXCEPT !.st = "open", !.edition = edition'])
  <2>1. /\ edition \in 1 .. MaxEdition /\ edition' \in 1 .. MaxEdition /\ edition' >= edition
        /\ mark.edition \in Nat /\ mark.edition <= edition
    BY <1>5 DEF Healthy, HlsTypes, Marks
  <2> DEFINE e == edition'
             new == [x EXCEPT !.st = "open", !.edition = e]
  <2>1a. e \in 0 .. MaxEdition
    BY <2>1
  <2> HIDE DEF e
  <2>2. /\ new \in RunRecs /\ new.st = "open" /\ new.edition = e
        /\ new.air = x.air /\ new.part = x.part /\ new.why = x.why /\ new.lost = x.lost
    BY <1>1, <2>1a DEF RunRecs, RunStates
  <2>3. /\ run' = [run EXCEPT ![r] = new] /\ run \in [Runs -> RunRecs]
    BY <1>5 DEF Update, Healthy, HlsTypes, e
  <2>4. /\ run' \in [Runs -> RunRecs] /\ run'[r] = new
        /\ \A q \in Runs \ {r} : run'[q] = run[q]
    <3> HIDE DEF new
    <3> QED BY <2>2, <2>3
  <2>5. /\ x.air = <<>> /\ x.part = 0 /\ x.why = "none" /\ ~x.lost
    BY <1>1 DEF RunFits, Shape
  <2>6. run'[r].st = "open" /\ run'[r].edition = edition' /\ Shape(run'[r])
    <3>1. new.edition = edition'
      BY <2>2 DEF e
    <3> HIDE DEF x, new
    <3> QED BY <2>2, <2>4, <2>5, <3>1 DEF Shape
  <2>7. RunFits(r)'
    BY <2>6 DEF RunFits, Placed, Filled, Marked, Writing
  <2>8. HlsTypes'
    BY <1>2, <2>1, <2>4 DEF Healthy, HlsTypes
  <2>9. Rested'
    <3>1. \A q \in Runs : run[q].st \notin Writing
      BY <1>1, <1>3 DEF Healthy, OneRun, Over, Writing
    <3>2. Current' => Current /\ edition' = edition
      BY <1>2, <2>1 DEF Current
    <3> QED BY <1>2, <3>1, <3>2 DEF Healthy, Rested
  <2>10. Finished'
    BY <1>3, <1>5 DEF Finished
  <2> QED BY <1>1, <1>2, <2>4, <2>7, <2>8, <2>9, <2>10, StepKeeps
<1>6. \/ End(r) /\ edition' = edition /\ (status' = status \/ status' = "error")
      \/ /\ edition' \in edition .. MaxEdition /\ status' = status
         /\ Update(r, [x EXCEPT !.st = "open", !.edition = edition'])
  BY DEF Parse
<1> QED BY <1>4, <1>5, <1>6

\* The record of a run that has opened its file.
LEMMA OpenedIs ==
    ASSUME HlsTypes, NEW r \in Runs, RunFits(r), run[r].st = "open",
           NEW f \in Runs, NEW a \in BOOLEAN, NEW n \in 1 .. Count + 1, NEW b \in Nat
    PROVE  LET x == Opened(r, f, a, n, b) IN
           /\ x \in RunRecs /\ x.st = "top" /\ x.edition = edition /\ x.file = f
           /\ x.appends = a /\ x.next = n /\ x.bytes = b /\ Shape(x)
           /\ ~x.lost /\ Landed(x) = Half * (n - 1)
<1> DEFINE p == [s \in Segments |-> IF s < n THEN "gone" ELSE "wait"]
           x == [run[r] EXCEPT !.st = "top", !.file = f, !.appends = a, !.first = n,
                               !.next = n, !.bytes = b, !.fetch = p]
<1>1. Opened(r, f, a, n, b) = x
  BY DEF Opened
<1>2. p \in [Segments -> FetchStates]
  BY DEF FetchStates
<1>3. /\ run[r] \in RunRecs /\ run[r].edition = edition /\ run[r].air = <<>>
      /\ run[r].part = 0 /\ run[r].why = "none" /\ ~run[r].lost
  BY DEF HlsTypes, RunFits, Placed, Shape
<1> HIDE DEF p
<1>4. /\ x \in RunRecs /\ x.st = "top" /\ x.edition = edition /\ x.file = f
      /\ x.appends = a /\ x.next = n /\ x.bytes = b
      /\ x.air = <<>> /\ x.part = 0 /\ x.why = "none" /\ ~x.lost
  BY <1>2, <1>3 DEF RunRecs, RunStates
<1> HIDE DEF x
<1>5. Shape(x)
  BY <1>4 DEF Shape
<1>6. Landed(x) = Half * (n - 1)
  BY <1>4 DEF Landed, Handed
<1> QED BY <1>1, <1>4, <1>5, <1>6

\* The file is cut at a mark that is a boundary, or begun anew.
LEMMA OpenKeeps ==
    ASSUME Healthy, NEW r \in Runs, Open(r)
    PROVE  Healthy'
<1>1. run[r] \in RunRecs /\ RunFits(r) /\ run[r].st = "open" /\ ~Over(r) /\ HlsTypes
  BY DEF Healthy, HlsTypes, Open, Over
<1>2. UNCHANGED <<edition, status, final, last>>
  BY DEF Open
<1>3. run[r].edition = edition
  BY <1>1 DEF RunFits, Placed
<1>4. \A q \in Runs : run[q].st \notin Writing
  BY <1>1 DEF Healthy, OneRun, Over, Writing
<1>5. /\ edition \in 1 .. MaxEdition /\ mark \in Marks /\ mark.next \in 0 .. Count
      /\ mark.bytes \in Nat /\ data \in [Runs -> Files] /\ temp \in Runs \cup {0}
  BY DEF Healthy, HlsTypes, Marks
<1>6. CASE run[r].resume /\ MaySkip(r)
  <2> DEFINE yes == TRUE
             n == mark.next + 1
             b == Len(data'[temp])
             x == Opened(r, temp, yes, n, b)
  <2>1. /\ data' = [data EXCEPT ![temp] = Cut(data[temp])]
        /\ Update(r, x) /\ UNCHANGED <<mark, temp, stale, late>>
    BY <1>6 DEF Open
  <2>2. temp \in Runs /\ temp # 0 /\ mark.next > 0 /\ mark.edition = edition
    BY <1>3, <1>5, <1>6 DEF MaySkip
  <2>3. Cut(data[temp]) \in Files /\ data' \in [Runs -> Files] /\ data'[temp] = Cut(data[temp])
    BY <1>5, <2>1, <2>2, CutFile
  <2>4. b \in Nat /\ n \in 1 .. Count + 1 /\ yes \in BOOLEAN /\ n - 1 = mark.next
    BY <1>5, <2>3 DEF Files
  <2> HIDE DEF yes, n, b
  <2>5. /\ x \in RunRecs /\ x.st = "top" /\ x.edition = edition /\ x.file = temp
        /\ x.appends = yes /\ x.next = n /\ x.bytes = b /\ Shape(x)
        /\ ~x.lost /\ Landed(x) = Half * (n - 1)
    BY <1>1, <2>2, <2>4, OpenedIs
  <2>6. yes
    BY DEF yes
  <2> HIDE DEF x
  <2>7. /\ run' \in [Runs -> RunRecs] /\ run'[r] = x
        /\ \A q \in Runs \ {r} : run'[q] = run[q]
    BY <1>1, <2>1, <2>5, UpdateIs
  <2>8. Current => mark.bytes = Half * mark.next /\ Whole(data'[temp], edition, mark.bytes)
    <3>1. Current => mark.bytes = Half * mark.next /\ Begins(data[temp], edition, mark.bytes)
      BY <1>4, <2>2 DEF Healthy, Rested
    <3>2. Begins(data[temp], edition, mark.bytes) => Whole(Cut(data[temp]), edition, mark.bytes)
      BY <1>5, <2>2, CutFile
    <3> QED BY <2>3, <3>1, <3>2
  <2>9. RunFits(r)'
    <3>1. Placed(run[r])'
      BY <1>2, <2>1, <2>2, <2>5, <2>7 DEF Placed
    <3>2. Filled(run[r])'
      <4>1. Trusted(run[r])' => Current
        BY <2>1, <2>2, <2>5, <2>6, <2>7 DEF Trusted, Current
      <4>2. Current => b = mark.bytes
        BY <2>8 DEF Whole, b
      <4> QED BY <1>2, <2>1, <2>4, <2>5, <2>7, <2>8, <4>1, <4>2 DEF Filled
    <3>3. Marked(run[r])'
      <4>1. Current' => Current
        BY <1>2, <2>1 DEF Current
      <4> QED BY <1>5, <2>1, <2>4, <2>5, <2>7, <2>8, <4>1 DEF Marked
    <3> QED BY <2>5, <2>7, <3>1, <3>2, <3>3 DEF RunFits
  <2>10. HlsTypes' /\ run'[r].st \in Writing
    BY <1>1, <1>2, <2>1, <2>3, <2>5, <2>7 DEF HlsTypes, Writing
  <2> QED BY <1>1, <1>2, <2>7, <2>9, <2>10, WriterKeeps
<1>7. CASE ~(run[r].resume /\ MaySkip(r))
  <2> DEFINE no == FALSE
             n == 1
             b == 0
             x == Opened(r, temp', no, n, b)
  <2>1. /\ temp' = IF temp = 0 THEN r ELSE temp
        /\ data' = [data EXCEPT ![temp'] = <<>>]
        /\ Update(r, x)
        /\ mark' = mark \/ mark' = NoMark
        /\ stale' = (mark'.next > 0 /\ mark'.edition = run[r].edition)
        /\ late' = FALSE
    BY <1>7 DEF Open
  <2>2. temp' \in Runs /\ <<>> \in Files
    BY <1>5, <2>1 DEF Files
  <2>3. data' \in [Runs -> Files] /\ data'[temp'] = <<>>
    BY <1>5, <2>1, <2>2
  <2>4. b \in Nat /\ n \in 1 .. Count + 1 /\ no \in BOOLEAN /\ b = Half * (n - 1) /\ n - 1 = 0 /\ b = 0
    OBVIOUS
  <2> HIDE DEF no, n, b
  <2>5. /\ x \in RunRecs /\ x.st = "top" /\ x.edition = edition /\ x.file = temp'
        /\ x.appends = no /\ x.next = n /\ x.bytes = b /\ Shape(x)
        /\ ~x.lost /\ Landed(x) = Half * (n - 1)
    BY <1>1, <2>2, <2>4, OpenedIs
  <2>6. run' = [run EXCEPT ![r] = x]
    BY <2>1 DEF Update
  <2>7. /\ run' \in [Runs -> RunRecs] /\ run'[r] = x
        /\ \A q \in Runs \ {r} : run'[q] = run[q]
    <3> HIDE DEF x
    <3> QED BY <1>1, <2>5, <2>6 DEF HlsTypes
  <2>8. Whole(data'[temp'], edition, 0)
    BY <2>2, <2>3 DEF Whole, Begins
  <2>9. /\ run'[r].st = "top" /\ run'[r].edition = edition /\ run'[r].file = temp'
        /\ run'[r].next = n /\ run'[r].bytes = b /\ Shape(run'[r])
        /\ ~run'[r].lost /\ Landed(run'[r]) = 0
    <3> HIDE DEF x
    <3> QED BY <2>4, <2>5, <2>7
  <2> HIDE DEF x
  <2>10. ~Current'
    BY <1>2, <1>3, <2>1 DEF Current
  <2>11. temp' # 0
    BY <2>2 DEF Runs
  <2>12. RunFits(r)'
    <3>1. Placed(run[r])'
      BY <1>2, <2>9, <2>11 DEF Placed
    <3>2. Filled(run[r])'
      BY <1>2, <2>4, <2>8, <2>9 DEF Filled
    <3>3. Marked(run[r])'
      BY <2>10 DEF Marked
    <3> QED BY <2>9, <3>1, <3>2, <3>3 DEF RunFits
  <2>13. HlsTypes' /\ run'[r].st \in Writing
    <3>1. mark' \in Marks /\ mark'.edition <= edition
      BY <1>1, <1>5, <2>1 DEF HlsTypes, NoMark, Marks
    <3> QED BY <1>1, <1>2, <2>2, <2>3, <2>7, <2>9, <3>1 DEF HlsTypes, Writing
  <2> QED BY <1>1, <1>2, <2>7, <2>12, <2>13, WriterKeeps
<1> QED BY <1>6, <1>7

-----------------------------------------------------------------------------
(* The manager. *)

\* A run is spawned when all others are over.
LEMMA SpawnKeeps ==
    ASSUME Healthy, NEW runs \in [Runs -> RunRecs], NEW b \in BOOLEAN,
           \A q \in Runs : runs[q].st = run[q].st /\ Shape(runs[q]),
           Spawn(runs, b), ~overlapped',
           UNCHANGED <<edition, mark, data, stale, late>>,
           temp' = temp \/ temp' = 0, final' = final \/ final' = 0, status' = "running"
    PROVE  Healthy'
<1> DEFINE n == last + 1
           new == [NoRun EXCEPT !.st = "parse", !.resume = b]
<1>1. HlsTypes /\ n \in Runs /\ last' = n
  BY DEF Healthy, HlsTypes, Spawn, Runs
<1>2. run' = [runs EXCEPT ![n] = new]
  BY DEF Spawn
<1>3. \A q \in Runs : Over(q)
  BY DEF Spawn
<1>4. new \in RunRecs /\ new.st = "parse" /\ Shape(new)
  <2>1. /\ new \in RunRecs /\ new.st = "parse" /\ new.air = NoRun.air /\ new.part = NoRun.part
        /\ new.why = NoRun.why /\ new.lost = NoRun.lost
    BY NoRunFits DEF RunRecs, RunStates
  <2> HIDE DEF new
  <2> QED BY <2>1 DEF Shape, NoRun
<1> HIDE DEF n, new
<1>5. /\ run' \in [Runs -> RunRecs] /\ run'[n] = new
      /\ \A q \in Runs \ {n} : run'[q] = runs[q]
  BY <1>1, <1>2, <1>4
<1>6. HlsTypes'
  BY <1>1, <1>5 DEF HlsTypes, Runs
<1>7. OneRun'
  BY <1>1, <1>3, <1>5 DEF OneRun, Over
<1>8. ASSUME NEW q \in Runs PROVE run'[q].st \in {"over", "parse"} /\ Shape(run'[q])
  <2>1. CASE q = n
    BY <1>4, <1>5, <2>1
  <2>2. CASE q # n
    BY <1>3, <1>5, <2>2 DEF Over
  <2> QED BY <2>1, <2>2
<1>9. \A q \in Runs : RunFits(q)'
  BY <1>8 DEF RunFits, Placed, Filled, Marked, Writing
<1>10. Finished'
  BY DEF Finished
<1>11. Rested'
  <2>1. \A q \in Runs : run[q].st \notin Writing
    BY <1>3 DEF Over, Writing
  <2>2. Current' <=> Current
    BY DEF Current
  <2> QED BY <2>1, <2>2 DEF Healthy, Rested
<1> QED BY <1>6, <1>7, <1>9, <1>10, <1>11 DEF Healthy

LEMMA CancelledRuns ==
    ASSUME HlsTypes, \A q \in Runs : Shape(run[q])
    PROVE  /\ Cancelled(run) \in [Runs -> RunRecs]
           /\ \A q \in Runs : Cancelled(run)[q].st = run[q].st /\ Shape(Cancelled(run)[q])
<1>1. ASSUME NEW q \in Runs
      PROVE  Cancelled(run)[q] \in RunRecs /\ Quietly(run[q], Cancelled(run)[q])
  <2>1. run[q] \in RunRecs /\ Shape(run[q])
    BY DEF HlsTypes
  <2>2. Cancelled(run)[q] = [run[q] EXCEPT !.cancelled = TRUE]
    BY DEF Cancelled
  <2> QED BY <2>1, <2>2 DEF RunRecs, RunStates, Quietly, Shape, Writing, Handed
<1>2. Cancelled(run) = [q \in Runs |-> Cancelled(run)[q]]
  BY DEF Cancelled
<1>3. \A q \in Runs : Cancelled(run)[q].st = run[q].st
  BY DEF Cancelled, HlsTypes, RunRecs
<1> QED BY <1>1, <1>2, <1>3 DEF Quietly

LEMMA ManagerKeeps ==
    ASSUME Healthy, Start \/ Resume \/ Restart, ~overlapped'
    PROVE  Healthy'
<1>1. \A q \in Runs : run[q].st = run[q].st /\ Shape(run[q])
  BY DEF Healthy, RunFits
<1>2. HlsTypes /\ run \in [Runs -> RunRecs]
  BY DEF Healthy, HlsTypes
<1> DEFINE yes == TRUE
           no == FALSE
           cancelled == Cancelled(run)
<1>3. yes \in BOOLEAN /\ no \in BOOLEAN
  OBVIOUS
<1>4. CASE Start
  <2>1. /\ Spawn(run, no) /\ status' = "running" /\ temp' = temp /\ final' = final
        /\ UNCHANGED <<edition, mark, data, stale, late>>
    BY <1>4 DEF Start, fileVars
  <2> HIDE DEF no
  <2> QED BY <1>1, <1>2, <1>3, <2>1, SpawnKeeps
<1>5. CASE Resume
  <2>1. /\ Spawn(run, yes) /\ status' = "running" /\ temp' = temp /\ final' = final
        /\ UNCHANGED <<edition, mark, data, stale, late>>
    BY <1>5 DEF Resume, fileVars
  <2> HIDE DEF yes
  <2> QED BY <1>1, <1>2, <1>3, <2>1, SpawnKeeps
<1>6. CASE Restart
  <2>1. /\ Spawn(cancelled, yes) /\ status' = "running" /\ temp' = 0 /\ final' = 0
        /\ UNCHANGED <<edition, mark, data, stale, late>>
    BY <1>6 DEF Restart
  <2>2. /\ cancelled \in [Runs -> RunRecs]
        /\ \A q \in Runs : cancelled[q].st = run[q].st /\ Shape(cancelled[q])
    BY <1>1, <1>2, CancelledRuns
  <2> HIDE DEF yes, cancelled
  <2> QED BY <1>3, <2>1, <2>2, SpawnKeeps
<1> QED BY <1>4, <1>5, <1>6

LEMMA CrashKeeps ==
    ASSUME Healthy, Crash
    PROVE  Healthy'
<1>1. /\ run' = [q \in Runs |-> NoRun]
      /\ UNCHANGED <<edition, mark, data, temp, final, last, stale>>
      /\ late' = (late \/ \E q \in Runs : InAirCounted(q))
  BY DEF Crash, fileVars
<1>2. \A q \in Runs : run'[q] = NoRun /\ run'[q] \in RunRecs /\ run'[q].st = "over" /\ Shape(run'[q])
  BY <1>1, NoRunFits
<1>3. HlsTypes'
  BY <1>1, <1>2 DEF Healthy, HlsTypes
<1>4. OneRun' /\ \A q \in Runs : RunFits(q)'
  BY <1>2 DEF OneRun, Over, RunFits, Placed, Filled, Marked, Writing
<1>5. Finished'
  <2>1. \E q \in Runs : ~Over(q)
    BY DEF Crash
  <2>2. status # "done"
    BY <2>1 DEF Healthy, Finished
  <2>3. status' # "done"
    BY <2>2 DEF Crash
  <2> QED BY <2>3 DEF Finished
<1>6. Rested'
  <2> SUFFICES ASSUME Current', temp # 0
               PROVE  mark.bytes = Half * mark.next /\ Begins(data[temp], edition, mark.bytes)
    BY <1>1 DEF Rested
  <2>1. Current /\ ~\E q \in Runs : InAirCounted(q)
    BY <1>1 DEF Current
  <2>2. CASE \A q \in Runs : run[q].st \notin Writing
    BY <2>1, <2>2 DEF Healthy, Rested
  <2>3. CASE \E q \in Runs : run[q].st \in Writing
    <3>1. PICK r \in Runs : run[r].st \in Writing
      BY <2>3
    <3> DEFINE x == run[r]
               h == Handed(x)
    <3>2. x \in RunRecs /\ Shape(x)
      BY DEF Healthy, HlsTypes, RunFits
    <3>3. x.next \in Nat \ {0} /\ h = 2 * (x.next - 1) + x.part /\ x.part \in {0, 1}
      BY <3>2 DEF RunRecs, Handed
    <3>4. x.air = <<>> \/ x.part = 1
      <4> SUFFICES ASSUME x.air # <<>>, x.part = 0 PROVE FALSE
        BY <3>3
      <4>1. h >= 1 /\ x.air[1] = UnitAt(x.edition, h)
        BY <3>2 DEF Shape
      <4> DEFINE n == h - 1
      <4>2. n \in Nat /\ n + 1 = h /\ n + 2 = 2 * (x.next - 1) + 1
        BY <3>3, <4>1
      <4>3. UnitAt(x.edition, n + 1)[2] = (n + 2) \div 2
        BY <4>2, PlaceOf
      <4>4. x.air[1][2] < x.next
        BY <3>3, <4>1, <4>2, <4>3
      <4> QED BY <2>1, <4>4 DEF InAirCounted
    <3> QED BY <2>1, <3>1, <3>4, FileAtRest
  <2> QED BY <2>2, <2>3
<1> QED BY <1>3, <1>4, <1>5, <1>6 DEF Healthy

-----------------------------------------------------------------------------
(***************************************************************************)
(* The specification.                                                      *)
(***************************************************************************)

\* The first state has no run, no file and no mark.
LEMMA InitHealthy == HlsInit => HlsInv
<1> SUFFICES ASSUME HlsInit PROVE Healthy
  BY DEF HlsInv
<1>1. <<>> \in Files
  BY DEF Files
<1>2. HlsTypes
  BY <1>1, NoRunFits DEF HlsInit, HlsTypes, Marks, NoMark
<1>3. \A q \in Runs : run[q].st = "over" /\ Shape(run[q])
  BY NoRunFits DEF HlsInit
<1>4. OneRun /\ \A q \in Runs : RunFits(q)
  BY <1>3 DEF OneRun, Over, RunFits, Placed, Filled, Marked, Writing
<1>5. Rested /\ Finished
  BY DEF Rested, Finished, HlsInit
<1> QED BY <1>2, <1>4, <1>5 DEF Healthy

LEMMA NextHealthy == HlsInv /\ [HlsNext]_vars => HlsInv'
<1> SUFFICES ASSUME HlsInv, [HlsNext]_vars, ~overlapped' PROVE Healthy'
  BY DEF HlsInv
<1>1. CASE UNCHANGED vars
  <2>1. Healthy
    BY <1>1 DEF HlsInv, vars
  <2>2. /\ UNCHANGED <<edition, mark, data, temp, final, last, stale, late>>
        /\ run' = run /\ status' = status
    BY <1>1 DEF vars, fileVars
  <2>3. run \in [Runs -> RunRecs] /\ \A q \in Runs : Quietly(run[q], run'[q])
    BY <2>1, <2>2 DEF Healthy, HlsTypes, RunFits, Quietly
  <2> QED BY <2>1, <2>2, <2>3, QuietKeeps
<1>2. CASE HlsNext
  <2>1. ~overlapped
    BY <1>2 DEF HlsNext, Start, Resume, Pause, Restart, Crash, Spawn, Going, RunStep, Parse,
                Open, Writer, Land, Finish, Producer, historyVars
  <2>2. Healthy
    BY <2>1 DEF HlsInv
  <2>3. CASE \E r \in Runs : Going(r)
    <3>1. PICK r \in Runs : Going(r)
      BY <2>3
    <3>2. CASE \E s \in Segments : Producer(r, s)
      BY <2>2, <3>2, ProducerKeeps
    <3> QED BY <2>2, <3>1, <3>2, ParseKeeps, OpenKeeps, WriterStepKeeps, LandKeeps, FinishKeeps
            DEF Going, RunStep
  <2> QED BY <1>2, <2>2, <2>3, ManagerKeeps, PauseKeeps, CrashKeeps DEF HlsNext
<1> QED BY <1>1, <1>2

\* The inductive invariant: as long as no run overlaps another.
THEOREM HlsSafe == HlsSpec => []HlsInv
<1>1. HlsInit => HlsInv
  BY InitHealthy
<1>2. HlsInv /\ [HlsNext]_vars => HlsInv'
  BY NextHealthy
<1> QED BY <1>1, <1>2, PTL DEF HlsSpec

\* A task that is done has all segments of one playlist in its file, in order
\* and without a hole: what run_hls_download promises of a resume at the mark.
THEOREM FilesAreComplete == HlsSpec => []DoneMeansWhole
<1>1. HlsInv => DoneMeansWhole
  <2> SUFFICES ASSUME HlsInv, status = "done", Undisturbed
               PROVE  final # 0 /\ \E e \in 1 .. MaxEdition : data[final] = Content(e, Count)
    BY DEF DoneMeansWhole
  <2>1. Healthy
    BY DEF HlsInv, Undisturbed
  <2>2. final # 0 /\ \E e \in 1 .. MaxEdition : Whole(data[final], e, Half * Count)
    BY <2>1 DEF Healthy, Finished, Undisturbed
  <2>3. PICK e \in 1 .. MaxEdition : Whole(data[final], e, Half * Count)
    BY <2>2
  <2>4. data[final] = Content(e, Count)
    BY <2>3, WholeIsContent
  <2> QED BY <2>2, <2>4
<1> QED BY <1>1, HlsSafe, PTL

\* What is before the mark is exactly the segments it counts, but for a write in
\* the air: what run_hls_download relies on when it cuts the file at the mark.
THEOREM MarksAreBoundaries == HlsSpec => []MarkIsBoundary
<1>1. HlsInv => MarkIsBoundary
  <2> DEFINE whole == Content(mark.edition, mark.next)
             inAir == \E r \in Runs : run[r].file = temp /\ run[r].air = <<Last(whole)>>
             sure == IF inAir THEN Front(whole) ELSE whole
  <2> SUFFICES ASSUME HlsInv, mark.next > 0, temp # 0, mark.edition = edition, Undisturbed
               PROVE  mark.bytes = Len(whole) /\ IsPrefix(sure, data[temp])
    BY DEF MarkIsBoundary
  <2>1. Healthy /\ Current
    BY DEF HlsInv, Undisturbed, Current
  <2>2. /\ edition \in Nat /\ mark.next \in Nat \ {0} /\ temp \in Runs
        /\ data[temp] \in Files /\ run \in [Runs -> RunRecs]
    BY <2>1 DEF Healthy, HlsTypes, Marks
  <2> DEFINE n == Half * mark.next
  <2>3. /\ n \in Nat /\ n >= 2 /\ whole \in Files /\ Len(whole) = n
        /\ \A i \in 1 .. n : whole[i] = UnitAt(edition, i)
    BY <2>2, ContentIs
  <2>4. mark.bytes = n /\ (Begins(data[temp], edition, n) \/ (inAir /\ Begins(data[temp], edition, n - 1)))
    <3>1. CASE \A r \in Runs : run[r].st \notin Writing
      BY <2>1, <3>1 DEF Healthy, Rested
    <3>2. CASE \E r \in Runs : run[r].st \in Writing
      <4>1. PICK r \in Runs : run[r].st \in Writing
        BY <3>2
      <4> DEFINE x == run[r]
                 h == Handed(x)
                 k == Landed(x)
      <4>2. x \in RunRecs /\ RunFits(r)
        BY <2>1, <2>2 DEF Healthy
      <4>3. /\ mark.bytes = n /\ mark.next <= x.next - 1
            /\ x.file = temp /\ x.edition = edition
            /\ Whole(data[temp], edition, k)
            /\ x.air # <<>> => x.air = <<UnitAt(edition, h)>>
        BY <2>1, <4>1, <4>2 DEF RunFits, Marked, Placed, Filled, Shape, Current, Trusted
      <4>4. n <= h /\ h \in Nat /\ (k = h \/ (x.air # <<>> /\ k = h - 1))
        BY <2>2, <4>2, <4>3 DEF Handed, Landed, RunRecs
      <4> HIDE DEF x, h, k, n, inAir, whole
      <4>5. CASE n <= k
        BY <2>3, <4>3, <4>5, BeginsLess DEF Whole
      <4>6. CASE n > k
        <5>1. n = h /\ k = n - 1 /\ x.air = <<UnitAt(edition, n)>>
          BY <2>3, <4>3, <4>4, <4>6
        <5>2. Last(whole) = UnitAt(edition, n)
          BY <2>3 DEF Last
        <5>3. inAir
          BY <4>3, <5>1, <5>2 DEF inAir, x
        <5> QED BY <4>3, <5>1, <5>3 DEF Whole
      <4>7. k \in Int
        BY <4>4
      <4> QED BY <2>3, <4>5, <4>6, <4>7
    <3> QED BY <3>1, <3>2
  <2> HIDE DEF n, whole, inAir
  <2>5. Begins(data[temp], edition, n - 1)
    BY <2>3, <2>4, BeginsLess
  <2>6. Front(whole) \in Files /\ Len(Front(whole)) = n - 1 /\ \A i \in 1 .. n - 1 : Front(whole)[i] = UnitAt(edition, i)
    BY <2>3 DEF Front, Files
  <2>7. \A f \in Files, k \in Nat :
           /\ Len(f) = k /\ \A i \in 1 .. k : f[i] = UnitAt(edition, i)
           /\ Begins(data[temp], edition, k)
           => IsPrefix(f, data[temp])
    <3> SUFFICES ASSUME NEW f \in Files, NEW k \in Nat, Len(f) = k,
                        \A i \in 1 .. k : f[i] = UnitAt(edition, i),
                        Begins(data[temp], edition, k)
                 PROVE  IsPrefix(f, data[temp])
      OBVIOUS
    <3>1. k <= Len(data[temp]) /\ \A i \in 1 .. k : f[i] = data[temp][i]
      BY DEF Begins
    <3>2. SubSeq(f, 1, k) = SubSeq(data[temp], 1, k)
      BY <2>2, <3>1 DEF Files
    <3> QED BY <3>1, <3>2 DEF IsPrefix
  <2>8. IsPrefix(sure, data[temp])
    <3>1. CASE inAir
      <4>1. IsPrefix(Front(whole), data[temp])
        BY <2>3, <2>5, <2>6, <2>7
      <4> QED BY <3>1, <4>1
    <3>2. CASE ~inAir
      <4>1. IsPrefix(whole, data[temp])
        BY <2>3, <2>4, <2>7, <3>2
      <4> QED BY <3>2, <4>1
    <3> QED BY <3>1, <3>2
  <2> QED BY <2>3, <2>4, <2>8
<1> QED BY <1>1, HlsSafe, PTL

=============================================================================
