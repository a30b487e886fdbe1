--------------------------- MODULE DurableProgress ---------------------------
(***************************************************************************)
(* What the write path of a multi-segment download promises, without the   *)
(* gate, the buffers, the watermark table or the retries: the disk fills,  *)
(* the saved progress of a segment follows it and never passes it, and a   *)
(* segment is finished once its last byte is on disk and saved.  Only the  *)
(* hand-over of an unfinished segment to another worker may forget saved   *)
(* progress.  A crash is no step of this specification: what is on disk,   *)
(* saved or finished before it still is after it.                          *)
(***************************************************************************)
EXTENDS Naturals

CONSTANTS Segments, Length

VARIABLES
    disk,       \* bytes of each segment that survive a power loss
    saved,      \* bytes of each segment the database claims
    finished    \* segments reported complete

progressVars == <<disk, saved, finished>>

NotBelow(new, old) == \A s \in Segments : new[s] >= old[s]

ProgressInit ==
    /\ disk = [s \in Segments |-> 0]
    /\ saved = [s \in Segments |-> 0]
    /\ finished = {}

\* An fdatasync makes bytes of any of the segments durable.
Fill ==
    /\ disk' \in [Segments -> 0 .. Length]
    /\ NotBelow(disk', disk)
    /\ UNCHANGED <<saved, finished>>

\* The database learns of bytes that are durable.
Save ==
    /\ saved' \in [Segments -> 0 .. Length]
    /\ NotBelow(saved', saved)
    /\ NotBelow(disk, saved')
    /\ UNCHANGED <<disk, finished>>

\* An unfinished segment is handed to another worker, from progress that may
\* be older than what was saved.
HandOver(s) ==
    /\ s \notin finished
    /\ \E off \in 0 .. saved[s] : saved' = [saved EXCEPT ![s] = off]
    /\ UNCHANGED <<disk, finished>>

\* Segments are reported complete.
Finish ==
    /\ finished' \in SUBSET Segments
    /\ finished \subseteq finished'
    /\ \A s \in finished' : saved[s] = Length
    /\ UNCHANGED <<disk, saved>>

ProgressNext ==
    \/ Fill
    \/ Save
    \/ \E s \in Segments : HandOver(s)
    \/ Finish

ProgressSpec == ProgressInit /\ [][ProgressNext]_progressVars
=============================================================================
