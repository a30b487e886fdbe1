------------------------------ MODULE ConnPolicy ------------------------------
(***************************************************************************)
(* What is remembered of a host: the number of connections it has refused  *)
(* to go beyond (`cap') and the number it has once served well (`hint').   *)
(* Each face has a time stamp and is forgotten TTL later; 0 is no record.  *)
(***************************************************************************)
EXTENDS Naturals

CONSTANTS TTL, HintCeiling

ASSUME PolicyAssumption == TTL \in Nat \ {0} /\ HintCeiling \in Nat

Least(x, y) == IF x <= y THEN x ELSE y
Most(x, y) == IF x >= y THEN x ELSE y

NoEntry == [cap |-> 0, capTs |-> 0, hint |-> 0, hintTs |-> 0]

\* A clock that has stepped back makes a record look new.
Fresh(ts, now) == now < ts \/ now - ts < TTL

HasCap(e, now) == e.cap > 0 /\ Fresh(e.capTs, now)
HasHint(e, now) == e.hint > 0 /\ Fresh(e.hintTs, now)

Pruned(e, now) ==
    [cap |-> IF HasCap(e, now) THEN e.cap ELSE 0,
     capTs |-> IF HasCap(e, now) THEN e.capTs ELSE 0,
     hint |-> IF HasHint(e, now) THEN e.hint ELSE 0,
     hintTs |-> IF HasHint(e, now) THEN e.hintTs ELSE 0]

\* A refusal tightens a fresh cap, and renews it.
RecordCap(e, n, now) ==
    [e EXCEPT !.cap = IF HasCap(e, now) THEN Least(@, Most(n, 1)) ELSE Most(n, 1),
              !.capTs = now]

RecordHint(e, n, now) ==
    [e EXCEPT !.hint = IF HasHint(e, now) THEN Most(@, Most(n, 1)) ELSE Most(n, 1),
              !.hintTs = now]

\* What a start of the program makes of the entry in memory and the stored one.
\* A face is taken with its own time stamp.
Merged(e, stored, now) ==
    LET s == Pruned(stored, now)
        capTaken == s.cap > 0 /\ (~HasCap(e, now) \/ s.cap < e.cap)
        hintTaken == s.hint > 0 /\ (~HasHint(e, now) \/ s.hint > e.hint)
    IN [cap |-> IF capTaken THEN s.cap ELSE e.cap,
        capTs |-> IF capTaken THEN s.capTs ELSE e.capTs,
        hint |-> IF hintTaken THEN s.hint ELSE e.hint,
        hintTs |-> IF hintTaken THEN s.hintTs ELSE e.hintTs]

\* What the readers see: a fresh cap bounds the hint.
CapOf(e, now) == Pruned(e, now).cap

HintOf(e, now) ==
    LET p == Pruned(e, now) IN
    IF p.hint > 0 /\ p.cap > 0 THEN Least(p.hint, p.cap) ELSE p.hint

\* Mutant of Uncapped: the hint lifts the limit although there is a cap.
UncappedAnyway(allow, cap, hint, base) ==
    IF ~allow \/ hint = 0 THEN base ELSE Most(base, Least(2 * hint, HintCeiling))

\* The limit may be lifted to twice a hint, never past a refusal.
Uncapped(allow, cap, hint, base) ==
    IF ~allow \/ cap > 0 \/ hint = 0 THEN base
    ELSE Most(base, Least(2 * hint, HintCeiling))

\* The most connections a download with this plan may use.
WorkerCap(e, now, plan, allow) ==
    LET cap == CapOf(e, now)
        base == IF cap > 0 THEN Least(plan, cap) ELSE plan
    IN Uncapped(allow, cap, HintOf(e, now), base)
=============================================================================
