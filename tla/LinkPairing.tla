----------------------------- MODULE LinkPairing -----------------------------
(***************************************************************************)
(* Two devices become a pair: one shows a code, the other sends it with a  *)
(* hello, both users compare a number, the initiator's confirmation waits  *)
(* for the responder's decision, and each side records the secret of the   *)
(* session.  Replies are lost, either side restarts, users are slow, and   *)
(* both devices may play both parts at once.                               *)
(*                                                                         *)
(* A code is consumed by the one hello it serves, so it also names the     *)
(* session, the initiator's token and the secret that comes of it.  The    *)
(* unit of the clock is the minute that a user has to decide.  The keys    *)
(* and signatures, the guesses of a wrong code and the transport are left  *)
(* out.                                                                    *)
(***************************************************************************)
EXTENDS Naturals, FiniteSets

CONSTANTS
    Devices, Codes, NoCode,
    CodeTtl,        \* CODE_TTL
    Window,         \* LOCAL_DECISION_TIMEOUT
    SessionTtl,     \* SESSION_TTL and PENDING_INIT_TTL
    MaxPending,     \* the tokens an initiator holds at once
    DbFaults,       \* whether a record may fail to be written
    MaxClock, MaxCrashes    \* bounds

ASSUME LinkAssumption ==
    /\ NoCode \notin Codes
    /\ IsFiniteSet(Codes)
    /\ CodeTtl \in Nat /\ Window \in Nat /\ SessionTtl \in Nat
    /\ Window < SessionTtl
    /\ MaxPending \in Nat \ {0}
    /\ DbFaults \in BOOLEAN
    /\ MaxClock \in Nat /\ MaxCrashes \in Nat

VARIABLES
    now,
    fresh,      \* codes not generated yet
    shown,      \* the codes a device accepts
    minted,     \* when a code was generated
    ends,       \* the responder and the initiator of a session
    sessions,   \* what a responder waits to have confirmed
    opened,     \* when the hello of a session arrived
    verdict,    \* the decision of the responder's user
    pending,    \* the tokens of an initiator
    begun,      \* when a token was made
    call,       \* how far the two requests of a pairing are
    deadline,   \* until when the handler of a confirmation waits
    deaf,       \* confirmations whose initiator has given up
    store,      \* the secret a device keeps for another
    crashes,
    agreed,     \* history: the initiator's user has accepted
    inTime,     \* history: the responder's user has approved in the window
    kept,       \* history: who has recorded which session
    latest      \* history: the last pairing of two devices, if no other
                \* was half recorded when its responder recorded it

codeVars == <<fresh, shown, minted>>
sessionVars == <<sessions, opened, verdict>>
historyVars == <<agreed, inTime, kept, latest>>
vars == <<now, codeVars, ends, sessionVars, pending, begun, call, deadline, deaf,
          store, crashes, historyVars>>

Time == 0 .. MaxClock
Ends == [to : Devices, from : Devices]
CallStates == {"none", "hello", "token", "accept", "decline", "waiting", "storing",
               "paired", "refused", "over"}

\* The variables have their types, a session is known to its responder and a
\* token to its initiator alone, and a device accepts one code at a time.
LinkTypeOK ==
    /\ now \in Time
    /\ fresh \subseteq Codes
    /\ shown \in [Devices -> SUBSET Codes]
    /\ \A d \in Devices : \A c, x \in shown[d] : c = x
    /\ minted \in [Codes -> Time]
    /\ ends \in [Codes -> Ends]
    /\ sessions \in [Devices -> SUBSET Codes]
    /\ \A d \in Devices : \A c \in sessions[d] : ends[c].to = d
    /\ opened \in [Codes -> Time]
    /\ verdict \in [Codes -> {"none", "yes", "no"}]
    /\ pending \in [Devices -> SUBSET Codes]
    /\ \A d \in Devices : \A c \in pending[d] : ends[c].from = d /\ call[c] = "token"
    /\ begun \in [Codes -> Time]
    /\ call \in [Codes -> CallStates]
    /\ deadline \in [Codes -> 0 .. MaxClock + Window]
    /\ deaf \subseteq Codes
    /\ store \in [Devices -> [Devices -> Codes \cup {NoCode}]]
    /\ crashes \in 0 .. MaxCrashes
    /\ agreed \subseteq Codes /\ inTime \subseteq Codes /\ latest \subseteq Codes
    /\ kept \subseteq Devices \X Codes

LinkInit ==
    /\ now = 0
    /\ fresh = Codes
    /\ shown = [d \in Devices |-> {}]
    /\ minted = [c \in Codes |-> 0]
    /\ ends \in [Codes -> {e \in Ends : e.to # e.from}]
    /\ sessions = [d \in Devices |-> {}]
    /\ opened = [c \in Codes |-> 0]
    /\ verdict = [c \in Codes |-> "none"]
    /\ pending = [d \in Devices |-> {}]
    /\ begun = [c \in Codes |-> 0]
    /\ call = [c \in Codes |-> "none"]
    /\ deadline = [c \in Codes |-> 0]
    /\ deaf = {}
    /\ store = [d \in Devices |-> [p \in Devices |-> NoCode]]
    /\ crashes = 0
    /\ agreed = {} /\ inTime = {} /\ kept = {} /\ latest = {}

-----------------------------------------------------------------------------
\* What the tables keep once what is too old is pruned.
LiveCodes(d) == {c \in shown[d] : now < minted[c] + CodeTtl}
LiveSessions(d) == {c \in sessions[d] : now < opened[c] + SessionTtl}
LiveTokens(d) == {c \in pending[d] : now < begun[c] + SessionTtl}

Responder(c) == ends[c].to
Initiator(c) == ends[c].from

Goto(c, s) == call' = [call EXCEPT ![c] = s]

\* The responder's table without what is too old and without c.
CloseSession(c) ==
    sessions' = [sessions EXCEPT ![Responder(c)] = LiveSessions(Responder(c)) \ {c}]
PruneSessions(c) ==
    sessions' = [sessions EXCEPT ![Responder(c)] = LiveSessions(Responder(c))]

(***************************************************************************)
(* The code and the hello.                                                 *)
(***************************************************************************)

\* Mutant of GenerateCode: the code shown before stays valid.
GenerateCodeKeepsOld(c) ==
    /\ c \in fresh
    /\ fresh' = fresh \ {c}
    /\ shown' = [shown EXCEPT ![Responder(c)] = LiveCodes(Responder(c)) \cup {c}]
    /\ minted' = [minted EXCEPT ![c] = now]
    /\ UNCHANGED <<now, ends, sessionVars, pending, begun, call, deadline, deaf, store,
                   crashes, historyVars>>

\* generate_code: a new code takes the place of the one shown before.
GenerateCode(c) ==
    /\ c \in fresh
    /\ fresh' = fresh \ {c}
    /\ shown' = [shown EXCEPT ![Responder(c)] = {c}]
    /\ minted' = [minted EXCEPT ![c] = now]
    /\ UNCHANGED <<now, ends, sessionVars, pending, begun, call, deadline, deaf, store,
                   crashes, historyVars>>

\* handle_hello: the code is consumed and a session waits for its confirmation.
HandleHello(c) ==
    LET r == Responder(c)
    IN  /\ c \in LiveCodes(r)
        /\ shown' = [shown EXCEPT ![r] = LiveCodes(r) \ {c}]
        /\ minted' = [minted EXCEPT ![c] = 0]
        /\ sessions' = [sessions EXCEPT ![r] = LiveSessions(r) \cup {c}]
        /\ opened' = [opened EXCEPT ![c] = now]
        /\ Goto(c, "hello")
        /\ UNCHANGED <<now, fresh, ends, verdict, pending, begun, deadline, deaf, store,
                       crashes, historyVars>>

\* The end of begin_pairing: the token waits for the user, if there is room.
HelloAnswered(c) ==
    LET i == Initiator(c)
    IN  /\ call[c] = "hello"
        /\ IF Cardinality(LiveTokens(i)) >= MaxPending
           THEN /\ pending' = [pending EXCEPT ![i] = LiveTokens(i)]
                /\ Goto(c, "over")
                /\ UNCHANGED begun
           ELSE /\ pending' = [pending EXCEPT ![i] = LiveTokens(i) \cup {c}]
                /\ begun' = [begun EXCEPT ![c] = now]
                /\ Goto(c, "token")
        /\ UNCHANGED <<now, codeVars, ends, sessionVars, deadline, deaf, store, crashes,
                       historyVars>>

(***************************************************************************)
(* The confirmation.                                                       *)
(***************************************************************************)

\* confirm_pairing: the token is taken, and unless it is too old the request
\* is sent with the answer of the initiator's user.
ConfirmPairing(c, accept) ==
    /\ c \in pending[Initiator(c)]
    /\ pending' = [pending EXCEPT ![Initiator(c)] = @ \ {c}]
    /\ begun' = [begun EXCEPT ![c] = 0]
    /\ IF now > begun[c] + SessionTtl
       THEN Goto(c, "over") /\ UNCHANGED agreed
       ELSE /\ Goto(c, IF accept THEN "accept" ELSE "decline")
            /\ agreed' = IF accept THEN agreed \cup {c} ELSE agreed
    /\ UNCHANGED <<now, codeVars, ends, sessionVars, deadline, deaf, store, crashes, inTime,
                   kept, latest>>

\* set_local_decision: the responder's user decides, before or after the
\* confirmation has come.
SetLocalDecision(c, v) ==
    /\ c \in LiveSessions(Responder(c))
    /\ PruneSessions(c)
    /\ verdict' = [verdict EXCEPT ![c] = v]
    /\ inTime' = IF v = "yes" /\ now <= opened[c] + Window THEN inTime \cup {c}
                                                           ELSE inTime \ {c}
    /\ UNCHANGED <<now, codeVars, ends, opened, pending, begun, call, deadline, deaf, store,
                   crashes, agreed, kept, latest>>

\* Mutant of Deadline: the wait is counted from the confirmation.
DeadlineFromConfirm(c) == now + Window

Deadline(c) == opened[c] + Window

\* handle_confirm up to its wait.  A refusal of the initiator closes the
\* session; a confirmation of a session that is gone, or whose window has
\* passed, is refused.
HandleConfirm(c) ==
    /\ call[c] \in {"accept", "decline"}
    /\ IF call[c] = "accept" /\ c \in LiveSessions(Responder(c)) /\ now <= Deadline(c)
       THEN /\ PruneSessions(c)
            /\ deadline' = [deadline EXCEPT ![c] = Deadline(c)]
            /\ Goto(c, "waiting")
       ELSE /\ CloseSession(c)
            /\ Goto(c, "refused")
            /\ UNCHANGED deadline
    /\ UNCHANGED <<now, codeVars, ends, opened, verdict, pending, begun, deaf, store,
                   crashes, historyVars>>

\* The rest of handle_confirm: the handler finds its session gone, finds a
\* decision, or its timer fires, if need be just before a decision.
Awaken(c) ==
    /\ call[c] = "waiting"
    /\ CloseSession(c)
    /\ deadline' = [deadline EXCEPT ![c] = 0]
    /\ \/ /\ c \in LiveSessions(Responder(c)) /\ verdict[c] # "none"
          /\ Goto(c, IF verdict[c] = "yes" THEN "storing" ELSE "refused")
       \/ /\ c \notin LiveSessions(Responder(c)) \/ now >= deadline[c]
          /\ Goto(c, "refused")
    /\ UNCHANGED <<now, codeVars, ends, opened, verdict, pending, begun, deaf, store,
                   crashes, historyVars>>

\* Of two devices, the records of a pairing other than c are half written.
SamePair(c) == {x \in Codes : {ends[x].to, ends[x].from} = {ends[c].to, ends[c].from}}
HalfWritten(c) == \E x \in SamePair(c) \ {c} : call[x] = "paired"

Record(d, p, c) ==
    /\ store' = [store EXCEPT ![d][p] = c]
    /\ kept' = kept \cup {<<d, c>>}

\* Where the handler's answer goes, if anybody listens.
Answer(c, s) == Goto(c, IF c \in deaf THEN "over" ELSE s)

\* Mutant of PairConfirm: the answer does not depend on the record.
PairConfirmUnchecked(c) ==
    /\ call[c] = "storing"
    /\ \/ /\ Record(Responder(c), Initiator(c), c)
          /\ latest' = (latest \ SamePair(c)) \cup (IF HalfWritten(c) THEN {} ELSE {c})
          /\ Answer(c, "paired")
       \/ /\ DbFaults
          /\ Answer(c, "paired")
          /\ UNCHANGED <<store, kept, latest>>
    /\ UNCHANGED <<now, codeVars, ends, sessionVars, pending, begun, deadline, deaf, crashes,
                   agreed, inTime>>

\* pair_confirm: the responder records the initiator before it answers.
PairConfirm(c) ==
    /\ call[c] = "storing"
    /\ \/ /\ Record(Responder(c), Initiator(c), c)
          /\ latest' = (latest \ SamePair(c)) \cup (IF HalfWritten(c) THEN {} ELSE {c})
          /\ Answer(c, "paired")
       \/ /\ DbFaults
          /\ Answer(c, "refused")
          /\ UNCHANGED <<store, kept, latest>>
    /\ UNCHANGED <<now, codeVars, ends, sessionVars, pending, begun, deadline, deaf, crashes,
                   agreed, inTime>>

\* The end of confirm_pairing: the initiator records the responder if the
\* answer says so.
Confirmed(c) ==
    /\ call[c] \in {"paired", "refused"}
    /\ c \notin deaf
    /\ Goto(c, "over")
    /\ \/ call[c] = "paired" /\ Record(Initiator(c), Responder(c), c)
       \/ (call[c] = "refused" \/ DbFaults) /\ UNCHANGED <<store, kept>>
    /\ UNCHANGED <<now, codeVars, ends, sessionVars, pending, begun, deadline, deaf, crashes,
                   agreed, inTime, latest>>

(***************************************************************************)
(* What else happens.                                                      *)
(***************************************************************************)

\* A request fails for the initiator: the connection is lost, or its timeout
\* (8 and 70 seconds) comes before the answer.  The handler may go on.
GiveUp(c) ==
    /\ call[c] \notin {"none", "token", "over"}
    /\ c \notin deaf
    /\ IF call[c] \in {"hello", "paired", "refused"}
       THEN Goto(c, "over") /\ UNCHANGED deaf
       ELSE deaf' = deaf \cup {c} /\ UNCHANGED call
    /\ UNCHANGED <<now, codeVars, ends, sessionVars, pending, begun, deadline, store, crashes,
                   historyVars>>

\* The server drops the handler of a connection that was lost, or never sees
\* its request; the session stays.
DropHandler(c) ==
    /\ c \in deaf
    /\ call[c] # "over"
    /\ Goto(c, "over")
    /\ UNCHANGED <<now, codeVars, ends, sessionVars, pending, begun, deadline, deaf, store,
                   crashes, historyVars>>

\* remove_device: the other device is not told.
RemoveDevice(d, p) ==
    /\ store[d][p] # NoCode
    /\ store' = [store EXCEPT ![d][p] = NoCode]
    /\ latest' = {c \in latest : {d, p} # {ends[c].to, ends[c].from}}
    /\ UNCHANGED <<now, codeVars, ends, sessionVars, pending, begun, call, deadline, deaf,
                   crashes, agreed, inTime, kept>>

\* prune_expired, once a minute.
PruneExpired(d) ==
    /\ shown' = [shown EXCEPT ![d] = LiveCodes(d)]
    /\ sessions' = [sessions EXCEPT ![d] = LiveSessions(d)]
    /\ pending' = [pending EXCEPT ![d] = LiveTokens(d)]
    /\ UNCHANGED <<now, fresh, minted, ends, opened, verdict, begun, call, deadline, deaf,
                   store, crashes, historyVars>>

\* A device restarts: only its records survive.  As the initiator it gives up
\* what it was waiting for, as the responder it drops its handlers.
Crash(d) ==
    /\ crashes < MaxCrashes
    /\ crashes' = crashes + 1
    /\ shown' = [shown EXCEPT ![d] = {}]
    /\ sessions' = [sessions EXCEPT ![d] = {}]
    /\ pending' = [pending EXCEPT ![d] = {}]
    /\ call' = [c \in Codes |->
                   IF \/ Responder(c) = d /\ call[c] \in {"waiting", "storing"}
                      \/ Initiator(c) = d /\ call[c] \in {"hello", "token", "paired", "refused"}
                   THEN "over" ELSE call[c]]
    /\ deaf' = deaf \cup {c \in Codes : /\ Initiator(c) = d
                                        /\ call[c] \in {"accept", "decline", "waiting", "storing"}}
    /\ UNCHANGED <<now, fresh, minted, ends, opened, verdict, begun, deadline, store,
                   historyVars>>

\* A minute passes, but not while a timer that is due has not fired.
Tick ==
    /\ now < MaxClock
    /\ \A c \in Codes : call[c] = "waiting" => now < deadline[c]
    /\ now' = now + 1
    /\ UNCHANGED <<codeVars, ends, sessionVars, pending, begun, call, deadline, deaf, store,
                   crashes, historyVars>>

LinkNext ==
    \/ \E c \in Codes :
          \/ GenerateCode(c) \/ HandleHello(c) \/ HelloAnswered(c)
          \/ \E accept \in BOOLEAN : ConfirmPairing(c, accept)
          \/ \E v \in {"yes", "no"} : SetLocalDecision(c, v)
          \/ HandleConfirm(c) \/ Awaken(c) \/ PairConfirm(c) \/ Confirmed(c)
          \/ GiveUp(c) \/ DropHandler(c)
    \/ \E d, p \in Devices : RemoveDevice(d, p)
    \/ \E d \in Devices : PruneExpired(d) \/ Crash(d)
    \/ Tick

LinkSpec == LinkInit /\ [][LinkNext]_vars

-----------------------------------------------------------------------------
(***************************************************************************)
(* Why it works: the parts of the inductive invariant.                     *)
(***************************************************************************)

\* A code that is still to be used has no past, and only its responder shows it.
Unused(c) ==
    /\ \A d \in Devices : c \in shown[d] => d = Responder(c) /\ c \notin fresh
    /\ c \in fresh \cup shown[Responder(c)] =>
          /\ call[c] = "none" /\ verdict[c] = "none"
          /\ c \notin sessions[Responder(c)]
          /\ \A d \in Devices : <<d, c>> \notin kept

UnusedInv == \A c \in Codes : Unused(c)

\* A decision that a handler may still take was made in the window.
WindowInv ==
    \A c \in Codes :
        /\ /\ c \in sessions[Responder(c)]
           /\ verdict[c] = "yes"
           /\ now <= opened[c] + Window
           => c \in inTime
        /\ call[c] = "waiting" => now <= deadline[c] /\ deadline[c] = opened[c] + Window

\* What the stages of a confirmation have behind them.
StageInv ==
    \A c \in Codes :
        /\ call[c] \in {"accept", "waiting", "storing", "paired"} => c \in agreed
        /\ call[c] = "storing" => c \in inTime /\ c \notin sessions[Responder(c)]
        /\ call[c] = "paired" => <<Responder(c), c>> \in kept
        /\ <<Responder(c), c>> \in kept => c \notin sessions[Responder(c)]
        /\ c \in deaf => call[c] \notin {"none", "hello", "token"}

\* Nobody is recorded behind a user's back: a responder records a session that
\* both users have accepted, its own within the window that counts from the
\* hello, and an initiator only what the responder has recorded before it.
PairedByBoth ==
    \A c \in Codes :
        /\ <<Responder(c), c>> \in kept => c \in agreed /\ c \in inTime
        /\ <<Initiator(c), c>> \in kept => <<Responder(c), c>> \in kept

\* All of it is inductive.
LinkInv == LinkTypeOK /\ UnusedInv /\ WindowInv /\ StageInv /\ PairedByBoth

\* A pairing that succeeds for its initiator leaves both devices with its
\* secret, whatever half pairings, refusals and restarts came before, unless
\* another one of the same two devices was being recorded at that moment.
SecretsAgree ==
    \A c \in latest :
        <<Initiator(c), c>> \in kept =>
            /\ store[Responder(c)][Initiator(c)] = c
            /\ store[Initiator(c)][Responder(c)] = c

\* Why the secrets agree: nothing is recorded twice, and whatever overwrites one
\* of the two secrets of the last pairing makes it the last no longer.
AgreeInv ==
    /\ \A c \in Codes :
          /\ Responder(c) # Initiator(c)
          /\ call[c] \notin {"paired", "over"} => <<Responder(c), c>> \notin kept
    /\ \A c \in latest : store[Responder(c)][Initiator(c)] = c /\ ~HalfWritten(c)
    /\ SecretsAgree
=============================================================================
