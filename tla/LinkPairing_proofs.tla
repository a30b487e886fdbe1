------------------------- MODULE LinkPairing_proofs -------------------------
(***************************************************************************)
(* Proofs about LinkPairing, for any devices and codes, any times with a   *)
(* window shorter than the life of a session, and any bounds.  A record    *)
(* is what both users wanted because of what a code has behind it at each  *)
(* stage; LinkInv says it, and each action keeps it.                       *)
(***************************************************************************)
EXTENDS LinkPairing, TLAPS

\* The records stay of their type when a device keeps another secret.
LEMMA NestedUpdate ==
    ASSUME NEW D, NEW V, NEW f \in [D -> [D -> V]], NEW d \in D, NEW p \in D, NEW v \in V
    PROVE  [f EXCEPT ![d][p] = v] \in [D -> [D -> V]]
  OBVIOUS

\* Each action keeps the invariant.
LEMMA LinkInvStep ==
    ASSUME LinkInv, LinkNext
    PROVE  LinkInv'
  <1> USE DEF LinkInv, Goto, codeVars, sessionVars, historyVars, Responder, Initiator
  <1>1. ASSUME NEW c \in Codes, GenerateCode(c)
        PROVE  LinkInv'
    <2> USE <1>1 DEF GenerateCode
    <2>1. LinkTypeOK'
      BY LinkAssumption DEF LinkTypeOK, Time, Ends, CallStates, UnusedInv, Unused, StageInv
    <2>2. UnusedInv'
      BY DEF LinkTypeOK, UnusedInv, Unused
    <2>3. WindowInv'
      BY LinkAssumption DEF LinkTypeOK, Time, UnusedInv, Unused, WindowInv
    <2>4. StageInv'
      BY DEF LinkTypeOK, UnusedInv, Unused, WindowInv, StageInv
    <2>5. PairedByBoth'
      BY DEF LinkTypeOK, UnusedInv, Unused, StageInv, PairedByBoth
    <2> QED  BY <2>1, <2>2, <2>3, <2>4, <2>5
  <1>2. ASSUME NEW c \in Codes, HandleHello(c)
        PROVE  LinkInv'
    <2> USE <1>2 DEF HandleHello, LiveCodes, LiveSessions
    <2>0. /\ call' \in [Codes -> CallStates]
          /\ \A x \in Codes : x # c => call'[x] = call[x]
      BY DEF LinkTypeOK, CallStates
    <2>1. LinkTypeOK'
      BY <2>0, LinkAssumption DEF LinkTypeOK, Time, Ends, CallStates, UnusedInv, Unused, StageInv
    <2>2. UnusedInv'
      <3> SUFFICES ASSUME NEW x \in Codes
                   PROVE  Unused(x)'
        BY DEF UnusedInv
      <3>1. CASE x = c
        BY <3>1 DEF LinkTypeOK, Ends, UnusedInv, Unused
      <3>2. CASE x # c
        BY <2>0, <3>2 DEF LinkTypeOK, UnusedInv, Unused
      <3> QED  BY <3>1, <3>2
    <2>3. WindowInv'
      BY <2>0, LinkAssumption DEF LinkTypeOK, Time, UnusedInv, Unused, WindowInv
    <2>4. StageInv'
      BY <2>0 DEF LinkTypeOK, UnusedInv, Unused, WindowInv, StageInv
    <2>5. PairedByBoth'
      BY <2>0 DEF LinkTypeOK, UnusedInv, Unused, StageInv, PairedByBoth
    <2> QED  BY <2>1, <2>2, <2>3, <2>4, <2>5
  <1>3. ASSUME NEW c \in Codes, HelloAnswered(c)
        PROVE  LinkInv'
    <2> USE <1>3 DEF HelloAnswered, LiveTokens
    <2>0. /\ call' \in [Codes -> CallStates]
          /\ \A x \in Codes : x # c => call'[x] = call[x]
      <3>1. call \in [Codes -> CallStates]
        BY DEF LinkTypeOK
      <3>2. \E s \in {"over", "token"} : call' = [call EXCEPT ![c] = s]
        BY Zenon
      <3>3. {"over", "token"} \subseteq CallStates
        BY DEF CallStates
      <3> HIDE <1>3 DEF HelloAnswered, LinkInv
      <3> QED  BY <3>1, <3>2, <3>3
    <2>1. LinkTypeOK'
      <3>1. /\ pending' \in [Devices -> SUBSET Codes]
            /\ \A d \in Devices : \A x \in pending'[d] :
                  x \in pending[d] \/ (x = c /\ d = Initiator(c) /\ call'[c] = "token")
        <4>1. CASE pending' = [pending EXCEPT ![Initiator(c)] = LiveTokens(Initiator(c))]
          BY <4>1 DEF LinkTypeOK, Ends
        <4>2. CASE /\ pending' = [pending EXCEPT
                                    ![Initiator(c)] = LiveTokens(Initiator(c)) \cup {c}]
                   /\ call' = [call EXCEPT ![c] = "token"]
          BY <4>2 DEF LinkTypeOK, Ends
        <4> QED  BY <4>1, <4>2
      <3>2. begun' \in [Codes -> Time]
        BY DEF LinkTypeOK
      <3>3. \A d \in Devices : c \notin pending[d]
        BY DEF LinkTypeOK
      <3> QED  BY <2>0, <3>1, <3>2, <3>3 DEF LinkTypeOK, Time, Ends, CallStates
    <2>2. UnusedInv'
      BY <2>0 DEF LinkTypeOK, UnusedInv, Unused
    <2>3. WindowInv'
      BY <2>0, LinkAssumption DEF LinkTypeOK, Time, UnusedInv, Unused, WindowInv
    <2>4. StageInv'
      BY <2>0 DEF LinkTypeOK, UnusedInv, Unused, WindowInv, StageInv
    <2>5. PairedByBoth'
      BY <2>0 DEF LinkTypeOK, UnusedInv, Unused, StageInv, PairedByBoth
    <2> QED  BY <2>1, <2>2, <2>3, <2>4, <2>5
  <1>4. ASSUME NEW c \in Codes, NEW accept \in BOOLEAN, ConfirmPairing(c, accept)
        PROVE  LinkInv'
    <2> USE <1>4 DEF ConfirmPairing
    <2>0. /\ call' \in [Codes -> CallStates]
          /\ \A x \in Codes : x # c => call'[x] = call[x]
      <3>1. CASE Goto(c, "over")
        BY <3>1 DEF LinkTypeOK, CallStates
      <3>2. CASE Goto(c, IF accept THEN "accept" ELSE "decline")
        BY <3>2 DEF LinkTypeOK, CallStates
      <3> QED  BY <3>1, <3>2
    <2>1. LinkTypeOK'
      BY <2>0, LinkAssumption DEF LinkTypeOK, Time, Ends, CallStates, UnusedInv, Unused, StageInv
    <2>2. UnusedInv'
      <3> SUFFICES ASSUME NEW x \in Codes
                   PROVE  Unused(x)'
        BY DEF UnusedInv
      <3>1. CASE x = c
        BY <3>1 DEF LinkTypeOK, Ends, UnusedInv, Unused
      <3>2. CASE x # c
        BY <2>0, <3>2 DEF LinkTypeOK, UnusedInv, Unused
      <3> QED  BY <3>1, <3>2
    <2>3. WindowInv'
      BY <2>0, LinkAssumption DEF LinkTypeOK, Time, UnusedInv, Unused, WindowInv
    <2>4. StageInv'
      BY <2>0 DEF LinkTypeOK, UnusedInv, Unused, WindowInv, StageInv
    <2>5. PairedByBoth'
      BY <2>0 DEF LinkTypeOK, UnusedInv, Unused, StageInv, PairedByBoth
    <2> QED  BY <2>1, <2>2, <2>3, <2>4, <2>5
  <1>5. ASSUME NEW c \in Codes, NEW v \in {"yes", "no"}, SetLocalDecision(c, v)
        PROVE  LinkInv'
    <2> USE <1>5 DEF SetLocalDecision, PruneSessions, LiveSessions
    <2>1. LinkTypeOK'
      BY LinkAssumption DEF LinkTypeOK, Time, Ends, CallStates, UnusedInv, Unused, StageInv
    <2>2. UnusedInv'
      BY DEF LinkTypeOK, UnusedInv, Unused
    <2>3. WindowInv'
      BY LinkAssumption DEF LinkTypeOK, Time, UnusedInv, Unused, WindowInv
    <2>4. StageInv'
      BY DEF LinkTypeOK, UnusedInv, Unused, WindowInv, StageInv
    <2>5. PairedByBoth'
      BY DEF LinkTypeOK, UnusedInv, Unused, StageInv, PairedByBoth
    <2> QED  BY <2>1, <2>2, <2>3, <2>4, <2>5
  <1>6. ASSUME NEW c \in Codes, HandleConfirm(c)
        PROVE  LinkInv'
    <2> USE <1>6 DEF HandleConfirm, PruneSessions, CloseSession, LiveSessions, Deadline
    <2>0. /\ call' \in [Codes -> CallStates]
          /\ \A x \in Codes : x # c => call'[x] = call[x]
      <3>1. CASE call' = [call EXCEPT ![c] = "waiting"]
        BY <3>1 DEF LinkTypeOK, CallStates
      <3>2. CASE call' = [call EXCEPT ![c] = "refused"]
        BY <3>2 DEF LinkTypeOK, CallStates
      <3> QED  BY <3>1, <3>2
    <2>1. /\ sessions' \in [Devices -> SUBSET Codes]
          /\ \A d \in Devices : sessions'[d] \subseteq sessions[d]
      <3>1. CASE PruneSessions(c)
        BY <3>1 DEF LinkTypeOK, Ends
      <3>2. CASE CloseSession(c)
        BY <3>2 DEF LinkTypeOK, Ends
      <3> QED  BY <3>1, <3>2
    <2>2. /\ call[c] \in {"accept", "decline"}
          /\ \/ /\ call[c] = "accept"
                /\ call'[c] = "waiting"
                /\ now <= opened[c] + Window
                /\ deadline' = [deadline EXCEPT ![c] = opened[c] + Window]
             \/ /\ call'[c] = "refused"
                /\ UNCHANGED deadline
      BY DEF LinkTypeOK
    <2> HIDE <1>6
    <2> HIDE DEF HandleConfirm, PruneSessions, CloseSession, LiveSessions
    <2>u. UNCHANGED <<now, codeVars, ends, opened, verdict, pending, begun, deaf, store,
                      crashes, historyVars>>
      BY <1>6 DEF HandleConfirm
    <2>3. LinkTypeOK'
      <3>1. deadline' \in [Codes -> 0 .. MaxClock + Window]
        BY <2>2, LinkAssumption DEF LinkTypeOK, Time
      <3> QED  BY <2>0, <2>1, <2>2, <2>u, <3>1 DEF LinkTypeOK, Time, Ends
    <2>4. UnusedInv'
      BY <2>0, <2>1, <2>2, <2>u DEF LinkTypeOK, Ends, UnusedInv, Unused
    <2>5. WindowInv'
      BY <2>0, <2>1, <2>2, <2>u DEF LinkTypeOK, Ends, WindowInv
    <2>6. StageInv'
      BY <2>0, <2>1, <2>2, <2>u DEF LinkTypeOK, Ends, StageInv
    <2>7. PairedByBoth'
      BY <2>u DEF PairedByBoth
    <2> QED  BY <2>3, <2>4, <2>5, <2>6, <2>7
  <1>7. ASSUME NEW c \in Codes, Awaken(c)
        PROVE  LinkInv'
    <2> USE <1>7 DEF Awaken, CloseSession, LiveSessions
    <2>0. /\ call' \in [Codes -> CallStates]
          /\ \A x \in Codes : x # c => call'[x] = call[x]
      BY DEF LinkTypeOK, CallStates
    <2>1. LinkTypeOK'
      BY <2>0, LinkAssumption DEF LinkTypeOK, Time, Ends, CallStates, UnusedInv, Unused, StageInv
    <2>2. UnusedInv'
      BY <2>0 DEF LinkTypeOK, UnusedInv, Unused
    <2>3. WindowInv'
      BY <2>0, LinkAssumption DEF LinkTypeOK, Time, UnusedInv, Unused, WindowInv
    <2>4. StageInv'
      <3>1. c \notin sessions'[Responder(c)]
        BY DEF LinkTypeOK, Ends
      <3>2. call'[c] = "storing" => c \in inTime
        BY DEF LinkTypeOK, Ends, WindowInv
      <3>3. c \in agreed
        BY DEF StageInv
      <3>4. call'[c] \in {"storing", "refused"}
        BY DEF LinkTypeOK
      <3> QED  BY <2>0, <3>1, <3>2, <3>3, <3>4 DEF LinkTypeOK, StageInv
    <2>5. PairedByBoth'
      BY <2>0 DEF LinkTypeOK, UnusedInv, Unused, StageInv, PairedByBoth
    <2> QED  BY <2>1, <2>2, <2>3, <2>4, <2>5
  <1>8. ASSUME NEW c \in Codes, PairConfirm(c)
        PROVE  LinkInv'
    <2> USE <1>8 DEF PairConfirm, Record, Answer
    <2>0. /\ call' \in [Codes -> CallStates]
          /\ \A x \in Codes : x # c => call'[x] = call[x]
      BY DEF LinkTypeOK, CallStates
    <2>1. LinkTypeOK'
      <3>1. store' \in [Devices -> [Devices -> Codes \cup {NoCode}]]
        <4>1. CASE UNCHANGED store
          BY <4>1 DEF LinkTypeOK
        <4>2. CASE store' = [store EXCEPT ![Responder(c)][Initiator(c)] = c]
          BY <4>2, NestedUpdate DEF LinkTypeOK, Ends
        <4> QED  BY <4>1, <4>2
      <3>2. kept' \subseteq Devices \X Codes
        BY DEF LinkTypeOK, Ends
      <3> QED  BY <2>0, <3>1, <3>2 DEF LinkTypeOK, Time, Ends, CallStates
    <2>2. UnusedInv'
      BY <2>0 DEF LinkTypeOK, UnusedInv, Unused
    <2>3. WindowInv'
      BY <2>0, LinkAssumption DEF LinkTypeOK, Time, UnusedInv, Unused, WindowInv
    <2>4. StageInv'
      BY <2>0 DEF LinkTypeOK, UnusedInv, Unused, WindowInv, StageInv
    <2>5. PairedByBoth'
      BY <2>0 DEF LinkTypeOK, UnusedInv, Unused, StageInv, PairedByBoth
    <2> QED  BY <2>1, <2>2, <2>3, <2>4, <2>5
  <1>9. ASSUME NEW c \in Codes, Confirmed(c)
        PROVE  LinkInv'
    <2> USE <1>9 DEF Confirmed, Record
    <2>0. /\ call' \in [Codes -> CallStates]
          /\ \A x \in Codes : x # c => call'[x] = call[x]
      BY DEF LinkTypeOK, CallStates
    <2>1. LinkTypeOK'
      <3>1. store' \in [Devices -> [Devices -> Codes \cup {NoCode}]]
        <4>1. CASE UNCHANGED store
          BY <4>1 DEF LinkTypeOK
        <4>2. CASE store' = [store EXCEPT ![Initiator(c)][Responder(c)] = c]
          BY <4>2, NestedUpdate DEF LinkTypeOK, Ends
        <4> QED  BY <4>1, <4>2
      <3>2. kept' \subseteq Devices \X Codes
        BY DEF LinkTypeOK, Ends
      <3> QED  BY <2>0, <3>1, <3>2 DEF LinkTypeOK, Time, Ends, CallStates
    <2>2. UnusedInv'
      BY <2>0 DEF LinkTypeOK, UnusedInv, Unused
    <2>3. WindowInv'
      BY <2>0, LinkAssumption DEF LinkTypeOK, Time, UnusedInv, Unused, WindowInv
    <2>4. StageInv'
      BY <2>0 DEF LinkTypeOK, UnusedInv, Unused, WindowInv, StageInv
    <2>5. PairedByBoth'
      BY <2>0 DEF LinkTypeOK, UnusedInv, Unused, StageInv, PairedByBoth
    <2> QED  BY <2>1, <2>2, <2>3, <2>4, <2>5
  <1>10. ASSUME NEW c \in Codes, GiveUp(c)
        PROVE  LinkInv'
    <2> USE <1>10 DEF GiveUp
    <2>0. /\ call' \in [Codes -> CallStates]
          /\ \A x \in Codes : x # c => call'[x] = call[x]
      BY DEF LinkTypeOK, CallStates
    <2>1. LinkTypeOK'
      BY <2>0, LinkAssumption DEF LinkTypeOK, Time, Ends, CallStates, UnusedInv, Unused, StageInv
    <2>2. UnusedInv'
      BY <2>0 DEF LinkTypeOK, UnusedInv, Unused
    <2>3. WindowInv'
      BY <2>0, LinkAssumption DEF LinkTypeOK, Time, UnusedInv, Unused, WindowInv
    <2>4. StageInv'
      BY <2>0 DEF LinkTypeOK, UnusedInv, Unused, WindowInv, StageInv
    <2>5. PairedByBoth'
      BY <2>0 DEF LinkTypeOK, UnusedInv, Unused, StageInv, PairedByBoth
    <2> QED  BY <2>1, <2>2, <2>3, <2>4, <2>5
  <1>11. ASSUME NEW c \in Codes, DropHandler(c)
        PROVE  LinkInv'
    <2> USE <1>11 DEF DropHandler
    <2>0. /\ call' \in [Codes -> CallStates]
          /\ \A x \in Codes : x # c => call'[x] = call[x]
      BY DEF LinkTypeOK, CallStates
    <2>1. LinkTypeOK'
      <3>1. \A d \in Devices : c \notin pending[d]
        BY DEF LinkTypeOK, StageInv
      <3> QED  BY <2>0, <3>1 DEF LinkTypeOK, Time, Ends, CallStates
    <2>2. UnusedInv'
      <3> SUFFICES ASSUME NEW x \in Codes
                   PROVE  Unused(x)'
        BY DEF UnusedInv
      <3>1. CASE x = c
        BY <3>1 DEF LinkTypeOK, UnusedInv, Unused, StageInv
      <3>2. CASE x # c
        BY <2>0, <3>2 DEF LinkTypeOK, UnusedInv, Unused
      <3> QED  BY <3>1, <3>2
    <2>3. WindowInv'
      BY <2>0, LinkAssumption DEF LinkTypeOK, Time, UnusedInv, Unused, WindowInv
    <2>4. StageInv'
      BY <2>0 DEF LinkTypeOK, UnusedInv, Unused, WindowInv, StageInv
    <2>5. PairedByBoth'
      BY <2>0 DEF LinkTypeOK, UnusedInv, Unused, StageInv, PairedByBoth
    <2> QED  BY <2>1, <2>2, <2>3, <2>4, <2>5
  <1>12. ASSUME NEW d \in Devices, NEW p \in Devices, RemoveDevice(d, p)
        PROVE  LinkInv'
    <2> USE <1>12 DEF RemoveDevice
    <2>1. LinkTypeOK'
      BY LinkAssumption DEF LinkTypeOK, Time, Ends, CallStates, UnusedInv, Unused, StageInv
    <2>2. UnusedInv'
      BY DEF LinkTypeOK, UnusedInv, Unused
    <2>3. WindowInv'
      BY LinkAssumption DEF LinkTypeOK, Time, UnusedInv, Unused, WindowInv
    <2>4. StageInv'
      BY DEF LinkTypeOK, UnusedInv, Unused, WindowInv, StageInv
    <2>5. PairedByBoth'
      BY DEF LinkTypeOK, UnusedInv, Unused, StageInv, PairedByBoth
    <2> QED  BY <2>1, <2>2, <2>3, <2>4, <2>5
  <1>13. ASSUME NEW d \in Devices, PruneExpired(d)
        PROVE  LinkInv'
    <2> USE <1>13 DEF PruneExpired, LiveCodes, LiveSessions, LiveTokens
    <2>1. LinkTypeOK'
      BY LinkAssumption DEF LinkTypeOK, Time, Ends, CallStates, UnusedInv, Unused, StageInv
    <2>2. UnusedInv'
      BY DEF LinkTypeOK, UnusedInv, Unused
    <2>3. WindowInv'
      BY LinkAssumption DEF LinkTypeOK, Time, UnusedInv, Unused, WindowInv
    <2>4. StageInv'
      BY DEF LinkTypeOK, UnusedInv, Unused, WindowInv, StageInv
    <2>5. PairedByBoth'
      BY DEF LinkTypeOK, UnusedInv, Unused, StageInv, PairedByBoth
    <2> QED  BY <2>1, <2>2, <2>3, <2>4, <2>5
  <1>14. ASSUME NEW d \in Devices, Crash(d)
        PROVE  LinkInv'
    <2> USE <1>14 DEF Crash
    <2>1. LinkTypeOK'
      BY LinkAssumption DEF LinkTypeOK, Time, Ends, CallStates, UnusedInv, Unused, StageInv
    <2>2. UnusedInv'
      BY DEF LinkTypeOK, UnusedInv, Unused
    <2>3. WindowInv'
      BY LinkAssumption DEF LinkTypeOK, Time, UnusedInv, Unused, WindowInv
    <2>4. StageInv'
      BY DEF LinkTypeOK, UnusedInv, Unused, WindowInv, StageInv
    <2>5. PairedByBoth'
      BY DEF LinkTypeOK, UnusedInv, Unused, StageInv, PairedByBoth
    <2> QED  BY <2>1, <2>2, <2>3, <2>4, <2>5
  <1>15. ASSUME Tick
        PROVE  LinkInv'
    <2> USE <1>15 DEF Tick
    <2>1. LinkTypeOK'
      BY LinkAssumption DEF LinkTypeOK, Time, Ends, CallStates, UnusedInv, Unused, StageInv
    <2>2. UnusedInv'
      BY DEF LinkTypeOK, UnusedInv, Unused
    <2>3. WindowInv'
      BY LinkAssumption DEF LinkTypeOK, Time, UnusedInv, Unused, WindowInv
    <2>4. StageInv'
      BY DEF LinkTypeOK, UnusedInv, Unused, WindowInv, StageInv
    <2>5. PairedByBoth'
      BY DEF LinkTypeOK, UnusedInv, Unused, StageInv, PairedByBoth
    <2> QED  BY <2>1, <2>2, <2>3, <2>4, <2>5
  <1> QED
    BY <1>1, <1>2, <1>3, <1>4, <1>5, <1>6, <1>7, <1>8, <1>9, <1>10,
       <1>11, <1>12, <1>13, <1>14, <1>15
       DEF LinkNext

\* The invariant holds at the start: no code has been used.
LEMMA LinkInvInit ==
    ASSUME LinkInit
    PROVE  LinkInv
  BY LinkAssumption DEF LinkInit, LinkInv, LinkTypeOK, UnusedInv, Unused, WindowInv, StageInv,
                        PairedByBoth, Time, Ends, CallStates, Responder, Initiator

\* A stuttering step changes nothing the invariant speaks of.
LEMMA LinkInvStutter ==
    ASSUME LinkInv, UNCHANGED vars
    PROVE  LinkInv'
  BY DEF vars, codeVars, sessionVars, historyVars, LinkInv, LinkTypeOK, UnusedInv, Unused,
         WindowInv, StageInv, PairedByBoth, Time, Responder, Initiator

\* The invariant holds in every state of every behaviour.
THEOREM LinkInvariant == LinkSpec => []LinkInv
  <1>1. LinkInit => LinkInv
    BY LinkInvInit
  <1>2. LinkInv /\ [LinkNext]_vars => LinkInv'
    BY LinkInvStep, LinkInvStutter
  <1> QED  BY <1>1, <1>2, PTL DEF LinkSpec

\* The tables of pairing.rs and manager.rs keep their types; a responder
\* knows its own sessions only, and a token waits only while its user decides.
THEOREM LinkTypeCorrect == LinkSpec => []LinkTypeOK
  <1>1. LinkInv => LinkTypeOK
    BY DEF LinkInv
  <1> QED  BY <1>1, LinkInvariant, PTL

\* Whatever replies are lost, users delay and devices restart: pair_confirm
\* records only what both users accepted, the responder's in its window, and
\* confirm_pairing only what the responder has recorded before.
THEOREM PairingNeedsBoth == LinkSpec => []PairedByBoth
  <1>1. LinkInv => PairedByBoth
    BY DEF LinkInv
  <1> QED  BY <1>1, LinkInvariant, PTL
-----------------------------------------------------------------------------
(***************************************************************************)
(* The secrets of a pair.  A session is recorded by its responder once, so *)
(* when it becomes the last of two devices its initiator has not recorded  *)
(* it yet; and a session that could overwrite it is half written, which    *)
(* none of theirs is while it is the last.                                 *)
(***************************************************************************)

\* A session is of the same pair as itself, and as one with the same ends.
LEMMA PairFacts ==
    ASSUME LinkTypeOK, NEW c \in Codes, NEW x \in Codes
    PROVE  /\ Responder(c) \in Devices /\ Initiator(c) \in Devices
           /\ c \in SamePair(c)
           /\ x \in SamePair(c) <=> {Responder(x), Initiator(x)} = {Responder(c), Initiator(c)}
  BY DEF LinkTypeOK, Ends, SamePair, Responder, Initiator

\* A record changes one secret of one device.
LEMMA NestedValue ==
    ASSUME NEW D, NEW V, NEW f \in [D -> [D -> V]], NEW d \in D, NEW p \in D, NEW v \in V,
           NEW e \in D, NEW q \in D
    PROVE  [f EXCEPT ![d][p] = v][e][q] = IF e = d /\ q = p THEN v ELSE f[e][q]
  OBVIOUS

\* Steps that record nothing finish no request that was not finished.
LEMMA AgreeQuiet ==
    ASSUME AgreeInv, UNCHANGED <<ends, store, kept, latest>>,
           \A c \in Codes : /\ call[c] \in {"paired", "over"} => call'[c] \in {"paired", "over"}
                            /\ call'[c] = "paired" => call[c] = "paired"
    PROVE  AgreeInv'
  BY DEF AgreeInv, SecretsAgree, HalfWritten, SamePair, Responder, Initiator

\* The responder's record: the session is the last of the two devices, unless
\* another of theirs is half written, and no other one of theirs remains it.
LEMMA AgreePairConfirm ==
    ASSUME LinkInv, AgreeInv, NEW c \in Codes, PairConfirm(c)
    PROVE  AgreeInv'
  <1> DEFINE r == Responder(c)
             i == Initiator(c)
  <1>0. /\ LinkTypeOK /\ PairedByBoth /\ call[c] = "storing" /\ ends' = ends
        /\ call \in [Codes -> CallStates] /\ store \in [Devices -> [Devices -> Codes \cup {NoCode}]]
        /\ r \in Devices /\ i \in Devices /\ r # i
        /\ <<r, c>> \notin kept /\ <<i, c>> \notin kept
    BY PairFacts DEF LinkInv, AgreeInv, PairConfirm, LinkTypeOK, PairedByBoth
  <1>1. /\ \A x \in Codes \ {c} : call'[x] = call[x]
        /\ call'[c] \in {"paired", "refused", "over"}
    BY <1>0 DEF PairConfirm, Answer, Goto
  <1>2. CASE UNCHANGED <<store, kept, latest>> /\ call'[c] # "paired"
    BY <1>0, <1>1, <1>2, AgreeQuiet
  <1>3. CASE /\ Record(r, i, c)
             /\ latest' = (latest \ SamePair(c)) \cup (IF HalfWritten(c) THEN {} ELSE {c})
             /\ Answer(c, "paired")
    <2>1. call'[c] \in {"paired", "over"}
      BY <1>0, <1>3 DEF Answer, Goto
    <2>2. \A e, q \in Devices : store'[e][q] = IF e = r /\ q = i THEN c ELSE store[e][q]
      BY <1>0, <1>3, NestedValue DEF Record
    <2>3. kept' = kept \cup {<<r, c>>}
      BY <1>3 DEF Record
    <2>4. \A x \in Codes : /\ Responder(x)' = Responder(x) /\ Initiator(x)' = Initiator(x)
                           /\ SamePair(x)' = SamePair(x)
      BY <1>0 DEF Responder, Initiator, SamePair
    <2>5. ASSUME NEW x \in Codes
          PROVE  /\ Responder(x)' # Initiator(x)'
                 /\ call'[x] \notin {"paired", "over"} => <<Responder(x)', x>> \notin kept'
      BY <1>1, <2>1, <2>3, <2>4 DEF AgreeInv
    <2>6. ASSUME NEW x \in latest'
          PROVE  /\ store'[Responder(x)'][Initiator(x)'] = x
                 /\ ~HalfWritten(x)'
                 /\ <<Initiator(x)', x>> \in kept' => store'[Initiator(x)'][Responder(x)'] = x
      <3>1. CASE x = c /\ ~HalfWritten(c)
        <4>1. store'[r][i] = c
          BY <1>0, <2>2
        <4>2. <<i, c>> \notin kept'
          BY <1>0, <2>3
        <4>3. ~HalfWritten(c)'
          BY <1>1, <2>4, <3>1 DEF HalfWritten, SamePair
        <4> QED  BY <2>4, <3>1, <4>1, <4>2, <4>3
      <3>2. CASE x \in latest \ SamePair(c)
        <4>1. x \in Codes /\ c \notin SamePair(x) /\ x # c
          BY <1>0, <3>2, PairFacts DEF LinkTypeOK
        <4>2. Responder(x) \in Devices /\ Initiator(x) \in Devices
          BY <1>0, <4>1, PairFacts
        <4>3. {Responder(x), Initiator(x)} # {r, i}
          BY <1>0, <4>1, PairFacts
        <4>4. /\ store'[Responder(x)][Initiator(x)] = store[Responder(x)][Initiator(x)]
              /\ store'[Initiator(x)][Responder(x)] = store[Initiator(x)][Responder(x)]
          BY <2>2, <4>2, <4>3
        <4>5. ~HalfWritten(x)'
          BY <1>1, <2>4, <3>2, <4>1 DEF HalfWritten, SamePair, AgreeInv
        <4>6. <<Initiator(x), x>> \in kept' => <<Initiator(x), x>> \in kept
          BY <2>3, <4>1
        <4> QED  BY <2>4, <3>2, <4>1, <4>4, <4>5, <4>6 DEF AgreeInv, SecretsAgree
      <3> QED  BY <1>3, <3>1, <3>2
    <2> QED  BY <2>5, <2>6 DEF AgreeInv, SecretsAgree
  <1>4. \/ UNCHANGED <<store, kept, latest>> /\ call'[c] # "paired"
        \/ /\ Record(r, i, c)
           /\ latest' = (latest \ SamePair(c)) \cup (IF HalfWritten(c) THEN {} ELSE {c})
           /\ Answer(c, "paired")
    BY <1>0 DEF PairConfirm, Answer, Goto
  <1> QED  BY <1>2, <1>3, <1>4

\* The initiator's record: only of the last session of the two devices itself,
\* as another that could be recorded would be half written.
LEMMA AgreeConfirmed ==
    ASSUME LinkInv, AgreeInv, NEW c \in Codes, Confirmed(c)
    PROVE  AgreeInv'
  <1> DEFINE r == Responder(c)
             i == Initiator(c)
  <1>0. /\ LinkTypeOK /\ call[c] \in {"paired", "refused"} /\ ends' = ends /\ latest' = latest
        /\ call \in [Codes -> CallStates] /\ store \in [Devices -> [Devices -> Codes \cup {NoCode}]]
        /\ r \in Devices /\ i \in Devices /\ r # i
    BY PairFacts DEF LinkInv, AgreeInv, Confirmed, LinkTypeOK
  <1>1. /\ \A x \in Codes \ {c} : call'[x] = call[x]
        /\ call'[c] = "over"
    BY <1>0 DEF Confirmed, Goto
  <1>2. CASE UNCHANGED <<store, kept>>
    BY <1>0, <1>1, <1>2, AgreeQuiet
  <1>3. CASE call[c] = "paired" /\ Record(i, r, c)
    <2>2. \A e, q \in Devices : store'[e][q] = IF e = i /\ q = r THEN c ELSE store[e][q]
      BY <1>0, <1>3, NestedValue DEF Record
    <2>3. kept' = kept \cup {<<i, c>>}
      BY <1>3 DEF Record
    <2>4. \A x \in Codes : /\ Responder(x)' = Responder(x) /\ Initiator(x)' = Initiator(x)
                           /\ SamePair(x)' = SamePair(x)
      BY <1>0 DEF Responder, Initiator, SamePair
    <2>5. ASSUME NEW x \in Codes
          PROVE  /\ Responder(x)' # Initiator(x)'
                 /\ call'[x] \notin {"paired", "over"} => <<Responder(x)', x>> \notin kept'
      BY <1>1, <2>3, <2>4 DEF AgreeInv
    <2>6. ASSUME NEW x \in latest'
          PROVE  /\ store'[Responder(x)'][Initiator(x)'] = x
                 /\ ~HalfWritten(x)'
                 /\ <<Initiator(x)', x>> \in kept' => store'[Initiator(x)'][Responder(x)'] = x
      <3>0. /\ x \in Codes /\ x \in latest
            /\ Responder(x) \in Devices /\ Initiator(x) \in Devices
            /\ store[Responder(x)][Initiator(x)] = x /\ ~HalfWritten(x)
        BY <1>0, PairFacts DEF LinkTypeOK, AgreeInv
      <3>1. ~HalfWritten(x)'
        BY <1>1, <2>4, <3>0 DEF HalfWritten, SamePair
      <3>2. CASE x = c
        BY <1>0, <2>2, <2>4, <3>0, <3>1, <3>2
      <3>3. CASE x # c
        <4>1. c \notin SamePair(x)
          BY <1>3, <3>0, <3>3 DEF HalfWritten
        <4>2. {Responder(x), Initiator(x)} # {r, i}
          BY <1>0, <3>0, <4>1, PairFacts
        <4>3. /\ store'[Responder(x)][Initiator(x)] = store[Responder(x)][Initiator(x)]
              /\ store'[Initiator(x)][Responder(x)] = store[Initiator(x)][Responder(x)]
          BY <2>2, <3>0, <4>2
        <4>4. <<Initiator(x), x>> \in kept' => <<Initiator(x), x>> \in kept
          BY <2>3, <3>3
        <4> QED  BY <2>4, <3>0, <3>1, <4>3, <4>4 DEF AgreeInv, SecretsAgree
      <3> QED  BY <3>2, <3>3
    <2> QED  BY <2>5, <2>6 DEF AgreeInv, SecretsAgree
  <1> QED  BY <1>2, <1>3 DEF Confirmed

\* A removal takes a secret of two devices, and with it their last session.
LEMMA AgreeRemove ==
    ASSUME LinkInv, AgreeInv, NEW d \in Devices, NEW p \in Devices, RemoveDevice(d, p)
    PROVE  AgreeInv'
  <1>1. /\ LinkTypeOK
        /\ ends' = ends /\ call' = call /\ kept' = kept
        /\ \A x \in latest' : x \in latest /\ {d, p} # {Responder(x), Initiator(x)}
    BY DEF LinkInv, RemoveDevice, Responder, Initiator
  <1>2. \A e, q \in Devices : ~(e = d /\ q = p) => store'[e][q] = store[e][q]
    BY <1>1 DEF LinkTypeOK, RemoveDevice
  <1>3. ASSUME NEW x \in latest'
        PROVE  /\ x \in latest /\ x \in Codes
               /\ store'[Responder(x)][Initiator(x)] = store[Responder(x)][Initiator(x)]
               /\ store'[Initiator(x)][Responder(x)] = store[Initiator(x)][Responder(x)]
    <2>1. x \in latest /\ x \in Codes /\ {d, p} # {Responder(x), Initiator(x)}
      BY <1>1 DEF LinkTypeOK
    <2>2. Responder(x) \in Devices /\ Initiator(x) \in Devices
      BY <1>1, <2>1, PairFacts
    <2> QED  BY <1>2, <2>1, <2>2
  <1> QED
    BY <1>1, <1>3 DEF AgreeInv, SecretsAgree, HalfWritten, SamePair, Responder, Initiator

\* Each step keeps the secrets in agreement.
LEMMA AgreeStep ==
    ASSUME LinkInv, AgreeInv, [LinkNext]_vars
    PROVE  AgreeInv'
  <1> DEFINE Quiet == \A c \in Codes :
                         /\ call[c] \in {"paired", "over"} => call'[c] \in {"paired", "over"}
                         /\ call'[c] = "paired" => call[c] = "paired"
             Still == UNCHANGED <<ends, store, kept, latest>>
  <1>0. call \in [Codes -> CallStates] /\ LinkTypeOK
    BY DEF LinkInv, LinkTypeOK
  <1> USE <1>0 DEF Goto, codeVars, sessionVars, historyVars
  <1>1. ASSUME NEW c \in Codes, GenerateCode(c)
        PROVE  Quiet /\ Still
    BY <1>1 DEF GenerateCode
  <1>2. ASSUME NEW c \in Codes, HandleHello(c)
        PROVE  Quiet /\ Still
    <2>1. call[c] = "none"
      BY <1>2, PairFacts DEF HandleHello, LiveCodes, LinkInv, UnusedInv, Unused
    <2> QED  BY <1>2, <2>1 DEF HandleHello
  <1>3. ASSUME NEW c \in Codes, HelloAnswered(c)
        PROVE  Quiet /\ Still
    <2>1. call[c] = "hello" /\ Still
      BY <1>3 DEF HelloAnswered
    <2>2. CASE call' = [call EXCEPT ![c] = "over"]
      BY <2>1, <2>2
    <2>3. CASE call' = [call EXCEPT ![c] = "token"]
      BY <2>1, <2>3
    <2> QED  BY <1>3, <2>2, <2>3, Zenon DEF HelloAnswered
  <1>4. ASSUME NEW c \in Codes, NEW accept \in BOOLEAN, ConfirmPairing(c, accept)
        PROVE  Quiet /\ Still
    <2>1. call[c] = "token" /\ Still
      BY <1>4, PairFacts DEF ConfirmPairing, LinkTypeOK
    <2>2. CASE call' = [call EXCEPT ![c] = "over"]
      BY <2>1, <2>2
    <2>3. CASE call' = [call EXCEPT ![c] = IF accept THEN "accept" ELSE "decline"]
      BY <2>1, <2>3
    <2> QED  BY <1>4, <2>2, <2>3 DEF ConfirmPairing
  <1>5. ASSUME NEW c \in Codes, NEW v \in {"yes", "no"}, SetLocalDecision(c, v)
        PROVE  Quiet /\ Still
    BY <1>5 DEF SetLocalDecision
  <1>6. ASSUME NEW c \in Codes, HandleConfirm(c)
        PROVE  Quiet /\ Still
    <2>1. call[c] \in {"accept", "decline"} /\ Still
      BY <1>6 DEF HandleConfirm
    <2>2. CASE call' = [call EXCEPT ![c] = "waiting"]
      BY <2>1, <2>2
    <2>3. CASE call' = [call EXCEPT ![c] = "refused"]
      BY <2>1, <2>3
    <2> QED  BY <1>6, <2>2, <2>3, Zenon DEF HandleConfirm
  <1>7. ASSUME NEW c \in Codes, Awaken(c)
        PROVE  Quiet /\ Still
    <2>1. call[c] = "waiting" /\ Still
      BY <1>7 DEF Awaken
    <2>2. CASE call' = [call EXCEPT ![c] = IF verdict[c] = "yes" THEN "storing" ELSE "refused"]
      BY <2>1, <2>2
    <2>3. CASE call' = [call EXCEPT ![c] = "refused"]
      BY <2>1, <2>3
    <2> QED  BY <1>7, <2>2, <2>3 DEF Awaken
  <1>10. ASSUME NEW c \in Codes, GiveUp(c)
         PROVE  Quiet /\ Still
    BY <1>10 DEF GiveUp
  <1>11. ASSUME NEW c \in Codes, DropHandler(c)
         PROVE  Quiet /\ Still
    BY <1>11 DEF DropHandler
  <1>13. ASSUME NEW d \in Devices, PruneExpired(d)
         PROVE  Quiet /\ Still
    BY <1>13 DEF PruneExpired
  <1>14. ASSUME NEW d \in Devices, Crash(d)
         PROVE  Quiet /\ Still
    BY <1>14 DEF Crash
  <1>15. ASSUME Tick \/ UNCHANGED vars
         PROVE  Quiet /\ Still
    BY <1>15 DEF Tick, vars
  <1>16. Quiet /\ Still => AgreeInv'
    BY AgreeQuiet
  <1> HIDE DEF Quiet, Still
  <1> QED
    BY <1>1, <1>2, <1>3, <1>4, <1>5, <1>6, <1>7, <1>10, <1>11, <1>13, <1>14, <1>15, <1>16,
       AgreePairConfirm, AgreeConfirmed, AgreeRemove
       DEF LinkNext

\* A pairing that succeeded leaves both devices with its secret: confirm_pairing
\* and pair_confirm record one and the same, unless pairings of the same two
\* devices were recorded across each other or one device removed the other.
THEOREM PairKeepsOneSecret == LinkSpec => []SecretsAgree
  <1>1. LinkInit => AgreeInv
    BY DEF LinkInit, AgreeInv, SecretsAgree, Responder, Initiator, Ends
  <1>2. LinkInv /\ AgreeInv /\ [LinkNext]_vars => AgreeInv'
    BY AgreeStep
  <1>3. AgreeInv => SecretsAgree
    BY DEF AgreeInv
  <1> QED  BY <1>1, <1>2, <1>3, LinkInvariant, PTL DEF LinkSpec
=============================================================================
