------------------------ MODULE IceGathering_proofs ------------------------
(***************************************************************************)
(* CompleteIsTrue of IceGathering, for any sets of STUN and TURN clients   *)
(* and any number of rounds.                                               *)
(*                                                                         *)
(* The argument: a gatherer is "complete" exactly when it has nothing left *)
(* to do, its COMPLETE event is the last of its queue, and the driver's    *)
(* flag for it is the record that this event was handled.  A flag that is  *)
(* set therefore means an empty queue and a finished gatherer, and both    *)
(* flags are set whenever the core has been told.                          *)
(***************************************************************************)
EXTENDS IceGathering, SequenceTheorems, TLAPS

Event == {"cand", "complete"}

\* What a gatherer's queue, its state and the driver's flag say of each other.
Flag(q, state, done) ==
    /\ \A i \in 1..Len(q) :
           q[i] = "complete" => i = Len(q) /\ state = "complete"
    /\ done => state = "complete" /\ q = << >>
    /\ state = "complete" /\ ~done => q # << >> /\ q[Len(q)] = "complete"

\* A gatherer's state against its clients.
StunKept ==
    /\ stunState = "gathering" <=> StunLeft(stun) # {}
    /\ Flag(stunEvents, stunState, stunDone)
    /\ phase \in {"select", "turn", "core"} => stunEvents = << >>

TurnKept ==
    /\ turnState = "gathering" <=> ~GatherFinished(turn)
    /\ turnState = "new" => TurnLeft(turn) = {}
    /\ \A c \in TurnClient : turnReply[c] # NoReply => turn[c] = "ended"
    /\ Flag(turnEvents, turnState, turnDone)
    /\ phase \in {"select", "core"} => turnEvents = << >>

\* Completion is passed on once both flags are set, and only then.
CoreKept ==
    /\ active => ~(stunDone /\ turnDone)
    /\ told \/ Holds(coreEvents, "complete") => ~active /\ stunDone /\ turnDone
    /\ phase = "select" => coreEvents = << >>
    /\ NoCandidateAfterComplete

IInv ==
    /\ TypeOK /\ requests <= calls
    /\ StunKept /\ TurnKept /\ CoreKept

-----------------------------------------------------------------------------
(* Queues of gatherer events.                                               *)

\* Appending by concatenation, as the gatherers' extends do.
LEMMA QueueCat ==
  ASSUME NEW q \in Seq(Event)
  PROVE  /\ q \o << >> = q
         /\ \A e \in Event : q \o <<e>> = Append(q, e)
         /\ \A e \in Event : Append(q, e) \in Seq(Event)
BY DEF Event

\* A queue of a gatherer still at work holds no COMPLETE.
LEMMA FlagOpen ==
  ASSUME NEW q \in Seq(Event), NEW st, NEW d \in BOOLEAN,
         Flag(q, st, d), st # "complete"
  PROVE  ~d /\ ~Holds(q, "complete")
BY Zenon DEF Flag, Holds

\* A queue without COMPLETE goes with a gatherer that is not complete.
LEMMA FlagQuiet ==
  ASSUME NEW q \in Seq(Event), NEW st, st # "complete", ~Holds(q, "complete")
  PROVE  Flag(q, st, FALSE)
BY Zenon DEF Flag, Holds

\* A candidate leaves it so.
LEMMA FlagCand ==
  ASSUME NEW q \in Seq(Event), ~Holds(q, "complete")
  PROVE  ~Holds(Append(q, "cand"), "complete")
<1>1. SUFFICES ASSUME NEW i \in 1..Len(Append(q, "cand")),
                      Append(q, "cand")[i] = "complete"
               PROVE  FALSE
  BY Zenon DEF Holds
<1>2. \/ i \in 1..Len(q) /\ Append(q, "cand")[i] = q[i]
      \/ Append(q, "cand")[i] = "cand"
  BY <1>1
<1>3. QED
  BY Zenon, <1>1, <1>2 DEF Holds

\* The COMPLETE event goes last.
LEMMA FlagDone ==
  ASSUME NEW q \in Seq(Event), ~Holds(q, "complete")
  PROVE  Flag(Append(q, "complete"), "complete", FALSE)
<1> DEFINE p == Append(q, "complete")
<1>1. Len(p) = Len(q) + 1 /\ p[Len(q) + 1] = "complete" /\ p # << >> /\ Len(q) \in Nat
  BY AppendProperties DEF Event
<1>2. \A i \in 1..Len(q) : p[i] # "complete"
  BY DEF Holds
<1> HIDE DEF p
<1>3. Flag(p, "complete", FALSE)
  BY <1>1, <1>2 DEF Flag
<1>4. QED
  BY Zenon, <1>3 DEF p

\* Taking a candidate keeps the flag; taking COMPLETE sets it and leaves nothing.
LEMMA FlagTaken ==
  ASSUME NEW q \in Seq(Event), q # << >>, NEW st, NEW d \in BOOLEAN, Flag(q, st, d)
  PROVE  /\ Tail(q) \in Seq(Event)
         /\ Head(q) = "cand" => Flag(Tail(q), st, d) /\ ~d
         /\ Head(q) = "complete" => Flag(Tail(q), st, TRUE) /\ Tail(q) = << >>
                                    /\ st = "complete"
<1> DEFINE t == Tail(q)
<1>1. /\ t \in Seq(Event) /\ Len(t) = Len(q) - 1 /\ Head(q) = q[1] /\ Len(t) \in Nat
      /\ Len(q) \in Nat
      /\ Len(q) > 0 /\ \A i \in 1..Len(t) : t[i] = q[i + 1]
  BY HeadTailProperties
<1> HIDE DEF t
<1>2. ~d
  BY Zenon DEF Flag
<1>3. ASSUME Head(q) = "cand" PROVE Flag(t, st, d)
  <2>1. \A i \in 1..Len(t) :
            t[i] = "complete" => i = Len(t) /\ st = "complete"
    <3>1. SUFFICES ASSUME NEW i \in 1..Len(t), t[i] = "complete"
                   PROVE  i = Len(t) /\ st = "complete"
      BY Zenon
    <3>2. i + 1 \in 1..Len(q) /\ q[i + 1] = "complete"
      BY <1>1, <3>1
    <3>3. i + 1 = Len(q) /\ st = "complete"
      BY Zenon, <3>2 DEF Flag
    <3>4. QED
      BY <1>1, <3>3
  <2>2. ASSUME st = "complete"
        PROVE  t # << >> /\ t[Len(t)] = "complete"
    <3>1. q[Len(q)] = "complete"
      BY Zenon, <1>2, <2>2 DEF Flag
    <3>2. Len(q) # 1
      BY Zenon, <1>1, <1>3, <3>1
    <3>3. Len(t) \in 1..Len(t) /\ Len(t) + 1 = Len(q)
      BY <1>1, <3>2
    <3>4. t[Len(t)] = q[Len(t) + 1]
      BY Zenon, <1>1, <3>3
    <3>5. QED
      BY <3>1, <3>3, <3>4
  <2>3. QED
    BY Zenon, <1>2, <2>1, <2>2 DEF Flag
<1>4. ASSUME Head(q) = "complete"
      PROVE  Flag(t, st, TRUE) /\ t = << >> /\ st = "complete"
  <2>1. 1 = Len(q) /\ st = "complete"
    <3>1. 1 \in 1..Len(q) /\ q[1] = "complete"
      BY <1>1, <1>4
    <3>2. QED
      BY Zenon, <3>1 DEF Flag
  <2>2. t = << >>
    <3>1. Len(t) = 0
      BY <1>1, <2>1
    <3>2. QED
      BY Zenon, <1>1, <3>1, EmptySeq
  <2>3. QED
    BY <2>1, <2>2 DEF Flag
<1>5. QED
  BY Zenon, <1>1, <1>2, <1>3, <1>4 DEF t

-----------------------------------------------------------------------------
(* The queue of the core.                                                   *)

\* add_local_candidate before completion has been passed on.
LEMMA CoreCand ==
  ASSUME coreEvents \in Seq(Event), ~Holds(coreEvents, "complete"), ~told', AddLocal
  PROVE  /\ coreEvents' \in Seq(Event)
         /\ ~Holds(coreEvents', "complete")
         /\ NoCandidateAfterComplete'
<1>1. coreEvents' \in Seq(Event)
  BY Zenon, QueueCat DEF AddLocal, Event
<1>2. ~Holds(coreEvents', "complete")
  BY Zenon, FlagCand DEF AddLocal
<1>3. QED
  BY Zenon, <1>1, <1>2 DEF NoCandidateAfterComplete, Holds

\* finish_gathering_if_ready, which acts once.
LEMMA CoreDone ==
  ASSUME coreEvents \in Seq(Event), ~Holds(coreEvents, "complete"), ~told',
         coreEvents' = Append(coreEvents, "complete")
  PROVE  coreEvents' \in Seq(Event) /\ NoCandidateAfterComplete'
<1>1. coreEvents' \in Seq(Event)
  BY Zenon, QueueCat DEF Event
<1>2. /\ Len(coreEvents') = Len(coreEvents) + 1 /\ Len(coreEvents) \in Nat
      /\ \A i \in 1..Len(coreEvents) : coreEvents'[i] # "complete"
  BY AppendProperties DEF Holds, Event
<1>3. ASSUME NEW i \in 1..Len(coreEvents'), NEW j \in 1..Len(coreEvents'), i < j
      PROVE  coreEvents'[i] # "complete"
  BY <1>2, <1>3
<1>4. QED
  BY Zenon, <1>1, <1>3 DEF NoCandidateAfterComplete

\* The handler takes the first event; behind a COMPLETE there is no candidate.
LEMMA CoreTaken ==
  ASSUME coreEvents \in Seq(Event), coreEvents # << >>, told \in BOOLEAN,
         NoCandidateAfterComplete, coreEvents' = Tail(coreEvents),
         told' = (told \/ Head(coreEvents) = "complete")
  PROVE  /\ coreEvents' \in Seq(Event)
         /\ NoCandidateAfterComplete'
         /\ Holds(coreEvents', "complete") => Holds(coreEvents, "complete")
         /\ Head(coreEvents) = "complete" => Holds(coreEvents, "complete")
<1>1. /\ coreEvents' \in Seq(Event) /\ Len(coreEvents') = Len(coreEvents) - 1
      /\ Head(coreEvents) = coreEvents[1] /\ Len(coreEvents) > 0
      /\ Len(coreEvents) \in Nat /\ Len(coreEvents') \in Nat
      /\ \A i \in 1..Len(coreEvents') : coreEvents'[i] = coreEvents[i + 1]
  BY HeadTailProperties
<1>2. \A i \in 1..Len(coreEvents') : i + 1 \in 1..Len(coreEvents)
  BY <1>1
<1>3. 1 \in 1..Len(coreEvents)
  BY <1>1
<1>4. ASSUME told', NEW j \in 1..Len(coreEvents')
      PROVE  coreEvents'[j] # "cand"
  <2>1. CASE told
    BY Zenon, <1>1, <1>2, <2>1 DEF NoCandidateAfterComplete, Holds
  <2>2. CASE coreEvents[1] = "complete"
    <3>1. 1 < j + 1 /\ j + 1 \in 1..Len(coreEvents)
      BY <1>1, <1>2
    <3>2. coreEvents[j + 1] # "cand"
      BY Zenon, <1>3, <2>2, <3>1 DEF NoCandidateAfterComplete
    <3>3. QED
      BY Zenon, <1>1, <3>2
  <2>3. QED
    BY Zenon, <1>1, <1>4, <2>1, <2>2
<1>5. ASSUME NEW i \in 1..Len(coreEvents'), NEW j \in 1..Len(coreEvents'),
             i < j, coreEvents'[i] = "complete"
      PROVE  coreEvents'[j] # "cand"
  <2>1. i + 1 \in 1..Len(coreEvents) /\ j + 1 \in 1..Len(coreEvents) /\ i + 1 < j + 1
    BY <1>1, <1>2, <1>5
  <2>2. coreEvents[i + 1] = "complete"
    BY Zenon, <1>1, <1>5
  <2>3. coreEvents[j + 1] # "cand"
    BY Zenon, <2>1, <2>2 DEF NoCandidateAfterComplete
  <2>4. QED
    BY Zenon, <1>1, <2>3
<1>6. NoCandidateAfterComplete'
  BY Zenon, <1>4, <1>5 DEF NoCandidateAfterComplete, Holds
<1>7. QED
  BY Zenon, <1>1, <1>2, <1>3, <1>6 DEF Holds

-----------------------------------------------------------------------------

LEMMA InitHolds == Init => IInv
<1> SUFFICES ASSUME Init PROVE IInv
  BY Zenon
<1>1. TypeOK /\ requests <= calls
  <2>1. requests \in 0..MaxRounds /\ calls \in 0..MaxRounds /\ requests <= calls
    BY RoundsAssumption DEF Init
  <2>2. /\ stun \in [StunClient -> StunStatus] /\ turn \in [TurnClient -> TurnStatus]
        /\ turnReply \in [TurnClient -> TurnReplies]
    BY Zenon DEF Init, StunStatus, TurnStatus, TurnReplies
  <2>3. /\ stunEvents \in Seq({"cand", "complete"}) /\ turnEvents \in Seq({"cand", "complete"})
        /\ coreEvents \in Seq({"cand", "complete"})
    BY DEF Init
  <2>4. /\ stunState \in GatherState /\ turnState \in GatherState /\ observed \in GatherState
        /\ phase \in {"select", "writes", "stun", "turn", "core"}
    BY Zenon DEF Init, GatherState
  <2>5. /\ active \in BOOLEAN /\ stunDone \in BOOLEAN /\ turnDone \in BOOLEAN
        /\ told \in BOOLEAN /\ relayOnly \in BOOLEAN
    BY Zenon DEF Init
  <2>6. QED
    BY Zenon, <2>1, <2>2, <2>3, <2>4, <2>5 DEF TypeOK
<1>2. StunKept
  BY DEF Init, StunKept, StunLeft, Flag
<1>3. TurnKept
  BY DEF Init, TurnKept, GatherFinished, TurnLeft, Flag
<1>4. CoreKept
  BY DEF Init, CoreKept, NoCandidateAfterComplete, Holds
<1>5. QED
  BY Zenon, <1>1, <1>2, <1>3, <1>4 DEF IInv

LEMMA InvImplies == IInv => CompleteIsTrue
<1> SUFFICES ASSUME IInv PROVE CompleteIsTrue
  BY Zenon
<1>1. ASSUME told \/ Holds(coreEvents, "complete")
      PROVE  StunLeft(stun) = {} /\ GatherFinished(turn)
  BY Zenon, <1>1 DEF IInv, CoreKept, StunKept, TurnKept, Flag
<1>2. ASSUME phase = "select", active
      PROVE  /\ stunDone = (stunState = "complete")
             /\ turnDone = (turnState = "complete")
             /\ ~(stunDone /\ turnDone)
  BY Zenon, <1>2 DEF IInv, TypeOK, CoreKept, StunKept, TurnKept, Flag
<1>3. TypeOK /\ NoCandidateAfterComplete
  BY Zenon DEF IInv, CoreKept
<1>4. QED
  BY Zenon, <1>1, <1>2, <1>3 DEF CompleteIsTrue

-----------------------------------------------------------------------------
(* One lemma per action, or per group of actions that move the same state.  *)

LEMMA RequestStep == IInv /\ RequestGathering => IInv'
<1> SUFFICES ASSUME IInv, RequestGathering PROVE IInv'
  BY Zenon
<1>1. TypeOK' /\ (requests <= calls)'
  BY RoundsAssumption DEF IInv, TypeOK, RequestGathering, flags, stunVars, turnVars, obsVars
<1>2. StunKept'
  BY Zenon DEF IInv, StunKept, RequestGathering, flags, stunVars, Flag, StunLeft
<1>3. TurnKept'
  BY Zenon DEF IInv, TurnKept, RequestGathering, flags, turnVars, Flag, GatherFinished, TurnLeft
<1>4. CoreKept'
  BY DEF IInv, CoreKept, RequestGathering, flags, obsVars, NoCandidateAfterComplete, Holds
<1>5. QED
  BY Zenon, <1>1, <1>2, <1>3, <1>4 DEF IInv

\* Steps that only move the loop to its next phase.
LEMMA PhaseStep ==
  IInv /\ (OtherInput \/ StunEventsDone \/ TurnEventsDone \/ Park) => IInv'
<1> SUFFICES ASSUME IInv, OtherInput \/ StunEventsDone \/ TurnEventsDone \/ Park
             PROVE  IInv'
  BY Zenon
<1>1. UNCHANGED <<requests, calls, flags, stunVars, turnVars, coreEvents, obsVars, relayOnly>>
  BY Zenon DEF OtherInput, StunEventsDone, TurnEventsDone, Park
<1>2. \/ phase = "select" /\ phase' = "writes"
      \/ phase = "stun" /\ phase' = "turn" /\ stunEvents = << >>
      \/ phase = "turn" /\ phase' = "core" /\ turnEvents = << >>
      \/ phase = "core" /\ phase' = "select" /\ coreEvents = << >>
  BY Zenon DEF OtherInput, StunEventsDone, TurnEventsDone, Park, Wake
<1>3. TypeOK' /\ (requests <= calls)'
  BY Zenon, <1>1, <1>2 DEF IInv, TypeOK, flags, stunVars, turnVars, obsVars
<1>4. StunKept'
  BY Zenon, <1>1, <1>2 DEF IInv, StunKept, flags, stunVars, Flag, StunLeft
<1>5. TurnKept'
  BY Zenon, <1>1, <1>2 DEF IInv, TurnKept, flags, turnVars, Flag, GatherFinished, TurnLeft
<1>6. CoreKept'
  BY <1>1, <1>2 DEF IInv, CoreKept, flags, obsVars, NoCandidateAfterComplete, Holds
<1>7. QED
  BY Zenon, <1>3, <1>4, <1>5, <1>6 DEF IInv

\* An exchange of one STUN client ends: the client is still there.
LEMMA StunOutcomeStep ==
  ASSUME IInv, NEW c \in StunClient, StunOutcome(c)
  PROVE  IInv'
<1>1. PICK out \in {"answered", "unusable"} : stun' = [stun EXCEPT ![c] = out]
  BY Zenon DEF StunOutcome
<1>2. /\ UNCHANGED <<requests, calls, flags, stunState, stunEvents, turnVars, coreEvents,
                     obsVars, relayOnly>>
      /\ phase = "select" /\ phase' = "writes" /\ stun[c] = "waiting"
      /\ stun \in [StunClient -> StunStatus]
  BY Zenon DEF StunOutcome, Wake, IInv, TypeOK
<1>3. TypeOK' /\ (requests <= calls)'
  BY Zenon, <1>1, <1>2 DEF IInv, TypeOK, flags, turnVars, obsVars, StunStatus
<1>4. StunLeft(stun') = StunLeft(stun)
  BY Zenon, <1>1, <1>2 DEF StunLeft
<1>5. StunKept'
  BY Zenon, <1>2, <1>4 DEF IInv, StunKept, flags, Flag
<1>6. TurnKept'
  BY Zenon, <1>2 DEF IInv, TurnKept, flags, turnVars, Flag, GatherFinished, TurnLeft
<1>7. CoreKept'
  BY <1>2 DEF IInv, CoreKept, flags, obsVars, NoCandidateAfterComplete, Holds
<1>8. QED
  BY Zenon, <1>3, <1>5, <1>6, <1>7 DEF IInv

\* A transaction of one allocation ends, or is followed by the second one: the
\* client is not finished before or after.
LEMMA TurnOutcomeStep ==
  ASSUME IInv, NEW c \in TurnClient, TurnChallenge(c) \/ TurnOutcome(c)
  PROVE  IInv'
<1>1. /\ UNCHANGED <<requests, calls, flags, stunVars, turnState, turnEvents, coreEvents,
                     obsVars, relayOnly>>
      /\ phase = "select" /\ phase' = "writes"
      /\ turn \in [TurnClient -> TurnStatus] /\ turnReply \in [TurnClient -> TurnReplies]
  BY Zenon DEF TurnChallenge, TurnOutcome, Wake, IInv, TypeOK
<1>2. PICK t \in {"request", "ended"}, r \in TurnReplies :
          /\ turn[c] \in {"attempt", "request"} /\ turn' = [turn EXCEPT ![c] = t]
          /\ turnReply' = [turnReply EXCEPT ![c] = r]
          /\ r # NoReply => t = "ended"
  <2>1. CASE TurnChallenge(c)
    <3>1. turnReply' = [turnReply EXCEPT ![c] = NoReply] 
      BY Zenon, <1>1, <2>1 DEF TurnChallenge, IInv, TurnKept
    <3>2. QED
      BY Zenon, <2>1, <3>1 DEF TurnChallenge, TurnReplies
  <2>2. CASE TurnOutcome(c)
    BY Zenon, <2>2 DEF TurnOutcome
  <2>3. QED
    BY Zenon, <2>1, <2>2
<1>3. TypeOK' /\ (requests <= calls)'
  BY Zenon, <1>1, <1>2 DEF IInv, TypeOK, flags, stunVars, obsVars, TurnStatus
<1>4. ~GatherFinished(turn) /\ ~GatherFinished(turn')
  BY Zenon, <1>1, <1>2 DEF GatherFinished, TurnLeft
<1>5. \A d \in TurnClient : turnReply'[d] # NoReply => turn'[d] = "ended"
  BY Zenon, <1>1, <1>2 DEF IInv, TurnKept
<1>6. TurnKept'
  BY Zenon, <1>1, <1>4, <1>5 DEF IInv, TurnKept, flags, Flag
<1>7. StunKept'
  BY Zenon, <1>1 DEF IInv, StunKept, flags, stunVars, Flag, StunLeft
<1>8. CoreKept'
  BY <1>1 DEF IInv, CoreKept, flags, obsVars, NoCandidateAfterComplete, Holds
<1>9. QED
  BY Zenon, <1>3, <1>6, <1>7, <1>8 DEF IInv

\* SocketWriteFailure in the STUN gatherer: it completes with its last client.
LEMMA StunWriteStep ==
  ASSUME IInv, NEW fs \in SUBSET {c \in StunClient : stun[c] = "waiting"},
         StunWriteFailure(fs), UNCHANGED stunDone, phase' = "stun"
  PROVE  /\ stun' \in [StunClient -> StunStatus] /\ stunState' \in GatherState
         /\ stunEvents' \in Seq(Event) /\ StunKept'
<1> DEFINE s == [c \in StunClient |-> IF c \in fs THEN "none" ELSE stun[c]]
           done == fs # {} /\ StunLeft(s) = {} /\ stunState # "complete"
<1>1. /\ stun' = s
      /\ stunState' = IF done THEN "complete" ELSE stunState
      /\ stunEvents' = IF done THEN Append(stunEvents, "complete") ELSE stunEvents
  BY Zenon DEF StunWriteFailure
<1>2. /\ stun \in [StunClient -> StunStatus] /\ stunState \in GatherState
      /\ stunEvents \in Seq(Event) /\ stunDone \in BOOLEAN
      /\ Flag(stunEvents, stunState, stunDone)
      /\ stunState = "gathering" <=> StunLeft(stun) # {}
  BY Zenon DEF IInv, TypeOK, StunKept, Event
<1>3. s \in [StunClient -> StunStatus]
  BY Zenon, <1>2 DEF StunStatus
<1>4. fs # {} => StunLeft(stun) # {}
  BY Zenon DEF StunLeft
<1>5. fs = {} => s = stun
  BY Zenon, <1>2
<1>6. StunLeft(s) \subseteq StunLeft(stun)
  BY Zenon, <1>2 DEF StunLeft
<1> HIDE DEF s
<1>7. CASE done
  <2>1. stunState' = "complete" /\ stunEvents' = Append(stunEvents, "complete")
        /\ StunLeft(stun') = {}
    BY Zenon, <1>1, <1>7
  <2>2. ~stunDone /\ ~Holds(stunEvents, "complete")
    BY Zenon, <1>2, <1>7, FlagOpen
  <2>3. stunDone' = FALSE /\ Flag(stunEvents', stunState', FALSE)
    BY Zenon, <1>2, <2>1, <2>2, FlagDone
  <2>4. stunEvents' \in Seq(Event)
    BY Zenon, <1>2, <2>1, QueueCat DEF Event
  <2>5. QED
    BY Zenon, <1>1, <1>3, <2>1, <2>3, <2>4 DEF StunKept, GatherState
<1>8. CASE ~done
  <2>1. stunState' = stunState /\ stunEvents' = stunEvents
    BY Zenon, <1>1, <1>8
  <2>2. stunState' = "gathering" <=> StunLeft(stun') # {}
    BY Zenon, <1>1, <1>2, <1>4, <1>5, <1>6, <1>8 DEF GatherState
  <2>3. QED
    BY Zenon, <1>1, <1>2, <1>3, <2>1, <2>2 DEF StunKept
<1>9. QED
  BY Zenon, <1>7, <1>8

\* SocketWriteFailure in the TURN relayer: the clients it removes had no reply
\* waiting, and it completes when those that remain are finished.
LEMMA TurnWriteStep ==
  ASSUME IInv,
         NEW ft \in SUBSET {c \in TurnClient : turn[c] \in {"attempt", "request", "relay"}},
         TurnWriteFailure(ft), UNCHANGED turnDone, phase' = "stun"
  PROVE  /\ turn' \in [TurnClient -> TurnStatus] /\ turnState' \in GatherState
         /\ turnReply' \in [TurnClient -> TurnReplies]
         /\ turnEvents' \in Seq(Event) /\ TurnKept'
<1> DEFINE t == [c \in TurnClient |-> IF c \in ft THEN "none" ELSE turn[c]]
           done == ft # {} /\ turnState = "gathering" /\ GatherFinished(t)
<1>1. /\ turn' = t
      /\ turnReply' = [c \in TurnClient |-> IF c \in ft THEN NoReply ELSE turnReply[c]]
      /\ turnState' = IF done THEN "complete" ELSE turnState
      /\ turnEvents' = IF done THEN Append(turnEvents, "complete") ELSE turnEvents
  BY Zenon DEF TurnWriteFailure
<1>2. /\ turn \in [TurnClient -> TurnStatus] /\ turnState \in GatherState
      /\ turnReply \in [TurnClient -> TurnReplies]
      /\ turnEvents \in Seq(Event) /\ turnDone \in BOOLEAN
      /\ Flag(turnEvents, turnState, turnDone)
      /\ turnState = "gathering" <=> ~GatherFinished(turn)
      /\ turnState = "new" => TurnLeft(turn) = {}
      /\ \A c \in TurnClient : turnReply[c] # NoReply => turn[c] = "ended"
  BY Zenon DEF IInv, TypeOK, TurnKept, Event
<1>3. t \in [TurnClient -> TurnStatus] /\ turnReply' \in [TurnClient -> TurnReplies]
  BY Zenon, <1>1, <1>2 DEF TurnStatus, TurnReplies
<1>4. \A c \in TurnClient : turnReply'[c] # NoReply => turn'[c] = "ended"
  BY Zenon, <1>1, <1>2
<1>5. ft = {} => t = turn
  BY Zenon, <1>2
<1>6. /\ GatherFinished(turn) => GatherFinished(t)
      /\ TurnLeft(t) \subseteq TurnLeft(turn)
  BY Zenon, <1>2 DEF GatherFinished, TurnLeft
<1> HIDE DEF t
<1>7. CASE done
  <2>1. turnState' = "complete" /\ turnEvents' = Append(turnEvents, "complete")
        /\ GatherFinished(turn')
    BY Zenon, <1>1, <1>7
  <2>2. ~turnDone /\ ~Holds(turnEvents, "complete")
    BY Zenon, <1>2, <1>7, FlagOpen
  <2>3. turnDone' = FALSE /\ Flag(turnEvents', turnState', FALSE)
    BY Zenon, <1>2, <2>1, <2>2, FlagDone
  <2>4. turnEvents' \in Seq(Event)
    BY Zenon, <1>2, <2>1, QueueCat DEF Event
  <2>5. QED
    BY Zenon, <1>1, <1>3, <1>4, <2>1, <2>3, <2>4 DEF TurnKept, GatherState
<1>8. CASE ~done
  <2>1. turnState' = turnState /\ turnEvents' = turnEvents
    BY Zenon, <1>1, <1>8
  <2>2. turnState' = "gathering" <=> ~GatherFinished(turn')
    BY Zenon, <1>1, <1>2, <1>5, <1>6, <1>8 DEF GatherState
  <2>3. QED
    BY Zenon, <1>1, <1>2, <1>3, <1>4, <1>6, <2>1, <2>2 DEF TurnKept
<1>9. QED
  BY Zenon, <1>7, <1>8

LEMMA PollWritesStep == IInv /\ PollWrites => IInv'
<1> SUFFICES ASSUME IInv, PollWrites PROVE IInv'
  BY Zenon
<1>1. /\ phase = "writes" /\ phase' = "stun"
      /\ UNCHANGED <<requests, calls, flags, coreEvents, obsVars, relayOnly>>
  BY Zenon DEF PollWrites
<1>2. PICK fs \in SUBSET {c \in StunClient : stun[c] = "waiting"} : StunWriteFailure(fs)
  BY Zenon DEF PollWrites
<1>3. PICK ft \in SUBSET {c \in TurnClient : turn[c] \in {"attempt", "request", "relay"}} :
          TurnWriteFailure(ft)
  BY Zenon DEF PollWrites
<1>4. /\ stun' \in [StunClient -> StunStatus] /\ stunState' \in GatherState
      /\ stunEvents' \in Seq(Event) /\ StunKept'
  BY Zenon, <1>1, <1>2, StunWriteStep DEF flags
<1>5. /\ turn' \in [TurnClient -> TurnStatus] /\ turnState' \in GatherState
      /\ turnReply' \in [TurnClient -> TurnReplies]
      /\ turnEvents' \in Seq(Event) /\ TurnKept'
  BY Zenon, <1>1, <1>3, TurnWriteStep DEF flags
<1>6. TypeOK' /\ (requests <= calls)'
  BY Zenon, <1>1, <1>4, <1>5 DEF IInv, TypeOK, flags, obsVars, Event
<1>7. CoreKept'
  BY <1>1 DEF IInv, CoreKept, flags, obsVars, NoCandidateAfterComplete, Holds
<1>8. QED
  BY Zenon, <1>4, <1>5, <1>6, <1>7 DEF IInv

\* A binding answered: a candidate, and COMPLETE behind it with the last client;
\* an unusable answer leaves the client where it is.
LEMMA PollStunClientStep ==
  ASSUME IInv, NEW c \in StunClient, PollStunClient(c)
  PROVE  IInv'
<1>1. /\ phase = "stun"
      /\ UNCHANGED <<phase, requests, calls, flags, turnVars, coreEvents, obsVars, relayOnly>>
  BY Zenon DEF PollStunClient
<1>2. /\ stun \in [StunClient -> StunStatus] /\ stunState \in GatherState
      /\ stunEvents \in Seq(Event) /\ stunDone \in BOOLEAN
      /\ Flag(stunEvents, stunState, stunDone)
      /\ stunState = "gathering" <=> StunLeft(stun) # {}
  BY Zenon DEF IInv, TypeOK, StunKept, Event
<1>3. c \in StunLeft(stun)
  BY Zenon DEF PollStunClient, StunLeft
<1>4. stunState = "gathering" /\ stunState # "complete"
  BY Zenon, <1>2, <1>3
<1>5. stunDone' = FALSE /\ ~Holds(stunEvents, "complete")
  BY Zenon, <1>1, <1>2, <1>4, FlagOpen DEF flags
<1>6. /\ stun' \in [StunClient -> StunStatus] /\ stunState' \in GatherState
      /\ stunEvents' \in Seq(Event) /\ StunKept'
  <2>1. CASE stun[c] = "answered"
    <3> DEFINE s == [stun EXCEPT ![c] = "none"]
               q == Append(stunEvents, "cand")
    <3>1. /\ stun' = s
          /\ stunState' = IF StunLeft(s) = {} THEN "complete" ELSE stunState
          /\ stunEvents' = q \o (IF StunLeft(s) = {} THEN <<"complete">> ELSE << >>)
      BY Zenon, <1>4, <2>1 DEF PollStunClient
    <3>2. s \in [StunClient -> StunStatus]
      BY Zenon, <1>2 DEF StunStatus
    <3>3. q \in Seq(Event) /\ ~Holds(q, "complete")
      BY Zenon, <1>2, <1>5, QueueCat, FlagCand DEF Event
    <3> HIDE DEF s, q
    <3>4. CASE StunLeft(s) = {}
      <4>1. stunEvents' = Append(q, "complete") /\ stunEvents' \in Seq(Event)
        BY Zenon, <3>1, <3>3, <3>4, QueueCat DEF Event
      <4>2. Flag(stunEvents', "complete", FALSE)
        BY Zenon, <3>3, <4>1, FlagDone
      <4>3. QED
        BY Zenon, <1>1, <1>5, <3>1, <3>2, <3>4, <4>1, <4>2 DEF StunKept, GatherState, flags
    <3>5. CASE StunLeft(s) # {}
      <4>1. stunEvents' = q
        BY Zenon, <3>1, <3>3, <3>5, QueueCat
      <4>2. Flag(stunEvents', "gathering", FALSE)
        BY Zenon, <3>3, <4>1, FlagQuiet
      <4>3. QED
        BY Zenon, <1>1, <1>4, <1>5, <3>1, <3>2, <3>3, <3>5, <4>1, <4>2
        DEF StunKept, GatherState, flags
    <3>6. QED
      BY Zenon, <3>4, <3>5
  <2>2. CASE stun[c] = "unusable"
    <3>1. stun' = [stun EXCEPT ![c] = "dead"] /\ UNCHANGED <<stunState, stunEvents>>
      BY Zenon, <2>2 DEF PollStunClient
    <3>2. StunLeft(stun') = StunLeft(stun) /\ stun' \in [StunClient -> StunStatus]
      BY Zenon, <1>2, <2>2, <3>1 DEF StunLeft, StunStatus
    <3>3. QED
      BY Zenon, <1>1, <1>2, <3>1, <3>2 DEF StunKept, flags
  <2>3. QED
    BY Zenon, <2>1, <2>2 DEF PollStunClient
<1>7. TypeOK' /\ (requests <= calls)'
  BY Zenon, <1>1, <1>6 DEF IInv, TypeOK, flags, turnVars, obsVars, Event
<1>8. TurnKept'
  BY Zenon, <1>1 DEF IInv, TurnKept, flags, turnVars, Flag, GatherFinished, TurnLeft
<1>9. CoreKept'
  BY <1>1 DEF IInv, CoreKept, flags, obsVars, NoCandidateAfterComplete, Holds
<1>10. QED
  BY Zenon, <1>6, <1>7, <1>8, <1>9 DEF IInv

\* A reply to the transaction allocate() named finishes the client, and the last
\* one to finish ends the gathering; any other reply is dropped.
LEMMA PollTurnClientStep ==
  ASSUME IInv, NEW c \in TurnClient, PollTurnClient(c)
  PROVE  IInv'
<1>1. /\ phase = "turn" /\ turnReply[c] # NoReply
      /\ turnReply' = [turnReply EXCEPT ![c] = NoReply]
      /\ UNCHANGED <<phase, requests, calls, flags, stunVars, coreEvents, obsVars, relayOnly>>
  BY Zenon DEF PollTurnClient
<1>2. /\ turn \in [TurnClient -> TurnStatus] /\ turnState \in GatherState
      /\ turnReply \in [TurnClient -> TurnReplies]
      /\ turnEvents \in Seq(Event) /\ turnDone \in BOOLEAN
      /\ Flag(turnEvents, turnState, turnDone)
      /\ turnState = "gathering" <=> ~GatherFinished(turn)
      /\ turnState = "new" => TurnLeft(turn) = {}
      /\ \A d \in TurnClient : turnReply[d] # NoReply => turn[d] = "ended"
  BY Zenon DEF IInv, TypeOK, TurnKept, Event
<1>3. turn[c] = "ended" /\ ~GatherFinished(turn)
  BY Zenon, <1>1, <1>2 DEF GatherFinished, TurnLeft
<1>4. turnState = "gathering" /\ turnState # "complete"
  BY Zenon, <1>2, <1>3
<1>5. turnDone' = FALSE /\ ~Holds(turnEvents, "complete")
  BY Zenon, <1>1, <1>2, <1>4, FlagOpen DEF flags
<1> DEFINE mine == turnReply[c].tid = AllocateTid
           given == mine /\ turnReply[c].kind = "response"
           t == IF mine THEN [turn EXCEPT ![c] =
                    IF turnReply[c].kind = "response" THEN "relay" ELSE "finished"]
                ELSE turn
           done == mine /\ GatherFinished(t)
           q == turnEvents \o (IF given THEN <<"cand">> ELSE << >>)
<1>6. /\ turn' = t
      /\ turnState' = IF done THEN "complete" ELSE turnState
      /\ turnEvents' = q \o (IF done THEN <<"complete">> ELSE << >>)
  BY Zenon, <1>4 DEF PollTurnClient
<1>7. t \in [TurnClient -> TurnStatus] /\ \A d \in TurnClient \ {c} : t[d] = turn[d]
  BY Zenon, <1>2 DEF TurnStatus
<1>8. ~mine => t = turn
  BY Zenon
<1>9. q \in Seq(Event) /\ ~Holds(q, "complete")
  <2>1. CASE given
    BY Zenon, <1>2, <1>5, <2>1, QueueCat, FlagCand DEF Event
  <2>2. CASE ~given
    BY Zenon, <1>2, <1>5, <2>2, QueueCat
  <2>3. QED
    BY Zenon, <2>1, <2>2
<1> HIDE DEF mine, given, t, q
<1>10. turnReply' \in [TurnClient -> TurnReplies]
  BY Zenon, <1>1, <1>2 DEF TurnReplies
<1>11. \A d \in TurnClient : turnReply'[d] # NoReply => turn'[d] = "ended"
  BY Zenon, <1>1, <1>2, <1>6, <1>7
<1>12. /\ turnState' \in GatherState \ {"new"} /\ turnEvents' \in Seq(Event)
       /\ turnState' = "gathering" <=> ~GatherFinished(turn')
       /\ Flag(turnEvents', turnState', FALSE)
  <2>1. CASE done
    <3>1. turnEvents' = Append(q, "complete") /\ turnEvents' \in Seq(Event)
      BY Zenon, <1>6, <1>9, <2>1, QueueCat DEF Event
    <3>2. Flag(turnEvents', "complete", FALSE)
      BY Zenon, <1>9, <3>1, FlagDone
    <3>3. QED
      BY Zenon, <1>6, <2>1, <3>1, <3>2 DEF GatherState
  <2>2. CASE ~done
    <3>1. turnEvents' = q /\ turnState' = "gathering"
      BY Zenon, <1>4, <1>6, <1>9, <2>2, QueueCat
    <3>2. Flag(turnEvents', "gathering", FALSE)
      BY Zenon, <1>9, <3>1, FlagQuiet
    <3>3. ~GatherFinished(turn')
      BY Zenon, <1>3, <1>6, <1>8, <2>2
    <3>4. QED
      BY Zenon, <1>9, <3>1, <3>2, <3>3 DEF GatherState
  <2>3. QED
    BY Zenon, <2>1, <2>2
<1>13. TurnKept'
  BY Zenon, <1>1, <1>5, <1>11, <1>12 DEF TurnKept, flags
<1>14. TypeOK' /\ (requests <= calls)'
  BY Zenon, <1>1, <1>6, <1>7, <1>10, <1>12 DEF IInv, TypeOK, flags, stunVars, obsVars, Event
<1>15. StunKept'
  BY Zenon, <1>1 DEF IInv, StunKept, flags, stunVars, Flag, StunLeft
<1>16. CoreKept'
  BY <1>1 DEF IInv, CoreKept, flags, obsVars, NoCandidateAfterComplete, Holds
<1>17. QED
  BY Zenon, <1>13, <1>14, <1>15, <1>16 DEF IInv

\* handle_stun_gather_event: a candidate comes before completion was passed on,
\* and the COMPLETE that sets the second flag passes it on.
LEMMA HandleStunEventStep == IInv /\ HandleStunEvent => IInv'
<1> SUFFICES ASSUME IInv, HandleStunEvent PROVE IInv'
  BY Zenon
<1>1. /\ phase = "stun" /\ stunEvents # << >> /\ stunEvents' = Tail(stunEvents)
      /\ UNCHANGED <<phase, requests, calls, stunState, stun, turnVars, obsVars, relayOnly>>
      /\ UNCHANGED turnDone
  BY Zenon DEF HandleStunEvent, flags
<1>2. /\ stunEvents \in Seq(Event) /\ stunDone \in BOOLEAN /\ turnDone \in BOOLEAN
      /\ active \in BOOLEAN /\ told \in BOOLEAN /\ coreEvents \in Seq(Event)
      /\ Flag(stunEvents, stunState, stunDone)
      /\ stunState = "gathering" <=> StunLeft(stun) # {}
  BY Zenon DEF IInv, TypeOK, StunKept, Event
<1>3. stunDone = FALSE
  BY Zenon, <1>1, <1>2 DEF Flag
<1>4. ~told /\ ~Holds(coreEvents, "complete") /\ told' = FALSE
  BY Zenon, <1>1, <1>2, <1>3 DEF IInv, CoreKept, obsVars
<1>5. TurnKept'
  BY Zenon, <1>1 DEF IInv, TurnKept, turnVars, Flag, GatherFinished, TurnLeft
<1>6. CASE Head(stunEvents) = "cand"
  <2>1. AddLocal /\ UNCHANGED flags
    BY Zenon, <1>6 DEF HandleStunEvent
  <2>2. stunEvents' \in Seq(Event) /\ Flag(stunEvents', stunState, stunDone)
    BY Zenon, <1>1, <1>2, <1>6, FlagTaken
  <2>3. /\ coreEvents' \in Seq(Event) /\ ~Holds(coreEvents', "complete")
        /\ NoCandidateAfterComplete'
    BY Zenon, <1>2, <1>4, <2>1, CoreCand
  <2>4. TypeOK' /\ (requests <= calls)'
    BY Zenon, <1>1, <2>1, <2>2, <2>3 DEF IInv, TypeOK, flags, turnVars, obsVars, Event
  <2>5. StunKept'
    BY Zenon, <1>1, <1>2, <2>1, <2>2 DEF StunKept, flags
  <2>6. CoreKept'
    BY <1>1, <1>4, <2>1, <2>3 DEF IInv, CoreKept, flags
  <2>7. QED
    BY Zenon, <1>5, <2>4, <2>5, <2>6 DEF IInv
<1>7. CASE Head(stunEvents) = "complete"
  <2>1. stunDone' = TRUE /\ FinishIfReady(active, TRUE, turnDone)
    BY Zenon, <1>7 DEF HandleStunEvent
  <2>2. stunEvents' \in Seq(Event) /\ Flag(stunEvents', stunState, TRUE)
    BY Zenon, <1>1, <1>2, <1>7, FlagTaken
  <2>3. StunKept'
    BY Zenon, <1>1, <1>2, <2>1, <2>2 DEF StunKept
  <2>4. /\ coreEvents' \in Seq(Event) /\ active' \in BOOLEAN /\ CoreKept'
    <3>1. CASE active /\ turnDone
      <4>1. active' = FALSE /\ coreEvents' = Append(coreEvents, "complete")
        BY Zenon, <2>1, <3>1 DEF FinishIfReady
      <4>2. coreEvents' \in Seq(Event) /\ NoCandidateAfterComplete'
        BY Zenon, <1>2, <1>4, <4>1, CoreDone
      <4>3. QED
        BY Zenon, <1>1, <2>1, <3>1, <4>1, <4>2 DEF CoreKept
    <3>2. CASE ~(active /\ turnDone)
      <4>1. active' = active /\ coreEvents' = coreEvents
        BY Zenon, <2>1, <3>2 DEF FinishIfReady
      <4>2. QED
        BY Zenon, <1>1, <1>2, <1>4, <2>1, <3>2, <4>1
        DEF IInv, CoreKept, NoCandidateAfterComplete, Holds
    <3>3. QED
      BY Zenon, <3>1, <3>2
  <2>5. TypeOK' /\ (requests <= calls)'
    BY Zenon, <1>1, <2>1, <2>2, <2>4 DEF IInv, TypeOK, turnVars, obsVars, Event
  <2>6. QED
    BY Zenon, <1>5, <2>3, <2>4, <2>5 DEF IInv
<1>8. QED
  BY Zenon, <1>6, <1>7 DEF HandleStunEvent

\* handle_turn_relay_event, likewise.
LEMMA HandleTurnEventStep == IInv /\ HandleTurnEvent => IInv'
<1> SUFFICES ASSUME IInv, HandleTurnEvent PROVE IInv'
  BY Zenon
<1>1. /\ phase = "turn" /\ turnEvents # << >> /\ turnEvents' = Tail(turnEvents)
      /\ UNCHANGED <<phase, requests, calls, stunVars, turnState, turn, turnReply, obsVars,
                     relayOnly>>
      /\ UNCHANGED stunDone
  BY Zenon DEF HandleTurnEvent, flags
<1>2. /\ turnEvents \in Seq(Event) /\ stunDone \in BOOLEAN /\ turnDone \in BOOLEAN
      /\ active \in BOOLEAN /\ told \in BOOLEAN /\ coreEvents \in Seq(Event)
      /\ Flag(turnEvents, turnState, turnDone)
      /\ turnState = "gathering" <=> ~GatherFinished(turn)
      /\ turnState = "new" => TurnLeft(turn) = {}
      /\ \A c \in TurnClient : turnReply[c] # NoReply => turn[c] = "ended"
  BY Zenon DEF IInv, TypeOK, TurnKept, Event
<1>3. turnDone = FALSE
  BY Zenon, <1>1, <1>2 DEF Flag
<1>4. ~told /\ ~Holds(coreEvents, "complete") /\ told' = FALSE
  BY Zenon, <1>1, <1>2, <1>3 DEF IInv, CoreKept, obsVars
<1>5. StunKept'
  BY Zenon, <1>1 DEF IInv, StunKept, stunVars, Flag, StunLeft
<1>6. CASE Head(turnEvents) = "cand"
  <2>1. AddLocal /\ UNCHANGED flags
    BY Zenon, <1>6 DEF HandleTurnEvent
  <2>2. turnEvents' \in Seq(Event) /\ Flag(turnEvents', turnState, turnDone)
    BY Zenon, <1>1, <1>2, <1>6, FlagTaken
  <2>3. /\ coreEvents' \in Seq(Event) /\ ~Holds(coreEvents', "complete")
        /\ NoCandidateAfterComplete'
    BY Zenon, <1>2, <1>4, <2>1, CoreCand
  <2>4. TypeOK' /\ (requests <= calls)'
    BY Zenon, <1>1, <2>1, <2>2, <2>3 DEF IInv, TypeOK, flags, stunVars, obsVars, Event
  <2>5. TurnKept'
    BY Zenon, <1>1, <1>2, <2>1, <2>2 DEF TurnKept, flags
  <2>6. CoreKept'
    BY <1>1, <1>4, <2>1, <2>3 DEF IInv, CoreKept, flags
  <2>7. QED
    BY Zenon, <1>5, <2>4, <2>5, <2>6 DEF IInv
<1>7. CASE Head(turnEvents) = "complete"
  <2>1. turnDone' = TRUE /\ FinishIfReady(active, stunDone, TRUE)
    BY Zenon, <1>7 DEF HandleTurnEvent
  <2>2. turnEvents' \in Seq(Event) /\ Flag(turnEvents', turnState, TRUE)
    BY Zenon, <1>1, <1>2, <1>7, FlagTaken
  <2>3. TurnKept'
    BY Zenon, <1>1, <1>2, <2>1, <2>2 DEF TurnKept
  <2>4. /\ coreEvents' \in Seq(Event) /\ active' \in BOOLEAN /\ CoreKept'
    <3>1. CASE active /\ stunDone
      <4>1. active' = FALSE /\ coreEvents' = Append(coreEvents, "complete")
        BY Zenon, <2>1, <3>1 DEF FinishIfReady
      <4>2. coreEvents' \in Seq(Event) /\ NoCandidateAfterComplete'
        BY Zenon, <1>2, <1>4, <4>1, CoreDone
      <4>3. QED
        BY Zenon, <1>1, <2>1, <3>1, <4>1, <4>2 DEF CoreKept
    <3>2. CASE ~(active /\ stunDone)
      <4>1. active' = active /\ coreEvents' = coreEvents
        BY Zenon, <2>1, <3>2 DEF FinishIfReady
      <4>2. QED
        BY <1>1, <1>2, <1>4, <2>1, <3>2, <4>1
        DEF IInv, CoreKept, NoCandidateAfterComplete, Holds
    <3>3. QED
      BY Zenon, <3>1, <3>2
  <2>5. TypeOK' /\ (requests <= calls)'
    BY Zenon, <1>1, <2>1, <2>2, <2>4 DEF IInv, TypeOK, stunVars, obsVars, Event
  <2>6. QED
    BY Zenon, <1>5, <2>3, <2>4, <2>5 DEF IInv
<1>8. QED
  BY Zenon, <1>6, <1>7 DEF HandleTurnEvent

LEMMA DeliverCoreEventStep == IInv /\ DeliverCoreEvent => IInv'
<1> SUFFICES ASSUME IInv, DeliverCoreEvent PROVE IInv'
  BY Zenon
<1>1. /\ phase = "core" /\ coreEvents # << >> /\ coreEvents' = Tail(coreEvents)
      /\ UNCHANGED <<phase, requests, calls, flags, stunVars, turnVars, relayOnly>>
      /\ coreEvents \in Seq(Event) /\ told \in BOOLEAN /\ observed \in GatherState
      /\ NoCandidateAfterComplete
  BY Zenon DEF DeliverCoreEvent, IInv, TypeOK, CoreKept, Event
<1>2. told' = (told \/ Head(coreEvents) = "complete") /\ observed' \in GatherState
  BY Zenon, <1>1 DEF DeliverCoreEvent, obsVars, GatherState
<1>3. /\ coreEvents' \in Seq(Event) /\ NoCandidateAfterComplete'
      /\ Holds(coreEvents', "complete") => Holds(coreEvents, "complete")
      /\ Head(coreEvents) = "complete" => Holds(coreEvents, "complete")
  BY Zenon, <1>1, <1>2, CoreTaken
<1>4. TypeOK' /\ (requests <= calls)'
  BY Zenon, <1>1, <1>2, <1>3 DEF IInv, TypeOK, flags, stunVars, turnVars, Event
<1>5. StunKept'
  BY Zenon, <1>1 DEF IInv, StunKept, flags, stunVars, Flag, StunLeft
<1>6. TurnKept'
  BY Zenon, <1>1 DEF IInv, TurnKept, flags, turnVars, Flag, GatherFinished, TurnLeft
<1>7. CoreKept'
  BY Zenon, <1>1, <1>2, <1>3 DEF IInv, CoreKept, flags
<1>8. QED
  BY Zenon, <1>4, <1>5, <1>6, <1>7 DEF IInv

\* A new round finds every queue drained; a gatherer that is still at work keeps
\* its clients and will raise its COMPLETE for this round.
LEMMA StartStun ==
  ASSUME IInv, phase = "select", phase' = "writes", stunDone' = FALSE,
         IF stunState = "gathering" THEN UNCHANGED stunVars
         ELSE \E r \in SUBSET StunClient : StunGather(r)
  PROVE  /\ stun' \in [StunClient -> StunStatus] /\ stunState' \in GatherState
         /\ stunEvents' \in Seq(Event) /\ StunKept'
<1>1. /\ stun \in [StunClient -> StunStatus] /\ stunState \in GatherState
      /\ stunEvents = << >> /\ stunEvents \in Seq(Event)
      /\ stunState = "gathering" <=> StunLeft(stun) # {}
  BY Zenon DEF IInv, TypeOK, StunKept, Event
<1>2. ~Holds(stunEvents, "complete")
  BY <1>1 DEF Holds
<1>3. CASE stunState = "gathering"
  <2>1. UNCHANGED stunVars
    BY Zenon, <1>3
  <2>2. Flag(stunEvents, "gathering", FALSE)
    BY Zenon, <1>1, <1>2, FlagQuiet
  <2>3. QED
    BY Zenon, <1>1, <1>3, <2>1, <2>2 DEF StunKept, stunVars
<1>4. CASE stunState # "gathering"
  <2>1. PICK r \in SUBSET StunClient : StunGather(r)
    BY Zenon, <1>4
  <2> DEFINE hosts == IF relayOnly THEN << >> ELSE <<"cand">>
             s == [c \in StunClient |->
                      IF ~relayOnly /\ c \in r THEN "waiting" ELSE stun[c]]
             q == stunEvents \o hosts
  <2>2. /\ stun' = s
        /\ stunState' = IF StunLeft(s) = {} THEN "complete" ELSE "gathering"
        /\ stunEvents' = q \o (IF StunLeft(s) = {} THEN <<"complete">> ELSE << >>)
    BY Zenon, <2>1 DEF StunGather
  <2>3. s \in [StunClient -> StunStatus]
    BY Zenon, <1>1 DEF StunStatus
  <2>4. q \in Seq(Event) /\ ~Holds(q, "complete")
    <3>1. CASE relayOnly
      BY Zenon, <1>1, <1>2, <3>1, QueueCat
    <3>2. CASE ~relayOnly
      BY Zenon, <1>1, <1>2, <3>2, QueueCat, FlagCand DEF Event
    <3>3. QED
      BY Zenon, <3>1, <3>2
  <2> HIDE DEF s, q
  <2>5. CASE StunLeft(s) = {}
    <3>1. stunEvents' = Append(q, "complete") /\ stunEvents' \in Seq(Event)
      BY Zenon, <2>2, <2>4, <2>5, QueueCat DEF Event
    <3>2. Flag(stunEvents', "complete", FALSE)
      BY Zenon, <2>4, <3>1, FlagDone
    <3>3. QED
      BY Zenon, <2>2, <2>3, <2>5, <3>1, <3>2 DEF StunKept, GatherState
  <2>6. CASE StunLeft(s) # {}
    <3>1. stunEvents' = q
      BY Zenon, <2>2, <2>4, <2>6, QueueCat
    <3>2. Flag(stunEvents', "gathering", FALSE)
      BY Zenon, <2>4, <3>1, FlagQuiet
    <3>3. QED
      BY Zenon, <2>2, <2>3, <2>4, <2>6, <3>1, <3>2 DEF StunKept, GatherState
  <2>7. QED
    BY Zenon, <2>5, <2>6
<1>5. QED
  BY Zenon, <1>3, <1>4

\* The relayer makes its clients once; a later round repeats its COMPLETE.
LEMMA StartTurn ==
  ASSUME IInv, phase = "select", phase' = "writes", turnDone' = FALSE,
         IF turnState = "gathering" THEN UNCHANGED turnVars
         ELSE \E r \in SUBSET TurnClient : TurnGather(r)
  PROVE  /\ turn' \in [TurnClient -> TurnStatus] /\ turnState' \in GatherState
         /\ turnReply' \in [TurnClient -> TurnReplies]
         /\ turnEvents' \in Seq(Event) /\ TurnKept'
<1>1. /\ turn \in [TurnClient -> TurnStatus] /\ turnState \in GatherState
      /\ turnReply \in [TurnClient -> TurnReplies]
      /\ turnEvents = << >> /\ turnEvents \in Seq(Event)
      /\ turnState = "gathering" <=> ~GatherFinished(turn)
      /\ turnState = "new" => TurnLeft(turn) = {}
      /\ \A c \in TurnClient : turnReply[c] # NoReply => turn[c] = "ended"
  BY Zenon DEF IInv, TypeOK, TurnKept, Event
<1>2. ~Holds(turnEvents, "complete")
  BY <1>1 DEF Holds
<1>3. CASE turnState = "gathering"
  <2>1. UNCHANGED turnVars
    BY Zenon, <1>3
  <2>2. Flag(turnEvents, "gathering", FALSE)
    BY Zenon, <1>1, <1>2, FlagQuiet
  <2>3. QED
    BY Zenon, <1>1, <1>3, <2>1, <2>2 DEF TurnKept, turnVars
<1>4. CASE turnState = "complete"
  <2> DEFINE relays == IF \E c \in TurnClient : turn[c] = "relay"
                       THEN <<"cand">> ELSE << >>
             q == turnEvents \o relays
  <2>1. /\ turnEvents' = q \o <<"complete">>
        /\ UNCHANGED <<turnState, turn, turnReply>>
    BY Zenon, <1>4 DEF TurnGather
  <2>2. q \in Seq(Event) /\ ~Holds(q, "complete")
    <3>1. CASE \E c \in TurnClient : turn[c] = "relay"
      BY Zenon, <1>1, <1>2, <3>1, QueueCat, FlagCand DEF Event
    <3>2. CASE ~\E c \in TurnClient : turn[c] = "relay"
      BY Zenon, <1>1, <1>2, <3>2, QueueCat
    <3>3. QED
      BY Zenon, <3>1, <3>2
  <2> HIDE DEF q
  <2>3. turnEvents' = Append(q, "complete") /\ turnEvents' \in Seq(Event)
    BY Zenon, <2>1, <2>2, QueueCat DEF Event
  <2>4. Flag(turnEvents', "complete", FALSE)
    BY Zenon, <2>2, <2>3, FlagDone
  <2>5. QED
    BY Zenon, <1>1, <1>4, <2>1, <2>3, <2>4 DEF TurnKept
<1>5. CASE turnState = "new"
  <2>1. PICK r \in SUBSET TurnClient : TurnGather(r)
    BY Zenon, <1>5
  <2> DEFINE t == [c \in TurnClient |-> IF c \in r THEN "attempt" ELSE turn[c]]
  <2>2. /\ turn' = t /\ UNCHANGED turnReply
        /\ turnState' = IF TurnLeft(t) = {} THEN "complete" ELSE "gathering"
        /\ turnEvents' = IF TurnLeft(t) = {} THEN Append(turnEvents, "complete")
                         ELSE turnEvents
    BY Zenon, <1>5, <2>1 DEF TurnGather
  <2>3. t \in [TurnClient -> TurnStatus]
    BY Zenon, <1>1 DEF TurnStatus
  <2>4. TurnLeft(t) # {} => ~GatherFinished(t)
    BY Zenon, <1>1, <1>5 DEF TurnLeft, GatherFinished
  <2>5. \A c \in TurnClient : turnReply'[c] = NoReply
    BY Zenon, <1>1, <1>5, <2>2 DEF TurnLeft
  <2> HIDE DEF t
  <2>6. CASE TurnLeft(t) = {}
    <3>1. Flag(turnEvents', "complete", FALSE) /\ turnEvents' \in Seq(Event)
      BY Zenon, <1>1, <1>2, <2>2, <2>6, FlagDone, QueueCat DEF Event
    <3>2. GatherFinished(t)
      BY Zenon, <2>6 DEF GatherFinished
    <3>3. QED
      BY Zenon, <1>1, <2>2, <2>3, <2>5, <2>6, <3>1, <3>2 DEF TurnKept, GatherState
  <2>7. CASE TurnLeft(t) # {}
    <3>1. Flag(turnEvents', "gathering", FALSE) /\ turnEvents' \in Seq(Event)
      BY Zenon, <1>1, <1>2, <2>2, <2>7, FlagQuiet
    <3>2. QED
      BY Zenon, <1>1, <2>2, <2>3, <2>4, <2>5, <2>7, <3>1 DEF TurnKept, GatherState
  <2>8. QED
    BY Zenon, <2>6, <2>7
<1>6. QED
  BY Zenon, <1>1, <1>3, <1>4, <1>5 DEF GatherState

LEMMA StartGatheringStep == IInv /\ StartGathering => IInv'
<1> SUFFICES ASSUME IInv, StartGathering PROVE IInv'
  BY Zenon
<1>1. /\ phase = "select" /\ phase' = "writes" /\ requests > 0 /\ requests' = requests - 1
      /\ active' = TRUE /\ stunDone' = FALSE /\ turnDone' = FALSE /\ told' = FALSE
      /\ UNCHANGED <<calls, observed, relayOnly>>
  BY Zenon DEF StartGathering, Wake
<1>2. /\ stun' \in [StunClient -> StunStatus] /\ stunState' \in GatherState
      /\ stunEvents' \in Seq(Event) /\ StunKept'
  <2>1. IF stunState = "gathering" THEN UNCHANGED stunVars
        ELSE \E r \in SUBSET StunClient : StunGather(r)
    BY Zenon DEF StartGathering
  <2>2. QED
    BY Zenon, <1>1, <2>1, StartStun
<1>3. /\ turn' \in [TurnClient -> TurnStatus] /\ turnState' \in GatherState
      /\ turnReply' \in [TurnClient -> TurnReplies]
      /\ turnEvents' \in Seq(Event) /\ TurnKept'
  <2>1. IF turnState = "gathering" THEN UNCHANGED turnVars
        ELSE \E r \in SUBSET TurnClient : TurnGather(r)
    BY Zenon DEF StartGathering
  <2>2. QED
    BY Zenon, <1>1, <2>1, StartTurn
<1>4. coreEvents = << >> /\ coreEvents \in Seq(Event) /\ ~Holds(coreEvents, "complete")
  BY <1>1 DEF IInv, TypeOK, CoreKept, Holds, Event
<1>5. AddLocal
  BY Zenon DEF StartGathering, AddLocal
<1>6. /\ coreEvents' \in Seq(Event) /\ ~Holds(coreEvents', "complete")
      /\ NoCandidateAfterComplete'
  BY Zenon, <1>1, <1>4, <1>5, CoreCand
<1>7. CoreKept'
  BY Zenon, <1>1, <1>6 DEF CoreKept
<1>8. TypeOK' /\ (requests <= calls)'
  <2>1. requests' \in 0..MaxRounds /\ calls' \in 0..MaxRounds /\ requests' <= calls'
    BY <1>1, RoundsAssumption DEF IInv, TypeOK
  <2>2. /\ active' \in BOOLEAN /\ stunDone' \in BOOLEAN /\ turnDone' \in BOOLEAN
        /\ told' \in BOOLEAN
    BY Zenon, <1>1
  <2>3. QED
    BY Zenon, <1>1, <1>2, <1>3, <1>6, <2>1, <2>2 DEF IInv, TypeOK, Event
<1>9. QED
  BY Zenon, <1>2, <1>3, <1>7, <1>8 DEF IInv

-----------------------------------------------------------------------------

LEMMA StutterStep == IInv /\ UNCHANGED vars => IInv'
<1> SUFFICES ASSUME IInv, UNCHANGED vars PROVE IInv'
  BY Zenon
<1>1. TypeOK' /\ (requests <= calls)'
  BY Zenon DEF IInv, TypeOK, vars, flags, stunVars, turnVars, obsVars
<1>2. StunKept'
  BY Zenon DEF IInv, StunKept, vars, flags, stunVars, Flag, StunLeft
<1>3. TurnKept'
  BY Zenon DEF IInv, TurnKept, vars, flags, turnVars, Flag, GatherFinished, TurnLeft
<1>4. CoreKept'
  BY DEF IInv, CoreKept, vars, flags, obsVars, NoCandidateAfterComplete, Holds
<1>5. QED
  BY Zenon, <1>1, <1>2, <1>3, <1>4 DEF IInv

LEMMA Inductive == IInv /\ [Next]_vars => IInv'
<1> SUFFICES ASSUME IInv, [Next]_vars PROVE IInv'
  BY Zenon
<1>1. CASE Loop
  BY Zenon, <1>1, PollWritesStep, PollStunClientStep, HandleStunEventStep, PollTurnClientStep,
     HandleTurnEventStep, DeliverCoreEventStep, PhaseStep DEF Loop
<1>2. CASE Next /\ ~Loop
  BY Zenon, <1>2, RequestStep, StartGatheringStep, PhaseStep, StunOutcomeStep, TurnOutcomeStep
  DEF Next
<1>3. CASE UNCHANGED vars
  BY Zenon, <1>3, StutterStep
<1>4. QED
  BY Zenon, <1>1, <1>2, <1>3 DEF Next

\* COMPLETE, as handle_rtc_event reports it, is true: whatever the servers, the
\* rounds, the failed writes and the order of the answers, nothing is left to
\* gather when it is said, no candidate follows it, and the driver's flags agree
\* with its gatherers each time it waits.
THEOREM CompleteIsTrueHolds == Spec => []CompleteIsTrue
<1>1. IInv => CompleteIsTrue
  BY Zenon, InvImplies
<1>2. QED
  BY InitHolds, Inductive, <1>1, PTL DEF Spec
=============================================================================
