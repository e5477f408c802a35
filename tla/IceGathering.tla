---------------------------- MODULE IceGathering ----------------------------
(***************************************************************************)
(* ICE gathering: the driver's three flags, the STUN gatherer and the TURN *)
(* relayer it polls, and what the observer is told.                        *)
(*                                                                         *)
(*   rust-webrtc/src/peer_connection/driver.rs                             *)
(*   rust-webrtc/src/peer_connection/transports/stun_gatherer.rs           *)
(*   rust-webrtc/src/peer_connection/transports/turn_relayer.rs (gathering)*)
(*                                                                         *)
(* All of this state belongs to the driver task, so the grain is the phase *)
(* of the event loop: an input in select!, poll_writes, then poll_events   *)
(* over the STUN gatherer, the TURN relayer and the core, in that order.   *)
(* A client is the exchange of one local address with one server.          *)
(***************************************************************************)
EXTENDS Naturals, Sequences

CONSTANTS
    StunClient,   \* (local address, stun: server) pairs
    TurnClient,   \* (local address, turn: server over UDP) pairs
    MaxRounds,    \* bound: calls of set_local_description and restart_ice
    StunFails,    \* a STUN server may not answer, or answer without an address
    TurnFails     \* a TURN server may not answer the first Allocate properly

ASSUME BoolAssumption == StunFails \in BOOLEAN /\ TurnFails \in BOOLEAN
ASSUME RoundsAssumption == MaxRounds \in Nat

VARIABLES
    phase,        \* where the loop is
    requests,     \* IceGathering events in the driver channel
    calls,        \* calls made so far (for the bound)
    active,       \* ice_gathering_active
    stunDone,     \* stun_gathering_complete
    turnDone,     \* turn_gathering_complete
    stunState, stun, stunEvents,            \* RTCStunGatherer
    turnState, turn, turnReply, turnEvents, \* RTCTurnRelayer
    coreEvents,   \* events the core has for the handler
    observed,     \* the gathering state last reported to the observer
    told,         \* COMPLETE was reported since gathering last started
    relayOnly     \* ice_transport_policy is Relay

flags    == <<active, stunDone, turnDone>>
stunVars == <<stunState, stun, stunEvents>>
turnVars == <<turnState, turn, turnReply, turnEvents>>
obsVars  == <<observed, told>>
vars == <<phase, requests, calls, flags, stunVars, turnVars, coreEvents,
          obsVars, relayOnly>>

GatherState == {"new", "gathering", "complete"}

\* Allocate is two transactions, the second answering the server's challenge;
\* allocate() hands out the id of the second one.
Attempt == 1
Request == 2
AllocateTid == Request

NoReply == [kind |-> "none", tid |-> 0]
TurnReplies == {NoReply} \cup
    [kind : {"response", "error", "timeout"}, tid : {Attempt, Request}]

StunStatus == {"none", "waiting", "answered", "unusable", "dead"}
TurnStatus == {"none", "attempt", "request", "ended", "finished", "relay"}

TypeOK ==
    /\ phase \in {"select", "writes", "stun", "turn", "core"}
    /\ requests \in 0..MaxRounds /\ calls \in 0..MaxRounds
    /\ active \in BOOLEAN /\ stunDone \in BOOLEAN /\ turnDone \in BOOLEAN
    /\ stunState \in GatherState /\ turnState \in GatherState
    /\ stun \in [StunClient -> StunStatus]
    /\ turn \in [TurnClient -> TurnStatus]
    /\ turnReply \in [TurnClient -> TurnReplies]
    /\ stunEvents \in Seq({"cand", "complete"})
    /\ turnEvents \in Seq({"cand", "complete"})
    /\ coreEvents \in Seq({"cand", "complete"})
    /\ observed \in GatherState
    /\ told \in BOOLEAN /\ relayOnly \in BOOLEAN

Init ==
    /\ phase = "select" /\ requests = 0 /\ calls = 0
    /\ active = FALSE /\ stunDone = FALSE /\ turnDone = FALSE
    /\ stunState = "new" /\ stun = [c \in StunClient |-> "none"]
    /\ turnState = "new" /\ turn = [c \in TurnClient |-> "none"]
    /\ turnReply = [c \in TurnClient |-> NoReply]
    /\ stunEvents = << >> /\ turnEvents = << >> /\ coreEvents = << >>
    /\ observed = "new" /\ told = FALSE
    /\ relayOnly \in BOOLEAN

StunLeft(s) == {c \in StunClient : s[c] # "none"}
TurnLeft(t) == {c \in TurnClient : t[c] # "none"}

GatherFinished(t) == \A c \in TurnLeft(t) : t[c] \in {"finished", "relay"}

-----------------------------------------------------------------------------
(* The application.                                                         *)

\* set_local_description and restart_ice: an IceGathering event.
RequestGathering ==
    /\ calls < MaxRounds
    /\ calls' = calls + 1
    /\ requests' = requests + 1
    /\ UNCHANGED <<phase, flags, stunVars, turnVars, coreEvents, obsVars, relayOnly>>

-----------------------------------------------------------------------------
(* select!: inputs of the loop.                                             *)

Wake == phase = "select" /\ phase' = "writes"

\* core.add_local_candidate: a candidate already known raises no event.
AddLocal ==
    \/ coreEvents' = Append(coreEvents, "cand")
    \/ UNCHANGED coreEvents

\* RTCStunGatherer::gather when it is not already gathering. Which servers
\* resolve is not known beforehand; host candidates come first.
StunGather(resolved) ==
    LET hosts == IF relayOnly THEN << >> ELSE <<"cand">>
        s == [c \in StunClient |->
                 IF ~relayOnly /\ c \in resolved THEN "waiting" ELSE stun[c]]
    IN /\ stun' = s
       /\ stunState' = IF StunLeft(s) = {} THEN "complete" ELSE "gathering"
       /\ stunEvents' = stunEvents \o hosts \o
              (IF StunLeft(s) = {} THEN <<"complete">> ELSE << >>)

\* RTCTurnRelayer::gather when it is not already gathering: clients are made
\* once; later rounds report the relays that exist (one candidate stands for all).
TurnGather(resolved) ==
    IF turnState = "complete"
    THEN /\ turnEvents' = turnEvents \o
                (IF \E c \in TurnClient : turn[c] = "relay" THEN <<"cand">> ELSE << >>)
                \o <<"complete">>
         /\ UNCHANGED <<turnState, turn, turnReply>>
    ELSE LET t == [c \in TurnClient |->
                      IF c \in resolved THEN "attempt" ELSE turn[c]]
         IN /\ turn' = t
            /\ turnState' = IF TurnLeft(t) = {} THEN "complete" ELSE "gathering"
            /\ turnEvents' = IF TurnLeft(t) = {} THEN Append(turnEvents, "complete")
                             ELSE turnEvents
            /\ UNCHANGED turnReply

\* handle_driver_event(IceGathering): TCP candidates first, then both gatherers
\* unless they are still at it.
StartGathering ==
    /\ Wake
    /\ requests > 0 /\ requests' = requests - 1
    /\ active' = TRUE /\ stunDone' = FALSE /\ turnDone' = FALSE
    /\ told' = FALSE
    /\ IF relayOnly THEN UNCHANGED coreEvents ELSE AddLocal
    /\ IF stunState = "gathering" THEN UNCHANGED stunVars
       ELSE \E r \in SUBSET StunClient : StunGather(r)
    /\ IF turnState = "gathering" THEN UNCHANGED turnVars
       ELSE \E r \in SUBSET TurnClient : TurnGather(r)
    /\ UNCHANGED <<calls, observed, relayOnly>>

\* A binding response, or the end of the retransmissions.
StunOutcome(c) ==
    /\ Wake
    /\ stun[c] = "waiting"
    /\ \E out \in {"answered", "unusable"} :
          /\ out = "unusable" => StunFails
          /\ stun' = [stun EXCEPT ![c] = out]
    /\ UNCHANGED <<requests, calls, flags, stunState, stunEvents, turnVars,
                   coreEvents, obsVars, relayOnly>>

\* The challenge to the first Allocate starts the second transaction.
TurnChallenge(c) ==
    /\ Wake
    /\ turn[c] = "attempt"
    /\ turn' = [turn EXCEPT ![c] = "request"]
    /\ UNCHANGED <<requests, calls, flags, stunVars, turnState, turnReply,
                   turnEvents, coreEvents, obsVars, relayOnly>>

\* A transaction of the allocation ends; nothing more is sent for it.
TurnOutcome(c) ==
    /\ Wake
    /\ \E r \in TurnReplies \ {NoReply} :
          /\ \/ turn[c] = "request" /\ r.tid = Request
             \/ TurnFails /\ turn[c] = "attempt"
                /\ r.tid = Attempt /\ r.kind # "response"
          /\ turnReply' = [turnReply EXCEPT ![c] = r]
    /\ turn' = [turn EXCEPT ![c] = "ended"]
    /\ UNCHANGED <<requests, calls, flags, stunVars, turnState, turnEvents,
                   coreEvents, obsVars, relayOnly>>

\* Any other input of the loop.
OtherInput ==
    /\ Wake
    /\ UNCHANGED <<requests, calls, flags, stunVars, turnVars, coreEvents,
                   obsVars, relayOnly>>

-----------------------------------------------------------------------------
(* poll_writes: a failed socket write removes the client it was for.        *)

\* A removal that does not look whether it was the last one.
StunWriteFailureSilent(failed) ==
    /\ stun' = [c \in StunClient |-> IF c \in failed THEN "none" ELSE stun[c]]
    /\ UNCHANGED <<stunState, stunEvents>>

\* SocketWriteFailure in both handle_event functions.
StunWriteFailure(failed) ==
    LET s == [c \in StunClient |-> IF c \in failed THEN "none" ELSE stun[c]]
        done == failed # {} /\ StunLeft(s) = {} /\ stunState # "complete"
    IN /\ stun' = s
       /\ stunState' = IF done THEN "complete" ELSE stunState
       /\ stunEvents' = IF done THEN Append(stunEvents, "complete") ELSE stunEvents

TurnWriteFailure(failed) ==
    LET t == [c \in TurnClient |-> IF c \in failed THEN "none" ELSE turn[c]]
        done == failed # {} /\ turnState = "gathering" /\ GatherFinished(t)
    IN /\ turn' = t
       /\ turnReply' = [c \in TurnClient |->
                           IF c \in failed THEN NoReply ELSE turnReply[c]]
       /\ turnState' = IF done THEN "complete" ELSE turnState
       /\ turnEvents' = IF done THEN Append(turnEvents, "complete") ELSE turnEvents

PollWrites ==
    /\ phase = "writes" /\ phase' = "stun"
    /\ \E fs \in SUBSET {c \in StunClient : stun[c] = "waiting"} :
          StunWriteFailure(fs)
    /\ \E ft \in SUBSET {c \in TurnClient : turn[c] \in {"attempt", "request", "relay"}} :
          TurnWriteFailure(ft)
    /\ UNCHANGED <<requests, calls, flags, coreEvents, obsVars, relayOnly>>

-----------------------------------------------------------------------------
(* poll_events                                                              *)

\* finish_gathering_if_ready, on the flags as an event leaves them.
FinishIfReady(a, s, t) ==
    /\ active' = (IF a /\ s /\ t THEN FALSE ELSE a)
    /\ coreEvents' = IF a /\ s /\ t THEN Append(coreEvents, "complete") ELSE coreEvents

\* RTCStunGatherer::poll_event on a client with something to say: a candidate
\* removes the client, anything else is logged and leaves it where it is.
PollStunClient(c) ==
    /\ phase = "stun"
    /\ \/ /\ stun[c] = "answered"
          /\ LET s == [stun EXCEPT ![c] = "none"]
                 done == StunLeft(s) = {} /\ stunState # "complete"
             IN /\ stun' = s
                /\ stunState' = IF done THEN "complete" ELSE stunState
                /\ stunEvents' = Append(stunEvents, "cand") \o
                       (IF done THEN <<"complete">> ELSE << >>)
       \/ /\ stun[c] = "unusable"
          /\ stun' = [stun EXCEPT ![c] = "dead"]
          /\ UNCHANGED <<stunState, stunEvents>>
    /\ UNCHANGED <<phase, requests, calls, flags, turnVars, coreEvents, obsVars,
                   relayOnly>>

StunPolled == \A c \in StunClient : stun[c] \notin {"answered", "unusable"}

\* handle_stun_gather_event.
HandleStunEvent ==
    /\ phase = "stun" /\ StunPolled
    /\ stunEvents # << >> /\ stunEvents' = Tail(stunEvents)
    /\ \/ /\ Head(stunEvents) = "cand"
          /\ AddLocal
          /\ UNCHANGED flags
       \/ /\ Head(stunEvents) = "complete"
          /\ stunDone' = TRUE
          /\ FinishIfReady(active, TRUE, turnDone)
          /\ UNCHANGED turnDone
    /\ UNCHANGED <<phase, requests, calls, stunState, stun, turnVars, obsVars,
                   relayOnly>>

StunEventsDone ==
    /\ phase = "stun" /\ StunPolled /\ stunEvents = << >>
    /\ phase' = "turn"
    /\ UNCHANGED <<requests, calls, flags, stunVars, turnVars, coreEvents,
                   obsVars, relayOnly>>

\* A relayer that takes any reply for the end of its gathering.
PollTurnClientEager(c) ==
    /\ phase = "turn"
    /\ turnReply[c] # NoReply
    /\ turnReply' = [turnReply EXCEPT ![c] = NoReply]
    /\ turnState' = "complete"
    /\ turn' = [turn EXCEPT ![c] = "finished"]
    /\ turnEvents' = turnEvents
           \o (IF turnReply[c].kind = "response" THEN <<"cand">> ELSE << >>)
           \o (IF turnState = "gathering" THEN <<"complete">> ELSE << >>)
    /\ UNCHANGED <<phase, requests, calls, flags, stunVars, coreEvents, obsVars,
                   relayOnly>>

\* RTCTurnRelayer::poll_event: only a reply to the transaction allocate()
\* named finishes the client; its relay becomes a candidate.
PollTurnClient(c) ==
    /\ phase = "turn"
    /\ turnReply[c] # NoReply
    /\ turnReply' = [turnReply EXCEPT ![c] = NoReply]
    /\ LET r == turnReply[c]
           mine == r.tid = AllocateTid
           t == IF mine THEN [turn EXCEPT ![c] =
                    IF r.kind = "response" THEN "relay" ELSE "finished"]
                ELSE turn
           done == mine /\ turnState = "gathering" /\ GatherFinished(t)
       IN /\ turn' = t
          /\ turnState' = IF done THEN "complete" ELSE turnState
          /\ turnEvents' = turnEvents
                 \o (IF mine /\ r.kind = "response" THEN <<"cand">> ELSE << >>)
                 \o (IF done THEN <<"complete">> ELSE << >>)
    /\ UNCHANGED <<phase, requests, calls, flags, stunVars, coreEvents, obsVars,
                   relayOnly>>

TurnPolled == \A c \in TurnClient : turnReply[c] = NoReply

\* handle_turn_relay_event.
HandleTurnEvent ==
    /\ phase = "turn" /\ TurnPolled
    /\ turnEvents # << >> /\ turnEvents' = Tail(turnEvents)
    /\ \/ /\ Head(turnEvents) = "cand"
          /\ AddLocal
          /\ UNCHANGED flags
       \/ /\ Head(turnEvents) = "complete"
          /\ turnDone' = TRUE
          /\ FinishIfReady(active, stunDone, TRUE)
          /\ UNCHANGED stunDone
    /\ UNCHANGED <<phase, requests, calls, stunVars, turnState, turn, turnReply,
                   obsVars, relayOnly>>

TurnEventsDone ==
    /\ phase = "turn" /\ TurnPolled /\ turnEvents = << >>
    /\ phase' = "core"
    /\ UNCHANGED <<requests, calls, flags, stunVars, turnVars, coreEvents,
                   obsVars, relayOnly>>

\* handle_rtc_event: on_ice_candidate or on_ice_gathering_state_change. The
\* core reports COMPLETE and no other gathering state.
DeliverCoreEvent ==
    /\ phase = "core"
    /\ coreEvents # << >> /\ coreEvents' = Tail(coreEvents)
    /\ IF Head(coreEvents) = "complete"
       THEN observed' = "complete" /\ told' = TRUE
       ELSE UNCHANGED obsVars
    /\ UNCHANGED <<phase, requests, calls, flags, stunVars, turnVars, relayOnly>>

Park ==
    /\ phase = "core" /\ coreEvents = << >>
    /\ phase' = "select"
    /\ UNCHANGED <<requests, calls, flags, stunVars, turnVars, coreEvents,
                   obsVars, relayOnly>>

-----------------------------------------------------------------------------

Loop ==
    \/ PollWrites
    \/ \E c \in StunClient : PollStunClient(c)
    \/ HandleStunEvent \/ StunEventsDone
    \/ \E c \in TurnClient : PollTurnClient(c)
    \/ HandleTurnEvent \/ TurnEventsDone
    \/ DeliverCoreEvent \/ Park

Next ==
    \/ RequestGathering
    \/ StartGathering \/ OtherInput
    \/ \E c \in StunClient : StunOutcome(c)
    \/ \E c \in TurnClient : TurnChallenge(c) \/ TurnOutcome(c)
    \/ Loop

\* The task is polled; a queued driver event is chosen by select! sooner or
\* later (it picks at random among what is ready); a transaction is answered
\* or runs out of retransmissions.
Fairness ==
    /\ WF_vars(Loop)
    /\ SF_vars(StartGathering)
    /\ \A c \in StunClient : SF_vars(StunOutcome(c))
    /\ \A c \in TurnClient : SF_vars(TurnChallenge(c)) /\ SF_vars(TurnOutcome(c))

Spec == Init /\ [][Next]_vars /\ Fairness

-----------------------------------------------------------------------------
(* Properties                                                               *)

Holds(q, e) == \E i \in 1..Len(q) : q[i] = e

\* trickle-ice.md on COMPLETE: "No more onIceCandidate callbacks will fire".
\* No candidate is queued for the observer behind a COMPLETE, or after COMPLETE
\* has been reported, until the application asks for gathering again.
NoCandidateAfterComplete ==
    /\ told => ~Holds(coreEvents, "cand")
    /\ \A i, j \in 1..Len(coreEvents) :
           i < j /\ coreEvents[i] = "complete" => coreEvents[j] # "cand"

\* COMPLETE is true when it is said (finish_gathering_if_ready): no STUN client
\* is left and every TURN allocation has ended, whatever order the rounds, the
\* failures and the answers came in.  And it will be said: the driver's flags,
\* which only events move, agree with the gatherers whenever the loop is back in
\* select!, where an active round has recorded exactly those that completed.
\* Nor does a candidate follow it, as above.
CompleteIsTrue ==
    /\ TypeOK /\ NoCandidateAfterComplete
    /\ told \/ Holds(coreEvents, "complete") =>
           StunLeft(stun) = {} /\ GatherFinished(turn)
    /\ phase = "select" /\ active =>
           /\ stunDone = (stunState = "complete")
           /\ turnDone = (turnState = "complete")
           /\ ~(stunDone /\ turnDone)

\* A STUN exchange the gatherer will not end, or an allocation the relayer
\* will not: the timeout of the first, or of the transaction before the last.
Silent ==
    \/ \E c \in StunClient : stun[c] = "dead"
    \/ \E c \in TurnClient : turn[c] = "ended" /\ turnReply[c] = NoReply

\* Every round, also one requested while another is running, after failed
\* writes or error replies, is reported complete, unless a server is silent.
CompletesUnlessSilent == active ~> (told \/ Silent)
=============================================================================
