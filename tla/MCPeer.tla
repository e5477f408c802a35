------------------------------- MODULE MCPeer -------------------------------
(***************************************************************************)
(* The two levels of a peer connection, either of which a behaviour        *)
(* follows: the handle Java holds (PeerHandle), with two connections, or   *)
(* the description exchange of two peers (Negotiation).                    *)
(*                                                                         *)
(* PeerHandle: one thread uses p.  Two threads use q, and so do the        *)
(* callbacks of p, the way the candidates of one end of a loopback pair    *)
(* are given to the other.  Negotiation: offers cross whenever both users  *)
(* have something to negotiate.                                            *)
(***************************************************************************)
EXTENDS PeerHandle

LoopbackUsers == [p |-> {"main"}, q |-> {"main", "worker", "p"}]

CONSTANT MaxChannels
VARIABLES part, plan, pc, wire, rolled, missed

Peers == {"polite", "impolite"}
track(kind, id) == [op |-> "track", kind |-> kind, id |-> id]
untrack(id) == [op |-> "untrack", kind |-> "", id |-> id]
listen(kind) == [op |-> "listen", kind |-> kind, id |-> 0]
direction(d) == [op |-> "direction", kind |-> d, id |-> 0]
command(op) == [op |-> op, kind |-> "", id |-> 0]
Two(p, i) == [x \in Peers |-> IF x = "polite" THEN p ELSE i]

Plans ==
    {Two(<<command("connect")>>, <<command("connect")>>),
     Two(<<track("audio", 1), command("connect"), command("renegotiate")>>,
         <<track("audio", 2), track("video", 3)>>),
     Two(<<track("audio", 1), untrack(1), track("audio", 2)>>,
         <<track("audio", 3), command("restart"), command("renegotiate")>>),
     Two(<<listen("audio"), track("audio", 1), command("connect")>>,
         <<track("video", 3), direction("recvonly")>>),
     Two(<<command("connect"), command("restart"), command("renegotiate")>>,
         <<track("video", 3), track("audio", 4), command("restart"), command("renegotiate")>>)}

N == INSTANCE Negotiation

negotiationVars == <<plan, pc, wire, rolled, missed>>
all == <<part, vars, negotiationVars>>

MCInit ==
    /\ part \in {"handle", "negotiation"} /\ Init /\ N!Init
    /\ part = "handle" => plan = CHOOSE p \in Plans : TRUE

HandleStep(A) == part = "handle" /\ A /\ UNCHANGED <<part, negotiationVars>>
NegotiationStep(A) == part = "negotiation" /\ A /\ UNCHANGED <<part, vars>>

MCNext == HandleStep(Next) \/ NegotiationStep(N!Next)

\* The fairness of Negotiation.
MCSpec ==
    /\ MCInit /\ [][MCNext]_all
    /\ \A x \in Peers :
          /\ []<>(part = "handle" \/ ~N!CanTimer(x)) \/ []<><<NegotiationStep(N!Timer(x))>>_all
          /\ []<>(part = "handle" \/ ~N!CanReceive(x)) \/ []<><<NegotiationStep(N!Receive(x))>>_all

\* Negotiation: the peers mean the same session, and no call of it fails
\* (set_local_description, set_remote_description, create_offer, create_answer).
SessionAgrees == N!SessionAgrees

\* Negotiation: a later description only adds sections (create_offer).
SectionsKept == N!SectionsKept

\* Negotiation: offers end, and the tracks are negotiated (trigger_negotiation_needed).
EveryTrackNegotiated == N!EveryTrackNegotiated
=============================================================================
