------------------------------- MODULE MCTurn -------------------------------
(***************************************************************************)
(* The two halves of relaying through a TURN server, either of which a     *)
(* behaviour follows: the driver's relayer above a TURN client             *)
(* (TurnRelay), or the TURN client against its server (TurnClient).        *)
(***************************************************************************)
EXTENDS TurnRelay

CONSTANTS RemotePeer, MAX_RTX_COUNT, MIN_CHANNEL_NUMBER, MAX_CHANNEL_NUMBER,
          MaxIds

ASSUME RtxAssumption == MAX_RTX_COUNT \in Nat \ {0}
ASSUME ChannelAssumption == MIN_CHANNEL_NUMBER \in Nat /\ MAX_CHANNEL_NUMBER \in Nat

VARIABLES
    part,       \* "relayer" or "client"
    work, realm, integrity, tr_map, relay, addr_map, chan_map, next, up, down,
    nonce, allocated, granted, channels, ids, asked, csent, relayed, offered, given

\* Two payloads to a peer; one each way; one with a nonce that goes stale.
Workloads ==
    {[sent |-> 2, offered |-> 0, nonces |-> 1], [sent |-> 1, offered |-> 1, nonces |-> 1],
     [sent |-> 1, offered |-> 0, nonces |-> 2]}

C == INSTANCE TurnClient WITH Peer <- RemotePeer, sent <- csent

clientVars ==
    <<work, realm, integrity, tr_map, relay, addr_map, chan_map, next, up, down,
      nonce, allocated, granted, channels, ids, asked, csent, relayed, offered, given>>
all == <<part, vars, clientVars>>

MCInit ==
    /\ part \in {"relayer", "client"} /\ Init /\ C!Init
    /\ part = "relayer" => work = CHOOSE w \in Workloads : TRUE

RelayerStep(A) == part = "relayer" /\ A /\ UNCHANGED <<part, clientVars>>
ClientStep(A) == part = "client" /\ A /\ UNCHANGED <<part, vars>>

MCNext == RelayerStep(Next) \/ ClientStep(C!Next)

ClientTimeout == \E id \in DOMAIN tr_map : C!HandleTimeout(id)

\* The fairness of either half.
MCSpec ==
    /\ MCInit /\ [][MCNext]_all
    /\ WF_all(RelayerStep(Loop)) /\ SF_all(RelayerStep(TimedOut))
    /\ WF_all(ClientStep(ClientTimeout))

\* Client: what it believes of the server is so, and payloads reach the peers
\* they were sent to (handle_create_permission_response, BindingManager, send_to).
ViewsAgree == C!ViewsAgree

\* Client: every id create_permission returned is reported once more.
Concluded == C!Concluded
=============================================================================
