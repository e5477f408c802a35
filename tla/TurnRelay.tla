------------------------------ MODULE TurnRelay ------------------------------
(***************************************************************************)
(* Packets through a TURN relay: permissions, the packets buffered while a *)
(* permission is requested, and the removal of a failed client.            *)
(*                                                                         *)
(*   rust-webrtc/src/peer_connection/transports/turn_relayer.rs            *)
(*   rust-webrtc/src/peer_connection/driver.rs   (the order of its calls)  *)
(*   rtc-turn's Client and Relay, external, from how the relayer uses them *)
(*                                                                         *)
(* The relayer belongs to the driver task, so the grain is the phase of    *)
(* the event loop: one input in select!, then poll_writes over the relayer *)
(* and over the core, then poll_events. A client is the exchange of one    *)
(* local address with one TURN server and has at most one relayed address, *)
(* so the client also names that address.                                  *)
(***************************************************************************)
EXTENDS Naturals, Sequences

CONSTANTS
    Client,      \* keys of the relayer's client table
    Peer,        \* remote addresses the core sends to
    PendingCap,  \* MAX_PENDING_PACKETS_PER_PEER, 64 in the code
    MaxPackets,  \* bound: packets the core sends through relays
    MaxTids,     \* bound: CreatePermission transactions
    MaxData      \* bound: packets that arrive through relays

ASSUME CapAssumption == PendingCap \in Nat \ {0}
ASSUME BoundAssumption == MaxPackets \in Nat /\ MaxTids \in Nat /\ MaxData \in Nat

VARIABLES
    phase,       \* where the event loop is
    clients,     \* RTCTurnRelayer.clients
    relayAddrs,  \* relay_addrs (and the relay_addr of each client)
    pending,     \* pending_permissions: [tid, relay, peer]
    pairs,       \* pending_permission_pairs: [tid, relay, peer]
    packets,     \* pending_packets
    routs,       \* routs: packets for the core, by client
    relays,      \* Client.relays is not empty            (rtc-turn)
    perm,        \* perm_map                              (rtc-turn)
    trans,       \* outstanding CreatePermission requests (rtc-turn)
    transmits,   \* the client's outgoing messages        (rtc-turn)
    events,      \* the client's events                   (rtc-turn)
    wouts,       \* messages poll_write has handed to the driver, by client
    sent,        \* packets written to the socket, by client and peer
    lastTid, lastPacket, lastData,
    handed,      \* history: packets handed to the relayer, by pair
    waited,      \* history: packets that were buffered
    arrived,     \* history: packets that arrived, by client
    excused      \* history: pairs that may have lost a packet

relayer == <<clients, relayAddrs, pending, pairs, packets>>
turn    == <<relays, perm, trans, transmits, events>>
counts  == <<lastTid, lastPacket, lastData>>
hist    == <<handed, waited, arrived>>
vars == <<phase, relayer, routs, turn, wouts, sent, counts, hist, excused>>

Pair == [relay : Client, peer : Peer]
Request == [tid : 1..MaxTids, relay : Client, peer : Peer]
Message == [kind : {"data"}, peer : Peer, id : 1..MaxPackets]
             \cup [kind : {"request"}, peer : Peer, id : 1..MaxTids]
Event == [kind : {"allocated", "data"}, peer : Peer, id : 0..MaxData]
           \cup [kind : {"granted", "refused", "timeout"}, peer : Peer, id : 1..MaxTids]

TypeOK ==
    /\ phase \in {"select", "writes", "core", "events", "closed"}
    /\ clients \subseteq Client /\ relayAddrs \subseteq Client
    /\ relays \subseteq Client
    /\ pending \subseteq Request /\ pairs \subseteq Request /\ trans \subseteq Request
    /\ packets \in [Pair -> Seq(1..MaxPackets)]
    /\ \A q \in Pair : Len(packets[q]) <= PendingCap
    /\ routs \in [Client -> Seq(1..MaxData)]
    /\ perm \in [Pair -> {"none", "idle", "permitted"}]
    /\ transmits \in [Client -> Seq(Message)]
    /\ wouts \in [Client -> Seq(Message)]
    /\ events \in [Client -> Seq(Event)]
    /\ sent \in [Pair -> Seq(1..MaxPackets)]
    /\ excused \subseteq Pair /\ waited \subseteq 1..MaxPackets
    /\ handed \in [Pair -> SUBSET (1..MaxPackets)]
    /\ arrived \in [Client -> SUBSET (1..MaxData)]
    /\ lastTid \in 0..MaxTids /\ lastPacket \in 0..MaxPackets /\ lastData \in 0..MaxData

Init ==
    /\ phase = "select"
    /\ clients = Client /\ relayAddrs = {} /\ relays = {}
    /\ pending = {} /\ pairs = {} /\ trans = {}
    /\ packets = [q \in Pair |-> << >>]
    /\ perm = [q \in Pair |-> "none"]
    /\ routs = [c \in Client |-> << >>]
    /\ transmits = [c \in Client |-> << >>]
    /\ wouts = [c \in Client |-> << >>]
    /\ events = [c \in Client |-> << >>]
    /\ sent = [q \in Pair |-> << >>]
    /\ excused = {} /\ waited = {}
    /\ handed = [q \in Pair |-> {}]
    /\ arrived = [c \in Client |-> {}]
    /\ lastTid = 0 /\ lastPacket = 0 /\ lastData = 0

At(c, p) == [relay |-> c, peer |-> p]
Of(r) == At(r.relay, r.peer)
Data(p, n) == [kind |-> "data", peer |-> p, id |-> n]

-----------------------------------------------------------------------------
(* select!: one input, then poll_writes. The relayer's first poll_write     *)
(* moves every client's messages to wouts.                                  *)

StartWrites(out) ==
    /\ phase = "select" /\ phase' = "writes"
    /\ wouts' = [c \in Client |-> wouts[c] \o IF c \in clients THEN out[c] ELSE << >>]
    /\ transmits' = [c \in Client |-> IF c \in clients THEN << >> ELSE out[c]]

\* The server's answer to a request it can have received, or the timeout after
\* the last retransmission: the transaction ends and an event is queued.
Outcome(r, kind) ==
    /\ r \in trans /\ r.relay \in clients
    /\ ~ \E i \in DOMAIN transmits[r.relay] :
            transmits[r.relay][i].kind = "request" /\ transmits[r.relay][i].id = r.tid
    /\ trans' = trans \ {r}
    /\ perm' = [perm EXCEPT ![Of(r)] = IF kind = "granted" THEN "permitted"
                                       ELSE IF kind = "refused" THEN "none" ELSE @]
    /\ events' = [events EXCEPT ![r.relay] =
                    Append(@, [kind |-> kind, peer |-> r.peer, id |-> r.tid])]
    /\ StartWrites(transmits)
    /\ UNCHANGED <<relayer, routs, relays, sent, excused, counts, hist>>

Granted == \E r \in trans : Outcome(r, "granted")
Refused == \E r \in trans : Outcome(r, "refused")
TimedOut == \E r \in trans : Outcome(r, "timeout")

\* The allocation of client c succeeds.
Allocated(c) ==
    /\ c \in clients \ relays
    /\ relays' = relays \cup {c}
    /\ \E p \in Peer : events' = [events EXCEPT ![c] =
                    Append(@, [kind |-> "allocated", peer |-> p, id |-> 0])]
    /\ StartWrites(transmits)
    /\ UNCHANGED <<relayer, routs, perm, trans, sent, excused, counts, hist>>

\* A data indication or channel data of client c.
Arrives(c, p) ==
    /\ c \in clients \cap relays
    /\ lastData < MaxData
    /\ lastData' = lastData + 1
    /\ events' = [events EXCEPT ![c] =
                    Append(@, [kind |-> "data", peer |-> p, id |-> lastData + 1])]
    /\ StartWrites(transmits)
    /\ arrived' = [arrived EXCEPT ![c] = @ \cup {lastData + 1}]
    /\ UNCHANGED <<relayer, routs, relays, perm, trans, sent, excused, lastTid, lastPacket,
                   handed, waited>>

\* Any other input of the loop: a timer, a socket, a driver event.
Wake ==
    /\ StartWrites(transmits)
    /\ UNCHANGED <<relayer, routs, relays, perm, trans, events, sent, excused, counts, hist>>

-----------------------------------------------------------------------------
(* poll_writes, first over the relayer.                                     *)

\* The next message of client c goes out on its socket.
WriteOut(c) ==
    /\ phase = "writes" /\ wouts[c] # << >>
    /\ LET m == Head(wouts[c]) IN
        sent' = IF m.kind = "data"
                  THEN [sent EXCEPT ![At(c, m.peer)] = Append(@, m.id)] ELSE sent
    /\ wouts' = [wouts EXCEPT ![c] = Tail(@)]
    /\ UNCHANGED <<phase, relayer, routs, turn, excused, counts, hist>>

\* A client without a relayed address was never given a packet.
DropRelay(c) ==
    /\ relayAddrs' = relayAddrs \ {c}
    /\ packets' = [q \in Pair |-> IF q.relay = c THEN << >> ELSE packets[q]]
    /\ pending' = {r \in pending : r.relay # c}
    /\ pairs' = {r \in pairs : r.relay # c}

\* As remove_client, but the pairs being requested are kept.
DropRelayKeepPairs(c) ==
    /\ relayAddrs' = relayAddrs \ {c}
    /\ packets' = [q \in Pair |-> IF q.relay = c THEN << >> ELSE packets[q]]
    /\ pending' = {r \in pending : r.relay # c}
    /\ UNCHANGED pairs

RemoveClientKeepPairs(c) ==
    /\ clients' = clients \ {c}
    /\ IF c \in relayAddrs THEN DropRelayKeepPairs(c) ELSE UNCHANGED <<relayAddrs, packets, pending, pairs>>
    /\ trans' = {r \in trans : r.relay # c}
    /\ transmits' = [transmits EXCEPT ![c] = << >>]
    /\ events' = [events EXCEPT ![c] = << >>]
    /\ excused' = excused \cup {q \in Pair : q.relay = c}

\* remove_client. The client and all it holds is dropped.
RemoveClient(c) ==
    /\ clients' = clients \ {c}
    /\ IF c \in relayAddrs THEN DropRelay(c) ELSE UNCHANGED <<relayAddrs, packets, pending, pairs>>
    /\ trans' = {r \in trans : r.relay # c}
    /\ transmits' = [transmits EXCEPT ![c] = << >>]
    /\ events' = [events EXCEPT ![c] = << >>]
    /\ excused' = excused \cup {q \in Pair : q.relay = c}

\* The write fails: the message is lost, and with it the client. Messages of
\* the client that were already polled are still written.
WriteFails(c) ==
    /\ phase = "writes" /\ wouts[c] # << >>
    /\ wouts' = [wouts EXCEPT ![c] = Tail(@)]
    /\ RemoveClient(c)
    /\ UNCHANGED <<phase, routs, relays, perm, sent, counts, hist>>

RelayWritesDone ==
    /\ phase = "writes" /\ \A c \in Client : wouts[c] = << >>
    /\ phase' = "core"
    /\ UNCHANGED <<relayer, routs, turn, wouts, sent, excused, counts, hist>>

-----------------------------------------------------------------------------
(* poll_writes over the core: handle_write for each packet. A packet from   *)
(* an address that is no longer a relay's never reaches the relayer.        *)

HandsOver(c, p) ==
    /\ phase = "core" /\ c \in relayAddrs
    /\ lastPacket < MaxPackets
    /\ lastPacket' = lastPacket + 1
    /\ handed' = [handed EXCEPT ![At(c, p)] = @ \cup {lastPacket + 1}]

\* send_to succeeds.
SendDirect(c, p) ==
    /\ HandsOver(c, p)
    /\ perm[At(c, p)] = "permitted"
    /\ transmits' = [transmits EXCEPT ![c] = Append(@, Data(p, lastPacket + 1))]
    /\ UNCHANGED <<phase, relayer, routs, relays, perm, trans, events, wouts, sent,
                   excused, lastTid, lastData, waited, arrived>>

\* buffer_packet: a full queue loses its oldest packet.
BufferPacket(q, n) ==
    /\ waited' = waited \cup {n}
    /\ packets' = [packets EXCEPT ![q] =
                     Append(IF Len(@) >= PendingCap THEN Tail(@) ELSE @, n)]
    /\ excused' = IF Len(packets[q]) >= PendingCap THEN excused \cup {q} ELSE excused

NotPermitted(q) == perm[q] # "permitted"
Asked(q) == \E r \in pairs : Of(r) = q

\* send_to has no permission and one is being requested.
SendWhilePending(c, p) ==
    /\ HandsOver(c, p)
    /\ NotPermitted(At(c, p)) /\ Asked(At(c, p))
    /\ BufferPacket(At(c, p), lastPacket + 1)
    /\ UNCHANGED <<phase, clients, relayAddrs, pending, pairs, routs, turn, wouts, sent,
                   lastTid, lastData, arrived>>

\* send_to has no permission and none is being requested: create_permission,
\* which sends a request for every peer that is not permitted.
SendAndRequest(c, p) ==
    LET q == At(c, p)
        r == [tid |-> lastTid + 1, relay |-> c, peer |-> p]
    IN
    /\ HandsOver(c, p)
    /\ NotPermitted(q) /\ ~ Asked(q)
    /\ lastTid < MaxTids
    /\ lastTid' = lastTid + 1
    /\ perm' = [perm EXCEPT ![q] = "idle"]
    /\ trans' = trans \cup {r}
    /\ transmits' = [transmits EXCEPT ![c] =
                       Append(@, [kind |-> "request", peer |-> p, id |-> r.tid])]
    /\ pending' = pending \cup {r}
    /\ pairs' = pairs \cup {r}
    /\ BufferPacket(q, lastPacket + 1)
    /\ UNCHANGED <<phase, clients, relayAddrs, routs, relays, events, wouts, sent, lastData, arrived>>

CoreWritesDone ==
    /\ phase = "core"
    /\ phase' = "events"
    /\ UNCHANGED <<relayer, routs, turn, wouts, sent, excused, counts, hist>>

-----------------------------------------------------------------------------
(* poll_events. poll_event takes all the events of all the clients before   *)
(* it flushes and drops; nothing runs in between and no pair has two of     *)
(* them, so one event at a time leaves the same state.                      *)

Takes(c, kind) ==
    /\ phase = "events" /\ events[c] # << >> /\ Head(events[c]).kind = kind
    /\ events' = [events EXCEPT ![c] = Tail(@)]

\* AllocateResponse.
PollAllocated(c) ==
    /\ Takes(c, "allocated")
    /\ relayAddrs' = relayAddrs \cup {c}
    /\ UNCHANGED <<phase, clients, pending, pairs, packets, routs, relays, perm, trans,
                   transmits, wouts, sent, excused, counts, hist>>

\* DataIndicationOrChannelData, and the core's poll_read of it.
PollData(c) ==
    /\ Takes(c, "data")
    /\ routs' = IF c \in relayAddrs
                  THEN [routs EXCEPT ![c] = Append(@, Head(events[c]).id)] ELSE routs
    /\ UNCHANGED <<phase, relayer, relays, perm, trans, transmits, wouts, sent, excused, counts, hist>>

Answered(e) == {r \in pending : r.tid = e.id}

Forget(e) ==
    /\ pending' = pending \ Answered(e)
    /\ pairs' = {x \in pairs : ~ \E r \in Answered(e) : Of(r) = Of(x)}

\* As Flush, but a packet is left in the queue.
FlushAllButOne(q) ==
    LET queue == packets[q] IN
    IF perm[q] = "permitted" /\ queue # << >>
      THEN /\ transmits' = [transmits EXCEPT ![q.relay] = Append(@, Data(q.peer, Head(queue)))]
           /\ packets' = [packets EXCEPT ![q] = Tail(@)]
           /\ UNCHANGED excused
      ELSE UNCHANGED <<transmits, packets, excused>>

\* As Flush, but the last packet is taken off the queue first.
FlushLosesLast(q) ==
    LET queue == packets[q] IN
    IF perm[q] = "permitted" /\ queue # << >>
      THEN /\ transmits' = [transmits EXCEPT ![q.relay] =
                 @ \o [i \in 1..(Len(queue) - 1) |-> Data(q.peer, queue[i])]]
           /\ packets' = [packets EXCEPT ![q] = << >>]
           /\ UNCHANGED excused
      ELSE UNCHANGED <<transmits, packets, excused>>

\* flush_pending_packets: without a permission the first packet goes back and
\* the others are lost.
Flush(q) ==
    LET queue == packets[q] IN
    IF perm[q] = "permitted"
      THEN /\ transmits' = [transmits EXCEPT ![q.relay] =
                 @ \o [i \in DOMAIN queue |-> Data(q.peer, queue[i])]]
           /\ packets' = [packets EXCEPT ![q] = << >>]
           /\ UNCHANGED excused
      ELSE /\ packets' = [packets EXCEPT ![q] = IF @ = << >> THEN @ ELSE <<Head(@)>>]
           /\ excused' = excused \cup {q}
           /\ UNCHANGED transmits

\* CreatePermissionResponse.
PollGranted(c) ==
    LET e == Head(events[c]) IN
    /\ Takes(c, "granted")
    /\ Forget(e)
    /\ IF Answered(e) # {} THEN Flush(At(c, e.peer))
                           ELSE UNCHANGED <<transmits, packets, excused>>
    /\ UNCHANGED <<phase, clients, relayAddrs, routs, relays, perm, trans, wouts, sent, counts, hist>>

\* CreatePermissionError and TransactionTimeout: what waited is dropped.
PollFailed(c) ==
    LET e == Head(events[c])
        dropped == {Of(r) : r \in Answered(e)}
    IN
    /\ Takes(c, "refused") \/ Takes(c, "timeout")
    /\ Forget(e)
    /\ packets' = [q \in Pair |-> IF q \in dropped THEN << >> ELSE packets[q]]
    /\ excused' = excused \cup dropped
    /\ UNCHANGED <<phase, clients, relayAddrs, routs, relays, perm, trans, transmits,
                   wouts, sent, counts, hist>>

EventsDone ==
    /\ phase = "events" /\ \A c \in clients : events[c] = << >>
    /\ phase' = "select"
    /\ UNCHANGED <<relayer, routs, turn, wouts, sent, excused, counts, hist>>

\* The driver's Close event: RTCTurnRelayer::close, and the loop ends.
Close ==
    /\ phase = "select" /\ phase' = "closed"
    /\ clients' = {} /\ relayAddrs' = {}
    /\ pending' = {} /\ pairs' = {} /\ trans' = {}
    /\ packets' = [q \in Pair |-> << >>]
    /\ transmits' = [c \in Client |-> << >>]
    /\ events' = [c \in Client |-> << >>]
    /\ excused' = Pair
    /\ UNCHANGED <<routs, relays, perm, wouts, sent, counts, hist>>

-----------------------------------------------------------------------------

Loop ==
    \/ Wake \/ RelayWritesDone \/ CoreWritesDone \/ EventsDone
    \/ \E c \in Client : \/ WriteOut(c) \/ PollAllocated(c) \/ PollData(c)
                         \/ PollGranted(c) \/ PollFailed(c)

Environment ==
    \/ Granted \/ Refused \/ TimedOut \/ Close
    \/ \E c \in Client :
        \/ Allocated(c) \/ WriteFails(c)
        \/ \E p \in Peer : \/ Arrives(c, p) \/ SendDirect(c, p)
                           \/ SendWhilePending(c, p) \/ SendAndRequest(c, p)

Next == Loop \/ Environment

Spec == Init /\ [][Next]_vars

\* The loop runs, and a transaction is answered or times out: the TURN
\* client's retransmission timer is one of those the driver sleeps on.
FairSpec == Spec /\ WF_vars(Loop) /\ SF_vars(TimedOut)

-----------------------------------------------------------------------------
(* Properties.                                                              *)

\* pending_permissions and pending_permission_pairs hold the same requests,
\* one for a pair at most, and each of them is still to be answered: its
\* transaction is outstanding or its event waits to be polled. Nothing is kept
\* for a client that was removed. Packets wait in pending_packets only for such a
\* request, so an answer or a timeout is still to come that sends or drops them.
RequestsAgree ==
    /\ TypeOK
    /\ \A q \in Pair : packets[q] # << >> => Asked(q)
    /\ pending = pairs
    /\ \A r, x \in pending : Of(r) = Of(x) => r = x
    /\ \A r \in pending :
        /\ r.relay \in relayAddrs
        /\ \/ r \in trans
           \/ \E i \in DOMAIN events[r.relay] :
                /\ events[r.relay][i].kind \in {"granted", "refused", "timeout"}
                /\ events[r.relay][i].id = r.tid

\* The numbers in a queue, and those of the data for p among messages, each with
\* the queue it is in, k, and its place there.
Numbers(k, s) == {<<k, i, s[i]>> : i \in DOMAIN s}
DataTo(k, s, p) ==
    {<<k, i, s[i].id>> : i \in {j \in DOMAIN s : s[j].kind = "data" /\ s[j].peer = p}}

\* The packets of one pair, as they were or will be written: on the socket,
\* with the driver, in the client, in the queue.
Line(a, b, t, d, p) == Numbers(1, a) \cup DataTo(2, b, p) \cup DataTo(3, t, p) \cup Numbers(4, d)
Stream(q) == Line(sent[q], wouts[q.relay], transmits[q.relay], packets[q], q.peer)

\* What has come through a relay: with the core, then with the client.
Incoming(c) ==
    Numbers(1, routs[c]) \cup
    {<<2, i, events[c][i].id>> : i \in {j \in DOMAIN events[c] : events[c][j].kind = "data"}}

Ahead(x, y) == x[1] < y[1] \/ (x[1] = y[1] /\ x[2] < y[2])
Ids(S) == {x[3] : x \in S}

\* A packet is written at most once, and the packets of a pair keep their order
\* with one exception: a packet sent after the permission was granted and
\* before its event is polled passes those that waited for the permission.
InOrderUnlessWaiting ==
    \A q \in Pair : \A x, y \in Stream(q) : Ahead(x, y) =>
        x[3] < y[3] \/ (x[3] > y[3] /\ x[3] \notin waited /\ y[3] \in waited)

\* What arrives through a relay reaches the core once, in order and, as long as
\* the client is there, all of it, even if it arrives before the relayer has seen
\* the allocation's event; a removed client loses no more than the end.
ReachesCore ==
    \A c \in Client :
        /\ \A x, y \in Incoming(c) : Ahead(x, y) => x[3] < y[3]
        /\ c \in clients => Ids(Incoming(c)) = arrived[c]
        /\ \A n \in arrived[c] \ Ids(Incoming(c)) : \A m \in Ids(Incoming(c)) : m < n

\* No packet is lost silently, or overtaken but as above (handle_write,
\* flush_pending_packets, poll_write).  All that were handed over for a pair are in
\* its stream, unless a full queue, a refusal, a timeout or a removed client took
\* some of them; and what arrives reaches the core.
Accounted ==
    /\ InOrderUnlessWaiting
    /\ \A q \in Pair \ excused : Ids(Stream(q)) = handed[q]
    /\ ReachesCore

\* A packet does not wait for a permission for ever.
BufferDrains ==
    \A q \in Pair : (packets[q] # << >>) ~> (packets[q] = << >>)
=============================================================================
