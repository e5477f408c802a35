-------------------------- MODULE TurnRelay_proofs --------------------------
(***************************************************************************)
(* Proofs about TurnRelay, for any clients, peers, buffer size and bounds. *)
(*                                                                         *)
(* RequestsAgree says that a request is still to be answered.  That it     *)
(* stays so depends on the events that wait in the clients: each of them   *)
(* belongs to one request, no request has two, and a granted one finds its *)
(* permission when it is polled.                                           *)
(*                                                                         *)
(* Accounted says where each packet is.  Going out, a packet moves from    *)
(* queue to queue and a move keeps the order of its pair; coming in, data  *)
(* never reaches the relayer before the allocation it came through.        *)
(***************************************************************************)
EXTENDS TurnRelay, TLAPS

IsAnswer(e) == e.kind \in {"granted", "refused", "timeout"}

\* Clients that were removed hold nothing; data has a number.
Held ==
    /\ relayAddrs \subseteq clients
    /\ \A c \in Client : events[c] # << >> => c \in clients
    /\ \A c \in Client : \A i \in DOMAIN events[c] :
           events[c][i].kind = "data" => events[c][i].id \in 1..MaxData

\* The two tables hold the same requests; a pair has one, and so has an id.
Tables ==
    /\ trans \subseteq pending /\ pending = pairs
    /\ \A r \in pending : r.tid <= lastTid /\ r.relay \in relayAddrs
    /\ \A r, x \in pending : Of(r) = Of(x) \/ r.tid = x.tid => r = x

\* What waits, waits for a request.
Waits == \A q \in Pair : packets[q] # << >> => \E r \in pending : Of(r) = q

\* An answer in the queue is that of a request whose transaction is over.
Answers ==
    \A c \in Client : \A i \in DOMAIN events[c] : IsAnswer(events[c][i]) =>
        \E r \in pending \ trans :
            /\ r.relay = c /\ r.peer = events[c][i].peer /\ r.tid = events[c][i].id
            /\ events[c][i].kind = "granted" => perm[Of(r)] = "permitted"

\* A request has one answer at most ...
AnsweredOnce ==
    \A c \in Client : \A i, j \in DOMAIN events[c] :
        IsAnswer(events[c][i]) /\ IsAnswer(events[c][j]) /\ events[c][i].id = events[c][j].id => i = j

\* ... and one without a transaction has one.
NoneForgotten ==
    \A r \in pending \ trans : \E i \in DOMAIN events[r.relay] :
        IsAnswer(events[r.relay][i]) /\ events[r.relay][i].id = r.tid

IInv == TypeOK /\ Held /\ Tables /\ Waits /\ Answers /\ AnsweredOnce /\ NoneForgotten

-----------------------------------------------------------------------------
USE CapAssumption, BoundAssumption

\* What is left of a queue when its head is taken.
LEMMA Taken ==
    ASSUME NEW S, NEW q \in Seq(S), q # << >>
    PROVE  /\ Head(q) \in S /\ Tail(q) \in Seq(S) /\ Len(Tail(q)) = Len(q) - 1
           /\ \A i \in 1..Len(Tail(q)) : Tail(q)[i] = q[i + 1]
OBVIOUS

LEMMA InitHolds == Init => IInv
BY DEF Init, IInv, TypeOK, Held, Tables, Waits, Answers, AnsweredOnce, NoneForgotten, Pair, Request

LEMMA InvImplies == IInv => RequestsAgree
BY Zenon DEF IInv, RequestsAgree, Tables, Waits, NoneForgotten, Asked, IsAnswer

-----------------------------------------------------------------------------
(* Types.                                                                   *)

\* poll_write moves messages, and makes none.
LEMMA StartWritesType ==
    ASSUME TypeOK, StartWrites(transmits)
    PROVE  /\ phase' \in {"select", "writes", "core", "events", "closed"}
           /\ transmits' \in [Client -> Seq(Message)]
           /\ wouts' \in [Client -> Seq(Message)]
BY DEF TypeOK, StartWrites

LEMMA OutcomeType ==
    ASSUME TypeOK, NEW r \in trans, NEW k \in {"granted", "refused", "timeout"}, Outcome(r, k)
    PROVE  TypeOK'
<1>1. [kind |-> k, peer |-> r.peer, id |-> r.tid] \in Event
  BY Zenon DEF TypeOK, Event, Request
<1>2. events' \in [Client -> Seq(Event)]
  BY <1>1 DEF TypeOK, Outcome, Request
<1>3. perm' \in [Pair -> {"none", "idle", "permitted"}]
  BY Zenon DEF TypeOK, Outcome
<1> QED
  BY Zenon, <1>2, <1>3, StartWritesType DEF TypeOK, Outcome, relayer, counts, hist

LEMMA AllocatedType ==
    ASSUME TypeOK, NEW c \in Client, Allocated(c)
    PROVE  TypeOK'
<1>1. PICK p \in Peer : events' = [events EXCEPT ![c] =
                           Append(@, [kind |-> "allocated", peer |-> p, id |-> 0])]
  BY Zenon DEF Allocated
<1>2. [kind |-> "allocated", peer |-> p, id |-> 0] \in Event
  BY DEF Event
<1>3. events' \in [Client -> Seq(Event)]
  BY <1>1, <1>2 DEF TypeOK
<1> QED
  BY Zenon, <1>3, StartWritesType DEF TypeOK, Allocated, relayer, counts, hist

LEMMA ArrivesType ==
    ASSUME TypeOK, NEW c \in Client, NEW p \in Peer, Arrives(c, p)
    PROVE  TypeOK'
<1>1. [kind |-> "data", peer |-> p, id |-> lastData + 1] \in Event
  BY DEF TypeOK, Event, Arrives
<1>2. events' \in [Client -> Seq(Event)]
  BY <1>1 DEF TypeOK, Arrives
<1>3. arrived' \in [Client -> SUBSET (1..MaxData)] /\ lastData' \in 0..MaxData
  BY DEF TypeOK, Arrives
<1> QED
  BY Zenon, <1>2, <1>3, StartWritesType DEF TypeOK, Arrives, relayer

LEMMA WakeType == TypeOK /\ Wake => TypeOK'
BY Zenon, StartWritesType DEF TypeOK, Wake, relayer, counts, hist

LEMMA WoutsTail ==
    ASSUME TypeOK, NEW c \in Client, wouts[c] # << >>
    PROVE  /\ Head(wouts[c]) \in Message
           /\ [wouts EXCEPT ![c] = Tail(@)] \in [Client -> Seq(Message)]
BY DEF TypeOK

LEMMA WriteOutType ==
    ASSUME TypeOK, NEW c \in Client, WriteOut(c)
    PROVE  TypeOK'
<1>1. Head(wouts[c]) \in Message /\ wouts' \in [Client -> Seq(Message)]
  BY Zenon, WoutsTail DEF WriteOut
<1>2. Head(wouts[c]).peer \in Peer /\ (Head(wouts[c]).kind = "data" => Head(wouts[c]).id \in 1..MaxPackets)
  BY Zenon, <1>1 DEF Message
<1>3. At(c, Head(wouts[c]).peer) \in Pair
  BY Zenon, <1>2 DEF At, Pair
<1>4. sent' \in [Pair -> Seq(1..MaxPackets)]
  <2> DEFINE m == Head(wouts[c])
             q == At(c, m.peer)
  <2>1. sent \in [Pair -> Seq(1..MaxPackets)]
    BY Zenon DEF TypeOK
  <2>2. sent' = IF m.kind = "data" THEN [sent EXCEPT ![q] = Append(sent[q], m.id)] ELSE sent
    BY Zenon DEF WriteOut
  <2>3. q \in Pair /\ (m.kind = "data" => m.id \in 1..MaxPackets)
    BY Zenon, <1>2, <1>3
  <2> HIDE DEF m, q
  <2> QED
    BY SMT, <2>1, <2>2, <2>3
<1> QED
  BY Zenon, <1>1, <1>4 DEF TypeOK, WriteOut, relayer, turn, counts, hist

\* Queues of which some were emptied.
LEMMA EmptiedType ==
    ASSUME TypeOK, NEW S, packets' = [q \in Pair |-> IF q \in S THEN << >> ELSE packets[q]]
    PROVE  packets' \in [Pair -> Seq(1..MaxPackets)] /\ \A q \in Pair : Len(packets'[q]) <= PendingCap
<1>1. << >> \in Seq(1..MaxPackets) /\ Len(<< >>) = 0
  OBVIOUS
<1>2. ASSUME NEW q \in Pair
      PROVE  packets'[q] \in Seq(1..MaxPackets) /\ Len(packets'[q]) <= PendingCap
  <2>1. CASE q \in S
    BY <1>1, <2>1
  <2>2. CASE q \notin S
    BY Zenon, <2>2 DEF TypeOK
  <2> QED
    BY Zenon, <2>1, <2>2
<1> QED
  BY Zenon, <1>2

LEMMA RemoveClientType ==
    ASSUME TypeOK, NEW c \in Client, RemoveClient(c)
    PROVE  /\ clients' \subseteq Client /\ relayAddrs' \subseteq Client
           /\ pending' \subseteq Request /\ pairs' \subseteq Request /\ trans' \subseteq Request
           /\ packets' \in [Pair -> Seq(1..MaxPackets)]
           /\ \A q \in Pair : Len(packets'[q]) <= PendingCap
           /\ transmits' \in [Client -> Seq(Message)]
           /\ events' \in [Client -> Seq(Event)]
           /\ excused' \subseteq Pair
<1>1. packets' \in [Pair -> Seq(1..MaxPackets)] /\ \A q \in Pair : Len(packets'[q]) <= PendingCap
  <2>1. CASE c \in relayAddrs
    <3> DEFINE S == {q \in Pair : q.relay = c}
    <3>1. packets' = [q \in Pair |-> IF q \in S THEN << >> ELSE packets[q]]
      BY Zenon, <2>1 DEF RemoveClient, DropRelay
    <3> QED
      BY Zenon, <3>1, EmptiedType
  <2>2. CASE c \notin relayAddrs
    BY Zenon, <2>2 DEF TypeOK, RemoveClient
  <2> QED
    BY Zenon, <2>1, <2>2
<1>2. transmits' \in [Client -> Seq(Message)] /\ events' \in [Client -> Seq(Event)]
  BY DEF TypeOK, RemoveClient
<1> QED
  BY ZenonT(40), <1>1, <1>2 DEF TypeOK, RemoveClient, DropRelay

LEMMA WriteFailsType ==
    ASSUME TypeOK, NEW c \in Client, WriteFails(c)
    PROVE  TypeOK'
<1>1. wouts' \in [Client -> Seq(Message)]
  BY Zenon, WoutsTail DEF WriteFails
<1> QED
  BY Zenon, <1>1, RemoveClientType DEF TypeOK, WriteFails, counts, hist

LEMMA HandsOverType ==
    ASSUME TypeOK, NEW c \in Client, NEW p \in Peer, HandsOver(c, p)
    PROVE  /\ lastPacket' \in 0..MaxPackets /\ lastPacket + 1 \in 1..MaxPackets
           /\ At(c, p) \in Pair
           /\ handed' \in [Pair -> SUBSET (1..MaxPackets)]
<1>1. lastPacket' \in 0..MaxPackets /\ lastPacket + 1 \in 1..MaxPackets /\ At(c, p) \in Pair
  BY DEF TypeOK, HandsOver, At, Pair
<1> QED
  BY Zenon, <1>1 DEF TypeOK, HandsOver

LEMMA BufferPacketType ==
    ASSUME TypeOK, NEW q \in Pair, NEW n \in 1..MaxPackets, BufferPacket(q, n)
    PROVE  /\ packets' \in [Pair -> Seq(1..MaxPackets)]
           /\ \A x \in Pair : Len(packets'[x]) <= PendingCap
           /\ waited' \subseteq 1..MaxPackets /\ excused' \subseteq Pair
<1>1. /\ packets[q] \in Seq(1..MaxPackets)
      /\ Len(packets[q]) >= PendingCap => packets[q] # << >>
  BY DEF TypeOK
<1> DEFINE kept == IF Len(packets[q]) >= PendingCap THEN Tail(packets[q]) ELSE packets[q]
<1>2. kept \in Seq(1..MaxPackets) /\ Len(kept) < PendingCap
  <2>1. CASE Len(packets[q]) >= PendingCap
    <3>1. Tail(packets[q]) \in Seq(1..MaxPackets) /\ Len(Tail(packets[q])) = Len(packets[q]) - 1
      <4>1. packets[q] \in Seq(1..MaxPackets) /\ packets[q] # << >>
        BY Zenon, <1>1, <2>1
      <4> QED
        BY Zenon, <4>1, Taken
    <3>2. Len(packets[q]) <= PendingCap /\ Len(packets[q]) \in Nat
      BY <1>1 DEF TypeOK
    <3>3. kept = Tail(packets[q])
      BY Zenon, <2>1
    <3> HIDE DEF kept
    <3> QED
      BY <3>1, <3>2, <3>3
  <2>2. CASE ~ (Len(packets[q]) >= PendingCap)
    BY <1>1, <2>2
  <2> QED
    BY Zenon, <2>1, <2>2
<1>3. Append(kept, n) \in Seq(1..MaxPackets) /\ Len(Append(kept, n)) <= PendingCap
  BY <1>2
<1>4. packets' = [packets EXCEPT ![q] = Append(kept, n)]
  BY Zenon DEF BufferPacket
<1> HIDE DEF kept
<1>5. packets' \in [Pair -> Seq(1..MaxPackets)] /\ \A x \in Pair : Len(packets'[x]) <= PendingCap
  BY Zenon, <1>3, <1>4 DEF TypeOK
<1> QED
  BY Zenon, <1>5 DEF TypeOK, BufferPacket

LEMMA SendDirectType ==
    ASSUME TypeOK, NEW c \in Client, NEW p \in Peer, SendDirect(c, p)
    PROVE  TypeOK'
<1>1. HandsOver(c, p)
  BY Zenon DEF SendDirect
<1>2. Data(p, lastPacket + 1) \in Message
  BY Zenon, <1>1, HandsOverType DEF Data, Message
<1>3. transmits' \in [Client -> Seq(Message)]
  BY <1>2 DEF TypeOK, SendDirect
<1> QED
  BY Zenon, <1>1, <1>3, HandsOverType DEF TypeOK, SendDirect, relayer

LEMMA SendWhilePendingType ==
    ASSUME TypeOK, NEW c \in Client, NEW p \in Peer, SendWhilePending(c, p)
    PROVE  TypeOK'
<1>1. HandsOver(c, p) /\ BufferPacket(At(c, p), lastPacket + 1)
  BY Zenon DEF SendWhilePending
<1> QED
  BY Zenon, <1>1, HandsOverType, BufferPacketType DEF TypeOK, SendWhilePending, turn

LEMMA SendAndRequestType ==
    ASSUME TypeOK, NEW c \in Client, NEW p \in Peer, SendAndRequest(c, p)
    PROVE  TypeOK'
<1>1. HandsOver(c, p) /\ BufferPacket(At(c, p), lastPacket + 1)
  BY Zenon DEF SendAndRequest
<1>2. /\ [tid |-> lastTid + 1, relay |-> c, peer |-> p] \in Request
      /\ [kind |-> "request", peer |-> p, id |-> lastTid + 1] \in Message
      /\ lastTid' \in 0..MaxTids
  BY DEF TypeOK, SendAndRequest, Request, Message
<1>3. transmits' \in [Client -> Seq(Message)]
  BY <1>2 DEF TypeOK, SendAndRequest
<1>4. perm' \in [Pair -> {"none", "idle", "permitted"}]
  BY Zenon, <1>1, HandsOverType DEF TypeOK, SendAndRequest
<1> QED
  BY Zenon, <1>1, <1>2, <1>3, <1>4, HandsOverType, BufferPacketType DEF TypeOK, SendAndRequest

\* What the next event of a client is.
LEMMA TakesType ==
    ASSUME TypeOK, NEW c \in Client, NEW k, Takes(c, k)
    PROVE  /\ events' \in [Client -> Seq(Event)]
           /\ Head(events[c]) \in Event /\ Head(events[c]).peer \in Peer
           /\ Head(events[c]) = events[c][1] /\ 1 \in DOMAIN events[c]
<1>1. events[c] \in Seq(Event) /\ events[c] # << >>
  BY Zenon DEF TypeOK, Takes
<1>2. Head(events[c]) \in Event /\ Tail(events[c]) \in Seq(Event)
      /\ Head(events[c]) = events[c][1] /\ 1 \in DOMAIN events[c]
  BY <1>1
<1>3. Head(events[c]).peer \in Peer
  BY Zenon, <1>2 DEF Event
<1>4. events' \in [Client -> Seq(Event)]
  BY Zenon, <1>2 DEF TypeOK, Takes
<1> QED
  BY Zenon, <1>2, <1>3, <1>4

LEMMA PollAllocatedType ==
    ASSUME TypeOK, NEW c \in Client, PollAllocated(c)
    PROVE  TypeOK'
<1>1. events' \in [Client -> Seq(Event)]
  BY Zenon, TakesType DEF PollAllocated
<1> QED
  BY Zenon, <1>1 DEF TypeOK, PollAllocated, counts, hist

LEMMA PollDataType ==
    ASSUME TypeOK, Held, NEW c \in Client, PollData(c)
    PROVE  TypeOK'
<1>1. Takes(c, "data") /\ events' \in [Client -> Seq(Event)]
  BY Zenon, TakesType DEF PollData
<1>2. Head(events[c]).id \in 1..MaxData
  BY Zenon, <1>1, TakesType DEF Held, Takes
<1>3. routs' \in [Client -> Seq(1..MaxData)]
  BY <1>2 DEF TypeOK, PollData
<1> QED
  BY Zenon, <1>1, <1>3 DEF TypeOK, PollData, relayer, counts, hist

LEMMA FlushType ==
    ASSUME TypeOK, NEW q \in Pair, Flush(q)
    PROVE  /\ transmits' \in [Client -> Seq(Message)]
           /\ packets' \in [Pair -> Seq(1..MaxPackets)]
           /\ \A x \in Pair : Len(packets'[x]) <= PendingCap
           /\ excused' \subseteq Pair
<1>1. q.relay \in Client /\ q.peer \in Peer /\ packets[q] \in Seq(1..MaxPackets)
  BY Zenon DEF TypeOK, Pair
<1>2. CASE perm[q] = "permitted"
  <2> DEFINE out == [i \in DOMAIN packets[q] |-> Data(q.peer, packets[q][i])]
  <2>1. out \in Seq(Message)
    BY SMTT(20), <1>1 DEF Data, Message
  <2>2. transmits' = [transmits EXCEPT ![q.relay] = @ \o out]
    BY Zenon, <1>2 DEF Flush
  <2> HIDE DEF out
  <2>3. transmits' \in [Client -> Seq(Message)]
    BY <1>1, <2>1, <2>2 DEF TypeOK
  <2>4. packets' = [packets EXCEPT ![q] = << >>] /\ excused' = excused
    BY Zenon, <1>2 DEF Flush
  <2> QED
    BY <2>3, <2>4 DEF TypeOK
<1>3. CASE perm[q] # "permitted"
  <2> DEFINE kept == IF packets[q] = << >> THEN packets[q] ELSE <<Head(packets[q])>>
  <2>1. kept \in Seq(1..MaxPackets) /\ Len(kept) <= PendingCap
    <3>1. CASE packets[q] = << >>
      BY Zenon, <3>1, <1>1 DEF TypeOK
    <3>2. CASE packets[q] # << >>
      <4>1. Head(packets[q]) \in 1..MaxPackets
        BY <1>1, <3>2
      <4> QED
        BY <3>2, <4>1
    <3> QED
      BY Zenon, <3>1, <3>2
  <2>2. packets' = [packets EXCEPT ![q] = kept] /\ excused' = excused \cup {q} /\ transmits' = transmits
    BY Zenon, <1>3 DEF Flush
  <2> HIDE DEF kept
  <2> QED
    BY Zenon, <2>1, <2>2 DEF TypeOK
<1> QED
  BY Zenon, <1>2, <1>3

LEMMA PollGrantedType ==
    ASSUME TypeOK, NEW c \in Client, PollGranted(c)
    PROVE  TypeOK'
<1>1. Takes(c, "granted")
  BY Zenon DEF PollGranted
<1>2. events' \in [Client -> Seq(Event)] /\ At(c, Head(events[c]).peer) \in Pair
  BY Zenon, <1>1, TakesType DEF At, Pair
<1>3. pending' \subseteq Request /\ pairs' \subseteq Request
  BY Zenon DEF TypeOK, PollGranted, Forget
<1>4. /\ transmits' \in [Client -> Seq(Message)]
      /\ packets' \in [Pair -> Seq(1..MaxPackets)]
      /\ \A x \in Pair : Len(packets'[x]) <= PendingCap
      /\ excused' \subseteq Pair
  <2>1. CASE Answered(Head(events[c])) # {}
    BY Zenon, <1>2, <2>1, FlushType DEF PollGranted
  <2>2. CASE Answered(Head(events[c])) = {}
    BY Zenon, <2>2 DEF TypeOK, PollGranted
  <2> QED
    BY Zenon, <2>1, <2>2
<1> QED
  BY Zenon, <1>2, <1>3, <1>4 DEF TypeOK, PollGranted, counts, hist

LEMMA PollFailedType ==
    ASSUME TypeOK, NEW c \in Client, PollFailed(c)
    PROVE  TypeOK'
<1>1. events' \in [Client -> Seq(Event)]
  BY Zenon, TakesType DEF PollFailed
<1>2. pending' \subseteq Request /\ pairs' \subseteq Request
  BY Zenon DEF TypeOK, PollFailed, Forget
<1> DEFINE dropped == {Of(r) : r \in Answered(Head(events[c]))}
<1>3. dropped \subseteq Pair
  BY SMTT(20) DEF TypeOK, Answered, Request, Of, At, Pair
<1>4. /\ packets' = [q \in Pair |-> IF q \in dropped THEN << >> ELSE packets[q]]
      /\ excused' = excused \cup dropped
  BY Zenon DEF PollFailed
<1> HIDE DEF dropped
<1>5. /\ packets' \in [Pair -> Seq(1..MaxPackets)]
      /\ \A x \in Pair : Len(packets'[x]) <= PendingCap
      /\ excused' \subseteq Pair
  BY Zenon, <1>3, <1>4, EmptiedType DEF TypeOK
<1> QED
  BY Zenon, <1>1, <1>2, <1>5 DEF TypeOK, PollFailed, counts, hist

LEMMA CloseType == TypeOK /\ Close => TypeOK'
BY SMTT(30) DEF TypeOK, Close, counts, hist

-----------------------------------------------------------------------------
(* Steps.                                                                   *)

\* Steps that leave the tables, the queues and the events as they are.
LEMMA FrameStep ==
    ASSUME IInv, TypeOK',
           UNCHANGED <<clients, relayAddrs, pending, pairs, packets, trans, events, perm, lastTid>>
    PROVE  IInv'
BY DEF IInv, Held, Tables, Waits, Answers, AnsweredOnce, NoneForgotten, IsAnswer, Of, At

\* An event that is no answer is added to those of a client.
LEMMA EventAddedStep ==
    ASSUME IInv, TypeOK', NEW c \in clients, NEW e \in Event,
           ~ IsAnswer(e), e.kind = "data" => e.id \in 1..MaxData,
           events' = [events EXCEPT ![c] = Append(@, e)],
           UNCHANGED <<clients, relayAddrs, pending, pairs, packets, trans, perm, lastTid>>
    PROVE  IInv'
<1> USE DEF IInv
<1>1. c \in Client /\ events[c] \in Seq(Event)
  BY Zenon DEF TypeOK
<1>2. /\ \A d \in Client \ {c} : events'[d] = events[d]
      /\ DOMAIN events'[c] = 1..(Len(events[c]) + 1) /\ DOMAIN events[c] = 1..Len(events[c])
      /\ \A i \in 1..Len(events[c]) : events'[c][i] = events[c][i]
      /\ events'[c][Len(events[c]) + 1] = e
  BY <1>1 DEF TypeOK
<1>3. Held'
  BY <1>1, <1>2 DEF Held
<1>4. Tables' /\ Waits'
  BY Zenon DEF Tables, Waits, Of, At
<1>5. Answers'
  BY <1>1, <1>2 DEF Answers, IsAnswer, Of, At
<1>6. AnsweredOnce'
  BY SMTT(30), <1>1, <1>2 DEF AnsweredOnce, IsAnswer
<1>7. NoneForgotten'
  BY <1>1, <1>2 DEF NoneForgotten, IsAnswer
<1> QED
  BY Zenon, <1>3, <1>4, <1>5, <1>6, <1>7

\* A transaction ends and its answer is queued.
LEMMA OutcomeStep ==
    ASSUME IInv, NEW r \in trans, NEW k \in {"granted", "refused", "timeout"}, Outcome(r, k)
    PROVE  IInv'
<1> USE DEF IInv
<1> DEFINE e == [kind |-> k, peer |-> r.peer, id |-> r.tid]
           c == r.relay
<1>0. TypeOK'
  BY Zenon, OutcomeType
<1>1. r \in pending /\ c \in Client /\ c \in clients /\ events[c] \in Seq(Event)
  BY ZenonT(40) DEF Tables, TypeOK, Request, Outcome
<1>2. /\ \A d \in Client \ {c} : events'[d] = events[d]
      /\ DOMAIN events'[c] = 1..(Len(events[c]) + 1) /\ DOMAIN events[c] = 1..Len(events[c])
      /\ \A i \in 1..Len(events[c]) : events'[c][i] = events[c][i]
      /\ events'[c][Len(events[c]) + 1] = e
      /\ Len(events[c]) \in Nat
  BY <1>1 DEF TypeOK, Outcome
<1>3. /\ trans' = trans \ {r}
      /\ UNCHANGED <<clients, relayAddrs, pending, pairs, packets, lastTid>>
  BY Zenon DEF Outcome, relayer, counts
<1>4. IsAnswer(e) /\ e.kind = k /\ e.peer = r.peer /\ e.id = r.tid
  BY Zenon DEF IsAnswer
<1> HIDE DEF e, c
<1>n. \A d \in Client : \A i \in DOMAIN events'[d] :
         \/ d = c /\ i = Len(events[c]) + 1 /\ events'[d][i] = e
         \/ i \in DOMAIN events[d] /\ events'[d][i] = events[d][i]
  BY SMTT(20), <1>1, <1>2
<1>5. Held'
  <2>1. \A d \in Client : events'[d] # << >> => d \in clients'
    BY Zenon, <1>1, <1>2, <1>3 DEF Held
  <2>2. \A d \in Client : \A i \in DOMAIN events'[d] :
           events'[d][i].kind = "data" => events'[d][i].id \in 1..MaxData
    BY Zenon, <1>n, <1>4 DEF Held, IsAnswer
  <2> QED
    BY Zenon, <1>3, <2>1, <2>2 DEF Held
<1>6. Tables' /\ Waits'
  BY Zenon, <1>3 DEF Tables, Waits, Of, At
\* No other answer is that of r, nor of r's pair.
<1>7. \A d \in Client : \A i \in DOMAIN events[d] : IsAnswer(events[d][i]) =>
          \E x \in pending \ trans :
              /\ x # r /\ Of(x) # Of(r) /\ x.tid # r.tid
              /\ x.relay = d /\ x.peer = events[d][i].peer /\ x.tid = events[d][i].id
              /\ events[d][i].kind = "granted" => perm[Of(x)] = "permitted"
  BY <1>1 DEF Answers, Tables
<1>8. \A x \in pending : Of(x) # Of(r) => perm'[Of(x)] = perm[Of(x)]
  BY Zenon DEF Outcome, TypeOK, Request, Of, At, Pair
<1>9. k = "granted" => perm'[Of(r)] = "permitted"
  BY Zenon, <1>1 DEF Outcome, TypeOK, Request, Of, At, Pair
<1>10. Answers'
  <2> SUFFICES ASSUME NEW d \in Client, NEW i \in DOMAIN events'[d], IsAnswer(events'[d][i])
               PROVE  \E x \in pending' \ trans' :
                        /\ x.relay = d /\ x.peer = events'[d][i].peer /\ x.tid = events'[d][i].id
                        /\ events'[d][i].kind = "granted" => perm'[Of(x)] = "permitted"
    BY Zenon DEF Answers, IsAnswer, Of, At
  <2>1. CASE d = c /\ i = Len(events[c]) + 1
    BY Zenon, <1>1, <1>2, <1>3, <1>4, <1>9, <2>1 DEF c
  <2>2. CASE ~ (d = c /\ i = Len(events[c]) + 1)
    <3>1. i \in DOMAIN events[d] /\ events'[d][i] = events[d][i]
      BY <1>2, <2>2
    <3> QED
      BY <1>3, <1>7, <1>8, <3>1
  <2> QED
    BY Zenon, <2>1, <2>2
<1>11. AnsweredOnce'
  <2>1. \A i \in DOMAIN events[c] : IsAnswer(events[c][i]) => events[c][i].id # r.tid
    BY <1>1, <1>7
  <2> QED
    <3> SUFFICES ASSUME NEW d \in Client, NEW i \in DOMAIN events'[d], NEW j \in DOMAIN events'[d],
                        IsAnswer(events'[d][i]), IsAnswer(events'[d][j]),
                        events'[d][i].id = events'[d][j].id
                 PROVE  i = j
      BY Zenon DEF AnsweredOnce, IsAnswer
    <3> QED
      BY <1>n, <1>4, <2>1 DEF AnsweredOnce
<1>12. NoneForgotten'
  <2> SUFFICES ASSUME NEW x \in pending \ trans'
               PROVE  \E i \in DOMAIN events'[x.relay] :
                          IsAnswer(events'[x.relay][i]) /\ events'[x.relay][i].id = x.tid
    BY Zenon, <1>3 DEF NoneForgotten, IsAnswer
  <2>1. CASE x = r
    BY <1>2, <1>4, <2>1 DEF c
  <2>2. CASE x # r
    <3>1. PICK i \in DOMAIN events[x.relay] :
              IsAnswer(events[x.relay][i]) /\ events[x.relay][i].id = x.tid
      BY Zenon, <1>3, <2>2 DEF NoneForgotten
    <3>2. x.relay \in Client
      BY Zenon DEF TypeOK, Request
    <3> QED
      BY <1>2, <3>1, <3>2
  <2> QED
    BY Zenon, <2>1, <2>2
<1> QED
  BY Zenon, <1>0, <1>5, <1>6, <1>10, <1>11, <1>12

\* An event that is no answer is taken.
LEMMA EventTakenStep ==
    ASSUME IInv, TypeOK', NEW c \in Client, events[c] # << >>, ~ IsAnswer(Head(events[c])),
           events' = [events EXCEPT ![c] = Tail(@)],
           relayAddrs \subseteq relayAddrs', relayAddrs' \subseteq clients,
           UNCHANGED <<clients, pending, pairs, packets, trans, perm, lastTid>>
    PROVE  IInv'
<1> USE DEF IInv
<1>1. events[c] \in Seq(Event) /\ Head(events[c]) = events[c][1]
  BY DEF TypeOK
<1>2. /\ \A d \in Client \ {c} : events'[d] = events[d]
      /\ DOMAIN events'[c] = 1..(Len(events[c]) - 1) /\ DOMAIN events[c] = 1..Len(events[c])
      /\ \A i \in 1..(Len(events[c]) - 1) : events'[c][i] = events[c][i + 1]
      /\ Len(events[c]) \in Nat \ {0}
  BY <1>1 DEF TypeOK
<1>3. \A d \in Client : \A i \in DOMAIN events'[d] : \E j \in DOMAIN events[d] :
         events'[d][i] = events[d][j] /\ (d = c => j = i + 1) /\ (d # c => j = i)
  BY <1>2
<1>4. Held'
  <2>1. \A d \in Client : events'[d] # << >> => d \in clients'
    BY Zenon, <1>1, <1>2 DEF Held
  <2> QED
    BY <1>3, <2>1 DEF Held
<1>5. Tables' /\ Waits'
  BY ZenonT(40) DEF Tables, Waits, Of, At
<1>6. Answers'
  BY <1>3 DEF Answers, IsAnswer, Of, At
<1>7. AnsweredOnce'
  BY SMTT(30), <1>2 DEF AnsweredOnce, IsAnswer
<1>8. NoneForgotten'
  <2> SUFFICES ASSUME NEW x \in pending \ trans
               PROVE  \E i \in DOMAIN events'[x.relay] :
                          IsAnswer(events'[x.relay][i]) /\ events'[x.relay][i].id = x.tid
    BY Zenon DEF NoneForgotten, IsAnswer
  <2>1. PICK i \in DOMAIN events[x.relay] :
            IsAnswer(events[x.relay][i]) /\ events[x.relay][i].id = x.tid
    BY Zenon DEF NoneForgotten
  <2>2. x.relay \in Client
    BY Zenon DEF TypeOK, Request
  <2>3. CASE x.relay = c
    <3>1. i # 1
      BY Zenon, <1>1, <2>1, <2>3
    <3>2. i - 1 \in DOMAIN events'[c] /\ events'[c][i - 1] = events[c][i]
      BY <1>2, <2>1, <2>3, <3>1
    <3> QED
      BY Zenon, <2>1, <2>3, <3>2
  <2>4. CASE x.relay # c
    BY Zenon, <1>2, <2>1, <2>2, <2>4
  <2> QED
    BY Zenon, <2>3, <2>4
<1> QED
  BY Zenon, <1>4, <1>5, <1>6, <1>7, <1>8

\* The answer to a request is polled: the request is forgotten, and nothing is
\* left that waits for it.
LEMMA AnswerTakenStep ==
    ASSUME IInv, TypeOK', NEW c \in Client, events[c] # << >>, IsAnswer(Head(events[c])),
           events' = [events EXCEPT ![c] = Tail(@)], Forget(Head(events[c])),
           \A q \in Pair : packets'[q] # << >> => packets[q] # << >> /\ q # At(c, Head(events[c]).peer),
           UNCHANGED <<clients, relayAddrs, trans, perm, lastTid>>
    PROVE  IInv'
<1> USE DEF IInv
<1> DEFINE e == Head(events[c])
<1>1. events[c] \in Seq(Event) /\ e = events[c][1] /\ 1 \in DOMAIN events[c]
  BY SMTT(30) DEF TypeOK
<1>2. /\ \A d \in Client \ {c} : events'[d] = events[d]
      /\ DOMAIN events'[c] = 1..(Len(events[c]) - 1) /\ DOMAIN events[c] = 1..Len(events[c])
      /\ \A i \in 1..(Len(events[c]) - 1) : events'[c][i] = events[c][i + 1]
      /\ Len(events[c]) \in Nat \ {0}
  BY <1>1 DEF TypeOK
<1>3. \A d \in Client : \A i \in DOMAIN events'[d] : \E j \in DOMAIN events[d] :
         events'[d][i] = events[d][j] /\ (d = c => j = i + 1) /\ (d # c => j = i)
  BY <1>2
<1>4. PICK r \in pending \ trans : r.relay = c /\ r.peer = e.peer /\ r.tid = e.id
  BY <1>1 DEF Answers
<1>5. Answered(e) = {r}
  BY ZenonT(40), <1>4 DEF Answered, Tables
<1>6. pending' = pending \ {r} /\ pairs' = pending \ {r}
  <2>1. pending' = pending \ {r} /\ pairs' = {x \in pairs : Of(r) # Of(x)}
    BY Zenon, <1>5 DEF Forget
  <2> QED
    BY Zenon, <1>4, <2>1 DEF Tables
<1>7. Of(r) = At(c, e.peer)
  BY Zenon, <1>4 DEF Of
<1>8. Held'
  <2>1. \A d \in Client : events'[d] # << >> => d \in clients'
    BY Zenon, <1>1, <1>2 DEF Held
  <2> QED
    BY <1>3, <2>1 DEF Held
<1>9. Tables'
  BY <1>4, <1>6 DEF Tables, Of, At
<1>10. Waits'
  BY ZenonT(40), <1>6, <1>7 DEF Waits, Of, At
\* No other answer is that of r.
<1>11. \A d \in Client : \A i \in DOMAIN events'[d] : IsAnswer(events'[d][i]) => events'[d][i].id # r.tid
  <2> SUFFICES ASSUME NEW d \in Client, NEW i \in DOMAIN events'[d], IsAnswer(events'[d][i]),
                      events'[d][i].id = r.tid
               PROVE  FALSE
    BY Zenon
  <2>1. PICK j \in DOMAIN events[d] :
            events'[d][i] = events[d][j] /\ (d = c => j = i + 1) /\ (d # c => j = i)
    BY ZenonT(40), <1>3
  <2>2. d = c
    BY SMTT(20), <1>4, <2>1 DEF Answers, Tables
  <2>3. j = 1
    BY <1>1, <1>4, <2>1, <2>2 DEF AnsweredOnce
  <2> QED
    BY <1>2, <2>1, <2>2, <2>3
<1>12. Answers'
  <2> SUFFICES ASSUME NEW d \in Client, NEW i \in DOMAIN events'[d], IsAnswer(events'[d][i])
               PROVE  \E x \in pending' \ trans' :
                        /\ x.relay = d /\ x.peer = events'[d][i].peer /\ x.tid = events'[d][i].id
                        /\ events'[d][i].kind = "granted" => perm'[Of(x)] = "permitted"
    BY Zenon DEF Answers, IsAnswer, Of, At
  <2>1. PICK j \in DOMAIN events[d] : events'[d][i] = events[d][j]
    BY ZenonT(40), <1>3
  <2>2. PICK x \in pending \ trans :
                        /\ x.relay = d /\ x.peer = events[d][j].peer /\ x.tid = events[d][j].id
                        /\ events[d][j].kind = "granted" => perm[Of(x)] = "permitted"
    BY <2>1 DEF Answers
  <2>3. x # r
    BY Zenon, <1>11, <2>1, <2>2
  <2> QED
    BY Zenon, <1>6, <2>1, <2>2, <2>3
<1>13. AnsweredOnce'
  <2> SUFFICES ASSUME NEW d \in Client, NEW i \in DOMAIN events'[d], NEW j \in DOMAIN events'[d],
                      IsAnswer(events'[d][i]), IsAnswer(events'[d][j]),
                      events'[d][i].id = events'[d][j].id
               PROVE  i = j
    BY Zenon DEF AnsweredOnce, IsAnswer
  <2>1. CASE d = c
    <3>1. /\ i + 1 \in DOMAIN events[c] /\ events'[c][i] = events[c][i + 1]
          /\ j + 1 \in DOMAIN events[c] /\ events'[c][j] = events[c][j + 1]
          /\ i \in Nat /\ j \in Nat
      BY <1>2, <2>1
    <3>2. i + 1 = j + 1
      BY ZenonT(40), <2>1, <3>1 DEF AnsweredOnce
    <3> QED
      BY SMTT(30), <3>1, <3>2
  <2>2. CASE d # c
    BY Zenon, <1>2, <2>2 DEF AnsweredOnce
  <2> QED
    BY Zenon, <2>1, <2>2
<1>14. NoneForgotten'
  <2> SUFFICES ASSUME NEW x \in pending \ trans, x # r
               PROVE  \E i \in DOMAIN events'[x.relay] :
                          IsAnswer(events'[x.relay][i]) /\ events'[x.relay][i].id = x.tid
    BY Zenon, <1>6 DEF NoneForgotten, IsAnswer
  <2>1. PICK i \in DOMAIN events[x.relay] :
            IsAnswer(events[x.relay][i]) /\ events[x.relay][i].id = x.tid
    BY Zenon DEF NoneForgotten
  <2>2. x.relay \in Client /\ x.tid # r.tid
    BY Zenon, <1>4 DEF TypeOK, Request, Tables
  <2>3. CASE x.relay = c
    <3>1. i # 1
      BY ZenonT(40), <1>1, <1>4, <2>1, <2>2, <2>3
    <3>2. i - 1 \in DOMAIN events'[c] /\ events'[c][i - 1] = events[c][i]
      BY <1>2, <2>1, <2>3, <3>1
    <3> QED
      BY Zenon, <2>1, <2>3, <3>2
  <2>4. CASE x.relay # c
    BY Zenon, <1>2, <2>1, <2>2, <2>4
  <2> QED
    BY Zenon, <2>3, <2>4
<1> QED
  BY ZenonT(40), <1>8, <1>9, <1>10, <1>12, <1>13, <1>14

\* A client is removed with all it holds.
LEMMA RemoveClientStep ==
    ASSUME IInv, TypeOK', NEW c \in Client, RemoveClient(c), UNCHANGED <<perm, lastTid>>
    PROVE  IInv'
<1> USE DEF IInv
<1>1. /\ pending' = {r \in pending : r.relay # c} /\ pairs' = {r \in pairs : r.relay # c}
      /\ relayAddrs' = relayAddrs \ {c}
      /\ \A q \in Pair : packets'[q] # << >> => packets[q] # << >> /\ q.relay # c
  <2>1. CASE c \in relayAddrs
    BY Zenon, <2>1 DEF RemoveClient, DropRelay
  <2>2. CASE c \notin relayAddrs
    <3>1. UNCHANGED <<relayAddrs, packets, pending, pairs>>
      BY Zenon, <2>2 DEF RemoveClient
    <3>2. \A r \in pending : r.relay # c
      BY Zenon, <2>2 DEF Tables
    <3>3. \A q \in Pair : packets[q] # << >> => q.relay # c
      BY <3>2 DEF Waits, Of, At
    <3> QED
      BY Zenon, <2>2, <3>1, <3>2, <3>3 DEF Tables
  <2> QED
    BY Zenon, <2>1, <2>2
<1>2. /\ clients' = clients \ {c} /\ trans' = {r \in trans : r.relay # c}
      /\ events' = [events EXCEPT ![c] = << >>]
  BY Zenon DEF RemoveClient
<1>3. events'[c] = << >> /\ DOMAIN events'[c] = {} /\ \A d \in Client \ {c} : events'[d] = events[d]
  BY <1>2 DEF TypeOK
<1>4. Held'
  BY Zenon, <1>1, <1>2, <1>3 DEF Held
<1>5. Tables'
  BY <1>1, <1>2 DEF Tables, Of, At
<1>6. Waits'
  BY ZenonT(40), <1>1 DEF Waits, Of, At
<1>7. Answers'
  BY <1>1, <1>2, <1>3 DEF Answers, IsAnswer, Of, At
<1>8. AnsweredOnce'
  BY Zenon, <1>3 DEF AnsweredOnce, IsAnswer
<1>9. NoneForgotten'
  <2> SUFFICES ASSUME NEW x \in pending \ trans, x.relay # c
               PROVE  \E i \in DOMAIN events'[x.relay] :
                          IsAnswer(events'[x.relay][i]) /\ events'[x.relay][i].id = x.tid
    BY Zenon, <1>1, <1>2 DEF NoneForgotten, IsAnswer
  <2>1. events'[x.relay] = events[x.relay]
    BY Zenon, <1>3 DEF TypeOK, Request
  <2> QED
    BY Zenon, <2>1 DEF NoneForgotten
<1> QED
  BY Zenon, <1>4, <1>5, <1>6, <1>7, <1>8, <1>9

\* A packet is buffered behind a request that is there already.
LEMMA SendWhilePendingStep ==
    ASSUME IInv, NEW c \in Client, NEW p \in Peer, SendWhilePending(c, p)
    PROVE  IInv'
<1> USE DEF IInv
<1>1. TypeOK'
  BY Zenon, SendWhilePendingType
<1>2. UNCHANGED <<clients, relayAddrs, pending, pairs, trans, events, perm, lastTid>>
  BY Zenon DEF SendWhilePending, turn
<1>3. \A q \in Pair : packets'[q] # << >> => packets[q] # << >> \/ q = At(c, p)
  BY Zenon DEF SendWhilePending, BufferPacket, TypeOK
<1>4. \E r \in pending : Of(r) = At(c, p)
  BY Zenon DEF SendWhilePending, Asked, Tables
<1>5. Waits'
  BY Zenon, <1>2, <1>3, <1>4 DEF Waits, Of, At
<1>6. Held' /\ Tables'
  BY ZenonT(40), <1>2 DEF Held, Tables, Of, At
<1>7. Answers' /\ AnsweredOnce' /\ NoneForgotten'
  BY <1>2 DEF Answers, AnsweredOnce, NoneForgotten, IsAnswer, Of, At
<1> QED
  BY Zenon, <1>1, <1>5, <1>6, <1>7

\* A permission is requested.
LEMMA SendAndRequestStep ==
    ASSUME IInv, NEW c \in Client, NEW p \in Peer, SendAndRequest(c, p)
    PROVE  IInv'
<1> USE DEF IInv
<1> DEFINE r == [tid |-> lastTid + 1, relay |-> c, peer |-> p]
<1>1. TypeOK'
  BY Zenon, SendAndRequestType
<1>2. /\ UNCHANGED <<clients, relayAddrs, events>>
      /\ lastTid' = lastTid + 1 /\ lastTid \in Nat
      /\ trans' = trans \cup {r} /\ pending' = pending \cup {r} /\ pairs' = pairs \cup {r}
      /\ c \in relayAddrs
      /\ perm' = [perm EXCEPT ![At(c, p)] = "idle"]
  BY DEF SendAndRequest, HandsOver, TypeOK
<1>3. r.tid = lastTid + 1 /\ r.relay = c /\ Of(r) = At(c, p)
  BY ZenonT(40) DEF Of
<1> HIDE DEF r
<1>4. \A x \in pending : Of(x) # At(c, p) /\ x.tid \in Nat
  BY DEF SendAndRequest, Asked, Tables, TypeOK, Request
<1>5. Tables'
  <2>1. trans' \subseteq pending' /\ pending' = pairs'
    BY Zenon, <1>2 DEF Tables
  <2>2. \A x \in pending' : x.tid <= lastTid' /\ x.relay \in relayAddrs'
    BY <1>2, <1>3, <1>4 DEF Tables
  <2>3. ASSUME NEW x \in pending, Of(x) = Of(r) \/ x.tid = r.tid PROVE FALSE
    BY <1>2, <1>3, <1>4, <2>3 DEF Tables
  <2>4. \A x, y \in pending' : Of(x) = Of(y) \/ x.tid = y.tid => x = y
    BY ZenonT(40), <1>2, <2>3 DEF Tables
  <2> QED
    BY Zenon, <2>1, <2>2, <2>4 DEF Tables, Of, At
<1>6. Held'
  BY Zenon, <1>2 DEF Held
<1>7. Waits'
  <2>1. \A q \in Pair : packets'[q] # << >> => packets[q] # << >> \/ q = At(c, p)
    BY Zenon DEF SendAndRequest, BufferPacket, TypeOK
  <2> QED
    BY Zenon, <1>2, <1>3, <2>1 DEF Waits, Of, At
<1>8. \A x \in pending : perm'[Of(x)] = perm[Of(x)] /\ x # r
  <2>1. \A x \in pending : Of(x) \in Pair
    BY ZenonT(40) DEF TypeOK, Request, Of, At, Pair
  <2> QED
    BY Zenon, <1>2, <1>3, <1>4, <2>1 DEF TypeOK
<1>9. Answers'
  <2> SUFFICES ASSUME NEW d \in Client, NEW i \in DOMAIN events[d], IsAnswer(events[d][i])
               PROVE  \E x \in pending' \ trans' :
                        /\ x.relay = d /\ x.peer = events[d][i].peer /\ x.tid = events[d][i].id
                        /\ events[d][i].kind = "granted" => perm'[Of(x)] = "permitted"
    BY <1>2 DEF Answers, IsAnswer, Of, At
  <2> QED
    BY SMTT(30), <1>2, <1>8 DEF Answers
<1>10. AnsweredOnce' /\ NoneForgotten'
  BY Zenon, <1>2 DEF AnsweredOnce, NoneForgotten, IsAnswer
<1> QED
  BY ZenonT(40), <1>1, <1>5, <1>6, <1>7, <1>9, <1>10

LEMMA CloseStep == IInv /\ Close => IInv'
<1> SUFFICES ASSUME IInv, Close PROVE IInv'
  BY Zenon
<1>1. TypeOK'
  BY Zenon, CloseType DEF IInv
<1>2. /\ \A c \in Client : events'[c] = << >> /\ DOMAIN events'[c] = {}
      /\ \A q \in Pair : packets'[q] = << >>
      /\ pending' = {} /\ pairs' = {} /\ trans' = {} /\ relayAddrs' = {}
  BY DEF Close
<1> QED
  BY Zenon, <1>1, <1>2 DEF IInv, Held, Tables, Waits, Answers, AnsweredOnce, NoneForgotten

LEMMA PollGrantedStep ==
    ASSUME IInv, NEW c \in Client, PollGranted(c)
    PROVE  IInv'
<1> DEFINE e == Head(events[c])
           q == At(c, e.peer)
<1>1. /\ events[c] # << >> /\ e.kind = "granted" /\ events' = [events EXCEPT ![c] = Tail(@)]
      /\ Forget(e) /\ UNCHANGED <<clients, relayAddrs, trans, perm, lastTid>>
  BY Zenon DEF PollGranted, Takes, counts
<1>2. e = events[c][1] /\ 1 \in DOMAIN events[c] /\ IsAnswer(e)
  BY SMTT(30), <1>1 DEF IInv, TypeOK, IsAnswer
<1>3. PICK r \in pending : /\ r.relay = c /\ r.peer = e.peer /\ r.tid = e.id
                           /\ perm[Of(r)] = "permitted"
  BY <1>1, <1>2 DEF IInv, Answers
<1>4. r \in Answered(e) /\ perm[q] = "permitted"
  BY Zenon, <1>3 DEF Answered, Of
<1>5. packets' = [packets EXCEPT ![q] = << >>]
  BY Zenon, <1>4 DEF PollGranted, Flush
<1>6. \A x \in Pair : packets'[x] # << >> => packets[x] # << >> /\ x # q
  BY Zenon, <1>5 DEF IInv, TypeOK
<1>7. TypeOK'
  BY Zenon, PollGrantedType DEF IInv
<1> QED
  BY Zenon, <1>1, <1>2, <1>6, <1>7, AnswerTakenStep

LEMMA PollFailedStep ==
    ASSUME IInv, NEW c \in Client, PollFailed(c)
    PROVE  IInv'
<1> DEFINE e == Head(events[c])
<1>1. /\ events[c] # << >> /\ e.kind \in {"refused", "timeout"} /\ events' = [events EXCEPT ![c] = Tail(@)]
      /\ Forget(e) /\ UNCHANGED <<clients, relayAddrs, trans, perm, lastTid>>
      /\ packets' = [q \in Pair |-> IF q \in {Of(r) : r \in Answered(e)} THEN << >> ELSE packets[q]]
  BY Zenon DEF PollFailed, Takes, counts
<1>2. e = events[c][1] /\ 1 \in DOMAIN events[c] /\ IsAnswer(e)
  BY SMTT(30), <1>1 DEF IInv, TypeOK, IsAnswer
<1>3. PICK r \in pending : r.relay = c /\ r.peer = e.peer /\ r.tid = e.id
  BY <1>1, <1>2 DEF IInv, Answers
<1>4. At(c, e.peer) \in {Of(x) : x \in Answered(e)}
  BY Zenon, <1>3 DEF Answered, Of
<1>6. \A x \in Pair : packets'[x] # << >> => packets[x] # << >> /\ x # At(c, e.peer)
  BY Zenon, <1>1, <1>4
<1>7. TypeOK'
  BY Zenon, PollFailedType DEF IInv
<1> QED
  BY Zenon, <1>1, <1>2, <1>6, <1>7, AnswerTakenStep

\* Steps of the loop and of its environment keep IInv.
LEMMA Inductive == IInv /\ [Next]_vars => IInv'
<1> SUFFICES ASSUME IInv, [Next]_vars PROVE IInv'
  BY Zenon
<1> USE DEF IInv
<1>1. CASE UNCHANGED vars
  <2>1. TypeOK'
    BY Zenon, <1>1 DEF TypeOK, vars, relayer, turn, counts, hist
  <2> QED
    BY Zenon, <1>1, <2>1, FrameStep DEF vars, relayer, turn, counts
<1>2. CASE Wake \/ RelayWritesDone \/ CoreWritesDone \/ EventsDone
  <2>1. TypeOK'
    BY Zenon, <1>2, WakeType DEF TypeOK, RelayWritesDone, CoreWritesDone, EventsDone, relayer, turn, counts, hist
  <2> QED
    BY Zenon, <1>2, <2>1, FrameStep DEF Wake, RelayWritesDone, CoreWritesDone, EventsDone, relayer, turn, counts
<1>3. ASSUME NEW c \in Client, WriteOut(c) PROVE IInv'
  BY Zenon, <1>3, WriteOutType, FrameStep DEF WriteOut, relayer, turn, counts
<1>4. ASSUME NEW c \in Client, PollAllocated(c) PROVE IInv'
  <2>1. TypeOK' /\ Takes(c, "allocated")
    BY Zenon, <1>4, PollAllocatedType DEF PollAllocated
  <2>2. ~ IsAnswer(Head(events[c])) /\ c \in clients
    BY Zenon, <2>1 DEF Takes, IsAnswer, Held
  <2> QED
    BY Zenon, <1>4, <2>1, <2>2, EventTakenStep DEF PollAllocated, Takes, Held, counts
<1>5. ASSUME NEW c \in Client, PollData(c) PROVE IInv'
  <2>1. TypeOK' /\ Takes(c, "data")
    BY Zenon, <1>5, PollDataType DEF PollData
  <2>2. ~ IsAnswer(Head(events[c]))
    BY Zenon, <2>1 DEF Takes, IsAnswer
  <2> QED
    BY Zenon, <1>5, <2>1, <2>2, EventTakenStep DEF PollData, Takes, Held, relayer, counts
<1>6. ASSUME NEW c \in Client, Allocated(c) PROVE IInv'
  <2>1. PICK p \in Peer : events' = [events EXCEPT ![c] =
                             Append(@, [kind |-> "allocated", peer |-> p, id |-> 0])]
    BY Zenon, <1>6 DEF Allocated
  <2> DEFINE e == [kind |-> "allocated", peer |-> p, id |-> 0]
  <2>2. e \in Event /\ ~ IsAnswer(e) /\ e.kind # "data"
    BY DEF Event, IsAnswer
  <2>3. TypeOK' /\ c \in clients
    BY Zenon, <1>6, AllocatedType DEF Allocated
  <2> HIDE DEF e
  <2> QED
    BY Zenon, <1>6, <2>1, <2>2, <2>3, EventAddedStep DEF Allocated, relayer, counts, e
<1>7. ASSUME NEW c \in Client, NEW p \in Peer, Arrives(c, p) PROVE IInv'
  <2> DEFINE e == [kind |-> "data", peer |-> p, id |-> lastData + 1]
  <2>1. e \in Event /\ ~ IsAnswer(e) /\ e.id \in 1..MaxData
    BY <1>7 DEF Event, IsAnswer, Arrives, TypeOK
  <2>2. TypeOK' /\ c \in clients /\ events' = [events EXCEPT ![c] = Append(@, e)]
    BY Zenon, <1>7, ArrivesType DEF Arrives
  <2> HIDE DEF e
  <2> QED
    BY ZenonT(40), <1>7, <2>1, <2>2, EventAddedStep DEF Arrives, relayer
<1>8. ASSUME NEW c \in Client, WriteFails(c) PROVE IInv'
  BY Zenon, <1>8, WriteFailsType, RemoveClientStep DEF WriteFails, counts
<1>9. ASSUME NEW c \in Client, NEW p \in Peer, SendDirect(c, p) PROVE IInv'
  BY Zenon, <1>9, SendDirectType, FrameStep DEF SendDirect, relayer
<1> HIDE DEF IInv
<1> QED
  BY Zenon, <1>1, <1>2, <1>3, <1>4, <1>5, <1>6, <1>7, <1>8, <1>9, OutcomeStep, CloseStep, PollGrantedStep,
     PollFailedStep, SendWhilePendingStep, SendAndRequestStep
     DEF Next, Loop, Environment, Granted, Refused, TimedOut

\* RequestsAgree, for any clients, peers and bounds: the two permission tables of
\* the relayer hold the same requests, each of which has an answer to come, and
\* no packet waits without one (handle_write, poll_event, remove_client, close).
THEOREM RequestsAgreeHolds == Spec => []RequestsAgree
BY InitHolds, Inductive, InvImplies, PTL DEF Spec
-----------------------------------------------------------------------------
(* Accounted.  A packet moves from queue to queue towards the socket, each  *)
(* move keeps the order of a pair's packets, and the numbers in use are     *)
(* those given out so far.                                                  *)

\* The pairs of A in order are in order in B; the packets of A are those of B.
Part(A, B) ==
    /\ Ids(A) \subseteq Ids(B)
    /\ \A x, y \in A : Ahead(x, y) =>
           \E u, v \in B : Ahead(u, v) /\ u[3] = x[3] /\ v[3] = y[3]
Kept(A, B) == Part(A, B) /\ Ids(A) = Ids(B)

\* Outgoing packets: those in use have been given out, those in a queue have
\* waited, and the first two parts of Accounted.
Outgoing ==
    /\ waited \subseteq 1..lastPacket
    /\ \A q \in Pair : /\ Ids(Stream(q)) \subseteq 1..lastPacket
                       /\ \A i \in DOMAIN packets[q] : packets[q][i] \in waited
    /\ InOrderUnlessWaiting
    /\ \A q \in Pair \ excused : Ids(Stream(q)) = handed[q]

\* The events e of a client whose relay the relayer does not know yet: data comes
\* behind the allocation.
Told(e, allocated) ==
    /\ allocated => \E j \in DOMAIN e : e[j].kind = "allocated"
    /\ \A i \in DOMAIN e : e[i].kind = "data" => \E j \in 1..(i - 1) : e[j].kind = "allocated"

Announced == \A c \in clients \ relayAddrs : Told(events[c], c \in relays)

\* Incoming packets: numbers up to n were given out, those of s came.
Came(A, s, n, live) ==
    /\ s \subseteq 1..n /\ Ids(A) \subseteq s
    /\ \A x, y \in A : Ahead(x, y) => x[3] < y[3]
    /\ live => Ids(A) = s
    /\ \A k \in s \ Ids(A) : \A m \in Ids(A) : m < k

Ingoing == Announced /\ \A c \in Client : Came(Incoming(c), arrived[c], lastData, c \in clients)

AInv == IInv /\ Outgoing /\ Ingoing

LEMMA AInvImplies == AInv => Accounted
BY Zenon DEF AInv, Outgoing, Ingoing, Came, Accounted, ReachesCore

\* Slots are triples of numbers.
LEMMA Slots ==
  ASSUME NEW a \in Seq(1..MaxPackets), NEW b \in Seq(Message), NEW t \in Seq(Message),
         NEW d \in Seq(1..MaxPackets), NEW p
  PROVE  \A x \in Line(a, b, t, d, p) : x[1] \in 1..4 /\ x[2] \in Nat /\ x[2] # 0 /\ x[3] \in 1..MaxPackets
<1> SUFFICES ASSUME NEW x \in Line(a, b, t, d, p)
             PROVE  x[1] \in 1..4 /\ x[2] \in Nat /\ x[2] # 0 /\ x[3] \in 1..MaxPackets
  OBVIOUS
<1>1. \A m \in Message : m.kind = "data" => m.id \in 1..MaxPackets
  BY Zenon DEF Message
<1>2. \A i \in 1..Len(b) : b[i] \in Message
  OBVIOUS
<1>3. \A i \in 1..Len(t) : t[i] \in Message
  OBVIOUS
<1>4. CASE \E i \in 1..Len(a) : x = <<1, i, a[i]>>
  BY SMTT(30), <1>4
<1>5. CASE \E i \in 1..Len(b) : b[i].kind = "data" /\ b[i].peer = p /\ x = <<2, i, b[i].id>>
  <2>1. PICK i \in 1..Len(b) : b[i].kind = "data" /\ x = <<2, i, b[i].id>>
    BY Zenon, <1>5
  <2>2. b[i].id \in 1..MaxPackets
    BY Zenon, <1>1, <1>2, <2>1
  <2>3. QED
    BY <2>1, <2>2
<1>6. CASE \E i \in 1..Len(t) : t[i].kind = "data" /\ t[i].peer = p /\ x = <<3, i, t[i].id>>
  <2>1. PICK i \in 1..Len(t) : t[i].kind = "data" /\ x = <<3, i, t[i].id>>
    BY Zenon, <1>6
  <2>2. t[i].id \in 1..MaxPackets
    BY Zenon, <1>1, <1>3, <2>1
  <2>3. QED
    BY <2>1, <2>2
<1>7. CASE \E i \in 1..Len(d) : x = <<4, i, d[i]>>
  BY SMTT(30), <1>7
<1>8. \/ \E i \in 1..Len(a) : x = <<1, i, a[i]>>
      \/ \E i \in 1..Len(b) : b[i].kind = "data" /\ b[i].peer = p /\ x = <<2, i, b[i].id>>
      \/ \E i \in 1..Len(t) : t[i].kind = "data" /\ t[i].peer = p /\ x = <<3, i, t[i].id>>
      \/ \E i \in 1..Len(d) : x = <<4, i, d[i]>>
  <2>1. DOMAIN a = 1..Len(a) /\ DOMAIN b = 1..Len(b) /\ DOMAIN t = 1..Len(t) /\ DOMAIN d = 1..Len(d)
    OBVIOUS
  <2>2. QED
    BY Zenon, <2>1 DEF Line, Numbers, DataTo
<1>9. QED
  BY Zenon, <1>4, <1>5, <1>6, <1>7, <1>8

\* Fewer slots.
LEMMA Fewer ==
  ASSUME NEW A, NEW B, A \subseteq B
  PROVE  Part(A, B)
BY Zenon DEF Part, Ids

LEMMA Same ==
  ASSUME NEW A
  PROVE  Kept(A, A)
BY Zenon DEF Part, Kept, Ids
LEMMA Composed ==
  ASSUME NEW A, NEW B, NEW C, Part(A, B), Part(B, C)
  PROVE  Part(A, C)
<1>1. Ids(A) \subseteq Ids(C)
  BY Zenon DEF Part
<1>2. ASSUME NEW x \in A, NEW y \in A, Ahead(x, y)
      PROVE  \E u, v \in C : Ahead(u, v) /\ u[3] = x[3] /\ v[3] = y[3]
  <2>1. PICK s \in B, r \in B : Ahead(s, r) /\ s[3] = x[3] /\ r[3] = y[3]
    BY ZenonT(40), <1>2 DEF Part
  <2>2. PICK u \in C, v \in C : Ahead(u, v) /\ u[3] = s[3] /\ v[3] = r[3]
    BY ZenonT(40), <2>1 DEF Part
  <2>3. QED
    BY Zenon, <2>1, <2>2
<1>3. QED
  BY Zenon, <1>1, <1>2 DEF Part

\* Slots that move without passing each other.
LEMMA Mapped ==
  ASSUME NEW A, NEW B, NEW f,
         \A x \in A : f[x] \in B /\ f[x][3] = x[3],
         \A x, y \in A : Ahead(x, y) => Ahead(f[x], f[y])
  PROVE  Part(A, B)
<1>1. Ids(A) \subseteq Ids(B)
  <2>1. ASSUME NEW n \in Ids(A) PROVE n \in Ids(B)
    <3>1. PICK x \in A : n = x[3]
      BY Zenon DEF Ids
    <3>2. f[x] \in B /\ n = f[x][3]
      BY Zenon, <3>1
    <3>3. QED
      BY Zenon, <3>2 DEF Ids
  <2>2. QED
    BY Zenon, <2>1
<1>2. QED
  BY Zenon, <1>1 DEF Part

LEMMA Concatenated ==
  ASSUME NEW s \in Seq(Message), NEW m \in Seq(Message)
  PROVE  /\ s \o m \in Seq(Message) /\ Len(s \o m) = Len(s) + Len(m) /\ Len(s) \in Nat /\ Len(m) \in Nat
         /\ DOMAIN (s \o m) = 1..Len(s \o m)
         /\ \A i \in 1..Len(s) : (s \o m)[i] = s[i] /\ i \in 1..Len(s \o m)
         /\ \A i \in 1..Len(m) : (s \o m)[Len(s) + i] = m[i]
OBVIOUS

LEMMA Enumerated ==
  ASSUME NEW n \in Nat, NEW m \in [1..n -> Message]
  PROVE  m \in Seq(Message) /\ Len(m) = n
OBVIOUS

\* poll_write: the messages of the client go behind those the driver has.
LEMMA StartedLine ==
  ASSUME NEW a \in Seq(1..MaxPackets), NEW b \in Seq(Message), NEW t \in Seq(Message),
         NEW d \in Seq(1..MaxPackets), NEW p
  PROVE  Kept(Line(a, b \o t, << >>, d, p), Line(a, b, t, d, p))
<1> DEFINE A == Line(a, b \o t, << >>, d, p)
           B == Line(a, b, t, d, p)
           f == [x \in A |-> IF x[1] = 2 /\ x[2] > Len(b) THEN <<3, x[2] - Len(b), x[3]>> ELSE x]
<1>0. DOMAIN a = 1..Len(a) /\ DOMAIN b = 1..Len(b) /\ DOMAIN t = 1..Len(t) /\ DOMAIN d = 1..Len(d)
      /\ DOMAIN (b \o t) = 1..Len(b \o t) /\ DOMAIN << >> = {}
  OBVIOUS
<1>1. b \o t \in Seq(Message) /\ << >> \in Seq(Message) /\ Len(b \o t) = Len(b) + Len(t)
      /\ Len(b) \in Nat /\ Len(t) \in Nat /\ (\A i \in 1..Len(<< >>) : FALSE)
      /\ (\A i \in 1..Len(b) : (b \o t)[i] = b[i])
      /\ (\A i \in 1..Len(t) : (b \o t)[Len(b) + i] = t[i])
  OBVIOUS
<1>2. \A x : x \in A <=>
         \/ \E i \in 1..Len(a) : x = <<1, i, a[i]>>
         \/ \E i \in 1..Len(b \o t) : (b \o t)[i].kind = "data" /\ (b \o t)[i].peer = p /\ x = <<2, i, (b \o t)[i].id>>
         \/ \E i \in 1..Len(d) : x = <<4, i, d[i]>>
  BY Zenon, <1>0 DEF Line, Numbers, DataTo
<1>3. \A x : x \in B <=>
         \/ \E i \in 1..Len(a) : x = <<1, i, a[i]>>
         \/ \E i \in 1..Len(b) : b[i].kind = "data" /\ b[i].peer = p /\ x = <<2, i, b[i].id>>
         \/ \E i \in 1..Len(t) : t[i].kind = "data" /\ t[i].peer = p /\ x = <<3, i, t[i].id>>
         \/ \E i \in 1..Len(d) : x = <<4, i, d[i]>>
  BY Zenon, <1>0 DEF Line, Numbers, DataTo
<1>4. \A x \in A : x[1] \in 1..4 /\ x[2] \in Nat
  BY Zenon, <1>1, Slots
<1> HIDE DEF A, B
<1>5. ASSUME NEW x \in A PROVE f[x] \in B /\ f[x][3] = x[3] /\ x[1] # 3
  <2>1. CASE \E i \in 1..Len(a) : x = <<1, i, a[i]>>
    BY SMTT(30), <2>1, <1>3
  <2>2. CASE \E i \in 1..Len(b \o t) : (b \o t)[i].kind = "data" /\ (b \o t)[i].peer = p /\ x = <<2, i, (b \o t)[i].id>>
    <3>1. PICK i \in 1..Len(b \o t) : (b \o t)[i].kind = "data" /\ (b \o t)[i].peer = p /\ x = <<2, i, (b \o t)[i].id>>
      BY Zenon, <2>2
    <3>2. CASE i <= Len(b)
      <4>1. i \in 1..Len(b) /\ (b \o t)[i] = b[i]
        BY <1>1, <3>2
      <4>2. f[x] = x /\ x[1] # 3
        BY <3>1, <3>2, <4>1, <1>1
      <4>3. QED
        BY Zenon, <1>3, <3>1, <4>1, <4>2
    <3>3. CASE i > Len(b)
      <4>1. i - Len(b) \in 1..Len(t) /\ (b \o t)[Len(b) + (i - Len(b))] = t[i - Len(b)] /\ Len(b) + (i - Len(b)) = i
        BY <1>1, <3>3
      <4>2. f[x] = <<3, i - Len(b), x[3]>> /\ x[1] = 2 /\ x[3] = (b \o t)[i].id
        BY ZenonT(40), <3>1, <3>3, <1>1
      <4>3. f[x][3] = x[3] /\ 2 # 3
        BY <4>2
      <4>4. QED
        BY ZenonT(40), <1>3, <3>1, <4>1, <4>2, <4>3
    <3>4. QED
      BY <3>2, <3>3, <1>1
  <2>3. CASE \E i \in 1..Len(d) : x = <<4, i, d[i]>>
    BY <2>3, <1>3
  <2>4. QED
    BY Zenon, <2>1, <2>2, <2>3, <1>2
<1>6. ASSUME NEW x \in A, NEW y \in A, Ahead(x, y) PROVE Ahead(f[x], f[y])
  <2>1. /\ x[1] = 2 /\ x[2] > Len(b) => f[x][1] = 3 /\ f[x][2] = x[2] - Len(b)
        /\ ~ (x[1] = 2 /\ x[2] > Len(b)) => f[x][1] = x[1] /\ f[x][2] = x[2]
    OBVIOUS
  <2>2. /\ y[1] = 2 /\ y[2] > Len(b) => f[y][1] = 3 /\ f[y][2] = y[2] - Len(b)
        /\ ~ (y[1] = 2 /\ y[2] > Len(b)) => f[y][1] = y[1] /\ f[y][2] = y[2]
    OBVIOUS
  <2> HIDE DEF f
  <2>3. x[1] \in 1..4 /\ x[2] \in Nat /\ y[1] \in 1..4 /\ y[2] \in Nat /\ x[1] # 3 /\ y[1] # 3 /\ Len(b) \in Nat /\ Ahead(x, y)
    BY Zenon, <1>1, <1>4, <1>5, <1>6
  <2>4. QED
    BY SMTT(30), <2>1, <2>2, <2>3 DEF Ahead
<1> HIDE DEF f
<1>7. Part(A, B)
  BY Zenon, <1>5, <1>6, Mapped
<1>8. ASSUME NEW y \in B PROVE \E x \in A : x[3] = y[3]
  <2>1. CASE \E i \in 1..Len(t) : t[i].kind = "data" /\ t[i].peer = p /\ y = <<3, i, t[i].id>>
    <3>1. PICK i \in 1..Len(t) : t[i].kind = "data" /\ t[i].peer = p /\ y = <<3, i, t[i].id>>
      BY Zenon, <2>1
    <3>2. Len(b) + i \in 1..Len(b \o t) /\ (b \o t)[Len(b) + i] = t[i]
      BY <1>1
    <3>3. <<2, Len(b) + i, (b \o t)[Len(b) + i].id>> \in A
      BY Zenon, <1>2, <3>1, <3>2
    <3>4. QED
      BY <3>1, <3>2, <3>3
  <2>2. CASE \E i \in 1..Len(b) : b[i].kind = "data" /\ b[i].peer = p /\ y = <<2, i, b[i].id>>
    <3>1. \A i \in 1..Len(b) : i \in 1..Len(b \o t)
      BY <1>1
    <3>2. QED
      BY Zenon, <1>1, <1>2, <2>2, <3>1
  <2>3. QED
    BY Zenon, <1>2, <1>3, <2>1, <2>2
<1>9. Ids(B) \subseteq Ids(A)
  BY Zenon, <1>8 DEF Ids
<1>10. QED
  BY Zenon, <1>7, <1>9 DEF Kept, Part, A, B
\* The driver loses its first message, which matters to its peer only.
LEMMA TailLine ==
  ASSUME NEW a \in Seq(1..MaxPackets), NEW b \in Seq(Message), NEW t \in Seq(Message),
         NEW d \in Seq(1..MaxPackets), NEW p, b # << >>
  PROVE  /\ Part(Line(a, Tail(b), t, d, p), Line(a, b, t, d, p))
         /\ ~ (Head(b).kind = "data" /\ Head(b).peer = p) =>
               Kept(Line(a, Tail(b), t, d, p), Line(a, b, t, d, p))
<1> DEFINE A == Line(a, Tail(b), t, d, p)
           B == Line(a, b, t, d, p)
           f == [x \in A |-> IF x[1] = 2 THEN <<2, x[2] + 1, x[3]>> ELSE x]
<1>0. DOMAIN a = 1..Len(a) /\ DOMAIN b = 1..Len(b) /\ DOMAIN t = 1..Len(t) /\ DOMAIN d = 1..Len(d)
      /\ DOMAIN Tail(b) = 1..Len(Tail(b))
  OBVIOUS
<1>1. Tail(b) \in Seq(Message) /\ Len(Tail(b)) = Len(b) - 1 /\ Len(b) \in Nat /\ Head(b) = b[1]
      /\ \A i \in 1..Len(Tail(b)) : Tail(b)[i] = b[i + 1]
  OBVIOUS
<1>2. \A x : x \in A <=>
         \/ \E i \in 1..Len(a) : x = <<1, i, a[i]>>
         \/ \E i \in 1..Len(Tail(b)) : Tail(b)[i].kind = "data" /\ Tail(b)[i].peer = p /\ x = <<2, i, Tail(b)[i].id>>
         \/ \E i \in 1..Len(t) : t[i].kind = "data" /\ t[i].peer = p /\ x = <<3, i, t[i].id>>
         \/ \E i \in 1..Len(d) : x = <<4, i, d[i]>>
  BY Zenon, <1>0 DEF Line, Numbers, DataTo
<1>3. \A x : x \in B <=>
         \/ \E i \in 1..Len(a) : x = <<1, i, a[i]>>
         \/ \E i \in 1..Len(b) : b[i].kind = "data" /\ b[i].peer = p /\ x = <<2, i, b[i].id>>
         \/ \E i \in 1..Len(t) : t[i].kind = "data" /\ t[i].peer = p /\ x = <<3, i, t[i].id>>
         \/ \E i \in 1..Len(d) : x = <<4, i, d[i]>>
  BY Zenon, <1>0 DEF Line, Numbers, DataTo
<1>4. \A x \in A : x[1] \in 1..4 /\ x[2] \in Nat
  BY Zenon, <1>1, Slots
<1> HIDE DEF A, B
<1>5. ASSUME NEW x \in A PROVE f[x] \in B /\ f[x][3] = x[3]
  <2>1. CASE x[1] = 2
    <3>0. /\ ~ \E i \in 1..Len(a) : x = <<1, i, a[i]>>
          /\ ~ \E i \in 1..Len(t) : x = <<3, i, t[i].id>>
          /\ ~ \E i \in 1..Len(d) : x = <<4, i, d[i]>>
      BY <2>1
    <3>1. PICK i \in 1..Len(Tail(b)) : Tail(b)[i].kind = "data" /\ Tail(b)[i].peer = p /\ x = <<2, i, Tail(b)[i].id>>
      BY Zenon, <1>2, <3>0
    <3>2. i + 1 \in 1..Len(b) /\ Tail(b)[i] = b[i + 1]
      BY <1>1
    <3>3. f[x] = <<2, i + 1, Tail(b)[i].id>> /\ x[3] = Tail(b)[i].id /\ f[x][3] = x[3]
      BY <2>1, <3>1
    <3>4. QED
      BY ZenonT(40), <1>3, <3>1, <3>2, <3>3
  <2>2. CASE x[1] # 2
    <3>1. f[x] = x
      BY Zenon, <2>2
    <3>2. ~ \E i \in 1..Len(Tail(b)) : x = <<2, i, Tail(b)[i].id>>
      BY <2>2
    <3>3. QED
      BY Zenon, <1>2, <1>3, <3>1, <3>2
  <2>3. QED
    BY Zenon, <2>1, <2>2
<1>6. ASSUME NEW x \in A, NEW y \in A, Ahead(x, y) PROVE Ahead(f[x], f[y])
  <2>1. /\ x[1] = 2 => f[x][1] = 2 /\ f[x][2] = x[2] + 1
        /\ x[1] # 2 => f[x][1] = x[1] /\ f[x][2] = x[2]
    OBVIOUS
  <2>2. /\ y[1] = 2 => f[y][1] = 2 /\ f[y][2] = y[2] + 1
        /\ y[1] # 2 => f[y][1] = y[1] /\ f[y][2] = y[2]
    OBVIOUS
  <2> HIDE DEF f
  <2>3. x[1] \in 1..4 /\ x[2] \in Nat /\ y[1] \in 1..4 /\ y[2] \in Nat /\ Ahead(x, y)
    BY Zenon, <1>4, <1>6
  <2>4. QED
    BY SMTT(30), <2>1, <2>2, <2>3 DEF Ahead
<1> HIDE DEF f
<1>7. Part(A, B)
  BY ZenonT(40), <1>5, <1>6, Mapped
<1>8. ASSUME ~ (Head(b).kind = "data" /\ Head(b).peer = p), NEW y \in B PROVE \E x \in A : x[3] = y[3]
  <2>1. CASE \E i \in 1..Len(b) : b[i].kind = "data" /\ b[i].peer = p /\ y = <<2, i, b[i].id>>
    <3>1. PICK i \in 1..Len(b) : b[i].kind = "data" /\ b[i].peer = p /\ y = <<2, i, b[i].id>>
      BY Zenon, <2>1
    <3>2. i # 1
      BY Zenon, <1>1, <1>8, <3>1
    <3>3. PICK j \in 1..Len(Tail(b)) : i = j + 1
      BY <1>1, <3>2
    <3>4. <<2, j, Tail(b)[j].id>> \in A
      BY Zenon, <1>1, <1>2, <3>1, <3>3
    <3>5. QED
      BY <1>1, <3>1, <3>3, <3>4
  <2>2. QED
    BY Zenon, <1>2, <1>3, <2>1
<1>9. ~ (Head(b).kind = "data" /\ Head(b).peer = p) => Ids(B) \subseteq Ids(A)
  BY Zenon, <1>8 DEF Ids
<1>10. QED
  BY Zenon, <1>7, <1>9 DEF Kept, Part, A, B

\* The driver writes its first message, which is a packet of this pair.
LEMMA WrittenLine ==
  ASSUME NEW a \in Seq(1..MaxPackets), NEW b \in Seq(Message), NEW t \in Seq(Message),
         NEW d \in Seq(1..MaxPackets), NEW p, b # << >>,
         Head(b).kind = "data" /\ Head(b).peer = p
  PROVE  Kept(Line(Append(a, Head(b).id), Tail(b), t, d, p), Line(a, b, t, d, p))
<1> DEFINE h == Head(b).id
           a2 == Append(a, h)
           A == Line(a2, Tail(b), t, d, p)
           B == Line(a, b, t, d, p)
           f == [x \in A |-> IF x[1] = 2 THEN <<2, x[2] + 1, x[3]>>
                             ELSE IF x[1] = 1 /\ x[2] = Len(a) + 1 THEN <<2, 1, x[3]>> ELSE x]
<1>0. DOMAIN a = 1..Len(a) /\ DOMAIN b = 1..Len(b) /\ DOMAIN t = 1..Len(t) /\ DOMAIN d = 1..Len(d)
      /\ DOMAIN Tail(b) = 1..Len(Tail(b))
  OBVIOUS
<1>1. Tail(b) \in Seq(Message) /\ Len(Tail(b)) = Len(b) - 1 /\ Len(b) \in Nat /\ Head(b) = b[1]
      /\ Head(b) \in Message /\ 1 \in 1..Len(b)
      /\ \A i \in 1..Len(Tail(b)) : Tail(b)[i] = b[i + 1]
  OBVIOUS
<1>2. h \in 1..MaxPackets
  BY Zenon, <1>1 DEF Message
<1> HIDE DEF h
<1>3. a2 \in Seq(1..MaxPackets) /\ Len(a2) = Len(a) + 1 /\ Len(a) \in Nat /\ a2[Len(a) + 1] = h
      /\ DOMAIN a2 = 1..Len(a2)
      /\ \A i \in 1..Len(a) : a2[i] = a[i] /\ i \in 1..Len(a2)
  BY <1>2
<1> HIDE DEF a2
<1>4. \A x : x \in A <=>
         \/ \E i \in 1..Len(a2) : x = <<1, i, a2[i]>>
         \/ \E i \in 1..Len(Tail(b)) : Tail(b)[i].kind = "data" /\ Tail(b)[i].peer = p /\ x = <<2, i, Tail(b)[i].id>>
         \/ \E i \in 1..Len(t) : t[i].kind = "data" /\ t[i].peer = p /\ x = <<3, i, t[i].id>>
         \/ \E i \in 1..Len(d) : x = <<4, i, d[i]>>
  BY Zenon, <1>0, <1>3 DEF Line, Numbers, DataTo
<1>5. \A x : x \in B <=>
         \/ \E i \in 1..Len(a) : x = <<1, i, a[i]>>
         \/ \E i \in 1..Len(b) : b[i].kind = "data" /\ b[i].peer = p /\ x = <<2, i, b[i].id>>
         \/ \E i \in 1..Len(t) : t[i].kind = "data" /\ t[i].peer = p /\ x = <<3, i, t[i].id>>
         \/ \E i \in 1..Len(d) : x = <<4, i, d[i]>>
  BY Zenon, <1>0 DEF Line, Numbers, DataTo
<1>6. \A x \in A : x[1] \in 1..4 /\ x[2] \in Nat /\ x[2] # 0
  <2>1. a2 \in Seq(1..MaxPackets) /\ Tail(b) \in Seq(Message)
    BY Zenon, <1>1, <1>3
  <2>2. QED
    BY Zenon, <2>1, Slots
<1> HIDE DEF A, B
<1>7. ASSUME NEW x \in A, x[1] = 1 PROVE x[2] <= Len(a) + 1
  <2>1. /\ ~ \E i \in 1..Len(Tail(b)) : x = <<2, i, Tail(b)[i].id>>
        /\ ~ \E i \in 1..Len(t) : x = <<3, i, t[i].id>>
        /\ ~ \E i \in 1..Len(d) : x = <<4, i, d[i]>>
    BY <1>7
  <2>2. PICK i \in 1..Len(a2) : x = <<1, i, a2[i]>>
    BY Zenon, <1>4, <2>1
  <2>3. Len(a2) = Len(a) + 1 /\ Len(a) \in Nat
    BY Zenon, <1>3
  <2>4. QED
    BY <2>2, <2>3
<1>8. ASSUME NEW x \in A PROVE f[x] \in B /\ f[x][3] = x[3]
  <2>1. CASE x[1] = 2
    <3>0. /\ ~ \E i \in 1..Len(a2) : x = <<1, i, a2[i]>>
          /\ ~ \E i \in 1..Len(t) : x = <<3, i, t[i].id>>
          /\ ~ \E i \in 1..Len(d) : x = <<4, i, d[i]>>
      BY <2>1
    <3>1. PICK i \in 1..Len(Tail(b)) : Tail(b)[i].kind = "data" /\ Tail(b)[i].peer = p /\ x = <<2, i, Tail(b)[i].id>>
      BY Zenon, <1>4, <3>0
    <3>2. i + 1 \in 1..Len(b) /\ Tail(b)[i] = b[i + 1]
      BY <1>1
    <3>3. f[x] = <<2, i + 1, Tail(b)[i].id>> /\ x[3] = Tail(b)[i].id /\ f[x][3] = x[3]
      BY <2>1, <3>1
    <3> HIDE DEF f
    <3>4. QED
      BY ZenonT(40), <1>5, <3>1, <3>2, <3>3
  <2>2. CASE x[1] = 1
    <3>1. PICK i \in 1..Len(a2) : x = <<1, i, a2[i]>>
      BY SMTT(30), <1>4, <2>2
    <3>2. CASE i = Len(a) + 1
      <4>1. f[x] = <<2, 1, h>> /\ x[3] = h /\ f[x][3] = x[3]
        BY SMTT(30), <3>1, <3>2, <1>3
      <4>2. QED
        BY ZenonT(40), <4>1, <1>1, <1>5 DEF h
    <3>3. CASE i # Len(a) + 1
      <4>0. Len(a2) = Len(a) + 1 /\ Len(a) \in Nat
        BY Zenon, <1>3
      <4>1. i \in 1..Len(a) /\ a2[i] = a[i]
        <5>1. i \in 1..Len(a)
          BY <3>3, <4>0
        <5>2. QED
          BY Zenon, <1>3, <5>1
      <4>2. f[x] = x
        BY SMTT(30), <3>1, <3>3
      <4>3. QED
        BY Zenon, <3>1, <4>1, <4>2, <1>5
    <3>4. QED
      BY Zenon, <3>2, <3>3
  <2>3. CASE x[1] # 2 /\ x[1] # 1
    <3>1. f[x] = x
      BY Zenon, <2>3
    <3>2. (~ \E i \in 1..Len(Tail(b)) : x = <<2, i, Tail(b)[i].id>>) /\ ~ \E i \in 1..Len(a2) : x = <<1, i, a2[i]>>
      BY <2>3
    <3>3. QED
      BY Zenon, <1>4, <1>5, <3>1, <3>2
  <2>4. QED
    BY Zenon, <2>1, <2>2, <2>3
<1>9. ASSUME NEW x \in A, NEW y \in A, Ahead(x, y) PROVE Ahead(f[x], f[y])
  <2>1. /\ x[1] = 2 => f[x][1] = 2 /\ f[x][2] = x[2] + 1
        /\ x[1] = 1 /\ x[2] = Len(a) + 1 => f[x][1] = 2 /\ f[x][2] = 1
        /\ x[1] # 2 /\ ~ (x[1] = 1 /\ x[2] = Len(a) + 1) => f[x][1] = x[1] /\ f[x][2] = x[2]
    OBVIOUS
  <2>2. /\ y[1] = 2 => f[y][1] = 2 /\ f[y][2] = y[2] + 1
        /\ y[1] = 1 /\ y[2] = Len(a) + 1 => f[y][1] = 2 /\ f[y][2] = 1
        /\ y[1] # 2 /\ ~ (y[1] = 1 /\ y[2] = Len(a) + 1) => f[y][1] = y[1] /\ f[y][2] = y[2]
    BY SMTT(30)
  <2> HIDE DEF f
  <2>3. /\ x[1] \in 1..4 /\ x[2] \in Nat /\ y[1] \in 1..4 /\ y[2] \in Nat /\ x[2] # 0 /\ y[2] # 0
        /\ Len(a) \in Nat /\ (x[1] = 1 => x[2] <= Len(a) + 1) /\ (y[1] = 1 => y[2] <= Len(a) + 1) /\ Ahead(x, y)
    BY Zenon, <1>3, <1>6, <1>7, <1>9
  <2>4. CASE x[1] = 2
    BY SMTT(30), <2>1, <2>2, <2>3, <2>4 DEF Ahead
  <2>5. CASE x[1] = 1 /\ x[2] = Len(a) + 1
    BY SMTT(30), <2>1, <2>2, <2>3, <2>5 DEF Ahead
  <2>6. CASE x[1] # 2 /\ ~ (x[1] = 1 /\ x[2] = Len(a) + 1)
    BY SMTT(30), <2>1, <2>2, <2>3, <2>6 DEF Ahead
  <2>7. QED
    BY ZenonT(40), <2>4, <2>5, <2>6
<1> HIDE DEF f
<1>10. Part(A, B)
  BY ZenonT(40), <1>8, <1>9, Mapped
<1>11. ASSUME NEW y \in B PROVE \E x \in A : x[3] = y[3]
  <2>1. CASE \E i \in 1..Len(b) : b[i].kind = "data" /\ b[i].peer = p /\ y = <<2, i, b[i].id>>
    <3>1. PICK i \in 1..Len(b) : b[i].kind = "data" /\ b[i].peer = p /\ y = <<2, i, b[i].id>>
      BY Zenon, <2>1
    <3>2. CASE i = 1
      <4>1. y[3] = h
        BY <3>1, <3>2, <1>1 DEF h
      <4>2. Len(a) + 1 \in 1..Len(a2)
        BY <1>3
      <4>3. <<1, Len(a) + 1, a2[Len(a) + 1]>> \in A
        BY Zenon, <1>4, <4>2
      <4>4. QED
        BY <1>3, <4>1, <4>3
    <3>3. CASE i # 1
      <4>1. PICK j \in 1..Len(Tail(b)) : i = j + 1
        BY <1>1, <3>3
      <4>2. <<2, j, Tail(b)[j].id>> \in A
        BY Zenon, <1>1, <1>4, <3>1, <4>1
      <4>3. QED
        BY <1>1, <3>1, <4>1, <4>2
    <3>4. QED
      BY Zenon, <3>2, <3>3
  <2>2. CASE \E i \in 1..Len(a) : y = <<1, i, a[i]>>
    BY Zenon, <1>3, <1>4, <2>2
  <2>3. QED
    BY Zenon, <1>4, <1>5, <2>1, <2>2
<1>12. Ids(B) \subseteq Ids(A)
  BY Zenon, <1>11 DEF Ids
<1>13. QED
  BY Zenon, <1>10, <1>12 DEF Kept, Part, A, B, h, a2
\* buffer_packet: a full queue loses its oldest packet.
LEMMA TailPackets ==
  ASSUME NEW a \in Seq(1..MaxPackets), NEW b \in Seq(Message), NEW t \in Seq(Message),
         NEW d \in Seq(1..MaxPackets), NEW p, d # << >>
  PROVE  Part(Line(a, b, t, Tail(d), p), Line(a, b, t, d, p))
<1> DEFINE A == Line(a, b, t, Tail(d), p)
           B == Line(a, b, t, d, p)
           f == [x \in A |-> IF x[1] = 4 THEN <<4, x[2] + 1, x[3]>> ELSE x]
<1>0. DOMAIN a = 1..Len(a) /\ DOMAIN b = 1..Len(b) /\ DOMAIN t = 1..Len(t) /\ DOMAIN d = 1..Len(d)
      /\ DOMAIN Tail(d) = 1..Len(Tail(d))
  OBVIOUS
<1>1. Tail(d) \in Seq(1..MaxPackets) /\ Len(Tail(d)) = Len(d) - 1 /\ Len(d) \in Nat
      /\ \A i \in 1..Len(Tail(d)) : Tail(d)[i] = d[i + 1]
  OBVIOUS
<1>2. \A x : x \in A <=>
         \/ \E i \in 1..Len(a) : x = <<1, i, a[i]>>
         \/ \E i \in 1..Len(b) : b[i].kind = "data" /\ b[i].peer = p /\ x = <<2, i, b[i].id>>
         \/ \E i \in 1..Len(t) : t[i].kind = "data" /\ t[i].peer = p /\ x = <<3, i, t[i].id>>
         \/ \E i \in 1..Len(Tail(d)) : x = <<4, i, Tail(d)[i]>>
  BY Zenon, <1>0 DEF Line, Numbers, DataTo
<1>3. \A x : x \in B <=>
         \/ \E i \in 1..Len(a) : x = <<1, i, a[i]>>
         \/ \E i \in 1..Len(b) : b[i].kind = "data" /\ b[i].peer = p /\ x = <<2, i, b[i].id>>
         \/ \E i \in 1..Len(t) : t[i].kind = "data" /\ t[i].peer = p /\ x = <<3, i, t[i].id>>
         \/ \E i \in 1..Len(d) : x = <<4, i, d[i]>>
  BY Zenon, <1>0 DEF Line, Numbers, DataTo
<1>4. \A x \in A : x[1] \in 1..4 /\ x[2] \in Nat
  BY Zenon, <1>1, Slots
<1> HIDE DEF A, B
<1>5. ASSUME NEW x \in A PROVE f[x] \in B /\ f[x][3] = x[3]
  <2>1. CASE x[1] = 4
    <3>0. /\ ~ \E i \in 1..Len(a) : x = <<1, i, a[i]>>
          /\ ~ \E i \in 1..Len(b) : x = <<2, i, b[i].id>>
          /\ ~ \E i \in 1..Len(t) : x = <<3, i, t[i].id>>
      BY <2>1
    <3>1. PICK i \in 1..Len(Tail(d)) : x = <<4, i, Tail(d)[i]>>
      BY Zenon, <1>2, <3>0
    <3>2. i + 1 \in 1..Len(d) /\ Tail(d)[i] = d[i + 1]
      BY <1>1
    <3>3. f[x] = <<4, i + 1, Tail(d)[i]>> /\ x[3] = Tail(d)[i] /\ f[x][3] = x[3]
      BY SMTT(30), <2>1, <3>1
    <3>4. QED
      BY Zenon, <1>3, <3>1, <3>2, <3>3
  <2>2. CASE x[1] # 4
    <3>1. f[x] = x
      BY Zenon, <2>2
    <3>2. ~ \E i \in 1..Len(Tail(d)) : x = <<4, i, Tail(d)[i]>>
      BY <2>2
    <3>3. QED
      BY Zenon, <1>2, <1>3, <3>1, <3>2
  <2>3. QED
    BY Zenon, <2>1, <2>2
<1>6. ASSUME NEW x \in A, NEW y \in A, Ahead(x, y) PROVE Ahead(f[x], f[y])
  <2>1. /\ x[1] = 4 => f[x][1] = 4 /\ f[x][2] = x[2] + 1
        /\ x[1] # 4 => f[x][1] = x[1] /\ f[x][2] = x[2]
    OBVIOUS
  <2>2. /\ y[1] = 4 => f[y][1] = 4 /\ f[y][2] = y[2] + 1
        /\ y[1] # 4 => f[y][1] = y[1] /\ f[y][2] = y[2]
    BY SMTT(30)
  <2> HIDE DEF f
  <2>3. x[1] \in 1..4 /\ x[2] \in Nat /\ y[1] \in 1..4 /\ y[2] \in Nat /\ Ahead(x, y)
    BY Zenon, <1>4, <1>6
  <2>4. CASE x[1] = 4
    <3>1. y[1] = 4 /\ x[2] < y[2]
      BY <2>3, <2>4 DEF Ahead
    <3>2. QED
      BY SMTT(30), <2>1, <2>2, <2>3, <2>4, <3>1 DEF Ahead
  <2>5. CASE x[1] # 4
    BY <2>1, <2>2, <2>3, <2>5 DEF Ahead
  <2>6. QED
    BY Zenon, <2>4, <2>5
<1> HIDE DEF f
<1>7. QED
  BY ZenonT(40), <1>5, <1>6, Mapped DEF A, B

\* flush_pending_packets with the permission: all go behind what the client holds.
LEMMA FlushedLine ==
  ASSUME NEW a \in Seq(1..MaxPackets), NEW b \in Seq(Message), NEW t \in Seq(Message),
         NEW d \in Seq(1..MaxPackets), NEW p \in Peer
  PROVE  /\ [i \in DOMAIN d |-> Data(p, d[i])] \in Seq(Message)
         /\ Kept(Line(a, b, t \o [i \in DOMAIN d |-> Data(p, d[i])], << >>, p), Line(a, b, t, d, p))
<1> DEFINE m == [i \in DOMAIN d |-> Data(p, d[i])]
           A == Line(a, b, t \o m, << >>, p)
           B == Line(a, b, t, d, p)
           f == [x \in A |-> IF x[1] = 3 /\ x[2] > Len(t) THEN <<4, x[2] - Len(t), x[3]>> ELSE x]
<1>0. DOMAIN a = 1..Len(a) /\ DOMAIN b = 1..Len(b) /\ DOMAIN t = 1..Len(t) /\ DOMAIN d = 1..Len(d) /\ DOMAIN << >> = {}
  OBVIOUS
<1>1. Len(d) \in Nat /\ DOMAIN d = 1..Len(d) /\ << >> \in Seq(1..MaxPackets) /\ Len(t) \in Nat
      /\ (\A i \in 1..Len(<< >>) : FALSE) /\ \A i \in 1..Len(d) : d[i] \in 1..MaxPackets
  OBVIOUS
<1>2. \A i \in 1..Len(d) : Data(p, d[i]) \in Message /\ m[i] = Data(p, d[i])
          /\ m[i].kind = "data" /\ m[i].peer = p /\ m[i].id = d[i]
  BY Zenon, <1>1 DEF Data, Message
<1>3. m = [i \in 1..Len(d) |-> Data(p, d[i])]
  BY Zenon, <1>1
<1>4. m \in Seq(Message) /\ Len(m) = Len(d)
  <2> HIDE DEF m
  <2>1. m \in [1..Len(d) -> Message]
    BY Zenon, <1>2, <1>3
  <2>2. Len(d) \in Nat
    BY Zenon, <1>1
  <2>3. QED
    BY Zenon, <2>1, <2>2, Enumerated
<1> HIDE DEF m
<1>5. t \o m \in Seq(Message) /\ Len(t \o m) = Len(t) + Len(d)
      /\ DOMAIN (t \o m) = 1..Len(t \o m)
      /\ (\A i \in 1..Len(t) : (t \o m)[i] = t[i] /\ i \in 1..Len(t \o m))
      /\ (\A i \in 1..Len(d) : (t \o m)[Len(t) + i] = m[i])
  <2>1. m \in Seq(Message) /\ Len(m) = Len(d)
    BY Zenon, <1>4
  <2>2. PICK w \in Seq(Message) : w = m
    BY Zenon, <2>1
  <2>3. /\ t \o w \in Seq(Message) /\ Len(t \o w) = Len(t) + Len(w)
        /\ DOMAIN (t \o w) = 1..Len(t \o w)
        /\ \A i \in 1..Len(t) : (t \o w)[i] = t[i] /\ i \in 1..Len(t \o w)
        /\ \A i \in 1..Len(w) : (t \o w)[Len(t) + i] = w[i]
    BY Zenon, Concatenated
  <2>4. QED
    BY Zenon, <2>1, <2>2, <2>3
<1>6. \A x : x \in A <=>
         \/ \E i \in 1..Len(a) : x = <<1, i, a[i]>>
         \/ \E i \in 1..Len(b) : b[i].kind = "data" /\ b[i].peer = p /\ x = <<2, i, b[i].id>>
         \/ \E i \in 1..Len(t \o m) : (t \o m)[i].kind = "data" /\ (t \o m)[i].peer = p /\ x = <<3, i, (t \o m)[i].id>>
  BY Zenon, <1>0, <1>5 DEF Line, Numbers, DataTo
<1>7. \A x : x \in B <=>
         \/ \E i \in 1..Len(a) : x = <<1, i, a[i]>>
         \/ \E i \in 1..Len(b) : b[i].kind = "data" /\ b[i].peer = p /\ x = <<2, i, b[i].id>>
         \/ \E i \in 1..Len(t) : t[i].kind = "data" /\ t[i].peer = p /\ x = <<3, i, t[i].id>>
         \/ \E i \in 1..Len(d) : x = <<4, i, d[i]>>
  BY Zenon, <1>0 DEF Line, Numbers, DataTo
<1>8. \A x \in A : x[1] \in 1..4 /\ x[2] \in Nat
  BY Zenon, <1>1, <1>5, Slots
<1> HIDE DEF A, B
<1>9. ASSUME NEW x \in A PROVE f[x] \in B /\ f[x][3] = x[3] /\ x[1] # 4
  <2>1. CASE \E i \in 1..Len(t \o m) : (t \o m)[i].kind = "data" /\ (t \o m)[i].peer = p /\ x = <<3, i, (t \o m)[i].id>>
    <3>1. PICK i \in 1..Len(t \o m) : (t \o m)[i].kind = "data" /\ (t \o m)[i].peer = p /\ x = <<3, i, (t \o m)[i].id>>
      BY Zenon, <2>1
    <3>2. CASE i <= Len(t)
      <4>1. i \in 1..Len(t) /\ (t \o m)[i] = t[i]
        BY <1>5, <3>2
      <4>2. f[x] = x /\ x[1] # 4
        BY SMTT(30), <3>1, <3>2, <4>1, <1>1
      <4>3. QED
        BY ZenonT(40), <1>7, <3>1, <4>1, <4>2
    <3>3. CASE i > Len(t)
      <4>1. PICK j \in 1..Len(d) : Len(t) + j = i /\ j = i - Len(t)
        BY <1>1, <1>5, <3>3
      <4>2. (t \o m)[i].id = d[j]
        BY Zenon, <1>2, <1>5, <4>1
      <4>3. f[x] = <<4, j, d[j]>> /\ f[x][3] = x[3] /\ x[1] # 4
        <5>1. x = <<3, i, d[j]>>
          BY Zenon, <3>1, <4>2
        <5>2. QED
          BY SMTT(30), <3>3, <4>1, <5>1
      <4>4. QED
        BY Zenon, <1>7, <4>3
    <3>4. QED
      BY <3>2, <3>3, <1>1, <1>5
  <2>2. CASE \E i \in 1..Len(a) : x = <<1, i, a[i]>>
    BY SMTT(30), <2>2, <1>7
  <2>3. CASE \E i \in 1..Len(b) : b[i].kind = "data" /\ b[i].peer = p /\ x = <<2, i, b[i].id>>
    <3>1. f[x] = x /\ x[1] # 4
      BY SMTT(30), <2>3
    <3>2. QED
      BY Zenon, <1>7, <2>3, <3>1
  <2>4. QED
    BY ZenonT(40), <2>1, <2>2, <2>3, <1>6
<1>10. ASSUME NEW x \in A, NEW y \in A, Ahead(x, y) PROVE Ahead(f[x], f[y])
  <2>1. /\ x[1] = 3 /\ x[2] > Len(t) => f[x][1] = 4 /\ f[x][2] = x[2] - Len(t)
        /\ ~ (x[1] = 3 /\ x[2] > Len(t)) => f[x][1] = x[1] /\ f[x][2] = x[2]
    OBVIOUS
  <2>2. /\ y[1] = 3 /\ y[2] > Len(t) => f[y][1] = 4 /\ f[y][2] = y[2] - Len(t)
        /\ ~ (y[1] = 3 /\ y[2] > Len(t)) => f[y][1] = y[1] /\ f[y][2] = y[2]
    OBVIOUS
  <2> HIDE DEF f
  <2>3. x[1] \in 1..4 /\ x[2] \in Nat /\ y[1] \in 1..4 /\ y[2] \in Nat /\ x[1] # 4 /\ y[1] # 4 /\ Len(t) \in Nat /\ Ahead(x, y)
    BY ZenonT(40), <1>1, <1>8, <1>9, <1>10
  <2>4. CASE x[1] = 3 /\ x[2] > Len(t)
    BY SMTT(30), <2>1, <2>2, <2>3, <2>4 DEF Ahead
  <2>5. CASE ~ (x[1] = 3 /\ x[2] > Len(t))
    BY <2>1, <2>2, <2>3, <2>5 DEF Ahead
  <2>6. QED
    BY Zenon, <2>4, <2>5
<1> HIDE DEF f
<1>11. Part(A, B)
  <2>1. \A x \in A : f[x] \in B /\ f[x][3] = x[3]
    BY Zenon, <1>9
  <2>2. \A x, y \in A : Ahead(x, y) => Ahead(f[x], f[y])
    BY Zenon, <1>10
  <2>3. QED
    BY Zenon, <2>1, <2>2, Mapped
<1>12. ASSUME NEW y \in B PROVE \E x \in A : x[3] = y[3]
  <2>1. CASE \E i \in 1..Len(d) : y = <<4, i, d[i]>>
    <3>1. PICK i \in 1..Len(d) : y = <<4, i, d[i]>>
      BY Zenon, <2>1
    <3>2. Len(t) + i \in 1..Len(t \o m)
      BY <1>1, <1>5
    <3>3. <<3, Len(t) + i, d[i]>> \in A
      BY ZenonT(40), <1>2, <1>5, <1>6, <3>2
    <3>4. QED
      BY SMTT(30), <3>1, <3>3
  <2>2. CASE \E i \in 1..Len(t) : t[i].kind = "data" /\ t[i].peer = p /\ y = <<3, i, t[i].id>>
    BY Zenon, <1>5, <1>6, <2>2
  <2>3. QED
    BY Zenon, <1>6, <1>7, <2>1, <2>2
<1>13. Ids(B) \subseteq Ids(A)
  BY Zenon, <1>12 DEF Ids
<1>14. QED
  BY Zenon, <1>4, <1>11, <1>13 DEF Kept, Part, A, B, m
NoneTo(p, m) == \A i \in 1..Len(m) : ~ (m[i].kind = "data" /\ m[i].peer = p)

\* Messages that are no packets of a pair leave its line as it is.
LEMMA OtherLine ==
  ASSUME NEW a \in Seq(1..MaxPackets), NEW b \in Seq(Message), NEW t \in Seq(Message),
         NEW d \in Seq(1..MaxPackets), NEW p, NEW m \in Seq(Message),
         NoneTo(p, m)
  PROVE  /\ Line(a, b, t \o m, d, p) \subseteq Line(a, b, t, d, p)
         /\ Line(a, b, t, d, p) \subseteq Line(a, b, t \o m, d, p)
<1>0. DOMAIN a = 1..Len(a) /\ DOMAIN b = 1..Len(b) /\ DOMAIN t = 1..Len(t) /\ DOMAIN d = 1..Len(d)
  OBVIOUS
<1>1. t \o m \in Seq(Message) /\ Len(t \o m) = Len(t) + Len(m) /\ Len(t) \in Nat /\ Len(m) \in Nat
      /\ (\A i \in 1..Len(t) : (t \o m)[i] = t[i] /\ i \in 1..Len(t \o m))
      /\ (\A i \in 1..Len(m) : (t \o m)[Len(t) + i] = m[i])
  BY Zenon, Concatenated
<1>2. ASSUME NEW i \in 1..Len(t \o m), (t \o m)[i].kind = "data" /\ (t \o m)[i].peer = p
      PROVE  i \in 1..Len(t) /\ (t \o m)[i] = t[i]
  <2>1. CASE i > Len(t)
    <3>0. Len(t \o m) = Len(t) + Len(m) /\ Len(t) \in Nat /\ Len(m) \in Nat
      BY Zenon, <1>1
    <3>1. PICK j \in 1..Len(m) : i = Len(t) + j
      <4>1. i - Len(t) \in 1..Len(m) /\ i = Len(t) + (i - Len(t))
        BY <2>1, <3>0
      <4>2. QED
        BY Zenon, <4>1
    <3>2. QED
      BY Zenon, <1>1, <1>2, <3>1 DEF NoneTo
  <2>2. QED
    BY <1>1, <2>1
<1>3. ASSUME NEW x PROVE x \in Line(a, b, t \o m, d, p) <=> x \in Line(a, b, t, d, p)
  <2>1. (\E i \in 1..Len(t \o m) : (t \o m)[i].kind = "data" /\ (t \o m)[i].peer = p /\ x = <<3, i, (t \o m)[i].id>>)
        <=> (\E i \in 1..Len(t) : t[i].kind = "data" /\ t[i].peer = p /\ x = <<3, i, t[i].id>>)
    BY Zenon, <1>1, <1>2
  <2>2. PICK s \in Seq(Message) : s = t \o m
    BY Zenon, <1>1
  <2>d. DOMAIN s = 1..Len(s)
    OBVIOUS
  <2>3. x \in Line(a, b, s, d, p) <=>
           \/ \E i \in 1..Len(a) : x = <<1, i, a[i]>>
           \/ \E i \in 1..Len(b) : b[i].kind = "data" /\ b[i].peer = p /\ x = <<2, i, b[i].id>>
           \/ \E i \in 1..Len(s) : s[i].kind = "data" /\ s[i].peer = p /\ x = <<3, i, s[i].id>>
           \/ \E i \in 1..Len(d) : x = <<4, i, d[i]>>
    BY Zenon, <1>0, <2>d DEF Line, Numbers, DataTo
  <2>4. x \in Line(a, b, t, d, p) <=>
           \/ \E i \in 1..Len(a) : x = <<1, i, a[i]>>
           \/ \E i \in 1..Len(b) : b[i].kind = "data" /\ b[i].peer = p /\ x = <<2, i, b[i].id>>
           \/ \E i \in 1..Len(t) : t[i].kind = "data" /\ t[i].peer = p /\ x = <<3, i, t[i].id>>
           \/ \E i \in 1..Len(d) : x = <<4, i, d[i]>>
    BY Zenon, <1>0, <2>d DEF Line, Numbers, DataTo
  <2>5. QED
    BY Zenon, <2>1, <2>2, <2>3, <2>4
<1>4. QED
  BY Zenon, <1>3

LEMMA OtherAppended ==
  ASSUME NEW a \in Seq(1..MaxPackets), NEW b \in Seq(Message), NEW t \in Seq(Message),
         NEW d \in Seq(1..MaxPackets), NEW p, NEW m \in Message,
         ~ (m.kind = "data" /\ m.peer = p)
  PROVE  /\ Line(a, b, Append(t, m), d, p) \subseteq Line(a, b, t, d, p)
         /\ Line(a, b, t, d, p) \subseteq Line(a, b, Append(t, m), d, p)
<1>1. Append(t, m) = t \o <<m>> /\ <<m>> \in Seq(Message) /\ \A i \in 1..Len(<<m>>) : <<m>>[i] = m
  OBVIOUS
<1>2. PICK s \in Seq(Message) : s = <<m>>
  BY Zenon, <1>1
<1>3. NoneTo(p, s)
  BY Zenon, <1>1, <1>2 DEF NoneTo
<1>4. Line(a, b, t \o s, d, p) \subseteq Line(a, b, t, d, p) /\ Line(a, b, t, d, p) \subseteq Line(a, b, t \o s, d, p)
  BY Zenon, <1>3, OtherLine
<1>5. QED
  BY Zenon, <1>1, <1>2, <1>4

\* send_to: the packet is the last of the client's.
LEMMA SentLine ==
  ASSUME NEW a \in Seq(1..MaxPackets), NEW b \in Seq(Message), NEW t \in Seq(Message),
         NEW d \in Seq(1..MaxPackets), NEW p \in Peer, NEW n \in 1..MaxPackets
  PROVE  /\ Line(a, b, Append(t, Data(p, n)), d, p) \subseteq Line(a, b, t, d, p) \cup {<<3, Len(t) + 1, n>>}
         /\ Line(a, b, t, d, p) \cup {<<3, Len(t) + 1, n>>} \subseteq Line(a, b, Append(t, Data(p, n)), d, p)
<1>0. DOMAIN a = 1..Len(a) /\ DOMAIN b = 1..Len(b) /\ DOMAIN t = 1..Len(t) /\ DOMAIN d = 1..Len(d)
  OBVIOUS
<1>1. PICK m \in Message : m = Data(p, n)
  BY Zenon DEF Data, Message
<1>2. m.kind = "data" /\ m.peer = p /\ m.id = n
  BY Zenon, <1>1 DEF Data
<1>3. PICK s \in Seq(Message) : s = Append(t, m)
  <2>1. Append(t, m) \in Seq(Message)
    OBVIOUS
  <2>2. QED
    BY Zenon, <2>1
<1>4. Len(s) = Len(t) + 1 /\ Len(t) \in Nat /\ s[Len(t) + 1] = m /\ \A i \in 1..Len(t) : s[i] = t[i]
  BY <1>3
<1>5. Len(t) + 1 \in 1..Len(s) /\ (\A i \in 1..Len(t) : i \in 1..Len(s))
      /\ \A i \in 1..Len(s) : i \in 1..Len(t) \/ i = Len(t) + 1
  BY <1>4
<1>d. DOMAIN s = 1..Len(s)
  OBVIOUS
<1>6. ASSUME NEW x PROVE x \in Line(a, b, s, d, p) <=> x \in Line(a, b, t, d, p) \/ x = <<3, Len(t) + 1, n>>
  <2>1. (\E i \in 1..Len(s) : s[i].kind = "data" /\ s[i].peer = p /\ x = <<3, i, s[i].id>>)
        <=> (\E i \in 1..Len(t) : t[i].kind = "data" /\ t[i].peer = p /\ x = <<3, i, t[i].id>>) \/ x = <<3, Len(t) + 1, n>>
    BY Zenon, <1>2, <1>4, <1>5
  <2>2. x \in Line(a, b, s, d, p) <=>
           \/ \E i \in 1..Len(a) : x = <<1, i, a[i]>>
           \/ \E i \in 1..Len(b) : b[i].kind = "data" /\ b[i].peer = p /\ x = <<2, i, b[i].id>>
           \/ \E i \in 1..Len(s) : s[i].kind = "data" /\ s[i].peer = p /\ x = <<3, i, s[i].id>>
           \/ \E i \in 1..Len(d) : x = <<4, i, d[i]>>
    BY Zenon, <1>0, <1>d DEF Line, Numbers, DataTo
  <2>3. x \in Line(a, b, t, d, p) <=>
           \/ \E i \in 1..Len(a) : x = <<1, i, a[i]>>
           \/ \E i \in 1..Len(b) : b[i].kind = "data" /\ b[i].peer = p /\ x = <<2, i, b[i].id>>
           \/ \E i \in 1..Len(t) : t[i].kind = "data" /\ t[i].peer = p /\ x = <<3, i, t[i].id>>
           \/ \E i \in 1..Len(d) : x = <<4, i, d[i]>>
    BY Zenon, <1>0, <1>d DEF Line, Numbers, DataTo
  <2>4. QED
    BY Zenon, <2>1, <2>2, <2>3
<1>7. QED
  BY Zenon, <1>1, <1>3, <1>6

\* buffer_packet: the packet is the last of the queue.
LEMMA BufferedLine ==
  ASSUME NEW a \in Seq(1..MaxPackets), NEW b \in Seq(Message), NEW t \in Seq(Message),
         NEW d \in Seq(1..MaxPackets), NEW p, NEW n \in 1..MaxPackets
  PROVE  /\ Line(a, b, t, Append(d, n), p) \subseteq Line(a, b, t, d, p) \cup {<<4, Len(d) + 1, n>>}
         /\ Line(a, b, t, d, p) \cup {<<4, Len(d) + 1, n>>} \subseteq Line(a, b, t, Append(d, n), p)
<1>0. DOMAIN a = 1..Len(a) /\ DOMAIN b = 1..Len(b) /\ DOMAIN t = 1..Len(t) /\ DOMAIN d = 1..Len(d)
  OBVIOUS
<1>3. PICK s \in Seq(1..MaxPackets) : s = Append(d, n)
  <2>1. Append(d, n) \in Seq(1..MaxPackets)
    OBVIOUS
  <2>2. QED
    BY Zenon, <2>1
<1>4. Len(s) = Len(d) + 1 /\ Len(d) \in Nat /\ s[Len(d) + 1] = n /\ \A i \in 1..Len(d) : s[i] = d[i]
  BY <1>3
<1>5. Len(d) + 1 \in 1..Len(s) /\ (\A i \in 1..Len(d) : i \in 1..Len(s))
      /\ \A i \in 1..Len(s) : i \in 1..Len(d) \/ i = Len(d) + 1
  BY SMTT(30), <1>4
<1>d. DOMAIN s = 1..Len(s)
  OBVIOUS
<1>6. ASSUME NEW x PROVE x \in Line(a, b, t, s, p) <=> x \in Line(a, b, t, d, p) \/ x = <<4, Len(d) + 1, n>>
  <2>1. (\E i \in 1..Len(s) : x = <<4, i, s[i]>>)
        <=> (\E i \in 1..Len(d) : x = <<4, i, d[i]>>) \/ x = <<4, Len(d) + 1, n>>
    BY Zenon, <1>4, <1>5
  <2>2. x \in Line(a, b, t, s, p) <=>
           \/ \E i \in 1..Len(a) : x = <<1, i, a[i]>>
           \/ \E i \in 1..Len(b) : b[i].kind = "data" /\ b[i].peer = p /\ x = <<2, i, b[i].id>>
           \/ \E i \in 1..Len(t) : t[i].kind = "data" /\ t[i].peer = p /\ x = <<3, i, t[i].id>>
           \/ \E i \in 1..Len(s) : x = <<4, i, s[i]>>
    BY Zenon, <1>0, <1>d DEF Line, Numbers, DataTo
  <2>3. x \in Line(a, b, t, d, p) <=>
           \/ \E i \in 1..Len(a) : x = <<1, i, a[i]>>
           \/ \E i \in 1..Len(b) : b[i].kind = "data" /\ b[i].peer = p /\ x = <<2, i, b[i].id>>
           \/ \E i \in 1..Len(t) : t[i].kind = "data" /\ t[i].peer = p /\ x = <<3, i, t[i].id>>
           \/ \E i \in 1..Len(d) : x = <<4, i, d[i]>>
    BY Zenon, <1>0, <1>d DEF Line, Numbers, DataTo
  <2>4. QED
    BY Zenon, <2>1, <2>2, <2>3
<1>7. QED
  BY Zenon, <1>3, <1>6

\* A client that is dropped, and a queue that is dropped or loses all but its head.
LEMMA DroppedLine ==
  ASSUME NEW a \in Seq(1..MaxPackets), NEW b \in Seq(Message), NEW t \in Seq(Message),
         NEW d \in Seq(1..MaxPackets), NEW p
  PROVE  /\ Line(a, b, t, << >>, p) \subseteq Line(a, b, t, d, p)
         /\ Line(a, b, << >>, d, p) \subseteq Line(a, b, t, d, p)
         /\ d # << >> => Line(a, b, t, <<Head(d)>>, p) \subseteq Line(a, b, t, d, p)
<1>1. DOMAIN << >> = {}
  OBVIOUS
<1>2. Numbers(4, << >>) \subseteq Numbers(4, d) /\ DataTo(3, << >>, p) \subseteq DataTo(3, t, p)
  BY Zenon, <1>1 DEF Numbers, DataTo
<1>3. ASSUME d # << >> PROVE Numbers(4, <<Head(d)>>) \subseteq Numbers(4, d)
  <2>1. DOMAIN <<Head(d)>> = {1} /\ <<Head(d)>>[1] = d[1] /\ 1 \in DOMAIN d
    BY <1>3
  <2>2. QED
    BY Zenon, <2>1 DEF Numbers
<1>4. QED
  BY Zenon, <1>2, <1>3 DEF Line
-----------------------------------------------------------------------------
(* Outgoing.                                                                *)

InOrder(S, w) ==
    \A x, y \in S : Ahead(x, y) => x[3] < y[3] \/ (x[3] > y[3] /\ x[3] \notin w /\ y[3] \in w)

LEMMA OrderKept ==
  ASSUME NEW A, NEW B, NEW w, Part(A, B)
  PROVE  InOrder(B, w) => InOrder(A, w)
<1>1. ASSUME NEW x \in A, NEW y \in A, Ahead(x, y)
      PROVE  \E u \in B, v \in B : Ahead(u, v) /\ u[3] = x[3] /\ v[3] = y[3]
  BY ZenonT(40), <1>1 DEF Part
<1>2. ASSUME InOrder(B, w), NEW x \in A, NEW y \in A, Ahead(x, y)
      PROVE  x[3] < y[3] \/ (x[3] > y[3] /\ x[3] \notin w /\ y[3] \in w)
  <2>1. PICK u \in B, v \in B : Ahead(u, v) /\ u[3] = x[3] /\ v[3] = y[3]
    BY Zenon, <1>1, <1>2
  <2>2. u[3] < v[3] \/ (u[3] > v[3] /\ u[3] \notin w /\ v[3] \in w)
    BY Zenon, <1>2, <2>1 DEF InOrder
  <2>3. QED
    BY Zenon, <2>1, <2>2
<1>3. QED
  BY Zenon, <1>2 DEF InOrder

LEMMA IdAdded ==
  ASSUME NEW B, NEW z
  PROVE  Ids(B \cup {z}) = Ids(B) \cup {z[3]}
<1>1. \A n : n \in Ids(B \cup {z}) <=> n \in Ids(B) \/ n = z[3]
  BY Zenon DEF Ids
<1>2. QED
  BY Zenon, <1>1

\* Packets move, and are lost by excused pairs only.
LEMMA MovedStep ==
  ASSUME Outgoing, waited' = waited, lastPacket' = lastPacket, handed' = handed, excused \subseteq excused',
         \A q \in Pair : /\ Part(Stream(q)', Stream(q))
                         /\ q \notin excused' => Kept(Stream(q)', Stream(q))
                         /\ \A i \in DOMAIN packets'[q] : packets'[q][i] \in waited
  PROVE  Outgoing'
<1>1. ASSUME NEW q \in Pair PROVE Ids(Stream(q)') \subseteq 1..lastPacket
  BY Zenon DEF Outgoing, Part
<1>2. ASSUME NEW q \in Pair PROVE InOrder(Stream(q)', waited)
  <2>1. Part(Stream(q)', Stream(q)) /\ InOrder(Stream(q), waited)
    BY Zenon DEF Outgoing, InOrderUnlessWaiting, InOrder
  <2>2. QED
    BY Zenon, <2>1, OrderKept
<1>3. ASSUME NEW q \in Pair \ excused' PROVE Ids(Stream(q)') = handed[q]
  BY Zenon DEF Outgoing, Kept
<1>4. QED
  BY Zenon, <1>1, <1>2, <1>3 DEF Outgoing, InOrderUnlessWaiting, InOrder

\* A packet more, with the next number.
LEMMA AddedStep ==
  ASSUME Outgoing, lastPacket \in Nat, handed \in [Pair -> SUBSET (1..MaxPackets)],
         NEW o \in Pair, NEW B, NEW z, z[3] = lastPacket + 1, ~ Ahead(z, z),
         Stream(o)' = B \cup {z}, Part(B, Stream(o)), o \notin excused' => Kept(B, Stream(o)),
         waited' = waited \/ waited' = waited \cup {lastPacket + 1},
         \A y \in B : Ahead(z, y) => y[3] \in waited /\ waited' = waited,
         lastPacket' = lastPacket + 1, excused \subseteq excused',
         handed' = [handed EXCEPT ![o] = @ \cup {lastPacket + 1}],
         \A q \in Pair \ {o} : Stream(q)' = Stream(q) /\ packets'[q] = packets[q],
         \A i \in DOMAIN packets'[o] : packets'[o][i] \in waited'
  PROVE  Outgoing'
<1> DEFINE n == lastPacket + 1
<1>1. (\A k \in 1..lastPacket : k < n /\ n > k /\ k \in 1..n /\ k # n) /\ n \in 1..n
  OBVIOUS
<1>2. waited \subseteq 1..lastPacket /\ \A q \in Pair : Ids(Stream(q)) \subseteq 1..lastPacket
  BY Zenon DEF Outgoing
<1> HIDE DEF n
<1>3. \A k \in 1..lastPacket : k \in waited' <=> k \in waited
  BY ZenonT(40), <1>1, <1>2 DEF n
<1>4. \A y \in B : y[3] \in 1..lastPacket
  <2>1. Ids(B) \subseteq 1..lastPacket
    BY Zenon, <1>2 DEF Part
  <2>2. QED
    BY Zenon, <2>1 DEF Ids
<1>5. Ids(Stream(o)') = Ids(B) \cup {n}
  <2>1. Ids(B \cup {z}) = Ids(B) \cup {z[3]}
    BY Zenon, IdAdded
  <2>2. QED
    BY Zenon, <2>1 DEF n
<1>6. ASSUME NEW q \in Pair PROVE Ids(Stream(q)') \subseteq 1..n
  <2>1. CASE q = o
    BY Zenon, <2>1, <1>1, <1>2, <1>5 DEF Part
  <2>2. CASE q # o
    BY Zenon, <2>2, <1>1, <1>2
  <2>3. QED
    BY Zenon, <2>1, <2>2
<1>7. ASSUME NEW q \in Pair, NEW x \in Stream(q), NEW y \in Stream(q), Ahead(x, y)
      PROVE  x[3] < y[3] \/ (x[3] > y[3] /\ x[3] \notin waited' /\ y[3] \in waited')
  <2>1. x[3] \in 1..lastPacket /\ y[3] \in 1..lastPacket
    BY ZenonT(40), <1>2 DEF Ids
  <2>2. x[3] < y[3] \/ (x[3] > y[3] /\ x[3] \notin waited /\ y[3] \in waited)
    BY Zenon, <1>7 DEF Outgoing, InOrderUnlessWaiting
  <2>3. QED
    BY Zenon, <1>3, <2>1, <2>2
<1>8. ASSUME NEW q \in Pair, NEW x \in Stream(q)', NEW y \in Stream(q)', Ahead(x, y)
      PROVE  x[3] < y[3] \/ (x[3] > y[3] /\ x[3] \notin waited' /\ y[3] \in waited')
  <2>1. CASE q # o
    <3>1. x \in Stream(q) /\ y \in Stream(q)
      BY Zenon, <2>1
    <3>2. QED
      BY Zenon, <1>7, <1>8, <3>1
  <2>2. CASE q = o /\ x \in B /\ y \in B
    <3>1. PICK u \in Stream(o), v \in Stream(o) : Ahead(u, v) /\ u[3] = x[3] /\ v[3] = y[3]
      BY ZenonT(40), <1>8, <2>2 DEF Part
    <3>2. u[3] < v[3] \/ (u[3] > v[3] /\ u[3] \notin waited' /\ v[3] \in waited')
      BY Zenon, <3>1, <1>7
    <3>3. QED
      BY Zenon, <3>1, <3>2
  <2>3. CASE q = o /\ x \in B /\ y = z
    BY Zenon, <1>1, <1>4, <2>3 DEF n
  <2>4. CASE q = o /\ x = z /\ y \in B
    <3>1. y[3] \in waited /\ waited' = waited
      BY Zenon, <1>8, <2>4
    <3>2. x[3] = n /\ n \notin waited /\ n > y[3]
      BY Zenon, <1>1, <1>2, <1>4, <2>4 DEF n
    <3>3. QED
      BY Zenon, <3>1, <3>2
  <2>5. QED
    BY Zenon, <1>8, <2>1, <2>2, <2>3, <2>4
<1>9. ASSUME NEW q \in Pair \ excused' PROVE Ids(Stream(q)') = handed'[q]
  <2>1. Ids(Stream(q)) = handed[q]
    BY Zenon DEF Outgoing
  <2>2. CASE q = o
    BY Zenon, <1>5, <2>1, <2>2 DEF Kept, n
  <2>3. CASE q # o
    BY Zenon, <2>1, <2>3
  <2>4. QED
    BY Zenon, <2>2, <2>3
<1>10. ASSUME NEW q \in Pair, NEW i \in DOMAIN packets'[q] PROVE packets'[q][i] \in waited'
  <2>1. CASE q # o
    BY Zenon, <2>1 DEF Outgoing
  <2>2. QED
    BY Zenon, <2>1
<1>11. waited' \subseteq 1..n
  BY ZenonT(40), <1>1, <1>2 DEF n
<1>12. QED
  BY ZenonT(40), <1>6, <1>8, <1>9, <1>10, <1>11 DEF Outgoing, InOrderUnlessWaiting, n
LEMMA StreamType ==
  ASSUME TypeOK, NEW q \in Pair
  PROVE  /\ q.relay \in Client /\ q.peer \in Peer /\ q = At(q.relay, q.peer)
         /\ sent[q] \in Seq(1..MaxPackets) /\ packets[q] \in Seq(1..MaxPackets)
         /\ wouts[q.relay] \in Seq(Message) /\ transmits[q.relay] \in Seq(Message)
BY Zenon DEF TypeOK, Pair, At

LEMMA AtType ==
  ASSUME NEW c \in Client, NEW p \in Peer
  PROVE  At(c, p) \in Pair /\ At(c, p).relay = c /\ At(c, p).peer = p
BY Zenon DEF At, Pair

\* Steps that touch none of the queues.
LEMMA StillStep ==
  ASSUME Outgoing,
         UNCHANGED <<sent, wouts, transmits, packets, waited, lastPacket, handed, excused>>
  PROVE  Outgoing'
<1>1. ASSUME NEW q \in Pair PROVE Stream(q)' = Stream(q)
  BY Zenon DEF Stream
<1>2. ASSUME NEW q \in Pair PROVE Part(Stream(q)', Stream(q)) /\ Kept(Stream(q)', Stream(q))
  BY Zenon, <1>1, Same DEF Kept
<1>3. QED
  BY Zenon, <1>2, MovedStep DEF Outgoing

LEMMA StartWritesStep ==
  ASSUME TypeOK, Outgoing, StartWrites(transmits),
         UNCHANGED <<sent, packets, waited, lastPacket, handed, excused>>
  PROVE  Outgoing'
<1>1. ASSUME NEW q \in Pair PROVE Kept(Stream(q)', Stream(q))
  <2>1. q.relay \in Client /\ sent[q] \in Seq(1..MaxPackets) /\ packets[q] \in Seq(1..MaxPackets)
        /\ wouts[q.relay] \in Seq(Message) /\ transmits[q.relay] \in Seq(Message)
    BY Zenon, StreamType
  <2>2. Stream(q)' = Line(sent[q], wouts'[q.relay], transmits'[q.relay], packets[q], q.peer)
    BY Zenon DEF Stream
  <2>3. CASE q.relay \in clients
    <3>1. wouts'[q.relay] = wouts[q.relay] \o transmits[q.relay] /\ transmits'[q.relay] = << >>
      BY Zenon, <2>1, <2>3 DEF StartWrites
    <3>2. QED
      BY Zenon, <2>1, <2>2, <3>1, StartedLine DEF Stream
  <2>4. CASE q.relay \notin clients
    <3>1. wouts'[q.relay] = wouts[q.relay] \o << >> /\ transmits'[q.relay] = transmits[q.relay]
      BY ZenonT(40), <2>1, <2>4 DEF StartWrites
    <3>2. wouts[q.relay] \o << >> = wouts[q.relay]
      BY <2>1
    <3>3. Stream(q)' = Stream(q)
      BY Zenon, <2>2, <3>1, <3>2 DEF Stream
    <3>4. QED
      BY Zenon, <3>3, Same
  <2>5. QED
    BY Zenon, <2>3, <2>4
<1>2. ASSUME NEW q \in Pair PROVE Part(Stream(q)', Stream(q)) /\ Kept(Stream(q)', Stream(q))
  BY Zenon, <1>1 DEF Kept
<1>3. QED
  BY Zenon, <1>2, MovedStep DEF Outgoing

LEMMA WriteOutStep ==
  ASSUME TypeOK, Outgoing, NEW c \in Client, WriteOut(c)
  PROVE  Outgoing'
<1> DEFINE m == Head(wouts[c])
<1>1. wouts \in [Client -> Seq(Message)] /\ sent \in [Pair -> Seq(1..MaxPackets)] /\ wouts[c] # << >>
  BY Zenon DEF TypeOK, WriteOut
<1>2. sent' = IF m.kind = "data" THEN [sent EXCEPT ![At(c, m.peer)] = Append(@, m.id)] ELSE sent
  BY Zenon DEF WriteOut
<1>3. wouts' = [wouts EXCEPT ![c] = Tail(@)]
      /\ UNCHANGED <<transmits, packets, waited, lastPacket, handed, excused>>
  BY Zenon DEF WriteOut, relayer, turn, counts, hist
<1> HIDE DEF m
<1>4. ASSUME NEW q \in Pair PROVE Kept(Stream(q)', Stream(q))
  <2>1. q.relay \in Client /\ sent[q] \in Seq(1..MaxPackets) /\ packets[q] \in Seq(1..MaxPackets)
        /\ wouts[q.relay] \in Seq(Message) /\ transmits[q.relay] \in Seq(Message) /\ q = At(q.relay, q.peer)
    BY Zenon, StreamType
  <2>2. Stream(q)' = Line(sent'[q], wouts'[q.relay], transmits[q.relay], packets[q], q.peer)
    BY Zenon, <1>3 DEF Stream
  <2>3. At(c, m.peer).relay = c /\ At(c, m.peer).peer = m.peer
    BY Zenon DEF At
  <2>4. CASE q.relay # c
    <3>1. sent'[q] = sent[q] /\ wouts'[q.relay] = wouts[q.relay]
      BY Zenon, <1>1, <1>2, <1>3, <2>1, <2>3, <2>4
    <3>2. QED
      BY Zenon, <2>2, <3>1, Same DEF Stream
  <2>5. CASE q.relay = c /\ m.kind = "data" /\ m.peer = q.peer
    <3>1. sent'[q] = Append(sent[q], m.id) /\ wouts'[q.relay] = Tail(wouts[q.relay])
      BY Zenon, <1>1, <1>2, <1>3, <2>1, <2>5
    <3>2. PICK s \in Seq(Message) : s = wouts[q.relay]
      BY Zenon, <2>1
    <3>3. s # << >> /\ Head(s) = m /\ Head(s).kind = "data" /\ Head(s).peer = q.peer
      BY Zenon, <1>1, <2>5, <3>2 DEF m
    <3>4. Kept(Line(Append(sent[q], Head(s).id), Tail(s), transmits[q.relay], packets[q], q.peer),
               Line(sent[q], s, transmits[q.relay], packets[q], q.peer))
      BY Zenon, <2>1, <3>3, WrittenLine
    <3>5. QED
      BY Zenon, <2>2, <3>1, <3>2, <3>3, <3>4 DEF Stream
  <2>6. CASE q.relay = c /\ ~ (m.kind = "data" /\ m.peer = q.peer)
    <3>1. sent'[q] = sent[q] /\ wouts'[q.relay] = Tail(wouts[q.relay])
      BY Zenon, <1>1, <1>2, <1>3, <2>3, <2>6
    <3>2. PICK s \in Seq(Message) : s = wouts[q.relay]
      BY Zenon, <2>1
    <3>3. s # << >> /\ ~ (Head(s).kind = "data" /\ Head(s).peer = q.peer)
      BY Zenon, <1>1, <2>6, <3>2 DEF m
    <3>4. Kept(Line(sent[q], Tail(s), transmits[q.relay], packets[q], q.peer),
               Line(sent[q], s, transmits[q.relay], packets[q], q.peer))
      BY Zenon, <2>1, <3>3, TailLine
    <3>5. QED
      BY Zenon, <2>2, <3>1, <3>2, <3>4 DEF Stream
  <2>7. QED
    BY Zenon, <2>4, <2>5, <2>6
<1>5. ASSUME NEW q \in Pair PROVE Part(Stream(q)', Stream(q)) /\ Kept(Stream(q)', Stream(q))
  BY Zenon, <1>4 DEF Kept
<1>6. QED
  BY Zenon, <1>3, <1>5, MovedStep DEF Outgoing
\* What a client that is dropped leaves to be written.
LEMMA LeftLine ==
  ASSUME NEW a \in Seq(1..MaxPackets), NEW b \in Seq(Message), NEW t \in Seq(Message),
         NEW d \in Seq(1..MaxPackets), NEW p, NEW e, e = d \/ e = << >>
  PROVE  Part(Line(a, b, << >>, e, p), Line(a, b, t, d, p))
<1>1. << >> \in Seq(Message)
  OBVIOUS
<1>2. Line(a, b, << >>, d, p) \subseteq Line(a, b, t, d, p)
  BY Zenon, DroppedLine
<1>3. Line(a, b, << >>, << >>, p) \subseteq Line(a, b, << >>, d, p)
  BY Zenon, <1>1, DroppedLine
<1>4. Line(a, b, << >>, e, p) \subseteq Line(a, b, t, d, p)
  BY Zenon, <1>2, <1>3
<1>5. QED
  BY Zenon, <1>4, Fewer

LEMMA WriteFailsStep ==
  ASSUME TypeOK, Outgoing, NEW c \in Client, WriteFails(c)
  PROVE  Outgoing'
<1>1. /\ wouts \in [Client -> Seq(Message)] /\ transmits \in [Client -> Seq(Message)]
      /\ wouts[c] # << >> /\ wouts' = [wouts EXCEPT ![c] = Tail(@)]
      /\ transmits' = [transmits EXCEPT ![c] = << >>]
      /\ excused' = excused \cup {q \in Pair : q.relay = c}
      /\ UNCHANGED <<sent, waited, lastPacket, handed>>
  BY Zenon DEF TypeOK, WriteFails, RemoveClient, counts, hist
<1>2. ASSUME NEW q \in Pair
      PROVE  /\ packets'[q] = packets[q] \/ packets'[q] = << >>
             /\ q.relay # c => packets'[q] = packets[q]
  <2>1. CASE c \in relayAddrs
    BY Zenon, <2>1 DEF WriteFails, RemoveClient, DropRelay
  <2>2. CASE c \notin relayAddrs
    BY Zenon, <2>2 DEF WriteFails, RemoveClient
  <2>3. QED
    BY Zenon, <2>1, <2>2
<1>3. ASSUME NEW q \in Pair
      PROVE  /\ Part(Stream(q)', Stream(q))
             /\ q \notin excused' => Kept(Stream(q)', Stream(q))
  <2>1. q.relay \in Client /\ sent[q] \in Seq(1..MaxPackets) /\ packets[q] \in Seq(1..MaxPackets)
        /\ wouts[q.relay] \in Seq(Message) /\ transmits[q.relay] \in Seq(Message)
    BY Zenon, StreamType
  <2>2. Stream(q)' = Line(sent[q], wouts'[q.relay], transmits'[q.relay], packets'[q], q.peer)
    BY Zenon, <1>1 DEF Stream
  <2>3. CASE q.relay # c
    <3>1. wouts'[q.relay] = wouts[q.relay] /\ transmits'[q.relay] = transmits[q.relay] /\ packets'[q] = packets[q]
      BY Zenon, <1>1, <1>2, <2>1, <2>3
    <3>2. Stream(q)' = Stream(q)
      BY Zenon, <2>2, <3>1 DEF Stream
    <3>3. QED
      BY Zenon, <3>2, Same DEF Kept
  <2>4. CASE q.relay = c
    <3>1. wouts'[q.relay] = Tail(wouts[q.relay]) /\ transmits'[q.relay] = << >> /\ q \in excused'
      BY Zenon, <1>1, <2>1, <2>4
    <3>2. PICK s \in Seq(Message) : s = wouts[q.relay]
      BY Zenon, <2>1
    <3>3. s # << >>
      BY Zenon, <1>1, <2>4, <3>2
    <3>4. Tail(s) \in Seq(Message)
      BY <3>3
    <3>5. PICK r \in Seq(Message) : r = Tail(s)
      BY Zenon, <3>4
    <3>6. Part(Line(sent[q], r, transmits[q.relay], packets[q], q.peer), Stream(q))
      BY Zenon, <2>1, <3>2, <3>3, <3>5, TailLine DEF Stream
    <3>7. PICK e : e = packets'[q] /\ (e = packets[q] \/ e = << >>)
      BY Zenon, <1>2
    <3>8. Part(Line(sent[q], r, << >>, e, q.peer), Line(sent[q], r, transmits[q.relay], packets[q], q.peer))
      BY Zenon, <2>1, <3>7, LeftLine
    <3>9. Stream(q)' = Line(sent[q], r, << >>, e, q.peer)
      BY Zenon, <2>2, <3>1, <3>2, <3>5, <3>7
    <3>10. QED
      BY Zenon, <3>1, <3>6, <3>8, <3>9, Composed
  <2>5. QED
    BY Zenon, <2>3, <2>4
<1>4. ASSUME NEW q \in Pair, NEW i \in DOMAIN packets'[q] PROVE packets'[q][i] \in waited
  <2>1. DOMAIN << >> = {}
    OBVIOUS
  <2>2. packets'[q] = packets[q]
    BY Zenon, <1>2, <2>1
  <2>3. QED
    BY Zenon, <2>2 DEF Outgoing
<1>5. excused \subseteq excused'
  BY Zenon, <1>1
<1>6. QED
  BY Zenon, <1>1, <1>3, <1>4, <1>5, MovedStep

LEMMA PollFailedOut ==
  ASSUME TypeOK, Outgoing, NEW c \in Client, PollFailed(c)
  PROVE  Outgoing'
<1>1. PICK dropped : /\ packets' = [q \in Pair |-> IF q \in dropped THEN << >> ELSE packets[q]]
                     /\ excused' = excused \cup dropped
  BY Zenon DEF PollFailed
<1>2. UNCHANGED <<sent, wouts, transmits, waited, lastPacket, handed>>
  BY Zenon DEF PollFailed, counts, hist
<1>3. ASSUME NEW q \in Pair
      PROVE  /\ Part(Stream(q)', Stream(q))
             /\ q \notin excused' => Kept(Stream(q)', Stream(q))
  <2>1. sent[q] \in Seq(1..MaxPackets) /\ packets[q] \in Seq(1..MaxPackets)
        /\ wouts[q.relay] \in Seq(Message) /\ transmits[q.relay] \in Seq(Message)
    BY Zenon, StreamType
  <2>2. Stream(q)' = Line(sent[q], wouts[q.relay], transmits[q.relay], packets'[q], q.peer)
    BY Zenon, <1>2 DEF Stream
  <2>3. CASE q \in dropped
    <3>1. packets'[q] = << >> /\ q \in excused'
      BY Zenon, <1>1, <2>3
    <3>2. Line(sent[q], wouts[q.relay], transmits[q.relay], << >>, q.peer) \subseteq Stream(q)
      BY Zenon, <2>1, DroppedLine DEF Stream
    <3>3. QED
      BY Zenon, <2>2, <3>1, <3>2, Fewer
  <2>4. CASE q \notin dropped
    <3>1. Stream(q)' = Stream(q)
      BY Zenon, <1>1, <2>2, <2>4 DEF Stream
    <3>2. QED
      BY Zenon, <3>1, Same DEF Kept
  <2>5. QED
    BY Zenon, <2>3, <2>4
<1>4. ASSUME NEW q \in Pair, NEW i \in DOMAIN packets'[q] PROVE packets'[q][i] \in waited
  <2>1. DOMAIN << >> = {}
    OBVIOUS
  <2>2. packets'[q] = packets[q]
    BY Zenon, <1>1, <2>1
  <2>3. QED
    BY Zenon, <2>2 DEF Outgoing
<1>5. excused \subseteq excused'
  BY Zenon, <1>1
<1>6. QED
  BY Zenon, <1>2, <1>3, <1>4, <1>5, MovedStep

LEMMA CloseOut ==
  ASSUME TypeOK, Outgoing, Close
  PROVE  Outgoing'
<1>1. /\ packets' = [q \in Pair |-> << >>] /\ transmits' = [c \in Client |-> << >>] /\ excused' = Pair
      /\ UNCHANGED <<sent, wouts, waited, lastPacket, handed>>
  BY Zenon DEF Close, counts, hist
<1>2. ASSUME NEW q \in Pair PROVE Part(Stream(q)', Stream(q)) /\ q \in excused' /\ packets'[q] = << >>
  <2>1. q.relay \in Client /\ sent[q] \in Seq(1..MaxPackets) /\ packets[q] \in Seq(1..MaxPackets)
        /\ wouts[q.relay] \in Seq(Message) /\ transmits[q.relay] \in Seq(Message)
    BY Zenon, StreamType
  <2>2. Stream(q)' = Line(sent[q], wouts[q.relay], << >>, << >>, q.peer)
    BY Zenon, <1>1, <2>1 DEF Stream
  <2>3. Part(Line(sent[q], wouts[q.relay], << >>, << >>, q.peer), Stream(q))
    BY Zenon, <2>1, LeftLine DEF Stream
  <2>4. QED
    BY Zenon, <1>1, <2>2, <2>3
<1>3. ASSUME NEW q \in Pair, NEW i \in DOMAIN packets'[q] PROVE packets'[q][i] \in waited
  <2>1. DOMAIN << >> = {}
    OBVIOUS
  <2>2. QED
    BY Zenon, <1>2, <2>1
<1>4. excused \subseteq excused'
  BY Zenon, <1>1 DEF TypeOK
<1>5. QED
  BY Zenon, <1>1, <1>2, <1>3, <1>4, MovedStep
LEMMA FlushOut ==
  ASSUME TypeOK, Outgoing, NEW o \in Pair, Flush(o),
         UNCHANGED <<sent, wouts, waited, lastPacket, handed>>
  PROVE  Outgoing'
<1>0. transmits \in [Client -> Seq(Message)] /\ packets \in [Pair -> Seq(1..MaxPackets)] /\ DOMAIN << >> = {}
  <2>1. DOMAIN << >> = {}
    OBVIOUS
  <2>2. QED
    BY ZenonT(40), <2>1 DEF TypeOK
<1>1. CASE perm[o] = "permitted"
  <2> DEFINE m == [i \in DOMAIN packets[o] |-> Data(o.peer, packets[o][i])]
  <2>1. transmits' = [transmits EXCEPT ![o.relay] = @ \o m]
        /\ packets' = [packets EXCEPT ![o] = << >>] /\ excused' = excused
    BY Zenon, <1>1 DEF Flush
  <2>2. o.relay \in Client /\ o.peer \in Peer /\ sent[o] \in Seq(1..MaxPackets) /\ packets[o] \in Seq(1..MaxPackets)
        /\ wouts[o.relay] \in Seq(Message) /\ transmits[o.relay] \in Seq(Message) /\ o = At(o.relay, o.peer)
    BY Zenon, StreamType
  <2>3. /\ m \in Seq(Message)
        /\ Kept(Line(sent[o], wouts[o.relay], transmits[o.relay] \o m, << >>, o.peer), Stream(o))
    BY Zenon, <2>2, FlushedLine DEF Stream
  <2>4. \A i \in DOMAIN m : m[i].peer = o.peer
    BY ZenonT(40) DEF Data
  <2> HIDE DEF m
  <2>5. DOMAIN m = 1..Len(m)
    BY <2>3
  <2>6. ASSUME NEW q \in Pair PROVE Kept(Stream(q)', Stream(q))
    <3>1. q.relay \in Client /\ sent[q] \in Seq(1..MaxPackets) /\ packets[q] \in Seq(1..MaxPackets)
          /\ wouts[q.relay] \in Seq(Message) /\ transmits[q.relay] \in Seq(Message) /\ q = At(q.relay, q.peer)
      BY Zenon, StreamType
    <3>2. Stream(q)' = Line(sent[q], wouts[q.relay], transmits'[q.relay], packets'[q], q.peer)
      BY Zenon DEF Stream
    <3>3. CASE q = o
      BY Zenon, <1>0, <2>1, <2>2, <2>3, <3>2, <3>3
    <3>4. CASE q # o /\ q.relay # o.relay
      <4>1. transmits'[q.relay] = transmits[q.relay] /\ packets'[q] = packets[q]
        BY Zenon, <1>0, <2>1, <3>1, <3>4
      <4>2. Stream(q)' = Stream(q)
        BY Zenon, <3>2, <4>1 DEF Stream
      <4>3. QED
        BY Zenon, <4>2, Same
    <3>5. CASE q # o /\ q.relay = o.relay
      <4>1. transmits'[q.relay] = transmits[q.relay] \o m /\ packets'[q] = packets[q] /\ q.peer # o.peer
        BY Zenon, <1>0, <2>1, <2>2, <3>1, <3>5
      <4>2. \A i \in 1..Len(m) : ~ (m[i].kind = "data" /\ m[i].peer = q.peer)
        BY Zenon, <2>4, <2>5, <4>1
      <4>3. PICK w \in Seq(Message) : w = m
        BY Zenon, <2>3
      <4>4. NoneTo(q.peer, w)
        BY Zenon, <4>2, <4>3 DEF NoneTo
      <4>5. Line(sent[q], wouts[q.relay], transmits[q.relay] \o w, packets[q], q.peer) = Stream(q)
        <5>1. /\ Line(sent[q], wouts[q.relay], transmits[q.relay] \o w, packets[q], q.peer)
                   \subseteq Line(sent[q], wouts[q.relay], transmits[q.relay], packets[q], q.peer)
              /\ Line(sent[q], wouts[q.relay], transmits[q.relay], packets[q], q.peer)
                   \subseteq Line(sent[q], wouts[q.relay], transmits[q.relay] \o w, packets[q], q.peer)
          BY Zenon, <3>1, <4>4, OtherLine
        <5>2. QED
          BY Zenon, <5>1 DEF Stream
      <4>6. Stream(q)' = Stream(q)
        BY Zenon, <3>2, <4>1, <4>3, <4>5
      <4>7. QED
        BY Zenon, <4>6, Same
    <3>6. QED
      BY Zenon, <3>3, <3>4, <3>5
  <2>7. ASSUME NEW q \in Pair, NEW i \in DOMAIN packets'[q] PROVE packets'[q][i] \in waited
    <3>1. packets'[q] = packets[q]
      BY Zenon, <1>0, <2>1
    <3>2. QED
      BY Zenon, <3>1 DEF Outgoing
  <2>8. ASSUME NEW q \in Pair PROVE Part(Stream(q)', Stream(q)) /\ Kept(Stream(q)', Stream(q))
    BY Zenon, <2>6 DEF Kept
  <2>9. QED
    BY Zenon, <2>1, <2>7, <2>8, MovedStep
<1>2. CASE perm[o] # "permitted"
  <2>1. /\ packets' = [packets EXCEPT ![o] = IF @ = << >> THEN @ ELSE <<Head(@)>>]
        /\ excused' = excused \cup {o} /\ transmits' = transmits
    BY Zenon, <1>2 DEF Flush
  <2>2. packets'[o] = IF packets[o] = << >> THEN packets[o] ELSE <<Head(packets[o])>>
    BY Zenon, <1>0, <2>1
  <2>3. ASSUME NEW q \in Pair, q # o PROVE packets'[q] = packets[q]
    BY Zenon, <1>0, <2>1, <2>3
  <2>4. ASSUME NEW q \in Pair
        PROVE  Part(Stream(q)', Stream(q)) /\ (q \notin excused' => Kept(Stream(q)', Stream(q)))
    <3>1. sent[q] \in Seq(1..MaxPackets) /\ packets[q] \in Seq(1..MaxPackets)
          /\ wouts[q.relay] \in Seq(Message) /\ transmits[q.relay] \in Seq(Message)
      BY Zenon, StreamType
    <3>2. Stream(q)' = Line(sent[q], wouts[q.relay], transmits[q.relay], packets'[q], q.peer)
      BY Zenon, <2>1 DEF Stream
    <3>3. CASE packets'[q] = packets[q]
      <4>1. Stream(q)' = Stream(q)
        BY Zenon, <3>2, <3>3 DEF Stream
      <4>2. QED
        BY Zenon, <4>1, Same DEF Kept
    <3>4. CASE packets'[q] # packets[q]
      <4>1. q = o /\ packets[q] # << >> /\ packets'[q] = <<Head(packets[q])>> /\ q \in excused'
        BY Zenon, <2>1, <2>2, <2>3, <3>4
      <4>2. Line(sent[q], wouts[q.relay], transmits[q.relay], <<Head(packets[q])>>, q.peer) \subseteq Stream(q)
        BY ZenonT(40), <3>1, <4>1, DroppedLine DEF Stream
      <4>3. QED
        BY Zenon, <3>2, <4>1, <4>2, Fewer
    <3>5. QED
      BY Zenon, <3>3, <3>4
  <2>5. ASSUME NEW q \in Pair, NEW i \in DOMAIN packets'[q] PROVE packets'[q][i] \in waited
    <3>1. CASE packets'[q] = packets[q]
      BY Zenon, <3>1 DEF Outgoing
    <3>2. CASE packets'[q] # packets[q]
      <4>1. q = o /\ packets[q] # << >> /\ packets'[q] = <<Head(packets[q])>> /\ packets[q] \in Seq(1..MaxPackets)
        BY Zenon, <1>0, <2>2, <2>3, <3>2
      <4>2. 1 \in DOMAIN packets[q] /\ packets'[q][i] = packets[q][1]
        BY <4>1
      <4>3. QED
        BY Zenon, <4>2 DEF Outgoing
    <3>3. QED
      BY Zenon, <3>1, <3>2
  <2>6. excused \subseteq excused'
    BY Zenon, <2>1
  <2>7. QED
    BY Zenon, <2>1, <2>4, <2>5, <2>6, MovedStep
<1>3. QED
  BY Zenon, <1>1, <1>2

LEMMA PollGrantedOut ==
  ASSUME TypeOK, Outgoing, NEW c \in Client, PollGranted(c)
  PROVE  Outgoing'
<1>1. UNCHANGED <<sent, wouts, waited, lastPacket, handed>>
  BY Zenon DEF PollGranted, counts, hist
<1>2. CASE Answered(Head(events[c])) # {}
  <2>1. Head(events[c]) \in Event
    <3>1. events[c] \in Seq(Event) /\ events[c] # << >>
      BY Zenon DEF TypeOK, PollGranted, Takes
    <3>2. QED
      BY <3>1
  <2>2. Head(events[c]).peer \in Peer
    BY Zenon, <2>1 DEF Event
  <2>3. Flush(At(c, Head(events[c]).peer)) /\ At(c, Head(events[c]).peer) \in Pair
    BY Zenon, <1>2, <2>2, AtType DEF PollGranted
  <2>4. QED
    BY Zenon, <1>1, <2>3, FlushOut
<1>3. CASE Answered(Head(events[c])) = {}
  <2>1. UNCHANGED <<transmits, packets, excused>>
    BY Zenon, <1>3 DEF PollGranted
  <2>2. QED
    BY Zenon, <1>1, <2>1, StillStep
<1>4. QED
  BY Zenon, <1>2, <1>3
Rear(y, t, d) ==
    /\ y[1] = 3 => y[2] <= Len(t)
    /\ y[1] = 4 => y[2] <= Len(d) /\ \E i \in DOMAIN d : y[3] = d[i]

\* What is in a line behind the messages of the client.
LEMMA Behind ==
  ASSUME NEW a \in Seq(1..MaxPackets), NEW b \in Seq(Message), NEW t \in Seq(Message),
         NEW d \in Seq(1..MaxPackets), NEW p
  PROVE  \A y \in Line(a, b, t, d, p) : Rear(y, t, d)
<1> SUFFICES ASSUME NEW y \in Line(a, b, t, d, p)
             PROVE  /\ y[1] = 3 => y[2] <= Len(t)
                    /\ y[1] = 4 => y[2] <= Len(d) /\ \E i \in DOMAIN d : y[3] = d[i]
  BY Zenon DEF Rear
<1>1. DOMAIN a = 1..Len(a) /\ DOMAIN b = 1..Len(b) /\ DOMAIN t = 1..Len(t) /\ DOMAIN d = 1..Len(d)
  OBVIOUS
<1>2. \/ \E i \in 1..Len(a) : y = <<1, i, a[i]>>
      \/ \E i \in 1..Len(b) : y = <<2, i, b[i].id>>
      \/ \E i \in 1..Len(t) : y = <<3, i, t[i].id>>
      \/ \E i \in 1..Len(d) : y = <<4, i, d[i]>>
  BY Zenon, <1>1 DEF Line, Numbers, DataTo
<1>3. CASE \E i \in 1..Len(a) : y = <<1, i, a[i]>>
  BY <1>3
<1>4. CASE \E i \in 1..Len(b) : y = <<2, i, b[i].id>>
  BY <1>4
<1>5. CASE \E i \in 1..Len(t) : y = <<3, i, t[i].id>>
  BY <1>5
<1>6. CASE \E i \in 1..Len(d) : y = <<4, i, d[i]>>
  <2>1. PICK i \in 1..Len(d) : y = <<4, i, d[i]>>
    BY Zenon, <1>6
  <2>2. y[1] = 4 /\ y[2] <= Len(d) /\ y[3] = d[i]
    BY <2>1
  <2>3. y[1] # 3 /\ i \in DOMAIN d
    BY <1>1, <2>2
  <2>4. QED
    BY Zenon, <2>2, <2>3
<1>7. QED
  BY Zenon, <1>2, <1>3, <1>4, <1>5, <1>6

\* The next packet's number, and whose it is.
LEMMA HandedOut ==
  ASSUME TypeOK, NEW c \in Client, NEW p \in Peer, HandsOver(c, p)
  PROVE  /\ lastPacket \in Nat /\ lastPacket + 1 \in 1..MaxPackets /\ lastPacket' = lastPacket + 1
         /\ handed \in [Pair -> SUBSET (1..MaxPackets)]
         /\ handed' = [handed EXCEPT ![At(c, p)] = @ \cup {lastPacket + 1}]
<1>1. lastPacket \in 0..MaxPackets /\ lastPacket < MaxPackets
  BY Zenon DEF TypeOK, HandsOver
<1>2. lastPacket \in Nat /\ lastPacket + 1 \in 1..MaxPackets
  BY <1>1
<1>3. QED
  BY ZenonT(40), <1>2 DEF TypeOK, HandsOver

LEMMA SendDirectOut ==
  ASSUME TypeOK, Outgoing, NEW c \in Client, NEW p \in Peer, SendDirect(c, p)
  PROVE  Outgoing'
<1>1. PICK o \in Pair : o = At(c, p) /\ o.relay = c /\ o.peer = p
  BY ZenonT(40), AtType
<1>2. PICK n \in 1..MaxPackets : n = lastPacket + 1
  BY Zenon, HandedOut DEF SendDirect
<1>3. /\ lastPacket \in Nat /\ lastPacket' = n /\ handed \in [Pair -> SUBSET (1..MaxPackets)]
      /\ handed' = [handed EXCEPT ![o] = @ \cup {lastPacket + 1}]
  BY Zenon, <1>1, <1>2, HandedOut DEF SendDirect
<1>4. /\ transmits \in [Client -> Seq(Message)]
      /\ transmits' = [transmits EXCEPT ![c] = Append(@, Data(p, n))]
      /\ UNCHANGED <<packets, sent, wouts, waited, excused>>
  BY Zenon, <1>2 DEF TypeOK, SendDirect, relayer
<1>5. sent[o] \in Seq(1..MaxPackets) /\ packets[o] \in Seq(1..MaxPackets)
      /\ wouts[c] \in Seq(Message) /\ transmits[c] \in Seq(Message)
  BY Zenon, <1>1, StreamType
<1>6. PICK l \in Nat : l = Len(transmits[c])
  BY <1>5
<1> DEFINE z == <<3, l + 1, n>>
<1>7. Stream(o)' = Stream(o) \cup {z}
  <2>1. Stream(o)' = Line(sent[o], wouts[c], Append(transmits[c], Data(p, n)), packets[o], p)
    BY Zenon, <1>1, <1>4 DEF Stream
  <2>2. Line(sent[o], wouts[c], Append(transmits[c], Data(p, n)), packets[o], p) = Stream(o) \cup {<<3, Len(transmits[c]) + 1, n>>}
    <3>1. /\ Line(sent[o], wouts[c], Append(transmits[c], Data(p, n)), packets[o], p)
               \subseteq Line(sent[o], wouts[c], transmits[c], packets[o], p) \cup {<<3, Len(transmits[c]) + 1, n>>}
          /\ Line(sent[o], wouts[c], transmits[c], packets[o], p) \cup {<<3, Len(transmits[c]) + 1, n>>}
               \subseteq Line(sent[o], wouts[c], Append(transmits[c], Data(p, n)), packets[o], p)
      BY Zenon, <1>5, SentLine
    <3>2. Stream(o) = Line(sent[o], wouts[c], transmits[c], packets[o], p)
      BY Zenon, <1>1 DEF Stream
    <3>3. QED
      BY Zenon, <3>1, <3>2
  <2>3. QED
    BY Zenon, <1>6, <2>1, <2>2
<1>8. z[1] = 3 /\ z[2] = l + 1 /\ z[3] = n
  OBVIOUS
<1> HIDE DEF z
<1>9. ~ Ahead(z, z)
  BY <1>8 DEF Ahead
<1>10. ASSUME NEW y \in Stream(o), Ahead(z, y) PROVE y[3] \in waited
  <2>1. y \in Line(sent[o], wouts[c], transmits[c], packets[o], p)
    BY Zenon, <1>1 DEF Stream
  <2>2. /\ y[1] = 3 => y[2] <= Len(transmits[c])
        /\ y[1] = 4 => \E i \in DOMAIN packets[o] : y[3] = packets[o][i]
    <3>1. Rear(y, transmits[c], packets[o])
      BY Zenon, <1>5, <2>1, Behind
    <3>2. QED
      BY Zenon, <3>1 DEF Rear
  <2>3. y[1] \in 1..4 /\ y[2] \in Nat
    BY Zenon, <1>5, <2>1, Slots
  <2>4. y[1] = 3 => y[2] <= l
    BY Zenon, <1>6, <2>2
  <2>5. y[1] = 4
    BY <1>8, <1>10, <2>3, <2>4 DEF Ahead
  <2>6. QED
    BY Zenon, <2>2, <2>5 DEF Outgoing
<1>11. ASSUME NEW q \in Pair, q # o PROVE Stream(q)' = Stream(q)
  <2>1. q.relay \in Client /\ sent[q] \in Seq(1..MaxPackets) /\ packets[q] \in Seq(1..MaxPackets)
        /\ wouts[q.relay] \in Seq(Message) /\ transmits[q.relay] \in Seq(Message) /\ q = At(q.relay, q.peer)
    BY Zenon, StreamType
  <2>2. Stream(q)' = Line(sent[q], wouts[q.relay], transmits'[q.relay], packets[q], q.peer)
    BY Zenon, <1>4 DEF Stream
  <2>3. CASE q.relay # c
    <3>1. transmits'[q.relay] = transmits[q.relay]
      BY Zenon, <1>4, <2>1, <2>3
    <3>2. QED
      BY Zenon, <2>2, <3>1 DEF Stream
  <2>4. CASE q.relay = c
    <3>1. q.peer # p
      BY Zenon, <1>1, <1>11, <2>1, <2>4
    <3>2. PICK m \in Message : m = Data(p, n)
      BY Zenon DEF Data, Message
    <3>3. ~ (m.kind = "data" /\ m.peer = q.peer)
      BY Zenon, <3>1, <3>2 DEF Data
    <3>4. transmits'[q.relay] = Append(transmits[q.relay], m)
      BY Zenon, <1>4, <2>4, <3>2
    <3>5. Line(sent[q], wouts[q.relay], Append(transmits[q.relay], m), packets[q], q.peer) = Stream(q)
      <4>1. /\ Line(sent[q], wouts[q.relay], Append(transmits[q.relay], m), packets[q], q.peer)
                 \subseteq Line(sent[q], wouts[q.relay], transmits[q.relay], packets[q], q.peer)
            /\ Line(sent[q], wouts[q.relay], transmits[q.relay], packets[q], q.peer)
                 \subseteq Line(sent[q], wouts[q.relay], Append(transmits[q.relay], m), packets[q], q.peer)
        BY Zenon, <2>1, <3>3, OtherAppended
      <4>2. QED
        BY Zenon, <4>1 DEF Stream
    <3>6. QED
      BY Zenon, <2>2, <3>4, <3>5
  <2>5. QED
    BY Zenon, <2>3, <2>4
<1>12. PICK B : B = Stream(o) /\ Part(B, Stream(o)) /\ Kept(B, Stream(o))
  BY Zenon, Same DEF Kept
<1>13. /\ z[3] = lastPacket + 1 /\ Stream(o)' = B \cup {z} /\ lastPacket' = lastPacket + 1
       /\ \A y \in B : Ahead(z, y) => y[3] \in waited /\ waited' = waited
       /\ \A i \in DOMAIN packets'[o] : packets'[o][i] \in waited'
       /\ \A q \in Pair \ {o} : Stream(q)' = Stream(q) /\ packets'[q] = packets[q]
       /\ excused \subseteq excused' /\ waited' = waited
  BY ZenonT(40), <1>2, <1>3, <1>4, <1>7, <1>8, <1>10, <1>11, <1>12 DEF Outgoing
<1>14. QED
  BY Zenon, <1>3, <1>9, <1>12, <1>13, AddedStep
LEMMA PacketTaken ==
  ASSUME NEW s \in Seq(1..MaxPackets), s # << >>
  PROVE  /\ Tail(s) \in Seq(1..MaxPackets)
         /\ \A i \in DOMAIN Tail(s) : i + 1 \in DOMAIN s /\ Tail(s)[i] = s[i + 1]
<1>1. Tail(s) \in Seq(1..MaxPackets) /\ Len(Tail(s)) = Len(s) - 1 /\ Len(s) \in Nat
  OBVIOUS
<1>2. \A i \in 1..Len(Tail(s)) : Tail(s)[i] = s[i + 1]
  OBVIOUS
<1>3. DOMAIN Tail(s) = 1..Len(Tail(s)) /\ DOMAIN s = 1..Len(s)
  BY <1>1
<1>4. \A i \in 1..Len(Tail(s)) : i + 1 \in 1..Len(s)
  BY <1>1
<1>5. QED
  BY Zenon, <1>1, <1>2, <1>3, <1>4

\* A packet that is buffered; a request may be sent with it.
LEMMA BufferOut ==
  ASSUME TypeOK, Outgoing, NEW c \in Client, NEW p \in Peer, HandsOver(c, p),
         BufferPacket(At(c, p), lastPacket + 1), UNCHANGED <<sent, wouts>>,
         transmits' = transmits \/ \E m \in Message : /\ m.kind = "request"
                                                      /\ transmits' = [transmits EXCEPT ![c] = Append(@, m)]
  PROVE  Outgoing'
<1>1. PICK o \in Pair : o = At(c, p) /\ o.relay = c /\ o.peer = p
  BY ZenonT(40), AtType
<1>2. PICK n \in 1..MaxPackets : n = lastPacket + 1
  BY Zenon, HandedOut
<1>3. /\ lastPacket \in Nat /\ lastPacket' = n /\ handed \in [Pair -> SUBSET (1..MaxPackets)]
      /\ handed' = [handed EXCEPT ![o] = @ \cup {lastPacket + 1}]
  BY Zenon, <1>1, <1>2, HandedOut
<1>4. sent[o] \in Seq(1..MaxPackets) /\ packets[o] \in Seq(1..MaxPackets)
      /\ wouts[c] \in Seq(Message) /\ transmits[c] \in Seq(Message)
  BY Zenon, <1>1, StreamType
<1> DEFINE e == IF Len(packets[o]) >= PendingCap THEN Tail(packets[o]) ELSE packets[o]
<1>5. /\ packets \in [Pair -> Seq(1..MaxPackets)] /\ transmits \in [Client -> Seq(Message)]
      /\ waited' = waited \cup {n} /\ packets' = [packets EXCEPT ![o] = Append(e, n)]
      /\ excused' = IF Len(packets[o]) >= PendingCap THEN excused \cup {o} ELSE excused
  BY ZenonT(40), <1>1, <1>2 DEF TypeOK, BufferPacket
<1>6. ASSUME Len(packets[o]) >= PendingCap PROVE packets[o] # << >>
  BY <1>4, <1>6
<1>7. /\ e \in Seq(1..MaxPackets)
      /\ \A i \in DOMAIN e : \E j \in DOMAIN packets[o] : e[i] = packets[o][j]
  <2>1. CASE Len(packets[o]) >= PendingCap
    <3>1. PICK s \in Seq(1..MaxPackets) : s = packets[o] /\ s # << >>
      BY Zenon, <1>4, <1>6, <2>1
    <3>2. e = Tail(s)
      BY Zenon, <2>1, <3>1
    <3>3. Tail(s) \in Seq(1..MaxPackets) /\ \A i \in DOMAIN Tail(s) : i + 1 \in DOMAIN s /\ Tail(s)[i] = s[i + 1]
      BY Zenon, <3>1, PacketTaken
    <3> HIDE DEF e
    <3>4. QED
      BY Zenon, <3>1, <3>2, <3>3
  <2>2. CASE ~ (Len(packets[o]) >= PendingCap)
    BY Zenon, <1>4, <2>2
  <2>3. QED
    BY Zenon, <2>1, <2>2
<1> DEFINE B == Line(sent[o], wouts[c], transmits[c], e, p)
<1>8. Part(B, Stream(o)) /\ (o \notin excused' => Kept(B, Stream(o)))
  <2>1. Stream(o) = Line(sent[o], wouts[c], transmits[c], packets[o], p)
    BY Zenon, <1>1 DEF Stream
  <2>2. CASE Len(packets[o]) >= PendingCap
    <3>0. PICK s \in Seq(1..MaxPackets) : s = packets[o] /\ s # << >>
      BY Zenon, <1>4, <1>6, <2>2
    <3>1. Part(Line(sent[o], wouts[c], transmits[c], Tail(s), p), Line(sent[o], wouts[c], transmits[c], s, p))
      BY Zenon, <1>4, <3>0, TailPackets
    <3>2. e = Tail(packets[o]) /\ o \in excused'
      BY Zenon, <1>5, <2>2
    <3>3. QED
      BY ZenonT(40), <2>1, <3>0, <3>1, <3>2
  <2>3. CASE ~ (Len(packets[o]) >= PendingCap)
    <3>1. e = packets[o]
      BY Zenon, <2>3
    <3>2. B = Stream(o)
      BY Zenon, <2>1, <3>1
    <3>3. QED
      BY Zenon, <3>2, Same DEF Kept
  <2>4. QED
    BY Zenon, <2>2, <2>3
<1>9. excused \subseteq excused'
  BY Zenon, <1>5
<1> HIDE DEF e
<1>10. ASSUME NEW q \in Pair, NEW d \in Seq(1..MaxPackets)
       PROVE  Line(sent[q], wouts[q.relay], transmits'[q.relay], d, q.peer) =
              Line(sent[q], wouts[q.relay], transmits[q.relay], d, q.peer)
  <2>1. CASE transmits' = transmits
    BY Zenon, <2>1
  <2>2. CASE transmits' # transmits
    <3>1. PICK m \in Message : m.kind = "request" /\ transmits' = [transmits EXCEPT ![c] = Append(@, m)]
      BY Zenon, <2>2
    <3>2. q.relay \in Client /\ sent[q] \in Seq(1..MaxPackets) /\ wouts[q.relay] \in Seq(Message)
          /\ transmits[q.relay] \in Seq(Message)
      BY Zenon, StreamType
    <3>3. CASE q.relay # c
      BY Zenon, <1>5, <3>1, <3>2, <3>3
    <3>4. CASE q.relay = c
      <4>1. transmits'[q.relay] = Append(transmits[q.relay], m)
        BY ZenonT(40), <1>5, <3>1, <3>4
      <4>2. "request" # "data"
        OBVIOUS
      <4>3. ~ (m.kind = "data" /\ m.peer = q.peer)
        BY Zenon, <3>1, <4>2
      <4>4. /\ Line(sent[q], wouts[q.relay], Append(transmits[q.relay], m), d, q.peer)
                 \subseteq Line(sent[q], wouts[q.relay], transmits[q.relay], d, q.peer)
            /\ Line(sent[q], wouts[q.relay], transmits[q.relay], d, q.peer)
                 \subseteq Line(sent[q], wouts[q.relay], Append(transmits[q.relay], m), d, q.peer)
        BY Zenon, <3>2, <4>3, OtherAppended
      <4>5. QED
        BY Zenon, <4>1, <4>4
    <3>5. QED
      BY Zenon, <3>3, <3>4
  <2>3. QED
    BY Zenon, <2>1, <2>2
<1>11. ASSUME NEW q \in Pair, q # o PROVE Stream(q)' = Stream(q) /\ packets'[q] = packets[q]
  <2>1. packets'[q] = packets[q] /\ packets[q] \in Seq(1..MaxPackets)
    BY Zenon, <1>5, <1>11
  <2>2. Stream(q)' = Line(sent[q], wouts[q.relay], transmits'[q.relay], packets[q], q.peer)
    BY ZenonT(40), <2>1 DEF Stream
  <2>3. QED
    BY Zenon, <1>10, <2>1, <2>2 DEF Stream
<1>12. PICK l \in Nat : l = Len(e)
  BY <1>7
<1> DEFINE z == <<4, l + 1, n>>
<1>13. z[1] = 4 /\ z[2] = l + 1 /\ z[3] = n
  OBVIOUS
<1>14. Stream(o)' = B \cup {z}
  <2>1. Append(e, n) \in Seq(1..MaxPackets) /\ packets'[o] = Append(e, n)
    <3>1. Append(e, n) \in Seq(1..MaxPackets)
      BY <1>7
    <3>2. QED
      BY ZenonT(40), <1>5, <3>1
  <2>2. Stream(o)' = Line(sent[o], wouts[o.relay], transmits'[o.relay], Append(e, n), o.peer)
    BY Zenon, <2>1 DEF Stream
  <2>3. Stream(o)' = Line(sent[o], wouts[c], transmits[c], Append(e, n), p)
    BY Zenon, <1>1, <1>10, <2>1, <2>2
  <2>4. /\ Line(sent[o], wouts[c], transmits[c], Append(e, n), p)
             \subseteq Line(sent[o], wouts[c], transmits[c], e, p) \cup {<<4, Len(e) + 1, n>>}
        /\ Line(sent[o], wouts[c], transmits[c], e, p) \cup {<<4, Len(e) + 1, n>>}
             \subseteq Line(sent[o], wouts[c], transmits[c], Append(e, n), p)
    BY ZenonT(40), <1>4, <1>7, BufferedLine
  <2>5. QED
    BY Zenon, <1>12, <2>3, <2>4
<1> HIDE DEF z
<1>15. ~ Ahead(z, z)
  BY SMTT(30), <1>13 DEF Ahead
<1>16. ASSUME NEW y \in B PROVE ~ Ahead(z, y)
  <2>1. Rear(y, transmits[c], e)
    BY Zenon, <1>4, <1>7, Behind
  <2>2. y[1] \in 1..4 /\ y[2] \in Nat
    BY Zenon, <1>4, <1>7, Slots
  <2>3. y[1] = 4 => y[2] <= l
    BY Zenon, <1>12, <2>1 DEF Rear
  <2> HIDE DEF B
  <2>4. QED
    BY <1>13, <2>2, <2>3 DEF Ahead
<1>17. \A i \in DOMAIN packets'[o] : packets'[o][i] \in waited'
  <2>1. packets'[o] = Append(e, n)
    BY ZenonT(40), <1>5
  <2>2. \A i \in DOMAIN Append(e, n) : (i \in DOMAIN e /\ Append(e, n)[i] = e[i]) \/ Append(e, n)[i] = n
    BY <1>7
  <2>3. \A i \in DOMAIN e : e[i] \in waited
    BY Zenon, <1>7 DEF Outgoing
  <2>4. QED
    BY Zenon, <1>5, <2>1, <2>2, <2>3
<1> HIDE DEF B
<1>18. /\ z[3] = lastPacket + 1 /\ lastPacket' = lastPacket + 1
       /\ waited' = waited \cup {lastPacket + 1}
       /\ \A y \in B : Ahead(z, y) => y[3] \in waited /\ waited' = waited
       /\ \A q \in Pair \ {o} : Stream(q)' = Stream(q) /\ packets'[q] = packets[q]
  BY ZenonT(40), <1>2, <1>3, <1>5, <1>11, <1>13, <1>16
<1>19. QED
  BY ZenonT(40), <1>3, <1>8, <1>9, <1>14, <1>15, <1>17, <1>18, AddedStep
LEMMA SendAndRequestOut ==
  ASSUME TypeOK, Outgoing, NEW c \in Client, NEW p \in Peer, SendAndRequest(c, p)
  PROVE  Outgoing'
<1>1. lastTid + 1 \in 1..MaxTids
  <2>1. lastTid \in 0..MaxTids /\ lastTid < MaxTids
    BY Zenon DEF TypeOK, SendAndRequest
  <2>2. QED
    BY <2>1
<1>2. PICK m \in Message : m = [kind |-> "request", peer |-> p, id |-> lastTid + 1]
  BY Zenon, <1>1 DEF Message
<1>3. m.kind = "request"
  BY Zenon, <1>2
<1>4. /\ HandsOver(c, p) /\ BufferPacket(At(c, p), lastPacket + 1) /\ UNCHANGED <<sent, wouts>>
      /\ transmits' = [transmits EXCEPT ![c] = Append(@, m)]
  BY Zenon, <1>2 DEF SendAndRequest
<1>5. QED
  BY Zenon, <1>3, <1>4, BufferOut

LEMMA SendWhilePendingOut ==
  ASSUME TypeOK, Outgoing, NEW c \in Client, NEW p \in Peer, SendWhilePending(c, p)
  PROVE  Outgoing'
<1>1. /\ HandsOver(c, p) /\ BufferPacket(At(c, p), lastPacket + 1) /\ UNCHANGED <<sent, wouts>>
      /\ transmits' = transmits
  BY Zenon DEF SendWhilePending, turn
<1>2. QED
  BY Zenon, <1>1, BufferOut

LEMMA OutcomeOut ==
  ASSUME TypeOK, Outgoing, NEW r, NEW k, Outcome(r, k)
  PROVE  Outgoing'
<1>1. StartWrites(transmits) /\ UNCHANGED <<sent, packets, waited, lastPacket, handed, excused>>
  BY Zenon DEF Outcome, relayer, counts, hist
<1>2. QED
  BY Zenon, <1>1, StartWritesStep

LEMMA InitOutgoing == Init => Outgoing
<1>1. SUFFICES ASSUME Init PROVE Outgoing
  OBVIOUS
<1>2. DOMAIN << >> = {}
  OBVIOUS
<1>3. ASSUME NEW q \in Pair PROVE Stream(q) = {} /\ packets[q] = << >> /\ handed[q] = {}
  <2>1. q.relay \in Client
    BY Zenon DEF Pair
  <2>2. QED
    BY ZenonT(40), <1>1, <1>2, <2>1 DEF Init, Stream, Line, Numbers, DataTo
<1>4. Ids({}) = {}
  BY Zenon DEF Ids
<1>5. QED
  BY Zenon, <1>1, <1>2, <1>3, <1>4 DEF Init, Outgoing, InOrderUnlessWaiting

LEMMA OutgoingInductive == TypeOK /\ Outgoing /\ [Next]_vars => Outgoing'
<1>1. SUFFICES ASSUME TypeOK, Outgoing, [Next]_vars PROVE Outgoing'
  OBVIOUS
<1>2. CASE UNCHANGED vars
  BY Zenon, <1>1, <1>2, StillStep DEF vars, relayer, turn, counts, hist
<1>3. CASE Wake
  <2>1. StartWrites(transmits) /\ UNCHANGED <<sent, packets, waited, lastPacket, handed, excused>>
    BY Zenon, <1>3 DEF Wake, relayer, counts, hist
  <2>2. QED
    BY Zenon, <1>1, <2>1, StartWritesStep
<1>4. CASE RelayWritesDone \/ CoreWritesDone \/ EventsDone
  BY Zenon, <1>1, <1>4, StillStep DEF RelayWritesDone, CoreWritesDone, EventsDone, relayer, turn, counts, hist
<1>5. ASSUME NEW c \in Client, WriteOut(c) PROVE Outgoing'
  BY Zenon, <1>1, <1>5, WriteOutStep
<1>6. ASSUME NEW c \in Client, PollAllocated(c) \/ PollData(c) PROVE Outgoing'
  BY ZenonT(40), <1>1, <1>6, StillStep DEF PollAllocated, PollData, relayer, counts, hist
<1>7. ASSUME NEW c \in Client, PollGranted(c) PROVE Outgoing'
  BY Zenon, <1>1, <1>7, PollGrantedOut
<1>8. ASSUME NEW c \in Client, PollFailed(c) PROVE Outgoing'
  BY Zenon, <1>1, <1>8, PollFailedOut
<1>9. CASE Granted \/ Refused \/ TimedOut
  BY Zenon, <1>1, <1>9, OutcomeOut DEF Granted, Refused, TimedOut
<1>10. CASE Close
  BY Zenon, <1>1, <1>10, CloseOut
<1>11. ASSUME NEW c \in Client, Allocated(c) PROVE Outgoing'
  <2>1. StartWrites(transmits) /\ UNCHANGED <<sent, packets, waited, lastPacket, handed, excused>>
    BY Zenon, <1>11 DEF Allocated, relayer, counts, hist
  <2>2. QED
    BY Zenon, <1>1, <2>1, StartWritesStep
<1>12. ASSUME NEW c \in Client, WriteFails(c) PROVE Outgoing'
  BY Zenon, <1>1, <1>12, WriteFailsStep
<1>13. ASSUME NEW c \in Client, NEW p \in Peer, Arrives(c, p) PROVE Outgoing'
  <2>1. StartWrites(transmits) /\ UNCHANGED <<sent, packets, waited, lastPacket, handed, excused>>
    BY Zenon, <1>13 DEF Arrives, relayer
  <2>2. QED
    BY Zenon, <1>1, <2>1, StartWritesStep
<1>14. ASSUME NEW c \in Client, NEW p \in Peer, SendDirect(c, p) PROVE Outgoing'
  BY Zenon, <1>1, <1>14, SendDirectOut
<1>15. ASSUME NEW c \in Client, NEW p \in Peer, SendWhilePending(c, p) PROVE Outgoing'
  BY ZenonT(40), <1>1, <1>15, SendWhilePendingOut
<1>16. ASSUME NEW c \in Client, NEW p \in Peer, SendAndRequest(c, p) PROVE Outgoing'
  BY Zenon, <1>1, <1>16, SendAndRequestOut
<1>17. CASE Loop
  BY Zenon, <1>3, <1>4, <1>5, <1>6, <1>7, <1>8, <1>17 DEF Loop
<1>18. CASE Environment
  BY ZenonT(40), <1>9, <1>10, <1>11, <1>12, <1>13, <1>14, <1>15, <1>16, <1>18 DEF Environment
<1>19. QED
  BY Zenon, <1>1, <1>2, <1>17, <1>18 DEF Next
-----------------------------------------------------------------------------
(* Incoming.                                                                *)

Inbound(r, e) ==
    Numbers(1, r) \cup {<<2, i, e[i].id>> : i \in {j \in DOMAIN e : e[j].kind = "data"}}

LEMMA InboundSlots ==
  ASSUME NEW r \in Seq(1..MaxData), NEW e \in Seq(Event)
  PROVE  \A x \in Inbound(r, e) : /\ x[1] \in 1..2 /\ x[2] \in Nat /\ x[2] # 0
                                  /\ x[1] = 1 => x[2] <= Len(r)
                                  /\ x[1] = 2 => x[2] <= Len(e)
<1> SUFFICES ASSUME NEW x \in Inbound(r, e)
             PROVE  /\ x[1] \in 1..2 /\ x[2] \in Nat /\ x[2] # 0
                    /\ x[1] = 1 => x[2] <= Len(r)
                    /\ x[1] = 2 => x[2] <= Len(e)
  OBVIOUS
<1>1. DOMAIN r = 1..Len(r) /\ DOMAIN e = 1..Len(e)
  OBVIOUS
<1>2. (\E i \in 1..Len(r) : x = <<1, i, r[i]>>) \/ \E i \in 1..Len(e) : x = <<2, i, e[i].id>>
  BY Zenon, <1>1 DEF Inbound, Numbers
<1>3. CASE \E i \in 1..Len(r) : x = <<1, i, r[i]>>
  BY <1>3
<1>4. CASE \E i \in 1..Len(e) : x = <<2, i, e[i].id>>
  BY <1>4
<1>5. QED
  BY ZenonT(40), <1>2, <1>3, <1>4

\* An event that is no data is taken.
LEMMA EventTaken ==
  ASSUME NEW r \in Seq(1..MaxData), NEW e \in Seq(Event), e # << >>, Head(e).kind # "data"
  PROVE  Kept(Inbound(r, Tail(e)), Inbound(r, e))
<1> DEFINE A == Inbound(r, Tail(e))
           B == Inbound(r, e)
           f == [x \in A |-> IF x[1] = 2 THEN <<2, x[2] + 1, x[3]>> ELSE x]
<1>1. Tail(e) \in Seq(Event) /\ Len(Tail(e)) = Len(e) - 1 /\ Len(e) \in Nat /\ Head(e) = e[1]
      /\ \A i \in 1..Len(Tail(e)) : Tail(e)[i] = e[i + 1]
  OBVIOUS
<1>2. DOMAIN r = 1..Len(r) /\ DOMAIN e = 1..Len(e) /\ DOMAIN Tail(e) = 1..Len(Tail(e))
  OBVIOUS
<1>3. \A x : x \in A <=>
         \/ \E i \in 1..Len(r) : x = <<1, i, r[i]>>
         \/ \E i \in 1..Len(Tail(e)) : Tail(e)[i].kind = "data" /\ x = <<2, i, Tail(e)[i].id>>
  BY Zenon, <1>2 DEF Inbound, Numbers
<1>4. \A x : x \in B <=>
         \/ \E i \in 1..Len(r) : x = <<1, i, r[i]>>
         \/ \E i \in 1..Len(e) : e[i].kind = "data" /\ x = <<2, i, e[i].id>>
  BY Zenon, <1>2 DEF Inbound, Numbers
<1>5. \A x \in A : x[1] \in 1..2 /\ x[2] \in Nat
  BY Zenon, <1>1, InboundSlots
<1> HIDE DEF A, B
<1>6. ASSUME NEW x \in A PROVE f[x] \in B /\ f[x][3] = x[3]
  <2>1. CASE x[1] = 2
    <3>1. ~ \E i \in 1..Len(r) : x = <<1, i, r[i]>>
      BY <2>1
    <3>2. PICK i \in 1..Len(Tail(e)) : Tail(e)[i].kind = "data" /\ x = <<2, i, Tail(e)[i].id>>
      BY Zenon, <1>3, <3>1
    <3>3. i + 1 \in 1..Len(e) /\ Tail(e)[i] = e[i + 1]
      BY SMTT(30), <1>1
    <3>4. f[x] = <<2, i + 1, Tail(e)[i].id>> /\ x[3] = Tail(e)[i].id /\ f[x][3] = x[3]
      BY <2>1, <3>2
    <3>5. QED
      BY ZenonT(40), <1>4, <3>2, <3>3, <3>4
  <2>2. CASE x[1] # 2
    <3>1. f[x] = x
      BY Zenon, <2>2
    <3>2. ~ \E i \in 1..Len(Tail(e)) : x = <<2, i, Tail(e)[i].id>>
      BY SMTT(30), <2>2
    <3>3. QED
      BY Zenon, <1>3, <1>4, <3>1, <3>2
  <2>3. QED
    BY Zenon, <2>1, <2>2
<1>7. ASSUME NEW x \in A, NEW y \in A, Ahead(x, y) PROVE Ahead(f[x], f[y])
  <2>1. /\ x[1] = 2 => f[x][1] = 2 /\ f[x][2] = x[2] + 1
        /\ x[1] # 2 => f[x][1] = x[1] /\ f[x][2] = x[2]
    OBVIOUS
  <2>2. /\ y[1] = 2 => f[y][1] = 2 /\ f[y][2] = y[2] + 1
        /\ y[1] # 2 => f[y][1] = y[1] /\ f[y][2] = y[2]
    OBVIOUS
  <2> HIDE DEF f
  <2>3. x[1] \in 1..2 /\ x[2] \in Nat /\ y[1] \in 1..2 /\ y[2] \in Nat /\ Ahead(x, y)
    BY Zenon, <1>5, <1>7
  <2>4. QED
    BY SMTT(30), <2>1, <2>2, <2>3 DEF Ahead
<1> HIDE DEF f
<1>8. Part(A, B)
  <2>1. \A x \in A : f[x] \in B /\ f[x][3] = x[3]
    BY Zenon, <1>6
  <2>2. \A x, y \in A : Ahead(x, y) => Ahead(f[x], f[y])
    BY Zenon, <1>7
  <2>3. QED
    BY Zenon, <2>1, <2>2, Mapped
<1>9. ASSUME NEW y \in B PROVE \E x \in A : x[3] = y[3]
  <2>1. CASE \E i \in 1..Len(e) : e[i].kind = "data" /\ y = <<2, i, e[i].id>>
    <3>1. PICK i \in 1..Len(e) : e[i].kind = "data" /\ y = <<2, i, e[i].id>>
      BY Zenon, <2>1
    <3>2. i # 1
      BY Zenon, <1>1, <3>1
    <3>3. PICK j \in 1..Len(Tail(e)) : i = j + 1
      BY <1>1, <3>2
    <3>4. <<2, j, Tail(e)[j].id>> \in A
      BY Zenon, <1>1, <1>3, <3>1, <3>3
    <3>5. QED
      BY <1>1, <3>1, <3>3, <3>4
  <2>2. QED
    BY ZenonT(40), <1>3, <1>4, <2>1
<1>10. Ids(B) \subseteq Ids(A)
  BY Zenon, <1>9 DEF Ids
<1>11. QED
  BY Zenon, <1>8, <1>10 DEF Kept, Part, A, B

\* Data is taken and handed to the core.
LEMMA DataRead ==
  ASSUME NEW r \in Seq(1..MaxData), NEW e \in Seq(Event), e # << >>,
         Head(e).kind = "data", Head(e).id \in 1..MaxData
  PROVE  Kept(Inbound(Append(r, Head(e).id), Tail(e)), Inbound(r, e))
<1> DEFINE h == Head(e).id
           s == Append(r, h)
           A == Inbound(s, Tail(e))
           B == Inbound(r, e)
           f == [x \in A |-> IF x[1] = 2 THEN <<2, x[2] + 1, x[3]>>
                             ELSE IF x[2] = Len(r) + 1 THEN <<2, 1, x[3]>> ELSE x]
<1>1. Tail(e) \in Seq(Event) /\ Len(Tail(e)) = Len(e) - 1 /\ Len(e) \in Nat /\ Head(e) = e[1]
      /\ 1 \in 1..Len(e) /\ \A i \in 1..Len(Tail(e)) : Tail(e)[i] = e[i + 1]
  OBVIOUS
<1>2. DOMAIN r = 1..Len(r) /\ DOMAIN e = 1..Len(e) /\ DOMAIN Tail(e) = 1..Len(Tail(e))
  OBVIOUS
<1> HIDE DEF h
<1>3. s \in Seq(1..MaxData) /\ Len(s) = Len(r) + 1 /\ Len(r) \in Nat /\ s[Len(r) + 1] = h
      /\ DOMAIN s = 1..Len(s) /\ \A i \in 1..Len(r) : s[i] = r[i] /\ i \in 1..Len(s)
  <2>1. h \in 1..MaxData
    BY Zenon DEF h
  <2>2. QED
    BY <2>1
<1> HIDE DEF s
<1>4. \A x : x \in A <=>
         \/ \E i \in 1..Len(s) : x = <<1, i, s[i]>>
         \/ \E i \in 1..Len(Tail(e)) : Tail(e)[i].kind = "data" /\ x = <<2, i, Tail(e)[i].id>>
  BY Zenon, <1>2, <1>3 DEF Inbound, Numbers
<1>5. \A x : x \in B <=>
         \/ \E i \in 1..Len(r) : x = <<1, i, r[i]>>
         \/ \E i \in 1..Len(e) : e[i].kind = "data" /\ x = <<2, i, e[i].id>>
  BY Zenon, <1>2 DEF Inbound, Numbers
<1>6. \A x \in A : /\ x[1] \in 1..2 /\ x[2] \in Nat /\ x[2] # 0
                   /\ x[1] = 1 => x[2] <= Len(s)
                   /\ x[1] = 2 => x[2] <= Len(Tail(e))
  <2>1. s \in Seq(1..MaxData) /\ Tail(e) \in Seq(Event)
    BY Zenon, <1>1, <1>3
  <2>2. QED
    BY Zenon, <2>1, InboundSlots
<1> HIDE DEF A, B
<1>7. ASSUME NEW x \in A PROVE f[x] \in B /\ f[x][3] = x[3]
  <2>1. CASE x[1] = 2
    <3>1. ~ \E i \in 1..Len(s) : x = <<1, i, s[i]>>
      BY <2>1
    <3>2. PICK i \in 1..Len(Tail(e)) : Tail(e)[i].kind = "data" /\ x = <<2, i, Tail(e)[i].id>>
      BY Zenon, <1>4, <3>1
    <3>3. i + 1 \in 1..Len(e) /\ Tail(e)[i] = e[i + 1]
      BY <1>1
    <3>4. f[x] = <<2, i + 1, Tail(e)[i].id>> /\ x[3] = Tail(e)[i].id /\ f[x][3] = x[3]
      BY <2>1, <3>2
    <3> HIDE DEF f
    <3>5. QED
      BY ZenonT(40), <1>5, <3>2, <3>3, <3>4
  <2>2. CASE x[1] # 2
    <3>1. ~ \E i \in 1..Len(Tail(e)) : x = <<2, i, Tail(e)[i].id>>
      BY <2>2
    <3>2. PICK i \in 1..Len(s) : x = <<1, i, s[i]>>
      BY Zenon, <1>4, <3>1
    <3>3. CASE i = Len(r) + 1
      <4>1. s[i] = h
        BY Zenon, <1>3, <3>3
      <4>2. f[x] = <<2, 1, h>> /\ x[3] = h /\ f[x][3] = x[3]
        BY <3>2, <3>3, <4>1
      <4> HIDE DEF f
      <4>3. QED
        BY ZenonT(40), <4>2, <1>1, <1>5 DEF h
    <3>4. CASE i # Len(r) + 1
      <4>0. Len(s) = Len(r) + 1 /\ Len(r) \in Nat
        BY Zenon, <1>3
      <4>1. i \in 1..Len(r)
        BY <3>4, <4>0
      <4>2. f[x] = x
        BY <3>2, <3>4
      <4> HIDE DEF f
      <4>3. QED
        BY Zenon, <1>3, <1>5, <3>2, <4>1, <4>2
    <3>5. QED
      BY Zenon, <3>3, <3>4
  <2>3. QED
    BY Zenon, <2>1, <2>2
<1>8. ASSUME NEW x \in A, NEW y \in A, Ahead(x, y) PROVE Ahead(f[x], f[y])
  <2>1. /\ x[1] = 2 => f[x][1] = 2 /\ f[x][2] = x[2] + 1
        /\ x[1] # 2 /\ x[2] = Len(r) + 1 => f[x][1] = 2 /\ f[x][2] = 1
        /\ x[1] # 2 /\ x[2] # Len(r) + 1 => f[x][1] = x[1] /\ f[x][2] = x[2]
    BY SMTT(30)
  <2>2. /\ y[1] = 2 => f[y][1] = 2 /\ f[y][2] = y[2] + 1
        /\ y[1] # 2 /\ y[2] = Len(r) + 1 => f[y][1] = 2 /\ f[y][2] = 1
        /\ y[1] # 2 /\ y[2] # Len(r) + 1 => f[y][1] = y[1] /\ f[y][2] = y[2]
    OBVIOUS
  <2> HIDE DEF f
  <2>3. /\ x[1] \in 1..2 /\ x[2] \in Nat /\ y[1] \in 1..2 /\ y[2] \in Nat /\ x[2] # 0 /\ y[2] # 0
        /\ (x[1] = 1 => x[2] <= Len(s)) /\ (y[1] = 1 => y[2] <= Len(s)) /\ Ahead(x, y)
        /\ Len(s) = Len(r) + 1 /\ Len(r) \in Nat
    BY ZenonT(40), <1>3, <1>6, <1>8
  <2>4. CASE x[1] = 2
    BY SMTT(30), <2>1, <2>2, <2>3, <2>4 DEF Ahead
  <2>5. CASE x[1] # 2 /\ x[2] = Len(r) + 1
    <3>1. y[1] = 2
      BY <2>3, <2>5 DEF Ahead
    <3>2. f[x][1] = 2 /\ f[x][2] = 1 /\ f[y][1] = 2 /\ f[y][2] = y[2] + 1 /\ y[2] \in Nat /\ y[2] # 0
      BY ZenonT(40), <2>1, <2>2, <2>3, <2>5, <3>1
    <3>3. QED
      BY <3>2 DEF Ahead
  <2>6. CASE x[1] # 2 /\ x[2] # Len(r) + 1
    BY <2>1, <2>2, <2>3, <2>6 DEF Ahead
  <2>7. QED
    BY Zenon, <2>4, <2>5, <2>6
<1> HIDE DEF f
<1>9. Part(A, B)
  <2>1. \A x \in A : f[x] \in B /\ f[x][3] = x[3]
    BY Zenon, <1>7
  <2>2. \A x, y \in A : Ahead(x, y) => Ahead(f[x], f[y])
    BY Zenon, <1>8
  <2>3. QED
    BY ZenonT(40), <2>1, <2>2, Mapped
<1>10. ASSUME NEW y \in B PROVE \E x \in A : x[3] = y[3]
  <2>1. CASE \E i \in 1..Len(e) : e[i].kind = "data" /\ y = <<2, i, e[i].id>>
    <3>1. PICK i \in 1..Len(e) : e[i].kind = "data" /\ y = <<2, i, e[i].id>>
      BY ZenonT(40), <2>1
    <3>2. CASE i = 1
      <4>1. y[3] = h
        BY SMTT(30), <3>1, <3>2, <1>1 DEF h
      <4>2. Len(r) + 1 \in 1..Len(s)
        BY <1>3
      <4>3. <<1, Len(r) + 1, s[Len(r) + 1]>> \in A
        BY ZenonT(40), <1>4, <4>2
      <4>4. QED
        BY SMTT(30), <1>3, <4>1, <4>3
    <3>3. CASE i # 1
      <4>1. PICK j \in 1..Len(Tail(e)) : i = j + 1
        BY <1>1, <3>3
      <4>2. <<2, j, Tail(e)[j].id>> \in A
        BY Zenon, <1>1, <1>4, <3>1, <4>1
      <4>3. QED
        BY SMTT(30), <1>1, <3>1, <4>1, <4>2
    <3>4. QED
      BY Zenon, <3>2, <3>3
  <2>2. CASE \E i \in 1..Len(r) : y = <<1, i, r[i]>>
    BY Zenon, <1>3, <1>4, <2>2
  <2>3. QED
    BY Zenon, <1>5, <2>1, <2>2
<1>11. Ids(B) \subseteq Ids(A)
  BY Zenon, <1>10 DEF Ids
<1>12. QED
  BY Zenon, <1>9, <1>11 DEF Kept, Part, A, B, h, s
\* An event more.
LEMMA EventAppended ==
  ASSUME NEW r, NEW e \in Seq(Event), NEW v \in Event
  PROVE  /\ v.kind # "data" => Inbound(r, Append(e, v)) = Inbound(r, e)
         /\ v.kind = "data" => Inbound(r, Append(e, v)) = Inbound(r, e) \cup {<<2, Len(e) + 1, v.id>>}
<1>1. PICK s \in Seq(Event) : s = Append(e, v)
  <2>1. Append(e, v) \in Seq(Event)
    OBVIOUS
  <2>2. QED
    BY Zenon, <2>1
<1>2. Len(s) = Len(e) + 1 /\ Len(e) \in Nat /\ s[Len(e) + 1] = v /\ \A i \in 1..Len(e) : s[i] = e[i]
  BY <1>1
<1>3. DOMAIN s = 1..Len(s) /\ DOMAIN e = 1..Len(e)
  OBVIOUS
<1>4. Len(e) + 1 \in DOMAIN s /\ (\A i \in DOMAIN e : i \in DOMAIN s)
      /\ \A i \in DOMAIN s : i \in DOMAIN e \/ i = Len(e) + 1
  BY <1>2, <1>3
<1>5. \A i \in DOMAIN e : s[i] = e[i]
  BY Zenon, <1>2, <1>3
<1>6. CASE v.kind # "data"
  <2>1. \A x : x \in Inbound(r, s) <=> x \in Inbound(r, e)
    BY Zenon, <1>2, <1>4, <1>5, <1>6 DEF Inbound
  <2>2. QED
    BY Zenon, <1>1, <1>6, <2>1
<1>7. CASE v.kind = "data"
  <2>1. \A x : x \in Inbound(r, s) <=> x \in Inbound(r, e) \/ x = <<2, Len(e) + 1, v.id>>
    BY Zenon, <1>2, <1>4, <1>5, <1>7 DEF Inbound
  <2>2. QED
    BY Zenon, <1>1, <1>7, <2>1
<1>8. QED
  BY Zenon, <1>6, <1>7

\* What came stays as it came when it moves, ...
LEMMA CameKept ==
  ASSUME NEW A, NEW B, NEW s, NEW n, NEW live, Kept(A, B), Came(B, s, n, live)
  PROVE  Came(A, s, n, live)
<1>1. Ids(A) = Ids(B) /\ Part(A, B)
  BY Zenon DEF Kept
<1>2. ASSUME NEW x \in A, NEW y \in A, Ahead(x, y) PROVE x[3] < y[3]
  <2>1. \A u, v \in B : Ahead(u, v) => u[3] < v[3]
    BY Zenon DEF Came
  <2>2. \E u, v \in B : Ahead(u, v) /\ u[3] = x[3] /\ v[3] = y[3]
    BY ZenonT(40), <1>1, <1>2 DEF Part
  <2>3. PICK u \in B, v \in B : Ahead(u, v) /\ u[3] = x[3] /\ v[3] = y[3]
    BY Zenon, <2>2
  <2>4. u[3] < v[3]
    BY Zenon, <2>1, <2>3
  <2>5. QED
    BY Zenon, <2>3, <2>4
<1>3. QED
  BY Zenon, <1>1, <1>2 DEF Came

\* ... when others come, ...
LEMMA CameOthers ==
  ASSUME NEW A, NEW s, NEW n \in Nat, NEW live, Came(A, s, n, live)
  PROVE  Came(A, s, n + 1, live)
<1>1. \A k \in 1..n : k \in 1..(n + 1)
  OBVIOUS
<1>2. QED
  BY Zenon, <1>1 DEF Came

\* ... when the next one comes, ...
LEMMA CameNext ==
  ASSUME NEW B, NEW s, NEW n \in Nat, NEW live, Came(B, s, n, TRUE),
         NEW z, z[3] = n + 1, ~ Ahead(z, z), \A y \in B : ~ Ahead(z, y)
  PROVE  Came(B \cup {z}, s \cup {n + 1}, n + 1, live)
<1>1. Ids(B) = s /\ s \subseteq 1..n
  BY Zenon DEF Came
<1>2. Ids(B \cup {z}) = s \cup {n + 1}
  BY ZenonT(40), <1>1, IdAdded
<1>3. (\A k \in 1..n : k \in 1..(n + 1) /\ k < n + 1) /\ n + 1 \in 1..(n + 1)
  OBVIOUS
<1>4. \A y \in B : y[3] \in s
  BY Zenon, <1>1 DEF Ids
<1>5. ASSUME NEW x \in B \cup {z}, NEW y \in B \cup {z}, Ahead(x, y) PROVE x[3] < y[3]
  <2>1. x \in B
    BY Zenon, <1>5
  <2>2. CASE y \in B
    BY Zenon, <1>5, <2>1, <2>2 DEF Came
  <2>3. CASE y = z
    BY ZenonT(40), <1>1, <1>3, <1>4, <2>1, <2>3
  <2>4. QED
    BY Zenon, <2>2, <2>3
<1>6. s \cup {n + 1} \subseteq 1..(n + 1)
  BY Zenon, <1>1, <1>3
<1>7. QED
  BY Zenon, <1>2, <1>5, <1>6 DEF Came

\* ... and when the client is dropped, with the end of it.
LEMMA CameDropped ==
  ASSUME NEW r \in Seq(1..MaxData), NEW e \in Seq(Event), NEW s, NEW n, NEW live, Came(Inbound(r, e), s, n, live)
  PROVE  Came(Inbound(r, << >>), s, n, FALSE)
<1>1. DOMAIN << >> = {}
  OBVIOUS
<1>2. Inbound(r, << >>) = Numbers(1, r) /\ Numbers(1, r) \subseteq Inbound(r, e)
  BY Zenon, <1>1 DEF Inbound
<1>3. Ids(Numbers(1, r)) \subseteq Ids(Inbound(r, e))
  BY Zenon, <1>2 DEF Ids
<1>4. \A x, y \in Numbers(1, r) : Ahead(x, y) => x[3] < y[3]
  BY Zenon, <1>2 DEF Came
<1>5. ASSUME NEW k \in s \ Ids(Numbers(1, r)), NEW m \in Ids(Numbers(1, r)) PROVE m < k
  <2>1. CASE k \notin Ids(Inbound(r, e))
    BY Zenon, <1>3, <1>5, <2>1 DEF Came
  <2>2. CASE k \in Ids(Inbound(r, e))
    <3>1. PICK y \in Inbound(r, e) : y[3] = k
      BY Zenon, <2>2 DEF Ids
    <3>2. y \notin Numbers(1, r)
      BY Zenon, <1>5, <3>1 DEF Ids
    <3>3. PICK i \in DOMAIN e : y = <<2, i, e[i].id>>
      BY Zenon, <3>2 DEF Inbound
    <3>4. PICK x \in Numbers(1, r) : x[3] = m
      BY Zenon, <1>5 DEF Ids
    <3>5. PICK j \in DOMAIN r : x = <<1, j, r[j]>>
      BY ZenonT(40), <3>4 DEF Numbers
    <3>6. Ahead(x, y)
      BY <3>3, <3>5 DEF Ahead
    <3>7. x[3] < y[3]
      BY Zenon, <1>2, <3>1, <3>4, <3>6 DEF Came
    <3>8. QED
      BY Zenon, <3>1, <3>4, <3>7
  <2>3. QED
    BY Zenon, <2>1, <2>2
<1>6. Came(Numbers(1, r), s, n, FALSE)
  <2>1. s \subseteq 1..n /\ Ids(Numbers(1, r)) \subseteq s
    BY Zenon, <1>3 DEF Came
  <2>2. QED
    BY Zenon, <1>4, <1>5, <2>1 DEF Came
<1>7. QED
  BY Zenon, <1>2, <1>6
LEMMA ToldAppended ==
  ASSUME NEW e \in Seq(Event), NEW v \in Event, NEW k, Told(e, k), v.kind = "data" => k
  PROVE  Told(Append(e, v), k) /\ (v.kind = "allocated" => Told(Append(e, v), TRUE))
<1>1. PICK s \in Seq(Event) : s = Append(e, v)
  <2>1. Append(e, v) \in Seq(Event)
    OBVIOUS
  <2>2. QED
    BY Zenon, <2>1
<1>2. Len(s) = Len(e) + 1 /\ Len(e) \in Nat /\ s[Len(e) + 1] = v /\ \A i \in 1..Len(e) : s[i] = e[i]
  BY <1>1
<1>3. DOMAIN s = 1..Len(s) /\ DOMAIN e = 1..Len(e)
  BY SMTT(30)
<1>4. Len(e) + 1 \in DOMAIN s /\ (\A i \in DOMAIN e : i \in DOMAIN s)
      /\ \A i \in DOMAIN s : i \in DOMAIN e \/ i = Len(e) + 1
  BY <1>2, <1>3
<1>5. \A i \in DOMAIN e : s[i] = e[i]
  BY ZenonT(40), <1>2, <1>3
<1>6. (\A i \in DOMAIN e : \A j \in 1..(i - 1) : j \in DOMAIN e) /\ (\A j \in DOMAIN e : j \in 1..((Len(e) + 1) - 1))
  BY <1>2, <1>3
<1>7. ASSUME NEW i \in DOMAIN s, s[i].kind = "data" PROVE \E j \in 1..(i - 1) : s[j].kind = "allocated"
  <2>1. CASE i \in DOMAIN e
    <3>1. PICK j \in 1..(i - 1) : e[j].kind = "allocated"
      BY Zenon, <1>5, <1>7, <2>1 DEF Told
    <3>2. QED
      BY Zenon, <1>5, <1>6, <2>1, <3>1
  <2>2. CASE i = Len(e) + 1
    <3>1. PICK j \in DOMAIN e : e[j].kind = "allocated"
      BY Zenon, <1>2, <1>7, <2>2 DEF Told
    <3>2. QED
      BY Zenon, <1>5, <1>6, <2>2, <3>1
  <2>3. QED
    BY Zenon, <1>4, <2>1, <2>2
<1>8. k => \E j \in DOMAIN s : s[j].kind = "allocated"
  BY Zenon, <1>4, <1>5 DEF Told
<1>9. v.kind = "allocated" => \E j \in DOMAIN s : s[j].kind = "allocated"
  BY Zenon, <1>2, <1>4
<1>10. QED
  BY Zenon, <1>1, <1>7, <1>8, <1>9 DEF Told

LEMMA ToldTaken ==
  ASSUME NEW e \in Seq(Event), e # << >>, NEW k, Told(e, k)
  PROVE  Head(e).kind # "data" /\ (Head(e).kind # "allocated" => Told(Tail(e), k))
<1>1. Tail(e) \in Seq(Event) /\ Len(Tail(e)) = Len(e) - 1 /\ Len(e) \in Nat /\ Head(e) = e[1] /\ 1 \in DOMAIN e
      /\ \A i \in 1..Len(Tail(e)) : Tail(e)[i] = e[i + 1]
  OBVIOUS
<1>2. DOMAIN e = 1..Len(e) /\ DOMAIN Tail(e) = 1..Len(Tail(e)) /\ ~ \E j \in 1..(1 - 1) : TRUE
  OBVIOUS
<1>3. Head(e).kind # "data"
  BY Zenon, <1>1, <1>2 DEF Told
<1>4. ASSUME Head(e).kind # "allocated" PROVE Told(Tail(e), k)
  <2>1. ASSUME NEW j \in DOMAIN e, e[j].kind = "allocated"
        PROVE  j - 1 \in DOMAIN Tail(e) /\ Tail(e)[j - 1].kind = "allocated"
    <3>1. j # 1
      BY ZenonT(40), <1>1, <1>4, <2>1
    <3>2. j - 1 \in 1..Len(Tail(e)) /\ (j - 1) + 1 = j
      BY <1>1, <1>2, <3>1
    <3>3. QED
      BY Zenon, <1>1, <1>2, <2>1, <3>2
  <2>2. ASSUME NEW i \in DOMAIN Tail(e), Tail(e)[i].kind = "data"
        PROVE  \E j \in 1..(i - 1) : Tail(e)[j].kind = "allocated"
    <3>1. i + 1 \in DOMAIN e /\ Tail(e)[i] = e[i + 1]
      BY <1>1, <1>2
    <3>2. PICK j \in 1..((i + 1) - 1) : e[j].kind = "allocated"
      BY ZenonT(40), <2>2, <3>1 DEF Told
    <3>3. j \in DOMAIN e
      BY <1>1, <1>2, <3>2
    <3>4. j # 1
      BY ZenonT(40), <1>1, <1>4, <3>2
    <3>5. j - 1 \in 1..(i - 1)
      BY <1>1, <1>2, <3>2, <3>4
    <3>6. QED
      BY ZenonT(40), <2>1, <3>2, <3>3, <3>5
  <2>3. QED
    BY Zenon, <2>1, <2>2 DEF Told
<1>5. QED
  BY Zenon, <1>3, <1>4

LEMMA IncomingIs ==
  ASSUME NEW c \in Client
  PROVE  Incoming(c) = Inbound(routs[c], events[c]) /\ Incoming(c)' = Inbound(routs'[c], events'[c])
BY Zenon DEF Incoming, Inbound

LEMMA InType ==
  ASSUME TypeOK, NEW c \in Client
  PROVE  routs[c] \in Seq(1..MaxData) /\ events[c] \in Seq(Event) /\ lastData \in Nat
<1>1. routs[c] \in Seq(1..MaxData) /\ events[c] \in Seq(Event) /\ lastData \in 0..MaxData
  BY ZenonT(40) DEF TypeOK
<1>2. lastData \in Nat
  BY <1>1
<1>3. QED
  BY ZenonT(40), <1>1, <1>2

LEMMA QuietIn ==
  ASSUME Ingoing, UNCHANGED <<clients, relayAddrs, relays, routs, events, arrived, lastData>>
  PROVE  Ingoing'
<1>1. \A c \in Client : Incoming(c)' = Incoming(c)
  BY Zenon DEF Incoming
<1>2. Announced'
  BY Zenon DEF Ingoing, Announced
<1>3. QED
  BY Zenon, <1>1, <1>2 DEF Ingoing

\* An answer or an allocation is queued.
LEMMA EventAddedIn ==
  ASSUME TypeOK, Ingoing, NEW c \in Client, NEW v \in Event, v.kind # "data",
         events' = [events EXCEPT ![c] = Append(@, v)],
         UNCHANGED <<clients, relayAddrs, routs, arrived, lastData>>,
         relays' = relays \/ (v.kind = "allocated" /\ relays' = relays \cup {c})
  PROVE  Ingoing'
<1>1. events \in [Client -> Seq(Event)] /\ clients \subseteq Client
  BY Zenon DEF TypeOK
<1>2. events'[c] = Append(events[c], v) /\ \A x \in Client : x # c => events'[x] = events[x]
  BY Zenon, <1>1
<1>3. ASSUME NEW x \in Client PROVE Incoming(x)' = Incoming(x)
  <2>1. CASE x = c
    <3>1. events[c] \in Seq(Event)
      BY Zenon, <1>1
    <3>2. Inbound(routs[c], Append(events[c], v)) = Inbound(routs[c], events[c])
      BY Zenon, <3>1, EventAppended
    <3>3. QED
      BY Zenon, <1>2, <2>1, <3>2, IncomingIs
  <2>2. CASE x # c
    BY Zenon, <1>2, <2>2, IncomingIs
  <2>3. QED
    BY Zenon, <2>1, <2>2
<1>4. ASSUME NEW x \in clients \ relayAddrs PROVE Told(events'[x], x \in relays')
  <2>1. x \in Client /\ Told(events[x], x \in relays)
    BY Zenon, <1>1 DEF Ingoing, Announced
  <2>2. CASE x # c
    <3>1. (x \in relays') <=> (x \in relays)
      BY Zenon, <2>2
    <3>2. Told(events[x], x \in relays')
      BY Zenon, <2>1, <3>1 DEF Told
    <3>3. QED
      BY ZenonT(40), <1>2, <2>1, <2>2, <3>2
  <2>3. CASE x = c
    <3>1. PICK e \in Seq(Event) : e = events[c]
      BY Zenon, <1>1
    <3>2. PICK k : k = (c \in relays)
      BY Zenon
    <3>3. Told(e, k)
      BY ZenonT(40), <2>1, <2>3, <3>1, <3>2
    <3>4. Told(Append(e, v), k) /\ (v.kind = "allocated" => Told(Append(e, v), TRUE))
      BY Zenon, <3>3, ToldAppended
    <3>5. CASE relays' = relays
      BY ZenonT(40), <1>2, <2>3, <3>1, <3>2, <3>4, <3>5
    <3>6. CASE v.kind = "allocated" /\ relays' = relays \cup {c}
      <4>1. Told(Append(e, v), TRUE) /\ c \in relays'
        BY Zenon, <3>4, <3>6
      <4>2. Told(Append(e, v), c \in relays')
        BY Zenon, <4>1 DEF Told
      <4>3. QED
        BY ZenonT(40), <1>2, <2>3, <3>1, <4>2
    <3>7. QED
      BY Zenon, <3>5, <3>6
  <2>4. QED
    BY Zenon, <2>2, <2>3
<1>5. QED
  BY ZenonT(40), <1>3, <1>4 DEF Ingoing, Announced

\* Data of a relay comes: the next number, behind all that came before.
LEMMA ArrivesIn ==
  ASSUME TypeOK, Ingoing, NEW c \in Client, NEW p \in Peer, Arrives(c, p)
  PROVE  Ingoing'
<1> DEFINE n == lastData + 1
           v == Data(p, n)
<1>1. /\ events \in [Client -> Seq(Event)] /\ clients \subseteq Client
      /\ arrived \in [Client -> SUBSET (1..MaxData)]
  BY ZenonT(40) DEF TypeOK
<1>2. v \in Event /\ v.kind = "data" /\ v.id = n
  BY DEF TypeOK, Event, Arrives, Data
<1>3. /\ c \in clients /\ c \in relays /\ lastData' = n
      /\ UNCHANGED <<clients, relayAddrs, relays, routs>>
      /\ events' = [events EXCEPT ![c] = Append(@, v)] /\ arrived' = [arrived EXCEPT ![c] = @ \cup {n}]
  BY Zenon DEF Arrives, Data, relayer
<1> HIDE DEF v
<1>4. events'[c] = Append(events[c], v) /\ \A x \in Client : x # c => events'[x] = events[x]
  BY Zenon, <1>1, <1>3
<1>5. arrived'[c] = arrived[c] \cup {n} /\ \A x \in Client : x # c => arrived'[x] = arrived[x]
  BY Zenon, <1>1, <1>3
<1>6. ASSUME NEW x \in Client PROVE Came(Incoming(x)', arrived'[x], lastData', x \in clients')
  <2>1. Came(Incoming(x), arrived[x], lastData, x \in clients) /\ lastData \in Nat
    BY Zenon, InType DEF Ingoing
  <2>2. CASE x # c
    <3>1. Incoming(x)' = Incoming(x)
      BY Zenon, <1>3, <1>4, <2>2, IncomingIs
    <3>2. Came(Incoming(x), arrived[x], n, x \in clients)
      BY Zenon, <2>1, CameOthers
    <3>3. QED
      BY ZenonT(40), <1>3, <1>5, <2>2, <3>1, <3>2
  <2>3. CASE x = c
    <3>1. PICK r \in Seq(1..MaxData), e \in Seq(Event) : r = routs[c] /\ e = events[c]
      BY Zenon, InType
    <3>2. PICK z : z = <<2, Len(e) + 1, n>>
      BY Zenon
    <3>3. Inbound(r, Append(e, v)) = Inbound(r, e) \cup {z}
      <4>1. Inbound(r, Append(e, v)) = Inbound(r, e) \cup {<<2, Len(e) + 1, v.id>>}
        BY ZenonT(40), <1>2, EventAppended
      <4>2. z = <<2, Len(e) + 1, v.id>>
        BY Zenon, <1>2, <3>2
      <4>3. QED
        BY Zenon, <4>1, <4>2
    <3>4. Came(Inbound(r, e), arrived[c], lastData, TRUE)
      <4>1. Came(Inbound(r, e), arrived[c], lastData, c \in clients)
        BY ZenonT(40), <2>1, <2>3, <3>1, IncomingIs
      <4>2. QED
        BY Zenon, <1>3, <4>1 DEF Came
    <3>5. z[1] = 2 /\ z[2] = Len(e) + 1 /\ z[3] = lastData + 1 /\ Len(e) \in Nat
      BY <3>2
    <3>6. \A y \in Inbound(r, e) : /\ y[1] \in 1..2 /\ y[2] \in Nat
                                   /\ y[1] = 2 => y[2] <= Len(e)
      BY ZenonT(40), InboundSlots
    <3>7. ~ Ahead(z, z)
      BY SMTT(30), <3>5 DEF Ahead
    <3>8. ASSUME NEW y \in Inbound(r, e) PROVE ~ Ahead(z, y)
      <4>1. y[1] \in 1..2 /\ y[2] \in Nat /\ (y[1] = 2 => y[2] <= Len(e))
        BY Zenon, <3>6
      <4>2. QED
        BY <3>5, <4>1 DEF Ahead
    <3>9. Came(Inbound(r, e) \cup {z}, arrived[c] \cup {n}, n, c \in clients)
      BY ZenonT(40), <2>1, <3>4, <3>5, <3>7, <3>8, CameNext
    <3>10. Incoming(c)' = Inbound(r, e) \cup {z}
      BY ZenonT(40), <1>3, <1>4, <3>1, <3>3, IncomingIs
    <3>11. QED
      BY ZenonT(40), <1>3, <1>5, <2>3, <3>9, <3>10
  <2>4. QED
    BY Zenon, <2>2, <2>3
<1>7. ASSUME NEW x \in clients \ relayAddrs PROVE Told(events'[x], x \in relays)
  <2>1. x \in Client /\ Told(events[x], x \in relays)
    BY Zenon, <1>1 DEF Ingoing, Announced
  <2>2. CASE x # c
    BY Zenon, <1>4, <2>1, <2>2
  <2>3. CASE x = c
    <3>1. PICK e \in Seq(Event) : e = events[c]
      BY Zenon, <1>1
    <3>2. PICK k : k = (c \in relays)
      BY Zenon
    <3>3. Told(e, k) /\ k
      BY ZenonT(40), <1>3, <2>1, <2>3, <3>1, <3>2
    <3>4. Told(Append(e, v), k)
      BY Zenon, <1>2, <3>3, ToldAppended
    <3>5. QED
      BY ZenonT(40), <1>4, <2>3, <3>1, <3>2, <3>4
  <2>4. QED
    BY Zenon, <2>2, <2>3
<1>8. QED
  BY ZenonT(40), <1>3, <1>6, <1>7 DEF Ingoing, Announced

\* An event other than data is taken.
LEMMA EventTakenIn ==
  ASSUME TypeOK, Ingoing, NEW c \in Client, NEW k, k # "data", Takes(c, k),
         UNCHANGED <<clients, relays, routs, arrived, lastData>>,
         relayAddrs' = IF k = "allocated" THEN relayAddrs \cup {c} ELSE relayAddrs
  PROVE  Ingoing'
<1>1. events \in [Client -> Seq(Event)] /\ clients \subseteq Client
  BY Zenon DEF TypeOK
<1>2. events[c] # << >> /\ Head(events[c]).kind = k /\ events'[c] = Tail(events[c])
      /\ \A x \in Client : x # c => events'[x] = events[x]
  BY Zenon, <1>1 DEF Takes
<1>3. ASSUME NEW x \in Client PROVE Came(Incoming(x)', arrived'[x], lastData', x \in clients')
  <2>1. Came(Incoming(x), arrived[x], lastData, x \in clients)
    BY Zenon DEF Ingoing
  <2>2. CASE x # c
    <3>1. Incoming(x)' = Incoming(x)
      BY Zenon, <1>2, <2>2, IncomingIs
    <3>2. QED
      BY Zenon, <2>1, <3>1
  <2>3. CASE x = c
    <3>1. PICK r \in Seq(1..MaxData), e \in Seq(Event) : r = routs[c] /\ e = events[c]
      BY Zenon, InType
    <3>2. Kept(Inbound(r, Tail(e)), Inbound(r, e))
      BY Zenon, <1>2, <3>1, EventTaken
    <3>3. Incoming(c)' = Inbound(r, Tail(e)) /\ Incoming(c) = Inbound(r, e)
      BY Zenon, <1>2, <3>1, IncomingIs
    <3>4. Came(Incoming(c)', arrived[c], lastData, c \in clients)
      BY ZenonT(40), <2>1, <2>3, <3>2, <3>3, CameKept
    <3>5. QED
      BY Zenon, <2>3, <3>4
  <2>4. QED
    BY Zenon, <2>2, <2>3
<1>4. ASSUME NEW x \in clients, x \notin relayAddrs' PROVE Told(events'[x], x \in relays)
  <2>1. x \in Client /\ x \notin relayAddrs
    BY Zenon, <1>1, <1>4
  <2>2. Told(events[x], x \in relays)
    BY Zenon, <2>1 DEF Ingoing, Announced
  <2>3. CASE x # c
    BY ZenonT(40), <1>2, <2>1, <2>2, <2>3
  <2>4. CASE x = c
    <3>1. k # "allocated"
      BY Zenon, <1>4, <2>4
    <3>2. PICK e \in Seq(Event) : e = events[c]
      BY Zenon, <1>1
    <3>3. PICK b : b = (c \in relays)
      BY Zenon
    <3>4. Told(e, b) /\ e # << >> /\ Head(e).kind # "allocated"
      BY ZenonT(40), <1>2, <2>2, <2>4, <3>1, <3>2, <3>3
    <3>5. Told(Tail(e), b)
      BY Zenon, <3>4, ToldTaken
    <3>6. QED
      BY ZenonT(40), <1>2, <2>4, <3>2, <3>3, <3>5
  <2>5. QED
    BY Zenon, <2>3, <2>4
<1>5. QED
  BY ZenonT(40), <1>3, <1>4 DEF Ingoing, Announced

\* Data is taken: the relayer knows its relay, and the core reads it.
LEMMA PollDataIn ==
  ASSUME TypeOK, Held, Ingoing, NEW c \in Client, PollData(c)
  PROVE  Ingoing'
<1>1. events \in [Client -> Seq(Event)] /\ routs \in [Client -> Seq(1..MaxData)] /\ clients \subseteq Client
  BY Zenon DEF TypeOK
<1>2. events[c] # << >> /\ Head(events[c]).kind = "data" /\ events'[c] = Tail(events[c])
      /\ \A x \in Client : x # c => events'[x] = events[x]
  BY Zenon, <1>1 DEF PollData, Takes
<1>3. UNCHANGED <<clients, relayAddrs, relays, arrived, lastData>>
  BY Zenon DEF PollData, relayer, counts, hist
<1>4. PICK r \in Seq(1..MaxData), e \in Seq(Event) : r = routs[c] /\ e = events[c]
  BY Zenon, InType
<1>5. c \in relayAddrs
  <2>1. c \in clients
    BY Zenon, <1>2 DEF Held
  <2>2. PICK b : b = (c \in relays)
    BY Zenon
  <2>3. ~ Told(e, b)
    BY Zenon, <1>2, <1>4, ToldTaken
  <2>4. QED
    BY ZenonT(40), <1>4, <2>1, <2>2, <2>3 DEF Ingoing, Announced
<1>6. routs'[c] = Append(r, Head(e).id) /\ \A x \in Client : x # c => routs'[x] = routs[x]
  BY Zenon, <1>1, <1>4, <1>5 DEF PollData
<1>7. Head(e).id \in 1..MaxData
  <2>1. Head(e) = e[1] /\ 1 \in DOMAIN e
    BY <1>2, <1>4
  <2>2. QED
    BY ZenonT(40), <1>2, <1>4, <2>1 DEF Held
<1>8. ASSUME NEW x \in Client PROVE Came(Incoming(x)', arrived'[x], lastData', x \in clients')
  <2>1. Came(Incoming(x), arrived[x], lastData, x \in clients)
    BY Zenon DEF Ingoing
  <2>2. CASE x # c
    <3>1. Incoming(x)' = Incoming(x)
      BY Zenon, <1>2, <1>6, <2>2, IncomingIs
    <3>2. QED
      BY Zenon, <1>3, <2>1, <3>1
  <2>3. CASE x = c
    <3>1. Kept(Inbound(Append(r, Head(e).id), Tail(e)), Inbound(r, e))
      BY ZenonT(40), <1>2, <1>4, <1>7, DataRead
    <3>2. Incoming(c)' = Inbound(Append(r, Head(e).id), Tail(e)) /\ Incoming(c) = Inbound(r, e)
      BY ZenonT(40), <1>2, <1>4, <1>6, IncomingIs
    <3>3. Came(Incoming(c)', arrived[c], lastData, c \in clients)
      BY ZenonT(40), <2>1, <2>3, <3>1, <3>2, CameKept
    <3>4. QED
      BY Zenon, <1>3, <2>3, <3>3
  <2>4. QED
    BY Zenon, <2>2, <2>3
<1>9. ASSUME NEW x \in clients \ relayAddrs PROVE Told(events'[x], x \in relays)
  <2>1. x \in Client /\ x # c
    BY Zenon, <1>1, <1>5
  <2>2. QED
    BY Zenon, <1>2, <2>1 DEF Ingoing, Announced
<1>10. QED
  BY ZenonT(40), <1>3, <1>8, <1>9 DEF Ingoing, Announced

\* The clients of S are removed, and their events with them.
LEMMA DroppedIn ==
  ASSUME TypeOK, Ingoing, NEW S, clients' = clients \ S,
         \A x \in Client : events'[x] = IF x \in S THEN << >> ELSE events[x],
         \A x \in clients \ S : x \notin relayAddrs' => x \notin relayAddrs,
         UNCHANGED <<relays, routs, arrived, lastData>>
  PROVE  Ingoing'
<1>1. clients \subseteq Client
  BY Zenon DEF TypeOK
<1>2. ASSUME NEW x \in Client PROVE Came(Incoming(x)', arrived'[x], lastData', x \in clients')
  <2>1. Came(Incoming(x), arrived[x], lastData, x \in clients)
    BY Zenon DEF Ingoing
  <2>2. CASE x \notin S
    <3>1. Incoming(x)' = Incoming(x) /\ ((x \in clients') <=> (x \in clients))
      BY Zenon, <2>2, IncomingIs
    <3>2. QED
      BY Zenon, <2>1, <3>1 DEF Came
  <2>3. CASE x \in S
    <3>1. PICK r \in Seq(1..MaxData), e \in Seq(Event) : r = routs[x] /\ e = events[x]
      BY Zenon, InType
    <3>2. PICK b : b = (x \in clients)
      BY Zenon
    <3>3. Came(Inbound(r, e), arrived[x], lastData, b)
      BY ZenonT(40), <2>1, <3>1, <3>2, IncomingIs
    <3>4. Came(Inbound(r, << >>), arrived[x], lastData, FALSE)
      BY Zenon, <3>3, CameDropped
    <3>5. Incoming(x)' = Inbound(r, << >>) /\ x \notin clients'
      BY Zenon, <2>3, <3>1, IncomingIs
    <3>6. QED
      BY Zenon, <3>4, <3>5 DEF Came
  <2>4. QED
    BY Zenon, <2>2, <2>3
<1>3. ASSUME NEW x \in clients' \ relayAddrs' PROVE Told(events'[x], x \in relays')
  <2>1. x \in Client /\ x \in clients \ relayAddrs /\ x \notin S
    BY Zenon, <1>1
  <2>2. QED
    BY Zenon, <2>1 DEF Ingoing, Announced
<1>4. QED
  BY ZenonT(40), <1>2, <1>3 DEF Ingoing, Announced

LEMMA WriteFailsIn ==
  ASSUME TypeOK, Ingoing, NEW c \in Client, WriteFails(c)
  PROVE  Ingoing'
<1>1. events \in [Client -> Seq(Event)]
  BY Zenon DEF TypeOK
<1>2. \A x \in Client : events'[x] = IF x \in {c} THEN << >> ELSE events[x]
  BY Zenon, <1>1 DEF WriteFails, RemoveClient
<1>3. \A x \in clients \ {c} : x \notin relayAddrs' => x \notin relayAddrs
  BY Zenon DEF WriteFails, RemoveClient, DropRelay
<1>4. clients' = clients \ {c} /\ UNCHANGED <<relays, routs, arrived, lastData>>
  BY Zenon DEF WriteFails, RemoveClient, counts, hist
<1>5. QED
  BY ZenonT(40), <1>2, <1>3, <1>4, DroppedIn

LEMMA CloseIn ==
  ASSUME TypeOK, Ingoing, Close
  PROVE  Ingoing'
<1>1. \A x \in Client : events'[x] = IF x \in Client THEN << >> ELSE events[x]
  BY ZenonT(40) DEF Close
<1>2. clients' = clients \ Client /\ \A x \in clients \ Client : x \notin relayAddrs' => x \notin relayAddrs
  BY Zenon DEF Close, TypeOK
<1>3. UNCHANGED <<relays, routs, arrived, lastData>>
  BY Zenon DEF Close, counts, hist
<1>4. QED
  BY ZenonT(40), <1>1, <1>2, <1>3, DroppedIn

LEMMA OutcomeIn ==
  ASSUME TypeOK, Ingoing, NEW r \in trans, NEW k \in {"granted", "refused", "timeout"}, Outcome(r, k)
  PROVE  Ingoing'
<1>1. PICK v : v = [kind |-> k, peer |-> r.peer, id |-> r.tid]
  BY ZenonT(40)
<1>2. v \in Event /\ v.kind # "data" /\ r.relay \in Client
  BY SMTT(30), <1>1 DEF TypeOK, Event, Request
<1>3. /\ events' = [events EXCEPT ![r.relay] = Append(@, v)] /\ relays' = relays
      /\ UNCHANGED <<clients, relayAddrs, routs, arrived, lastData>>
  BY Zenon, <1>1 DEF Outcome, relayer, counts, hist
<1>4. QED
  BY Zenon, <1>2, <1>3, EventAddedIn

LEMMA AllocatedIn ==
  ASSUME TypeOK, Ingoing, NEW c \in Client, Allocated(c)
  PROVE  Ingoing'
<1>1. PICK p \in Peer : events' = [events EXCEPT ![c] =
                           Append(@, [kind |-> "allocated", peer |-> p, id |-> 0])]
  BY Zenon DEF Allocated
<1>2. PICK v : v = [kind |-> "allocated", peer |-> p, id |-> 0]
  BY ZenonT(40)
<1>3. v \in Event /\ v.kind = "allocated"
  BY <1>2 DEF Event
<1>4. v.kind # "data"
  BY <1>3
<1>5. /\ events' = [events EXCEPT ![c] = Append(@, v)] /\ relays' = relays \cup {c}
      /\ UNCHANGED <<clients, relayAddrs, routs, arrived, lastData>>
  BY Zenon, <1>1, <1>2 DEF Allocated, relayer, counts, hist
<1>6. QED
  BY ZenonT(40), <1>3, <1>4, <1>5, EventAddedIn

LEMMA InitIngoing == Init => Ingoing
<1> SUFFICES ASSUME Init PROVE Ingoing
  OBVIOUS
<1>1. DOMAIN << >> = {}
  OBVIOUS
<1>2. ASSUME NEW c \in Client PROVE Came(Incoming(c), arrived[c], lastData, c \in clients)
  <2>1. Incoming(c) = {} /\ arrived[c] = {}
    BY Zenon, <1>1 DEF Init, Incoming, Numbers
  <2>2. Ids({}) = {}
    BY Zenon DEF Ids
  <2>3. QED
    BY Zenon, <2>1, <2>2 DEF Came
<1>3. ASSUME NEW c \in Client PROVE Told(events[c], c \in relays)
  BY Zenon, <1>1 DEF Init, Told
<1>4. QED
  BY Zenon, <1>2, <1>3 DEF Ingoing, Announced, Init

LEMMA IngoingInductive == TypeOK /\ Held /\ Ingoing /\ [Next]_vars => Ingoing'
<1>1. SUFFICES ASSUME TypeOK, Held, Ingoing, [Next]_vars PROVE Ingoing'
  OBVIOUS
<1>2. CASE UNCHANGED vars \/ Wake \/ RelayWritesDone \/ CoreWritesDone \/ EventsDone
  BY ZenonT(40), <1>1, <1>2, QuietIn DEF Wake, RelayWritesDone, CoreWritesDone, EventsDone, vars, relayer, turn, counts, hist
<1>3. ASSUME NEW c \in Client, WriteOut(c) PROVE Ingoing'
  BY ZenonT(40), <1>1, <1>3, QuietIn DEF WriteOut, relayer, turn, counts, hist
<1>4. ASSUME NEW c \in Client, PollAllocated(c) PROVE Ingoing'
  <2>1. Takes(c, "allocated") /\ relayAddrs' = relayAddrs \cup {c}
        /\ UNCHANGED <<clients, relays, routs, arrived, lastData>>
    BY Zenon, <1>4 DEF PollAllocated, counts, hist
  <2>2. "allocated" # "data"
    OBVIOUS
  <2>3. QED
    BY ZenonT(40), <1>1, <2>1, <2>2, EventTakenIn
<1>5. ASSUME NEW c \in Client, PollData(c) PROVE Ingoing'
  BY Zenon, <1>1, <1>5, PollDataIn
<1>6. ASSUME NEW c \in Client, PollGranted(c) \/ PollFailed(c) PROVE Ingoing'
  <2>1. PICK k \in {"granted", "refused", "timeout"} : Takes(c, k)
    BY Zenon, <1>6 DEF PollGranted, PollFailed
  <2>2. UNCHANGED <<clients, relayAddrs, relays, routs, arrived, lastData>>
    BY Zenon, <1>6 DEF PollGranted, PollFailed, counts, hist
  <2>3. k # "data" /\ k # "allocated"
    BY <2>1
  <2>4. QED
    BY ZenonT(40), <1>1, <2>1, <2>2, <2>3, EventTakenIn
<1>7. CASE Granted \/ Refused \/ TimedOut
  BY ZenonT(40), <1>1, <1>7, OutcomeIn DEF Granted, Refused, TimedOut
<1>8. CASE Close
  BY Zenon, <1>1, <1>8, CloseIn
<1>9. ASSUME NEW c \in Client, Allocated(c) PROVE Ingoing'
  BY Zenon, <1>1, <1>9, AllocatedIn
<1>10. ASSUME NEW c \in Client, WriteFails(c) PROVE Ingoing'
  BY Zenon, <1>1, <1>10, WriteFailsIn
<1>11. ASSUME NEW c \in Client, NEW p \in Peer, Arrives(c, p) PROVE Ingoing'
  BY ZenonT(40), <1>1, <1>11, ArrivesIn
<1>12. ASSUME NEW c \in Client, NEW p \in Peer, SendDirect(c, p) \/ SendWhilePending(c, p) \/ SendAndRequest(c, p)
       PROVE  Ingoing'
  BY ZenonT(40), <1>1, <1>12, QuietIn DEF SendDirect, SendWhilePending, SendAndRequest, relayer, turn
<1>13. CASE Loop
  BY ZenonT(40), <1>2, <1>3, <1>4, <1>5, <1>6, <1>13 DEF Loop
<1>14. CASE Environment
  BY ZenonT(40), <1>7, <1>8, <1>9, <1>10, <1>11, <1>12, <1>14 DEF Environment
<1>15. QED
  BY ZenonT(40), <1>1, <1>2, <1>13, <1>14 DEF Next

\* Of every packet handed to the relayer and every one that came: it is where the
\* code put it, once, in order, unless its pair lost one or its client is gone
\* (Accounted: send_to, flush_pending_packets, poll_event, remove_client).
THEOREM AccountedHolds == Spec => []Accounted
<1>1. Init => AInv
  BY Zenon, InitHolds, InitOutgoing, InitIngoing DEF AInv
<1>2. AInv /\ [Next]_vars => AInv'
  <2>1. AInv => IInv /\ TypeOK /\ Held /\ Outgoing /\ Ingoing
    BY Zenon DEF AInv, IInv
  <2>2. IInv' /\ Outgoing' /\ Ingoing' => AInv'
    BY Zenon DEF AInv
  <2>3. QED
    BY ZenonT(40), <2>1, <2>2, Inductive, OutgoingInductive, IngoingInductive
<1>3. QED
  BY <1>1, <1>2, AInvImplies, PTL DEF Spec
=============================================================================
