-------------------------- MODULE DataChannelBridge --------------------------
(***************************************************************************)
(* How a data channel of one peer reaches the Java callbacks: the driver   *)
(* hands the core's events and messages to per-channel event queues, and   *)
(* one poller task per DataChannel object forwards them to the callbacks   *)
(* registered under the channel's id.                                      *)
(*                                                                         *)
(*   rust-webrtc-ffi/src/lib.rs        create, callbacks, Forwarder, poller*)
(*   rust-webrtc/src/peer_connection/  create_data_channel, driver         *)
(*                                                                         *)
(* The application thread, the driver task and the pollers interleave. The *)
(* driver alone feeds packets to the core, between two of its iterations.  *)
(***************************************************************************)
EXTENDS Naturals, FiniteSets, Sequences

CONSTANTS
    Local,      \* ids of channels this peer creates
    Remote,     \* ids of channels the other peer creates
    QCap,       \* DATA_CHANNEL_EVENT_CHANNEL_CAPACITY (256 in the code)
    MaxMsgs,    \* bound: messages the other peer sends on a channel
    MaxOpens,   \* bound: times the other peer uses an id
    Careful     \* channels are created, with callbacks, before the handshake

Id == Local \cup Remote

ASSUME IdAssumption == Local \cap Remote = {} /\ \A S \in SUBSET Id : Cardinality(S) \in Nat
ASSUME BoundAssumption ==
    QCap \in Nat \ {0} /\ MaxMsgs \in Nat /\ MaxOpens \in Nat \ {0}
ASSUME CarefulAssumption == Careful \in BOOLEAN

\* The DataChannel objects made for an id, numbered in order: create_data_channel
\* makes one and every announcement another.
MaxObjs == MaxOpens + 1
Rcv == Id \X (1..MaxObjs)
Owner(r) == r[1]

VARIABLES
    core,        \* the channel in the core
    uses,        \* how often the id has been opened
    closed,      \* how often it has been closed
    sent,        \* messages received from the network
    handshake,   \* the SCTP association is up
    coreEvents, coreReads,  \* what the core has for poll_events and poll_reads
    phase,       \* where the driver is
    made,        \* progress of create_data_channel for a local id
    objs,        \* DataChannelImpl objects made so far for each id
    tx,          \* data_channel_events_tx: the object each id feeds, 0 if none
    queue,       \* event queue of each object
    dropped,     \* ids that lost an event to a full queue
    poller, opened,         \* its poller task
    cbs,         \* ids with an entry in dc_callbacks
    announced,   \* ids reported through on_data_channel
    opens, got, closes      \* what the callbacks have seen

coreVars == <<core, uses, closed, sent, handshake>>
rcvVars  == <<objs, tx>>
appSees  == <<opens, got, closes>>
vars == <<coreVars, coreEvents, coreReads, phase, made, rcvVars, queue, dropped,
          poller, opened, cbs, announced, appSees>>

CoreEvent(kind, id) == [kind |-> kind, id |-> id]
Message(id, n) == [id |-> id, n |-> n]

\* DataChannelEvent, for the kinds the poller acts on.
OnOpen == [kind |-> "open", n |-> 0]
OnMessage(n) == [kind |-> "message", n |-> n]
OnClose == [kind |-> "close", n |-> 0]
ChannelEvents == {OnOpen, OnClose} \cup {OnMessage(n) : n \in 1..MaxMsgs}

TypeOK ==
    /\ core \in [Id -> {"none", "connecting", "open", "closed"}]
    /\ uses \in [Id -> Nat] /\ closed \in [Id -> Nat] /\ sent \in [Id -> 0..MaxMsgs]
    /\ handshake \in BOOLEAN
    /\ coreEvents \in Seq([kind : {"open", "close"}, id : Id])
    /\ coreReads \in Seq([id : Id, n : 1..MaxMsgs])
    /\ phase \in {"select", "events", "open", "reads"}
    /\ made \in [Local -> {"no", "core", "tx", "yes"}]
    /\ objs \in [Id -> 0..MaxObjs] /\ tx \in [Id -> 0..MaxObjs]
    /\ queue \in [Rcv -> Seq(ChannelEvents)]
    /\ \A r \in Rcv : Len(queue[r]) <= QCap
    /\ dropped \subseteq Id
    /\ poller \in [Rcv -> {"none", "poll", "sleep", "finish", "done"}]
    /\ opened \in [Rcv -> BOOLEAN]
    /\ cbs \subseteq Id /\ announced \subseteq Id
    /\ opens \in [Id -> Nat] /\ closes \in [Id -> Nat]
    /\ got \in [Id -> Seq(1..MaxMsgs)]

Init ==
    /\ core = [i \in Id |-> "none"] /\ uses = [i \in Id |-> 0]
    /\ closed = [i \in Id |-> 0] /\ sent = [i \in Id |-> 0] /\ handshake = FALSE
    /\ coreEvents = << >> /\ coreReads = << >> /\ phase = "select"
    /\ made = [i \in Local |-> "no"]
    /\ objs = [i \in Id |-> 0] /\ tx = [i \in Id |-> 0] /\ queue = [r \in Rcv |-> << >>]
    /\ dropped = {}
    /\ poller = [r \in Rcv |-> "none"] /\ opened = [r \in Rcv |-> FALSE]
    /\ cbs = {} /\ announced = {}
    /\ opens = [i \in Id |-> 0] /\ got = [i \in Id |-> << >>]
    /\ closes = [i \in Id |-> 0]

-----------------------------------------------------------------------------
(* The application thread.                                                  *)

\* create_data_channel, first lock: the core allocates the channel.
CreateCore(i) ==
    /\ made[i] = "no" /\ (Careful => ~handshake)
    /\ made' = [made EXCEPT ![i] = "core"]
    /\ core' = [core EXCEPT ![i] = "connecting"]
    /\ UNCHANGED <<uses, closed, sent, handshake, coreEvents, coreReads, phase,
                   rcvVars, queue, dropped, poller, opened, cbs, announced, appSees>>

\* Second lock: the event sender is stored, replacing any that is there.
InsertTx(i) ==
    /\ made[i] = "core"
    /\ made' = [made EXCEPT ![i] = "tx"]
    /\ objs' = [objs EXCEPT ![i] = @ + 1]
    /\ tx' = [tx EXCEPT ![i] = objs[i] + 1]
    /\ UNCHANGED <<coreVars, coreEvents, coreReads, phase, queue, dropped, poller, opened,
                   cbs, announced, appSees>>

\* webrtc_ffi_create_data_channel: the poller of the new object starts
\* (the driver never replaces a sender, so tx[i] is still this call's).
SpawnPoller(i) ==
    /\ made[i] = "tx"
    /\ made' = [made EXCEPT ![i] = "yes"]
    /\ poller' = [poller EXCEPT ![<<i, tx[i]>>] = "poll"]
    /\ UNCHANGED <<coreVars, coreEvents, coreReads, phase, rcvVars, queue, dropped, opened,
                   cbs, announced, appSees>>

\* webrtc_ffi_data_channel_set_callbacks for a channel the application knows.
SetCallbacks(i) ==
    /\ i \notin cbs /\ closes[i] = 0
    /\ IF i \in Local THEN made[i] = "yes" ELSE i \in announced
    /\ cbs' = cbs \cup {i}
    /\ UNCHANGED <<coreVars, coreEvents, coreReads, phase, made, rcvVars, queue, dropped,
                   poller, opened, announced, appSees>>

-----------------------------------------------------------------------------
(* The network, through the core; only while the driver is in select!.      *)

\* The orders in which a hash map of channels may be walked.
Orders(S) ==
    {s \in [1..Cardinality(S) -> S] : \A j, k \in DOMAIN s : j # k => s[j] # s[k]}

\* SCTPHandshakeComplete: every connecting channel is dialled and opens.
Handshake ==
    /\ phase = "select" /\ ~handshake
    /\ Careful => \A i \in Local : made[i] = "no" \/ i \in cbs
    /\ handshake' = TRUE
    /\ LET up == {i \in Id : core[i] = "connecting"}
       IN /\ core' = [i \in Id |-> IF i \in up THEN "open" ELSE core[i]]
          /\ uses' = [i \in Id |-> IF i \in up THEN uses[i] + 1 ELSE uses[i]]
          /\ \E s \in Orders(up) :
                coreEvents' =
                    coreEvents \o [k \in DOMAIN s |-> CoreEvent("open", s[k])]
    /\ UNCHANGED <<closed, sent, coreReads, phase, made, rcvVars, queue, dropped, poller,
                   opened, cbs, announced, appSees>>

RemoteOpen(i) ==
    /\ phase = "select" /\ handshake
    /\ core[i] \in {"none", "closed"} /\ uses[i] < MaxOpens
    /\ core' = [core EXCEPT ![i] = "open"]
    /\ uses' = [uses EXCEPT ![i] = @ + 1]
    /\ coreEvents' = Append(coreEvents, CoreEvent("open", i))
    /\ UNCHANGED <<closed, sent, handshake, coreReads, phase, made, rcvVars, queue, dropped,
                   poller, opened, cbs, announced, appSees>>

RemoteSend(i) ==
    /\ phase = "select" /\ core[i] = "open" /\ sent[i] < MaxMsgs
    /\ sent' = [sent EXCEPT ![i] = @ + 1]
    /\ coreReads' = Append(coreReads, Message(i, sent[i] + 1))
    /\ UNCHANGED <<core, uses, closed, handshake, coreEvents, phase, made, rcvVars,
                   queue, dropped, poller, opened, cbs, announced, appSees>>

RemoteClose(i) ==
    /\ phase = "select" /\ core[i] = "open"
    /\ core' = [core EXCEPT ![i] = "closed"]
    /\ closed' = [closed EXCEPT ![i] = @ + 1]
    /\ coreEvents' = Append(coreEvents, CoreEvent("close", i))
    /\ UNCHANGED <<uses, sent, handshake, coreReads, phase, made, rcvVars, queue, dropped,
                   poller, opened, cbs, announced, appSees>>

-----------------------------------------------------------------------------
(* The driver.                                                              *)

Full(i) == tx[i] # 0 /\ Len(queue[<<i, tx[i]>>]) >= QCap

\* evt_tx.try_send: dropped when the id has no sender or the queue is full.
TrySend(i, e) ==
    /\ queue' = IF tx[i] # 0 /\ ~Full(i)
                THEN [queue EXCEPT ![<<i, tx[i]>>] = Append(@, e)] ELSE queue
    /\ dropped' = IF Full(i) THEN dropped \cup {i} ELSE dropped

Iterate ==
    /\ phase = "select" /\ (coreEvents # << >> \/ coreReads # << >>)
    /\ phase' = "events"
    /\ UNCHANGED <<coreVars, coreEvents, coreReads, made, rcvVars, queue, dropped, poller,
                   opened, cbs, announced, appSees>>

\* handle_rtc_event(OnOpen), first half, and Forwarder::on_data_channel: a new
\* object, whose sender is kept only if the id has none; its poller; then the
\* Java observer, which as documented registers its callbacks on the spot.
Announce ==
    /\ phase = "events" /\ coreEvents # << >> /\ Head(coreEvents).kind = "open"
    /\ phase' = "open"
    /\ LET i == Head(coreEvents).id
       IN IF core[i] # "open" THEN UNCHANGED <<rcvVars, poller, cbs, announced>>
          ELSE /\ objs' = [objs EXCEPT ![i] = @ + 1]
               /\ tx' = IF tx[i] = 0 THEN [tx EXCEPT ![i] = objs[i] + 1] ELSE tx
               /\ poller' = [poller EXCEPT ![<<i, objs[i] + 1>>] = "poll"]
               /\ announced' = announced \cup {i}
               /\ cbs' = IF i \in Remote THEN cbs \cup {i} ELSE cbs
    /\ UNCHANGED <<coreVars, coreEvents, coreReads, made, queue, dropped, opened, appSees>>

\* The second half: the event itself.
SendOpen ==
    /\ phase = "open" /\ phase' = "events"
    /\ TrySend(Head(coreEvents).id, OnOpen)
    /\ coreEvents' = Tail(coreEvents)
    /\ UNCHANGED <<coreVars, coreReads, made, rcvVars, poller, opened, cbs,
                   announced, appSees>>

HandleClose ==
    /\ phase = "events" /\ coreEvents # << >> /\ Head(coreEvents).kind = "close"
    /\ TrySend(Head(coreEvents).id, OnClose)
    /\ coreEvents' = Tail(coreEvents)
    /\ UNCHANGED <<coreVars, coreReads, phase, made, rcvVars, poller, opened, cbs,
                   announced, appSees>>

EventsDone ==
    /\ phase = "events" /\ coreEvents = << >>
    /\ phase' = "reads"
    /\ UNCHANGED <<coreVars, coreEvents, coreReads, made, rcvVars, queue, dropped, poller,
                   opened, cbs, announced, appSees>>

\* Messages handed on by a task each.
HandleMessageSpawned ==
    /\ phase = "reads" /\ coreReads # << >>
    /\ \E k \in 1..Len(coreReads) :
          /\ TrySend(coreReads[k].id, OnMessage(coreReads[k].n))
          /\ coreReads' = SubSeq(coreReads, 1, k - 1) \o
                          SubSeq(coreReads, k + 1, Len(coreReads))
    /\ UNCHANGED <<coreVars, coreEvents, phase, made, rcvVars, poller, opened, cbs,
                   announced, appSees>>

\* handle_rtc_message(DataChannelMessage).
HandleMessage ==
    /\ phase = "reads" /\ coreReads # << >>
    /\ TrySend(Head(coreReads).id, OnMessage(Head(coreReads).n))
    /\ coreReads' = Tail(coreReads)
    /\ UNCHANGED <<coreVars, coreEvents, phase, made, rcvVars, poller, opened, cbs,
                   announced, appSees>>

ReadsDone ==
    /\ phase = "reads" /\ coreReads = << >>
    /\ phase' = "select"
    /\ UNCHANGED <<coreVars, coreEvents, coreReads, made, rcvVars, queue, dropped, poller,
                   opened, cbs, announced, appSees>>

-----------------------------------------------------------------------------
(* A poller. The callbacks run synchronously inside it.                     *)

Bump(f, i) == IF i \in cbs THEN [f EXCEPT ![i] = @ + 1] ELSE f

Pop(r) ==
    /\ poller[r] = "poll" /\ queue[r] # << >>
    /\ queue' = [queue EXCEPT ![r] = Tail(@)]
    /\ UNCHANGED dropped

PollOpen(r) ==
    /\ Pop(r) /\ Head(queue[r]) = OnOpen
    /\ opened' = [opened EXCEPT ![r] = TRUE]
    /\ opens' = Bump(opens, Owner(r))
    /\ UNCHANGED <<coreVars, coreEvents, coreReads, phase, made, rcvVars, poller,
                   cbs, announced, got, closes>>

PollMessage(r) ==
    /\ Pop(r) /\ Head(queue[r]).kind = "message"
    /\ opened' = [opened EXCEPT ![r] = TRUE]
    /\ opens' = IF opened[r] THEN opens ELSE Bump(opens, Owner(r))
    /\ got' = IF Owner(r) \in cbs
              THEN [got EXCEPT ![Owner(r)] = Append(@, Head(queue[r]).n)] ELSE got
    /\ UNCHANGED <<coreVars, coreEvents, coreReads, phase, made, rcvVars, poller,
                   cbs, announced, closes>>

PollClose(r) ==
    /\ Pop(r) /\ Head(queue[r]) = OnClose
    /\ closes' = Bump(closes, Owner(r))
    /\ poller' = [poller EXCEPT ![r] = "finish"]
    /\ UNCHANGED <<coreVars, coreEvents, coreReads, phase, made, rcvVars, opened,
                   cbs, announced, opens, got>>

\* A poller for which no sender always means closed.
PollNoneCloses(r) ==
    /\ poller[r] = "poll" /\ queue[r] = << >> /\ tx[Owner(r)] # r[2]
    /\ closes' = Bump(closes, Owner(r))
    /\ poller' = [poller EXCEPT ![r] = "finish"]
    /\ UNCHANGED <<coreVars, coreEvents, coreReads, phase, made, rcvVars, queue, dropped,
                   opened, cbs, announced, opens, got>>

\* dc.poll() returns None when the object's sender is gone: closed if it had
\* opened, otherwise try again in 5 ms.
PollNone(r) ==
    /\ poller[r] = "poll" /\ queue[r] = << >> /\ tx[Owner(r)] # r[2]
    /\ IF opened[r]
       THEN /\ closes' = Bump(closes, Owner(r))
            /\ poller' = [poller EXCEPT ![r] = "finish"]
       ELSE /\ poller' = [poller EXCEPT ![r] = "sleep"]
            /\ UNCHANGED closes
    /\ UNCHANGED <<coreVars, coreEvents, coreReads, phase, made, rcvVars, queue, dropped,
                   opened, cbs, announced, opens, got>>

Awake(r) ==
    /\ poller[r] = "sleep"
    /\ poller' = [poller EXCEPT ![r] = "poll"]
    /\ UNCHANGED <<coreVars, coreEvents, coreReads, phase, made, rcvVars, queue, dropped,
                   opened, cbs, announced, appSees>>

\* callbacks.remove(&id) when the loop is left.
Finish(r) ==
    /\ poller[r] = "finish"
    /\ poller' = [poller EXCEPT ![r] = "done"]
    /\ cbs' = cbs \ {Owner(r)}
    /\ UNCHANGED <<coreVars, coreEvents, coreReads, phase, made, rcvVars, queue, dropped,
                   opened, announced, appSees>>

-----------------------------------------------------------------------------

Create == \E i \in Local : CreateCore(i) \/ InsertTx(i) \/ SpawnPoller(i)
App == Create \/ \E i \in Id : SetCallbacks(i)
Network ==
    \/ Handshake
    \/ \E i \in Remote : RemoteOpen(i)
    \/ \E i \in Id : RemoteSend(i) \/ RemoteClose(i)
DriverStep ==
    Iterate \/ Announce \/ SendOpen \/ HandleClose \/ EventsDone \/ HandleMessage
    \/ ReadsDone
PollerStep(r) ==
    PollOpen(r) \/ PollMessage(r) \/ PollClose(r) \/ PollNone(r) \/ Awake(r)
    \/ Finish(r)

Next == App \/ Network \/ DriverStep \/ \E r \in Rcv : PollerStep(r)

\* The driver and every poller are tasks of a multi-threaded runtime. Nothing
\* is assumed of the application or the network, but a call once begun returns.
Fairness ==
    /\ WF_vars(DriverStep)
    /\ \A r \in Rcv : WF_vars(PollerStep(r))
    /\ \A i \in Local : WF_vars(InsertTx(i)) /\ WF_vars(SpawnPoller(i))

Spec == Init /\ [][Next]_vars /\ Fairness

-----------------------------------------------------------------------------
(* Properties                                                               *)

\* A channel's on_open callback runs before its first on_message (the driver
\* announces before it sends OnOpen, so the callbacks are there in time), and
\* once for each time the channel opened: neither the second poller of a local
\* channel nor the open-on-first-message rule of the poller repeats it.
OpenFirstAndOnce ==
    \A i \in Id : /\ got[i] # << >> => opens[i] >= 1
                  /\ opens[i] <= uses[i]

\* data-channels.md: on_close means CLOSED. It runs only for a channel the core
\* has closed, and once for each time.
CloseIsTrue == \A i \in Id : closes[i] <= closed[i]

\* data-channels.md, ordered channels: "Messages arrive in order", "No
\* duplicates". What on_message has seen is strictly increasing.
InOrder ==
    \A i \in Id : \A j, k \in 1..Len(got[i]) : j < k => got[i][j] < got[i][k]

\* The three above, and that the event queues keep to their capacity: what the
\* callbacks tell the application of a channel's life and its messages is true.
CallbacksTrue == TypeOK /\ OpenFirstAndOnce /\ CloseIsTrue /\ InOrder

\* While a channel stays open every message reaches on_message, whichever of
\* its two pollers takes it, unless an event of the channel met a full queue.
Delivered ==
    \A i \in Id : \A n \in 1..MaxMsgs :
        (sent[i] >= n) ~>
            (i \in dropped \/ closed[i] > 0 \/ \E k \in 1..Len(got[i]) : got[i][k] = n)
=============================================================================
