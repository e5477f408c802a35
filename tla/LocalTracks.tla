----------------------------- MODULE LocalTracks -----------------------------
(***************************************************************************)
(* Local tracks and their senders.  The same fact, "transceiver i sends    *)
(* track t", is kept three times: in the core, in the RtpTransceiverImpl   *)
(* the connection's table holds for i, and in the track, which is bound to *)
(* a sender id.  addTrack, removeTrack and getSenders update them one lock *)
(* after the other, while writers push RTP through the binding and the     *)
(* driver hands it to the core.                                            *)
(*                                                                         *)
(*   rust-webrtc-ffi/src/lib.rs                     handles, entry points  *)
(*   rust-webrtc/src/peer_connection/mod.rs         add_track and friends  *)
(*   rust-webrtc/src/rtp_transceiver/mod.rs         set_sender             *)
(*   rust-webrtc/src/media_stream/track_local/      bind, write_rtp        *)
(*                                                                         *)
(* Tracks have one kind and an SSRC each.  A call that returns an error    *)
(* before it changes anything is a stuttering step.  SENDERS never drops   *)
(* an entry and never reuses an id, so it is the set of the senders ids    *)
(* lead to.                                                                *)
(***************************************************************************)
EXTENDS Naturals, Sequences

CONSTANTS
    Thread,   \* threads that add, remove and list senders
    Track,    \* local tracks, with one writer each
    Own,      \* stands for the private track of addTransceiver(sendrecv)
    None,     \* no track, no thread
    MaxTr,    \* bound: transceivers of the connection
    MaxObjs,  \* bound: RtpTransceiverImpl objects ever made for an id
    MaxCalls, \* bound: calls of the threads
    MaxRtp,   \* bound: packets per track
    Cap       \* PEER_CONNECTION_DRIVER_EVENT_CHANNEL_CAPACITY (256 in the code)

ASSUME ValueAssumption ==
    /\ {Own, None} \cap Track = {} /\ Own # None /\ None \notin Thread
ASSUME BoundAssumption ==
    /\ MaxTr \in Nat \ {0} /\ MaxObjs \in Nat /\ MaxCalls \in Nat
    /\ MaxRtp \in Nat /\ Cap \in Nat \ {0}

VARIABLES
    core,     \* the core: track of the sender of each transceiver
    closed,
    objs,     \* of each RtpTransceiverImpl ever made for an id, its sender's track
    table,    \* rtp_transceivers: which of them an id has; 0, no entry
    lock,     \* who holds the rtp_transceivers mutex over several steps
    ctx,      \* sender id a track is bound to; 0, unbound
    evtTx,    \* tracks in track_local_events_tx
    senders,  \* SENDERS
    call,     \* the call each thread is in
    calls,    \* calls made
    twice,    \* history: tracks that two transceivers carried at once
    pend,     \* sender id a write_rtp has read and not yet sent to; 0, none
    seq,      \* packets written
    queue,    \* SenderRtp events in the driver channel
    sent,     \* packets of a track the core accepted
    sure      \* history: packets written under a sender that still carries them

apiVars   == <<call, calls, senders, twice>>
writeVars == <<pend, seq, queue, sent>>
vars == <<core, closed, objs, table, lock, ctx, evtTx, apiVars, writeVars, sure>>

Ids  == 1..MaxTr
Idle == [op |-> "idle", id |-> 0, track |-> None, todo |-> {}, got |-> {}, alone |-> TRUE]

\* A call in progress: its step, the transceiver id and track it is about, the
\* objects get_senders has still to visit and what it found; alone, if no other
\* call has overlapped it.
Calls == [op : {"idle", "add", "bind", "remove", "get", "visit"},
          id : 0..MaxTr, track : Track \cup {Own, None},
          todo : SUBSET (Ids \X (1..MaxObjs)), got : SUBSET (Ids \X (Track \cup {Own})),
          alone : BOOLEAN]

\* The sender RtpTransceiverImpl i holds.
SenderOf(i) == IF table[i] = 0 THEN None ELSE objs[i][table[i]]

TypeOK ==
    /\ core \in Seq(Track \cup {Own, None}) /\ Len(core) <= MaxTr
    /\ closed \in BOOLEAN
    /\ objs \in [Ids -> Seq(Track \cup {Own, None})] /\ table \in [Ids -> 0..MaxObjs]
    /\ \A i \in Ids : /\ table[i] <= Len(objs[i]) /\ Len(objs[i]) <= MaxObjs
                      /\ table[i] # 0 => i <= Len(core)
    /\ lock \in Thread \cup {None}
    /\ ctx \in [Track -> 0..Len(core)] /\ evtTx \subseteq Track
    /\ senders \subseteq Ids \X (Track \cup {Own})
    /\ call \in [Thread -> Calls] /\ calls \in 0..MaxCalls /\ twice \subseteq Track
    /\ pend \in [Track -> 0..Len(core)]
    /\ seq \in [Track -> 0..MaxRtp]
    /\ queue \in Seq(Ids \X Track \X (1..MaxRtp)) /\ Len(queue) <= Cap
    /\ sent \in [Track -> Seq(1..MaxRtp)] /\ sure \subseteq Track \X (1..MaxRtp)

Init ==
    /\ core = << >> /\ closed = FALSE
    /\ objs = [i \in Ids |-> << >>] /\ table = [i \in Ids |-> 0] /\ lock = None
    /\ ctx = [t \in Track |-> 0] /\ evtTx = {}
    /\ senders = {} /\ call = [th \in Thread |-> Idle] /\ calls = 0 /\ twice = {}
    /\ pend = [t \in Track |-> 0]
    /\ seq = [t \in Track |-> 0] /\ queue = << >>
    /\ sent = [t \in Track |-> << >>] /\ sure = {}

-----------------------------------------------------------------------------
(* Calls.                                                                   *)

\* A thread enters a call: it and the calls in progress overlap.
Begin(th, op, i, t) ==
    /\ call[th] = Idle /\ calls < MaxCalls /\ calls' = calls + 1
    /\ LET alone == \A x \in Thread : call[x] = Idle
       IN call' = [x \in Thread |->
                     IF x = th THEN [Idle EXCEPT !.op = op, !.id = i, !.track = t,
                                                 !.alone = alone]
                     ELSE IF call[x] = Idle THEN Idle
                     ELSE [call[x] EXCEPT !.alone = FALSE]]

Return(th) == call' = [call EXCEPT ![th] = Idle]

\* entry(id).or_insert_with(RtpTransceiverImpl::new)
OrInsert(i) ==
    IF table[i] # 0 THEN UNCHANGED <<objs, table>>
    ELSE /\ Len(objs[i]) < MaxObjs
         /\ objs' = [objs EXCEPT ![i] = Append(@, None)]
         /\ table' = [table EXCEPT ![i] = Len(objs[i]) + 1]

\* add_track: the core gives the track to the first transceiver without a
\* sender, or to a new one.
AddTrack(th, t) ==
    LET free == {i \in 1..Len(core) : core[i] = None}
    IN \E i \in 1..MaxTr :
       /\ ~closed
       /\ IF free = {} THEN i = Len(core) + 1 ELSE i \in free /\ \A j \in free : i <= j
       /\ Begin(th, "add", i, t)
       /\ core' = IF free = {} THEN Append(core, t) ELSE [core EXCEPT ![i] = t]
       /\ twice' = IF \E j \in 1..Len(core) : core[j] = t THEN twice \cup {t} ELSE twice
       /\ UNCHANGED <<closed, objs, table, lock, ctx, evtTx, senders, writeVars, sure>>

\* add_transceiver_from_kind: a new transceiver, with a sender and a track of
\* its own if it sends.
AddTransceiver(th, t) ==
    /\ ~closed /\ Len(core) < MaxTr
    /\ Begin(th, "add", Len(core) + 1, t)
    /\ core' = Append(core, t)
    /\ UNCHANGED <<closed, objs, table, lock, ctx, evtTx, senders, twice, writeVars, sure>>

\* The second half of both, under the rtp_transceivers lock: or_insert, and, if
\* there is a sender to set, set_sender up to get_parameters: the old sender's
\* events entry goes and its track is unbound.
TakeSender(old) ==
    /\ evtTx' = evtTx \ {old}
    /\ ctx' = [t \in Track |-> IF t = old THEN 0 ELSE ctx[t]]

AddLock(th) ==
    LET c == call[th]
    IN /\ c.op = "add" /\ lock = None
       /\ OrInsert(c.id)
       /\ IF c.track = None
          THEN /\ Return(th) /\ UNCHANGED <<lock, ctx, evtTx>>
          ELSE /\ lock' = th /\ call' = [call EXCEPT ![th].op = "bind"]
               /\ TakeSender(SenderOf(c.id))
       /\ UNCHANGED <<core, closed, calls, senders, twice, writeVars, sure>>

\* The lock kept after the sender is set.
AddBindKeepLock(th) ==
    LET c == call[th]
    IN /\ c.op = "bind"
       /\ objs' = [objs EXCEPT ![c.id][table[c.id]] = IF core[c.id] = None THEN None ELSE c.track]
       /\ evtTx' = IF core[c.id] # None /\ c.track \in Track THEN evtTx \cup {c.track} ELSE evtTx
       /\ ctx' = [t \in Track |-> IF core[c.id] # None /\ t = c.track THEN c.id ELSE ctx[t]]
       /\ senders' = IF c.track \in Track THEN senders \cup {<<c.id, c.track>>} ELSE senders
       /\ Return(th)
       /\ UNCHANGED <<core, closed, table, lock, calls, twice, writeVars, sure>>

\* The rest of set_sender: if the core still has a sender for the id, the track
\* is bound to it and the object holds the new sender; if not, it silently holds
\* none.  The lock goes with the call; addTrack registers the sender either way.
AddBind(th) ==
    LET c == call[th]
    IN /\ c.op = "bind" /\ lock' = None
       /\ objs' = [objs EXCEPT ![c.id][table[c.id]] = IF core[c.id] = None THEN None ELSE c.track]
       /\ evtTx' = IF core[c.id] # None /\ c.track \in Track THEN evtTx \cup {c.track} ELSE evtTx
       /\ ctx' = [t \in Track |-> IF core[c.id] # None /\ t = c.track THEN c.id ELSE ctx[t]]
       /\ senders' = IF c.track \in Track THEN senders \cup {<<c.id, c.track>>} ELSE senders
       /\ Return(th)
       /\ UNCHANGED <<core, closed, table, calls, twice, writeVars, sure>>

\* remove_track: the core takes whatever sender transceiver i has now.
RemoveTrack(th, s) ==
    /\ ~closed
    /\ Begin(th, "remove", s[1], s[2])
    /\ core' = [core EXCEPT ![s[1]] = None]
    /\ sure' = {p \in sure : p[1] # core[s[1]]}
    /\ UNCHANGED <<closed, objs, table, lock, ctx, evtTx, senders, twice, writeVars>>

\* The sender dropped, its track left bound.
RemoveLockNoUnbind(th) ==
    LET c == call[th]
    IN /\ c.op = "remove" /\ lock = None
       /\ IF table[c.id] = 0 THEN UNCHANGED <<objs, ctx, evtTx>>
          ELSE /\ evtTx' = evtTx \ {SenderOf(c.id)} /\ UNCHANGED ctx
               /\ objs' = [objs EXCEPT ![c.id][table[c.id]] = None]
       /\ Return(th)
       /\ UNCHANGED <<core, closed, table, lock, calls, senders, twice, writeVars, sure>>

\* Its second half: set_sender(None), or ErrRTPTransceiverNotExisted.
RemoveLock(th) ==
    LET c == call[th]
    IN /\ c.op = "remove" /\ lock = None
       /\ IF table[c.id] = 0 THEN UNCHANGED <<objs, ctx, evtTx>>
          ELSE /\ TakeSender(SenderOf(c.id))
               /\ objs' = [objs EXCEPT ![c.id][table[c.id]] = None]
       /\ Return(th)
       /\ UNCHANGED <<core, closed, table, lock, calls, senders, twice, writeVars, sure>>

\* get_transceivers: the ids of the core (1..id), read under its lock.
GetSenders(th) ==
    /\ Begin(th, "get", Len(core), None)
    /\ UNCHANGED <<core, closed, objs, table, lock, ctx, evtTx, senders, twice, writeVars, sure>>

\* Then, under the rtp_transceivers lock, the table is made to hold exactly those
\* ids: entries for others go, missing ones are created without a sender.
GetLock(th) ==
    LET n   == call[th].id
        new == {i \in 1..n : table[i] = 0}
    IN /\ call[th].op = "get" /\ lock = None
       /\ \A i \in new : Len(objs[i]) < MaxObjs
       /\ objs' = [i \in Ids |-> IF i \in new THEN Append(objs[i], None) ELSE objs[i]]
       /\ table' = [i \in Ids |-> IF i \in new THEN Len(objs[i]) + 1
                                 ELSE IF i <= n THEN table[i] ELSE 0]
       /\ call' = [call EXCEPT ![th].op = "visit",
                               ![th].todo = {<<i, table'[i]>> : i \in 1..n}]
       /\ UNCHANGED <<core, closed, lock, ctx, evtTx, calls, senders, twice, writeVars, sure>>

\* get_senders asks each of the objects it was given, in no particular order; an
\* object in the middle of set_sender makes it wait.
Visit(th, o) ==
    /\ call[th].op = "visit" /\ o \in call[th].todo
    /\ \A x \in Thread : call[x].op = "bind" => <<call[x].id, table[call[x].id]>> # o
    /\ LET sender == objs[o[1]][o[2]]
       IN call' = [call EXCEPT ![th].todo = @ \ {o},
                               ![th].got = IF sender = None THEN @
                                           ELSE @ \cup {<<o[1], sender>>}]
    /\ UNCHANGED <<core, closed, objs, table, lock, ctx, evtTx, calls, senders, twice,
                   writeVars, sure>>

\* It returns, and a handle is registered for each.
GetReturn(th) ==
    /\ call[th].op = "visit" /\ call[th].todo = {}
    /\ senders' = senders \cup call[th].got
    /\ Return(th)
    /\ UNCHANGED <<core, closed, objs, table, lock, ctx, evtTx, calls, twice, writeVars, sure>>

Close ==
    /\ ~closed /\ closed' = TRUE
    /\ queue' = << >> /\ sure' = {}
    /\ UNCHANGED <<core, objs, table, lock, ctx, evtTx, apiVars, pend, seq, sent>>

-----------------------------------------------------------------------------
(* The network, the writers and the driver.                                 *)

\* set_remote_description: a transceiver for a media section of the offer.
RemoteTransceiver ==
    /\ ~closed /\ Len(core) < MaxTr
    /\ core' = Append(core, None)
    /\ UNCHANGED <<closed, objs, table, lock, ctx, evtTx, apiVars, writeVars, sure>>

\* handle_rtc_event(OnTrack) puts the receiver into the object of its transceiver.
OnTrack(i) ==
    /\ ~closed /\ lock = None /\ i <= Len(core) /\ table[i] = 0
    /\ OrInsert(i)
    /\ UNCHANGED <<core, closed, lock, ctx, evtTx, apiVars, writeVars, sure>>

\* write_rtp reads the sender id under the ctx lock and drops the lock; for an
\* unbound track it is an error.  write_sample does so for each packet of the
\* sample, whether or not one fails.
WriteRtp(t) ==
    /\ ctx[t] # 0 /\ pend[t] = 0 /\ seq[t] < MaxRtp
    /\ seq' = [seq EXCEPT ![t] = @ + 1] /\ pend' = [pend EXCEPT ![t] = ctx[t]]
    /\ sure' = IF ~closed /\ \A th \in Thread : call[th].op = "remove" => call[th].id # ctx[t]
               THEN sure \cup {<<t, seq'[t]>>} ELSE sure
    /\ UNCHANGED <<core, closed, objs, table, lock, ctx, evtTx, apiVars, queue, sent>>

\* The send that follows waits for room; a closed channel is an error.
SendRtp(t) ==
    /\ pend[t] # 0 /\ pend' = [pend EXCEPT ![t] = 0]
    /\ \/ closed /\ UNCHANGED queue
       \/ /\ ~closed /\ Len(queue) < Cap
          /\ queue' = Append(queue, <<pend[t], t, seq[t]>>)
    /\ UNCHANGED <<core, closed, objs, table, lock, ctx, evtTx, apiVars, seq, sent, sure>>

\* The packet is sent under whatever the id carries.
SenderRtpUnchecked ==
    /\ queue # << >> /\ queue' = Tail(queue)
    /\ LET id == Head(queue)[1] t == Head(queue)[2] n == Head(queue)[3]
       IN sent' = IF core[id] \in Track THEN [sent EXCEPT ![core[id]] = Append(@, n)] ELSE sent
    /\ UNCHANGED <<core, closed, objs, table, lock, ctx, evtTx, apiVars, pend, seq, sure>>

\* handle_driver_event(SenderRtp): the core takes a packet for a sender it has,
\* if the SSRC is the sender's; an error is logged.
SenderRtp ==
    /\ queue # << >> /\ queue' = Tail(queue)
    /\ LET id == Head(queue)[1] t == Head(queue)[2] n == Head(queue)[3]
       IN sent' = IF core[id] = t THEN [sent EXCEPT ![t] = Append(@, n)] ELSE sent
    /\ UNCHANGED <<core, closed, objs, table, lock, ctx, evtTx, apiVars, pend, seq, sure>>

Step(th) ==
    \/ AddLock(th) \/ AddBind(th) \/ RemoveLock(th) \/ GetLock(th) \/ GetReturn(th)
    \/ \E o \in Ids \X (1..MaxObjs) : Visit(th, o)

Next ==
    \/ \E th \in Thread :
          \/ \E t \in Track : AddTrack(th, t)
          \/ \E t \in {Own, None} : AddTransceiver(th, t)
          \/ \E s \in senders : RemoveTrack(th, s)
          \/ GetSenders(th)
          \/ Step(th)
    \/ Close \/ RemoteTransceiver \/ SenderRtp
    \/ \E i \in Ids : OnTrack(i)
    \/ \E t \in Track : WriteRtp(t) \/ SendRtp(t)

Spec == Init /\ [][Next]_vars

\* The threads and writers run on; the runtime polls the driver.
Fairness ==
    /\ \A th \in Thread : WF_vars(Step(th))
    /\ \A t \in Track : WF_vars(SendRtp(t))
    /\ WF_vars(SenderRtp)

FairSpec == Spec /\ Fairness

-----------------------------------------------------------------------------
(* Properties.                                                              *)

\* Between two calls the three records agree: set_sender, bind and unbind leave a
\* track bound only to a transceiver that carries it, in the core and in the
\* table, and a track that add_track never gave to two transceivers at once is
\* bound to the one that carries it; RTCP feedback is routed to the bound tracks.
RecordsAgree ==
    (\A th \in Thread : call[th].op \notin {"add", "bind", "remove"}) =>
        /\ \A i \in 1..Len(core) : SenderOf(i) = core[i]
        /\ \A t \in Track : ctx[t] # 0 => core[ctx[t]] = t
        /\ \A t \in Track \ twice : \A i \in 1..Len(core) : core[i] = t => ctx[t] = i
        /\ evtTx = {t \in Track : ctx[t] # 0}

\* getSenders "Returns sender handle ids for all senders on this peer connection":
\* a call of get_senders that no other call overlaps finds a sender for every
\* transceiver that sends.
AllSendersListed ==
    \A th \in Thread :
        call[th].op = "visit" /\ call[th].todo = {} /\ call[th].alone =>
            call[th].got = {<<i, core[i]>> : i \in {j \in 1..Len(core) : core[j] # None}}

\* The two above: core, table and tracks agree, and getSenders shows it.
SendersAgree == TypeOK /\ RecordsAgree /\ AllSendersListed

\* The packets write_rtp hands to the driver reach the core in the order in which
\* they were written, across removals and additions of the track.
SentInOrder ==
    \A t \in Track : \A i, j \in 1..Len(sent[t]) : i < j => sent[t][i] < sent[t][j]

\* A packet written to a bound track is sent, unless the track is removed or the
\* connection closed in the meantime: neither the channel nor the change of
\* another sender loses it (SenderRtp).
WrittenIsSent ==
    \A t \in Track : \A n \in 1..MaxRtp :
        <<t, n>> \in sure ~> (<<t, n>> \notin sure \/ \E i \in 1..Len(sent[t]) : sent[t][i] = n)

\* Every call returns: the locks the calls and the driver take one after the other
\* never leave them waiting for each other.
CallsReturn == \A th \in Thread : call[th] # Idle ~> call[th] = Idle

\* The two above.
NothingWaits == WrittenIsSent /\ CallsReturn
=============================================================================
