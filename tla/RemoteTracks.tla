----------------------------- MODULE RemoteTracks -----------------------------
(***************************************************************************)
(* How a remote track reaches Java: the driver makes a TrackRemote on the  *)
(* first packet of a stream, reports it through on_track, and a poller     *)
(* forwards its events to the callbacks; meanwhile the application sends   *)
(* PLIs, which go through the driver's channel.                            *)
(*                                                                         *)
(*   rust-webrtc/src/peer_connection/driver.rs   OnTrack, RtpPacket        *)
(*   rust-webrtc-ffi/src/lib.rs                  registry, poller, PLI     *)
(*   library .../TrackRemote.java, PeerConnection.java (trackCb)           *)
(*                                                                         *)
(* The core raises no track event but OnOpen, so a poller never ends.      *)
(***************************************************************************)
EXTENDS Naturals, Sequences

CONSTANTS
    Track,    \* remote tracks
    None,     \* no track
    Layers,   \* simulcast layers of a track, each with an OnOpen of its own
    MaxRtp,   \* bound: packets per track
    QCap,     \* TRACK_REMOTE_EVENT_CHANNEL_CAPACITY (256 in the code)
    Cap,      \* PEER_CONNECTION_DRIVER_EVENT_CHANNEL_CAPACITY (256 in the code)
    MaxCalls  \* bound: PLIs and other driver events the application causes

ASSUME NoneAssumption == None \notin Track
ASSUME BoundAssumption ==
    /\ Layers \in Nat \ {0} /\ QCap \in Nat \ {0} /\ Cap \in Nat \ {0}
    /\ MaxRtp \in Nat /\ MaxCalls \in Nat

VARIABLES
    layersUp,    \* layers of a track whose first packet has come
    arrived,     \* packets of a track that have come
    coreEvents, coreReads,
    phase,       \* where the driver is
    subject,     \* the track whose on_track is running
    entry,       \* tracks in track_remote_events_tx
    queue,       \* event queue of each track
    dropped,     \* tracks that lost an event to a full queue
    registry,    \* REMOTE_TRACKS
    lock,        \* who holds the REMOTE_TRACKS mutex
    cbs,         \* TRACK_EVENT_CALLBACKS
    poller,      \* tracks with a poller
    javaTracks,  \* TrackRemote.TRACKS
    javaCbs,     \* tracks whose Java callbacks are set
    reported,    \* calls of Observer.onTrack
    opens, rtp,  \* what the Java callbacks have seen
    evq,         \* number of events in the driver channel
    calls, pli   \* calls made; the one in progress

coreVars == <<layersUp, arrived, coreEvents, coreReads>>
regVars  == <<entry, registry, cbs, poller, javaTracks, javaCbs, reported>>
seen     == <<opens, rtp>>
appVars  == <<calls, pli>>
vars == <<coreVars, phase, subject, queue, dropped, lock, regVars, seen, evq, appVars>>

OnOpen == 0        \* track events: OnOpen, or the number of an RTP packet

TypeOK ==
    /\ layersUp \in [Track -> 0..Layers] /\ arrived \in [Track -> 0..MaxRtp]
    /\ coreEvents \in Seq(Track) /\ coreReads \in Seq(Track \X (1..MaxRtp))
    /\ phase \in {"select", "events", "register", "callbacks", "publish",
                  "observer", "reads"}
    /\ subject \in Track \cup {None}
    /\ queue \in [Track -> Seq(0..MaxRtp)] /\ \A t \in Track : Len(queue[t]) <= QCap
    /\ dropped \subseteq Track /\ lock \in {"free", "app"}
    /\ entry \subseteq Track /\ registry \subseteq entry /\ cbs \subseteq registry
    /\ poller \subseteq cbs /\ javaTracks \subseteq poller
    /\ javaCbs \subseteq javaTracks /\ reported \in [Track -> Nat]
    /\ opens \in [Track -> Nat] /\ rtp \in [Track -> Seq(1..MaxRtp)]
    /\ evq \in 0..Cap
    /\ calls \in 0..MaxCalls /\ pli \in {"no", "locked"}

Init ==
    /\ layersUp = [t \in Track |-> 0] /\ arrived = [t \in Track |-> 0]
    /\ coreEvents = << >> /\ coreReads = << >>
    /\ phase = "select" /\ subject = None
    /\ queue = [t \in Track |-> << >>] /\ dropped = {} /\ lock = "free"
    /\ entry = {} /\ registry = {} /\ cbs = {} /\ poller = {}
    /\ javaTracks = {} /\ javaCbs = {}
    /\ reported = [t \in Track |-> 0]
    /\ opens = [t \in Track |-> 0] /\ rtp = [t \in Track |-> << >>]
    /\ evq = 0 /\ calls = 0 /\ pli = "no"

-----------------------------------------------------------------------------
(* The network, through the core, while the driver is in select!.           *)

\* A packet: the first one of a layer also raises OnOpen.
Packet(t, first) ==
    /\ phase = "select" /\ arrived[t] < MaxRtp
    /\ IF first THEN layersUp[t] < Layers ELSE layersUp[t] > 0
    /\ layersUp' = [layersUp EXCEPT ![t] = IF first THEN @ + 1 ELSE @]
    /\ coreEvents' = IF first THEN Append(coreEvents, t) ELSE coreEvents
    /\ arrived' = [arrived EXCEPT ![t] = @ + 1]
    /\ coreReads' = Append(coreReads, <<t, arrived[t] + 1>>)
    /\ UNCHANGED <<phase, subject, queue, dropped, lock, regVars, seen, evq, appVars>>

-----------------------------------------------------------------------------
(* The driver.                                                              *)

\* evt_tx.try_send: an event that finds the queue full is dropped.
TrySend(t, e) ==
    LET full == t \in entry' /\ Len(queue[t]) >= QCap
    IN /\ queue' = IF t \in entry' /\ ~full
                   THEN [queue EXCEPT ![t] = Append(@, e)] ELSE queue
       /\ dropped' = IF full THEN dropped \cup {t} ELSE dropped

\* select! takes one event from the channel, or was woken by packets.
Iterate ==
    /\ phase = "select" /\ phase' = "events"
    /\ \/ evq > 0 /\ evq' = evq - 1
       \/ (coreEvents # << >> \/ coreReads # << >>) /\ UNCHANGED evq
    /\ UNCHANGED <<coreVars, subject, queue, dropped, lock, regVars, seen, appVars>>

\* Every layer's OnOpen taken for a new track.
HandleOpenAlways ==
    /\ phase = "events" /\ coreEvents # << >>
    /\ coreEvents' = Tail(coreEvents)
    /\ LET t == Head(coreEvents)
       IN /\ entry' = entry \cup {t}
          /\ TrySend(t, OnOpen)
          /\ subject' = t
          /\ phase' = "register"
    /\ UNCHANGED <<layersUp, arrived, coreReads, lock, registry, cbs, poller,
                   javaTracks, javaCbs, reported, seen, evq, appVars>>

\* handle_rtc_event(OnTrack): the first layer makes the TrackRemote; OnOpen is
\* queued; only then is on_track called.
HandleOpen ==
    /\ phase = "events" /\ coreEvents # << >>
    /\ coreEvents' = Tail(coreEvents)
    /\ LET t == Head(coreEvents)
       IN /\ entry' = entry \cup {t}
          /\ TrySend(t, OnOpen)
          /\ subject' = IF t \in entry THEN None ELSE t
          /\ phase' = IF t \in entry THEN "events" ELSE "register"
    /\ UNCHANGED <<layersUp, arrived, coreReads, lock, registry, cbs, poller,
                   javaTracks, javaCbs, reported, seen, evq, appVars>>

\* Forwarder::on_track: register_track needs the REMOTE_TRACKS mutex, and the
\* driver task blocks until it gets it.
RegisterTrack ==
    /\ phase = "register" /\ lock = "free"
    /\ registry' = registry \cup {subject}
    /\ phase' = "callbacks"
    /\ UNCHANGED <<coreVars, subject, queue, dropped, lock, entry, cbs, poller, javaTracks,
                   javaCbs, reported, seen, evq, appVars>>

\* Registration that counts on on_track to start the poller.
SetCallbacksOnly ==
    /\ phase = "callbacks" /\ lock = "free"
    /\ cbs' = cbs \cup {subject}
    /\ phase' = "publish"
    /\ UNCHANGED <<coreVars, subject, queue, dropped, lock, entry, registry, poller, javaTracks,
                   javaCbs, reported, seen, evq, appVars>>

\* trackCb, inside computeIfAbsent: webrtc_ffi_track_remote_set_callbacks
\* stores the callbacks and, the track being registered, starts its poller.
SetCallbacks ==
    /\ phase = "callbacks" /\ lock = "free"
    /\ cbs' = cbs \cup {subject}
    /\ poller' = IF subject \in registry THEN poller \cup {subject} ELSE poller
    /\ phase' = "publish"
    /\ UNCHANGED <<coreVars, subject, queue, dropped, lock, entry, registry, javaTracks,
                   javaCbs, reported, seen, evq, appVars>>

\* computeIfAbsent returns: the TrackRemote can be found in TRACKS.
PublishTrack ==
    /\ phase = "publish" /\ phase' = "observer"
    /\ javaTracks' = javaTracks \cup {subject}
    /\ UNCHANGED <<coreVars, subject, queue, dropped, lock, entry, registry, cbs, poller,
                   javaCbs, reported, seen, evq, appVars>>

\* Observer.onTrack, where the application sets its callbacks.
ObserverOnTrack ==
    /\ phase = "observer" /\ phase' = "events"
    /\ reported' = [reported EXCEPT ![subject] = @ + 1]
    /\ javaCbs' = javaCbs \cup {subject}
    /\ subject' = None
    /\ UNCHANGED <<coreVars, queue, dropped, lock, entry, registry, cbs, poller, javaTracks,
                   seen, evq, appVars>>

EventsDone ==
    /\ phase = "events" /\ coreEvents = << >> /\ phase' = "reads"
    /\ UNCHANGED <<coreVars, subject, queue, dropped, lock, regVars, seen, evq, appVars>>

\* handle_rtc_message(RtpPacket).
HandleRtp ==
    /\ phase = "reads" /\ coreReads # << >>
    /\ entry' = entry
    /\ TrySend(Head(coreReads)[1], Head(coreReads)[2])
    /\ coreReads' = Tail(coreReads)
    /\ UNCHANGED <<layersUp, arrived, coreEvents, phase, subject, lock, registry,
                   cbs, poller, javaTracks, javaCbs, reported, seen, evq, appVars>>

ReadsDone ==
    /\ phase = "reads" /\ coreReads = << >> /\ phase' = "select"
    /\ UNCHANGED <<coreVars, subject, queue, dropped, lock, regVars, seen, evq, appVars>>

-----------------------------------------------------------------------------
(* The poller of a track; the upcall runs inside it.                        *)

Poll(t) ==
    /\ t \in poller /\ queue[t] # << >>
    /\ queue' = [queue EXCEPT ![t] = Tail(@)]
    /\ UNCHANGED dropped
    /\ LET e == Head(queue[t])
           heard == t \in cbs /\ t \in javaCbs
       IN /\ opens' = IF heard /\ e = OnOpen THEN [opens EXCEPT ![t] = @ + 1] ELSE opens
          /\ rtp' = IF heard /\ e # OnOpen THEN [rtp EXCEPT ![t] = Append(@, e)] ELSE rtp
    /\ UNCHANGED <<coreVars, phase, subject, lock, regVars, evq, appVars>>

-----------------------------------------------------------------------------
(* Application threads.                                                     *)

\* webrtc_ffi_track_remote_write_rtcp: with_track takes the mutex ...
PliLock ==
    /\ calls < MaxCalls /\ pli = "no" /\ lock = "free" /\ registry # {}
    /\ calls' = calls + 1
    /\ lock' = "app" /\ pli' = "locked"
    /\ UNCHANGED <<coreVars, phase, subject, queue, dropped, regVars, seen, evq>>

\* ... and keeps it while block_on waits for room in the driver channel.
PliSend ==
    /\ pli = "locked" /\ evq < Cap
    /\ evq' = evq + 1
    /\ lock' = "free" /\ pli' = "no"
    /\ UNCHANGED <<coreVars, phase, subject, queue, dropped, regVars, seen, calls>>

\* Any other call that puts an event into the channel.
OtherCall ==
    /\ calls < MaxCalls /\ evq < Cap
    /\ calls' = calls + 1 /\ evq' = evq + 1
    /\ UNCHANGED <<coreVars, phase, subject, queue, dropped, lock, regVars, seen, pli>>

-----------------------------------------------------------------------------

DriverStep ==
    Iterate \/ HandleOpen \/ RegisterTrack \/ SetCallbacks \/ PublishTrack
    \/ ObserverOnTrack \/ EventsDone \/ HandleRtp \/ ReadsDone

Next ==
    \/ \E t \in Track, first \in BOOLEAN : Packet(t, first)
    \/ DriverStep
    \/ \E t \in Track : Poll(t)
    \/ PliLock \/ PliSend \/ OtherCall

\* The driver and the pollers are tasks of the runtime; a call in progress goes
\* on as soon as it can. Nothing is assumed of new calls or of the network.
Fairness ==
    /\ WF_vars(DriverStep) /\ WF_vars(PliSend)
    /\ \A t \in Track : WF_vars(Poll(t))

Spec == Init /\ [][Next]_vars /\ Fairness

-----------------------------------------------------------------------------
(* Properties                                                               *)

\* However many simulcast layers open, Observer.onTrack runs once per track,
\* and never for a track whose poller is not running: the registry, the native
\* callbacks and the Java object are in place when the application is told.
ReportedOnce ==
    /\ TypeOK
    /\ \A t \in Track : /\ reported[t] <= 1
                        /\ reported[t] = 1 => t \in poller \cap javaTracks

\* A PLI that holds the mutex waits for room in the channel, and the driver,
\* which alone makes room, waits for the mutex.
Stuck == pli = "locked" /\ evq = Cap /\ phase \in {"register", "callbacks"}

\* Once the application has its callbacks set, every packet the driver still
\* has to hand on reaches them, unless the track's queue was full once.
RtpDelivered ==
    \A t \in Track : \A n \in 1..MaxRtp :
        (t \in javaCbs /\ \E k \in 1..Len(coreReads) : coreReads[k] = <<t, n>>) ~>
            (Stuck \/ t \in dropped \/ \E k \in 1..Len(rtp[t]) : rtp[t][k] = n)

\* A PLI that was begun returns in every other situation, also when it finds
\* the channel full (webrtc_ffi_track_remote_write_rtcp, block_on).
PliReturnsOrStuck == (pli = "locked") ~> (pli = "no" \/ Stuck)

\* The two above: packets and PLIs are served while driver and PLI do not wait
\* for each other.
Served == RtpDelivered /\ PliReturnsOrStuck
=============================================================================
