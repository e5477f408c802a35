----------------------------- MODULE EchoSession -----------------------------
(***************************************************************************)
(* One session of the demo echo server. Every message of the client is     *)
(* handled on a virtual thread of its own, so offers, candidates, a leave  *)
(* and the closing of the socket interleave at every access to the shared  *)
(* fields pc, remoteDescriptionSet and pendingCandidates.                  *)
(*                                                                         *)
(*   demo-server/.../SignalingServer.java, EchoSession.java                *)
(*                                                                         *)
(* A call on the field pc reads it anew each time: it may meet null, a     *)
(* closed connection or another thread's. Join, media-state and an empty   *)
(* candidate are acknowledged without touching any state and are left out. *)
(***************************************************************************)
EXTENDS Naturals

CONSTANTS
    Offer, Candidate, Leave,  \* messages of the client, by action
    Disconnect,               \* the closing of the socket
    None                      \* Java's null

Closing == Leave \cup Disconnect
Msg == Offer \cup Candidate \cup Closing

\* What the constants are to be.
Kinds ==
    /\ None \notin Offer
    /\ Offer \cap Candidate = {} /\ Offer \cap Closing = {} /\ Candidate \cap Closing = {}

\* The connection an offer creates is named after the offer.
VARIABLES
    at,        \* the step each message's thread is at
    gone,      \* onClose has removed the session from the server's map
    pc,        \* EchoSession.pc
    conn,      \* the life of each connection
    rds,       \* remoteDescriptionSet
    lock,      \* the offer whose thread holds candidateLock, or None
    pending,   \* pendingCandidates
    left,      \* the candidates the loop under the lock has still to add
    held,      \* the local variable p of close()
    applied,   \* how often each candidate was added to each connection
    early,     \* a candidate was added before the remote description
    replies    \* replies sent for each message

fields == <<gone, pc, conn, rds, lock, pending, left, held>>
history == <<applied, early, replies>>
vars == <<at, fields, history>>

Steps == {"idle", "ready", "describe", "probe", "flush", "flushing", "tracks",
          "answer", "local", "add", "clear", "close", "done"}

Init ==
    /\ at = [m \in Msg |-> "idle"] /\ gone = FALSE
    /\ pc = None /\ conn = [o \in Offer |-> "none"]
    /\ rds = FALSE /\ lock = None /\ pending = {} /\ left = {}
    /\ held = [m \in Closing |-> None]
    /\ applied = [p \in Candidate \X Offer |-> 0] /\ early = FALSE
    /\ replies = [m \in Msg |-> 0]

Goto(m, from, to) == at[m] = from /\ at' = [at EXCEPT ![m] = to]

\* The field holds a connection on which checkClosed() passes.
Usable == pc # None /\ conn[pc] # "closed"

Reply(m) == replies' = [replies EXCEPT ![m] = @ + 1]

\* A call throws, or the handler refuses: one ERROR and the thread ends.
Fail(m, from) == Goto(m, from, "done") /\ Reply(m) /\ UNCHANGED <<fields, applied, early>>

\* addIceCandidate(c) on the connection in the field.
Apply(c) ==
    /\ applied' = [applied EXCEPT ![<<c, pc>>] = @ + 1]
    /\ early' = (early \/ conn[pc] = "new")

-----------------------------------------------------------------------------
(* SignalingServer                                                          *)

\* onMessage: the session is looked up and a thread started.
OnMessage(m) ==
    /\ ~gone /\ m \notin Disconnect
    /\ Goto(m, "idle", "ready")
    /\ UNCHANGED <<fields, applied, early, replies>>

\* onClose: the session is removed; close() runs on the socket's thread.
OnClose(m) ==
    /\ m \in Disconnect
    /\ Goto(m, "idle", "ready")
    /\ gone' = TRUE
    /\ UNCHANGED <<pc, conn, rds, lock, pending, left, held, applied, early, replies>>

-----------------------------------------------------------------------------
(* handleOffer                                                              *)

\* A blank offer is refused; any other puts a new connection into the field,
\* whatever the field held.
Create(o) ==
    \/ Fail(o, "ready")
    \/ /\ Goto(o, "ready", "describe")
       /\ pc' = o
       /\ conn' = [conn EXCEPT ![o] = "new"]
       /\ UNCHANGED <<gone, rds, lock, pending, left, held, history>>

SetRemoteDescription(o) ==
    \/ Fail(o, "describe")
    \/ /\ Usable
       /\ Goto(o, "describe", "probe")
       /\ conn' = [conn EXCEPT ![pc] = "described"]
       /\ UNCHANGED <<gone, pc, rds, lock, pending, left, held, history>>

\* The probe answer and the echo tracks: without a codec or a track the offer
\* is refused and the connection stays as it is.
Probe(o) ==
    \/ Fail(o, "probe")
    \/ /\ Usable /\ conn[pc] # "new"
       /\ Goto(o, "probe", "flush")
       /\ UNCHANGED <<fields, history>>

\* synchronized (candidateLock): the flag goes up and the loop begins.
Flush(o) ==
    /\ lock = None
    /\ Goto(o, "flush", "flushing")
    /\ lock' = o /\ rds' = TRUE /\ left' = pending
    /\ UNCHANGED <<gone, pc, conn, pending, held, history>>

\* The next buffered candidate; a call that throws leaves the lock with the
\* flag up and the buffer as it was.
FlushOne(o) ==
    /\ at[o] = "flushing"
    /\ \E c \in left :
          IF Usable
          THEN /\ Apply(c)
               /\ left' = left \ {c}
               /\ UNCHANGED <<at, gone, pc, conn, rds, lock, pending, held,
                              replies>>
          ELSE /\ Goto(o, "flushing", "done") /\ Reply(o)
               /\ lock' = None /\ left' = {}
               /\ UNCHANGED <<gone, pc, conn, rds, pending, held, applied,
                              early>>

FlushEnd(o) ==
    /\ left = {}
    /\ Goto(o, "flushing", "tracks")
    /\ lock' = None /\ pending' = {}
    /\ UNCHANGED <<gone, pc, conn, rds, left, held, history>>

\* addTrack for audio and video.
AddTracks(o) ==
    \/ Fail(o, "tracks")
    \/ /\ Usable
       /\ Goto(o, "tracks", "answer")
       /\ UNCHANGED <<fields, history>>

CreateAnswer(o) ==
    \/ Fail(o, "answer")
    \/ /\ Usable /\ conn[pc] # "new"
       /\ Goto(o, "answer", "local")
       /\ UNCHANGED <<fields, history>>

\* setLocalDescription and the answer to the client.
SetLocalDescription(o) ==
    \/ Fail(o, "local")
    \/ /\ Usable /\ conn[pc] = "described"
       /\ Goto(o, "local", "done")
       /\ conn' = [conn EXCEPT ![pc] = "answered"]
       /\ Reply(o)
       /\ UNCHANGED <<gone, pc, rds, lock, pending, left, held, applied,
                      early>>

-----------------------------------------------------------------------------
(* handleCandidate                                                          *)

\* synchronized (candidateLock): buffered until there is a described connection.
Check(c) ==
    /\ lock = None
    /\ \/ /\ pc = None \/ ~rds
          /\ Goto(c, "ready", "done")
          /\ pending' = pending \cup {c}
          /\ Reply(c)
       \/ /\ pc # None /\ rds
          /\ Goto(c, "ready", "add")
          /\ UNCHANGED <<pending, replies>>
    /\ UNCHANGED <<gone, pc, conn, rds, lock, left, held, applied, early>>

\* Outside the lock, on whatever the field holds by now.
AddCandidate(c) ==
    IF Usable
    THEN /\ Goto(c, "add", "done")
         /\ Apply(c)
         /\ Reply(c)
         /\ UNCHANGED <<fields>>
    ELSE Fail(c, "add")

-----------------------------------------------------------------------------
(* close()                                                                  *)

Take(m) ==
    /\ Goto(m, "ready", "clear")
    /\ held' = [held EXCEPT ![m] = pc]
    /\ UNCHANGED <<gone, pc, conn, rds, lock, pending, left, history>>

Clear(m) ==
    /\ Goto(m, "clear", "close")
    /\ pc' = None
    /\ UNCHANGED <<gone, conn, rds, lock, pending, left, held, history>>

\* Closing a connection again does nothing; a LEAVE is answered with BYE.
Close(m) ==
    /\ Goto(m, "close", "done")
    /\ conn' = [o \in Offer |-> IF o = held[m] THEN "closed" ELSE conn[o]]
    /\ IF m \in Leave THEN Reply(m) ELSE UNCHANGED replies
    /\ UNCHANGED <<gone, pc, rds, lock, pending, left, held, applied, early>>

-----------------------------------------------------------------------------

HandleOffer(o) ==
    \/ Create(o) \/ SetRemoteDescription(o) \/ Probe(o)
    \/ Flush(o) \/ FlushOne(o) \/ FlushEnd(o)
    \/ AddTracks(o) \/ CreateAnswer(o) \/ SetLocalDescription(o)
HandleCandidate(c) == Check(c) \/ AddCandidate(c)
HandleClose(m) == Take(m) \/ Clear(m) \/ Close(m)

Next ==
    \/ \E m \in Msg : OnMessage(m)
    \/ \E m \in Disconnect : OnClose(m)
    \/ \E o \in Offer : HandleOffer(o)
    \/ \E c \in Candidate : HandleCandidate(c)
    \/ \E m \in Closing : HandleClose(m)

Spec == Init /\ [][Next]_vars

-----------------------------------------------------------------------------
(* Properties                                                               *)

\* handleCandidate: "Buffer them until the PeerConnection exists and the remote
\* description is applied". No candidate is added to a connection before that.
NotBeforeDescription == ~early

\* A candidate is added to a connection at most once, by the flush or by its
\* own thread, however the two, and the flushes of two offers, interleave.
AddedAtMostOnce == \A p \in Candidate \X Offer : applied[p] <= 1
=============================================================================
