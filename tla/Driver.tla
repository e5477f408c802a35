------------------------------- MODULE Driver -------------------------------
(***************************************************************************)
(* The event loop that drives one peer connection, the coalescing gate     *)
(* through which application tasks ask it to flush their writes, and the   *)
(* two ways of shutting it down (close() and Drop).                        *)
(*                                                                         *)
(*   rust-webrtc/src/peer_connection/driver.rs   PeerConnectionDriver      *)
(*   rust-webrtc/src/peer_connection/mod.rs      wake_writes, close, Drop  *)
(*   rust-webrtc/src/data_channel/mod.rs         send, send_text, close    *)
(*                                                                         *)
(* The sans-I/O core is reduced to what it still holds for the network:    *)
(* appOut (tasks whose send is in the core and not yet on a socket),       *)
(* netOut (output produced while the driver itself fed the core, before    *)
(* poll_writes) and relayOut (output produced by poll_reads, that is after *)
(* poll_writes of the same iteration).                                     *)
(***************************************************************************)
EXTENDS Naturals, Sequences

CONSTANTS
    Sender,       \* application tasks calling send/send_text/close on channels
    Cap,          \* capacity of the driver event channel (256 in the code)
    UdpSockets    \* number of UDP sockets bound at construction

ASSUME CapAssumption == Cap \in Nat \ {0}
ASSUME UdpAssumption == UdpSockets \in Nat

VARIABLES
    pc,             \* where the driver task is in event_loop
    evq,            \* driver_event channel
    writePending,   \* PeerConnectionRef::write_pending
    closing,        \* PeerConnectionRef::closing
    appOut,         \* senders whose data the core has not handed to a socket
    netOut,         \* core or gatherer output produced before poll_writes
    relayIn,        \* decapsulated relay data waiting in the TURN relayer
    relayOut,       \* core output produced by poll_reads
    activeSockets,  \* active_socket_count
    turnOpen,       \* the TURN relayer has not been closed
    spc,            \* program counter of each sender
    cpc,            \* program counter of the owner of the connection
    dedicated,      \* with_dedicated_reactor_thread was set on the builder
    hasTcp          \* tcp_transport is not empty

driverVars == <<pc, relayIn, relayOut, netOut, activeSockets, turnOpen>>
ownerVars  == <<cpc, closing>>
rigidVars  == <<dedicated, hasTcp>>
vars == <<driverVars, ownerVars, rigidVars, evq, writePending, appOut, spc>>

Events == {"WriteNotify", "Work", "Close"}
Ended  == {"exited", "failed", "aborted"}
LoopPc == {"top", "clear", "writes", "events", "reads", "timeout", "select"}
OwnerPc == {"open", "core_closed", "flagged", "sent", "failed", "done",
            "drop_flagged", "gone"}

Running == pc \notin Ended

TypeOK ==
    /\ pc \in LoopPc \cup Ended
    /\ evq \in Seq(Events) /\ Len(evq) <= Cap
    /\ writePending \in BOOLEAN /\ closing \in BOOLEAN
    /\ appOut \in SUBSET Sender
    /\ netOut \in BOOLEAN /\ relayIn \in BOOLEAN /\ relayOut \in BOOLEAN
    /\ activeSockets \in 0..UdpSockets
    /\ turnOpen \in BOOLEAN
    /\ spc \in [Sender -> {"idle", "wake", "poke"}]
    /\ cpc \in OwnerPc
    /\ dedicated \in BOOLEAN /\ hasTcp \in BOOLEAN

Init ==
    /\ pc = "top"
    /\ evq = << >>
    /\ writePending = FALSE /\ closing = FALSE
    /\ appOut = {} /\ netOut = FALSE /\ relayIn = FALSE /\ relayOut = FALSE
    /\ activeSockets = UdpSockets
    /\ turnOpen = TRUE
    /\ spc = [s \in Sender |-> "idle"]
    /\ cpc = "open"
    /\ dedicated \in BOOLEAN
    /\ hasTcp \in BOOLEAN
    /\ hasTcp \/ UdpSockets > 0     \* PeerConnectionDriver::new wants one of the two

-----------------------------------------------------------------------------
(* The event channel: a bounded mpsc whose receiver dies with the driver.   *)

Enqueue(e) == evq' = Append(evq, e)

\* try_send: the event is dropped when the channel is full or closed.
TrySend(e) ==
    IF Running /\ Len(evq) < Cap THEN Enqueue(e) ELSE UNCHANGED evq

-----------------------------------------------------------------------------
(* Senders: data_channel send/send_text/close, then wake_writes.            *)

\* The core lock is held: the data enters the core's output.
Send(s) ==
    /\ spc[s] = "idle"
    /\ appOut' = appOut \cup {s}
    /\ spc' = [spc EXCEPT ![s] = "wake"]
    /\ UNCHANGED <<driverVars, ownerVars, rigidVars, evq, writePending>>

\* write_pending.swap(true): only the false -> true transition pokes; the
\* other branch at most yields, which changes nothing.
Swap(s) ==
    /\ spc[s] = "wake"
    /\ writePending' = TRUE
    /\ spc' = [spc EXCEPT ![s] = IF writePending THEN "idle" ELSE "poke"]
    /\ UNCHANGED <<driverVars, ownerVars, rigidVars, evq, appOut>>

Poke(s) ==
    /\ spc[s] = "poke"
    /\ TrySend("WriteNotify")
    /\ spc' = [spc EXCEPT ![s] = "idle"]
    /\ UNCHANGED <<driverVars, ownerVars, rigidVars, writePending, appOut>>

SenderStep(s) == Swap(s) \/ Poke(s)

\* Any other task awaiting room on the channel: set_local_description and
\* restart_ice (IceGathering), track writes (SenderRtp, SenderRtcp,
\* ReceiverRtcp), TCP candidates and connected TCP streams.
EnqueueWork ==
    /\ Running /\ Len(evq) < Cap
    /\ Enqueue("Work")
    /\ UNCHANGED <<driverVars, ownerVars, rigidVars, writePending, appOut, spc>>

-----------------------------------------------------------------------------
(* The owner: close() or, for a dedicated reactor, Drop.                    *)

CoreClose ==
    /\ cpc = "open"
    /\ cpc' \in {"core_closed", "failed"}        \* core.close()?
    /\ UNCHANGED <<driverVars, closing, rigidVars, evq, writePending, appOut, spc>>

StoreClosing ==
    /\ cpc = "core_closed"
    /\ closing' = TRUE
    /\ cpc' = "flagged"
    /\ UNCHANGED <<driverVars, rigidVars, evq, writePending, appOut, spc>>

\* A send of Close that insists on a live receiver.
SendCloseStrict ==
    /\ cpc = "flagged"
    /\ Running /\ Len(evq) < Cap
    /\ Enqueue("Close")
    /\ cpc' = "sent"
    /\ UNCHANGED <<driverVars, closing, rigidVars, writePending, appOut, spc>>

\* send(Close).await: waits for room; the error of a dead receiver is ignored.
SendClose ==
    /\ cpc = "flagged"
    /\ Running => Len(evq) < Cap
    /\ TrySend("Close")
    /\ cpc' = "sent"
    /\ UNCHANGED <<driverVars, closing, rigidVars, writePending, appOut, spc>>

\* A dedicated reactor is waited for, for at most two seconds; a task is
\* aborted, at whichever await point it is.
FinishClose ==
    /\ cpc = "sent"
    /\ cpc' = "done"
    /\ pc' = IF Running /\ ~dedicated THEN "aborted" ELSE pc
    /\ UNCHANGED <<relayIn, relayOut, netOut, activeSockets, turnOpen, closing,
                   rigidVars, evq, writePending, appOut, spc>>

DropFlag ==
    /\ cpc \in {"open", "failed", "done"}
    /\ dedicated
    /\ closing' = TRUE
    /\ cpc' = "drop_flagged"
    /\ UNCHANGED <<driverVars, rigidVars, evq, writePending, appOut, spc>>

DropWake ==
    /\ cpc = "drop_flagged"
    /\ TrySend("Close")
    /\ cpc' = "gone"
    /\ UNCHANGED <<driverVars, closing, rigidVars, writePending, appOut, spc>>

OwnerStep == StoreClosing \/ SendClose \/ FinishClose \/ DropWake

-----------------------------------------------------------------------------
(* The driver's loop, one action per stretch between await points.          *)

Goto(from, to) == pc = from /\ pc' = to

To(p) == pc' = p

\* The core, fed by the driver, may have something to send.
MayProduce == netOut' = TRUE \/ netOut' = netOut

\* A loop without the closing check at its top.
LoopTopNoCheck ==
    /\ Goto("top", "clear")
    /\ UNCHANGED <<relayIn, relayOut, netOut, activeSockets, turnOpen,
                   ownerVars, rigidVars, evq, writePending, appOut, spc>>

LoopTop ==
    /\ Goto("top", IF closing THEN "exited" ELSE "clear")
    /\ turnOpen' = IF closing THEN FALSE ELSE turnOpen
    /\ UNCHANGED <<relayIn, relayOut, netOut, activeSockets,
                   ownerVars, rigidVars, evq, writePending, appOut, spc>>

\* The gate left as it is.
ClearGateDropped ==
    /\ Goto("clear", "writes")
    /\ UNCHANGED <<relayIn, relayOut, netOut, activeSockets, turnOpen,
                   ownerVars, rigidVars, evq, writePending, appOut, spc>>

ClearGate ==
    /\ Goto("clear", "writes")
    /\ writePending' = FALSE
    /\ UNCHANGED <<relayIn, relayOut, netOut, activeSockets, turnOpen,
                   ownerVars, rigidVars, evq, appOut, spc>>

\* A flush that sends one task's packets instead of draining the core.
PollWritesOne ==
    /\ Goto("writes", "events")
    /\ \/ appOut = {} /\ appOut' = {}
       \/ \E s \in appOut : appOut' = appOut \ {s}
    /\ netOut' = FALSE /\ relayOut' = FALSE
    /\ UNCHANGED <<relayIn, activeSockets, turnOpen,
                   ownerVars, rigidVars, evq, writePending, spc>>

\* poll_writes: gatherer, relayer and core outputs all go to the sockets; a
\* failed write is logged and the packet is gone.
PollWrites ==
    /\ Goto("writes", "events")
    /\ appOut' = {} /\ netOut' = FALSE /\ relayOut' = FALSE
    /\ UNCHANGED <<relayIn, activeSockets, turnOpen,
                   ownerVars, rigidVars, evq, writePending, spc>>

\* poll_events: the handlers run here; what they send goes through Send.
PollEvents ==
    /\ Goto("events", "reads")
    /\ UNCHANGED <<relayIn, relayOut, netOut, activeSockets, turnOpen,
                   ownerVars, rigidVars, evq, writePending, appOut, spc>>

\* poll_reads: relay data enters the core and may leave output behind; an
\* error of core.handle_read ends the loop.
PollReads ==
    /\ pc = "reads"
    /\ relayIn' = FALSE
    /\ \/ To("timeout") /\ relayOut' = relayOut
       \/ relayIn /\ To("timeout") /\ relayOut' = TRUE
       \/ relayIn /\ To("failed") /\ relayOut' = relayOut
    /\ UNCHANGED <<netOut, activeSockets, turnOpen,
                   ownerVars, rigidVars, evq, writePending, appOut, spc>>

\* handle_timeout: may produce output; an error ends the loop.
HandleTimeout ==
    /\ \/ To("top") /\ MayProduce
       \/ To("failed") /\ netOut' = netOut
    /\ UNCHANGED <<relayIn, relayOut, activeSockets, turnOpen,
                   ownerVars, rigidVars, evq, writePending, appOut, spc>>

\* The earliest deadline has passed already: handle it and start over.
ImmediateTimeout == pc = "timeout" /\ HandleTimeout

\* Otherwise the driver parks in select!.
Park ==
    /\ Goto("timeout", "select")
    /\ UNCHANGED <<relayIn, relayOut, netOut, activeSockets, turnOpen,
                   ownerVars, rigidVars, evq, writePending, appOut, spc>>

SelectTimer == pc = "select" /\ HandleTimeout

\* handle_driver_event on the next event of the channel.
SelectEvent ==
    /\ pc = "select"
    /\ evq # << >>
    /\ evq' = Tail(evq)
    /\ CASE Head(evq) = "WriteNotify" ->
                To("top") /\ UNCHANGED <<netOut, turnOpen>>
         [] Head(evq) = "Work" ->
                To("top") /\ MayProduce /\ UNCHANGED turnOpen
         [] Head(evq) = "Close" ->
                To("exited") /\ turnOpen' = FALSE /\ UNCHANGED netOut
    /\ UNCHANGED <<relayIn, relayOut, activeSockets,
                   ownerVars, rigidVars, writePending, appOut, spc>>

\* A burst of datagrams (or the packets of one TCP read) through handle_read:
\* TURN traffic is kept for poll_reads, the rest goes to the core.
SelectPackets ==
    /\ pc = "select"
    /\ activeSockets > 0 \/ hasTcp
    /\ To("top")
    /\ relayIn' = TRUE \/ relayIn' = relayIn
    /\ MayProduce
    /\ UNCHANGED <<relayOut, activeSockets, turnOpen,
                   ownerVars, rigidVars, evq, writePending, appOut, spc>>

\* A socket fails for good; the last one takes the loop with it unless TCP
\* is in use. (A retryable error re-arms the socket: back to the top.)
SelectSocketError ==
    /\ pc = "select"
    /\ activeSockets > 0
    /\ activeSockets' \in {activeSockets, activeSockets - 1}
    /\ To(IF activeSockets' = 0 /\ ~hasTcp THEN "failed" ELSE "top")
    /\ UNCHANGED <<relayIn, relayOut, netOut, turnOpen,
                   ownerVars, rigidVars, evq, writePending, appOut, spc>>

\* What the task does whenever the scheduler polls it.
DriverStep ==
    LoopTop \/ ClearGate \/ PollWrites \/ PollEvents \/ PollReads
    \/ ImmediateTimeout \/ Park \/ SelectEvent

Next ==
    \/ \E s \in Sender : Send(s) \/ Swap(s) \/ Poke(s)
    \/ EnqueueWork
    \/ CoreClose \/ StoreClosing \/ SendClose \/ FinishClose
    \/ DropFlag \/ DropWake
    \/ LoopTop \/ ClearGate \/ PollWrites \/ PollEvents \/ PollReads
    \/ ImmediateTimeout \/ Park
    \/ SelectTimer \/ SelectEvent \/ SelectPackets \/ SelectSocketError

\* The runtime polls a runnable task again, and a call that has started runs
\* on. Nothing is assumed of the network or of the timer (its default is a day).
Fairness ==
    /\ WF_vars(DriverStep)
    /\ WF_vars(OwnerStep)
    /\ \A s \in Sender : WF_vars(SenderStep(s))

Spec == Init /\ [][Next]_vars /\ Fairness

-----------------------------------------------------------------------------
(* Properties                                                               *)

InFlight(s) == spc[s] \in {"wake", "poke"}

\* No lost wake-up (wake_writes against the store at the top of event_loop):
\* when the driver parks in select! while a sender's data is still in the
\* core, either its channel holds an event that will wake it or the sender, or
\* the one that won the gate, has still to finish wake_writes. A WriteNotify
\* dropped by a full channel is covered: a full channel is not empty.  Nor
\* does it park on output it produced itself outside poll_reads: every branch
\* of select! comes back through poll_writes first.
NoStrandedWrite ==
    pc = "select" =>
        /\ ~netOut
        /\ appOut # {} => evq # << >> \/ \E s \in Sender : InFlight(s)

\* No lost shutdown (close and Drop against the check at the top of
\* event_loop): once the flag is up and the driver is parked, an event is in
\* the channel or the owner has yet to attempt the wake. This is what lets the
\* Close event be dropped when the channel is full.
NoLostShutdown ==
    (pc = "select" /\ closing) =>
        evq # << >> \/ cpc \in {"flagged", "drop_flagged"}

\* The loop, the gate and the channel implement FlushService. Beyond its steps
\* this says that whatever a task sent leaves the core, unless the driver ends,
\* without help from the network or a timer (wake_writes), and that close() and
\* Drop end the loop even when their Close event was dropped (driver.rs: "this
\* check still guarantees the loop ... terminates").
Abstract == INSTANCE FlushService
    WITH pending <- appOut, stopRequested <- closing, alive <- Running

ImplementsFlushService == Abstract!Spec

\* close() itself returns: the awaited send of Close finds room or a dead
\* receiver, however full the channel was.
CloseReturns == (cpc = "core_closed") ~> (cpc \in {"done", "gone"})

\* Output that poll_reads leaves in the core after poll_writes has run waits
\* for the next wake-up, and gets it from the timer at the latest.
RelayOutputFlushed ==
    WF_vars(SelectTimer) => (relayOut ~> (~relayOut \/ ~Running))

\* The two above: neither close() nor relayed output waits for ever on the loop.
Responds == CloseReturns /\ RelayOutputFlushed
=============================================================================
