---------------------------- MODULE Driver_proofs ----------------------------
(***************************************************************************)
(* Proofs about Driver, for any set of senders and any channel capacity.   *)
(*                                                                         *)
(* NoStrandedWrite and NoLostShutdown speak of the parked driver only; to  *)
(* be inductive they must say what has been settled at each earlier point  *)
(* of the iteration. GateInv and ShutdownInv do that.                      *)
(***************************************************************************)
EXTENDS Driver, TLAPS

AfterDrain == {"events", "reads", "timeout", "select"}
AfterClear == AfterDrain \cup {"writes"}
AfterTop   == AfterClear \cup {"clear"}

\* From the drain on, a sender with data in the core is about to swap the gate
\* or the gate is set; from the clearing on, a set gate means a queued event
\* or a sender about to poke.
GateInv ==
    /\ pc \in AfterClear /\ writePending =>
           evq # << >> \/ \E s \in Sender : spc[s] = "poke"
    /\ pc \in AfterDrain =>
           \A s \in appOut : spc[s] = "wake" \/ writePending

\* Once the closing check has been passed, a raised flag means that an event
\* is queued or that the owner has yet to try the wake.
ShutdownInv ==
    closing /\ pc \in AfterTop =>
        evq # << >> \/ cpc \in {"flagged", "drop_flagged"}

DrainInv == pc \in AfterDrain => ~netOut

IInv == TypeOK /\ GateInv /\ ShutdownInv /\ DrainInv

-----------------------------------------------------------------------------
(* The channel.                                                             *)

\* Appending within the capacity keeps the channel well-typed and non-empty.
LEMMA EnqueueFact ==
    ASSUME NEW q \in Seq(Events), NEW e \in Events, Len(q) < Cap
    PROVE  /\ Append(q, e) \in Seq(Events)
           /\ Len(Append(q, e)) <= Cap
           /\ Append(q, e) # << >>
BY CapAssumption

\* A full channel is not empty.
LEMMA FullFact ==
    ASSUME NEW q \in Seq(Events), ~(Len(q) < Cap)
    PROVE  q # << >>
BY CapAssumption

\* try_send on a live channel leaves it non-empty, delivered or dropped, and
\* never lets it exceed its capacity.
LEMMA TrySendFact ==
    ASSUME TypeOK, NEW e \in Events, TrySend(e)
    PROVE  /\ evq' \in Seq(Events) /\ Len(evq') <= Cap
           /\ evq # << >> => evq' # << >>
           /\ Running => evq' # << >>
<1>1. CASE Running /\ Len(evq) < Cap
  BY <1>1, EnqueueFact DEF TypeOK, TrySend, Enqueue
<1>2. CASE ~(Running /\ Len(evq) < Cap)
  BY <1>2, FullFact DEF TypeOK, TrySend
<1> QED BY <1>1, <1>2

-----------------------------------------------------------------------------

\* Type correctness of every step.
LEMMA TypeStep == TypeOK /\ [Next]_vars => TypeOK'
<1> SUFFICES ASSUME TypeOK, [Next]_vars PROVE TypeOK'
  OBVIOUS
<1> USE DEF driverVars, ownerVars, rigidVars, LoopPc, Ended, OwnerPc
<1>1. ASSUME NEW s \in Sender, Send(s) PROVE TypeOK'
  BY <1>1 DEF TypeOK, Send
<1>13. ASSUME NEW s \in Sender, Swap(s) PROVE TypeOK'
  BY <1>13 DEF TypeOK, Swap
<1>2. ASSUME NEW s \in Sender, Poke(s) PROVE TypeOK'
  <2>1. evq' \in Seq(Events) /\ Len(evq') <= Cap
    BY <1>2, TrySendFact DEF Poke, Events
  <2> QED BY <1>2, <2>1 DEF TypeOK, Poke
<1>3. CASE EnqueueWork
  <2>1. evq' \in Seq(Events) /\ Len(evq') <= Cap
    BY <1>3, EnqueueFact DEF EnqueueWork, Enqueue, Events, TypeOK
  <2> QED BY <1>3, <2>1 DEF TypeOK, EnqueueWork
<1>4. CASE CoreClose
  <2>1. cpc' \in OwnerPc
    BY <1>4 DEF CoreClose
  <2> QED BY <1>4, <2>1 DEF TypeOK, CoreClose
<1>17. CASE StoreClosing \/ DropFlag
  <2>1. closing' \in BOOLEAN
    BY <1>17, Zenon DEF StoreClosing, DropFlag
  <2> QED BY <1>17, <2>1, ZenonT(40) DEF TypeOK, StoreClosing, DropFlag
<1>18. CASE FinishClose
  BY <1>18 DEF TypeOK, FinishClose
<1>5. CASE SendClose \/ DropWake
  <2>1. evq' \in Seq(Events) /\ Len(evq') <= Cap
    BY <1>5, TrySendFact DEF SendClose, DropWake, Events
  <2> QED BY <1>5, <2>1 DEF TypeOK, SendClose, DropWake
<1>6. CASE LoopTop
  <2>1. turnOpen' \in BOOLEAN
    BY <1>6, Zenon DEF TypeOK, LoopTop
  <2>2. pc' \in LoopPc \cup Ended
    BY <1>6, Zenon DEF LoopTop, Goto
  <2> QED BY <1>6, <2>1, <2>2, ZenonT(30) DEF TypeOK, LoopTop
<1>14. CASE ClearGate
  <2>1. pc' \in LoopPc /\ writePending' \in BOOLEAN
    BY <1>14, Zenon DEF ClearGate, Goto
  <2> QED BY <1>14, <2>1, ZenonT(30) DEF TypeOK, ClearGate
<1>15. CASE PollWrites
  BY ZenonT(40), <1>15 DEF TypeOK, PollWrites, Goto
<1>16. CASE PollEvents \/ Park
  BY <1>16 DEF TypeOK, PollEvents, Park, Goto
<1>7. CASE PollReads
  <2>1. relayIn' \in BOOLEAN /\ relayOut' \in BOOLEAN
    BY <1>7, Zenon DEF TypeOK, PollReads
  <2>2. pc' \in {"timeout", "failed"}
    BY <1>7 DEF PollReads, To
  <2> QED BY <1>7, <2>1, <2>2 DEF TypeOK, PollReads
<1>8. CASE ImmediateTimeout \/ SelectTimer
  <2>1. netOut' \in BOOLEAN
    BY <1>8, Zenon DEF TypeOK, ImmediateTimeout, SelectTimer, HandleTimeout, MayProduce
  <2> QED BY <1>8, <2>1 DEF TypeOK, ImmediateTimeout, SelectTimer, HandleTimeout, To
<1>9. CASE SelectEvent
  <2>1. evq' \in Seq(Events) /\ Len(evq') <= Cap
    BY <1>9, CapAssumption DEF SelectEvent, TypeOK
  <2>2. Head(evq) \in Events
    BY <1>9 DEF SelectEvent, TypeOK
  <2>3. Head(evq) = "WriteNotify" \/ Head(evq) = "Work" \/ Head(evq) = "Close"
    BY <2>2 DEF Events
  <2>4. netOut' \in BOOLEAN /\ turnOpen' \in BOOLEAN
    BY <1>9, <2>3, Zenon DEF TypeOK, SelectEvent, MayProduce
  <2>5. pc' \in {"top", "exited"}
    BY Zenon, <1>9, <2>3 DEF SelectEvent, To
  <2> QED BY <1>9, <2>1, <2>4, <2>5 DEF TypeOK, SelectEvent
<1>10. CASE SelectPackets
  <2>1. netOut' \in BOOLEAN /\ relayIn' \in BOOLEAN
    BY <1>10, Zenon DEF TypeOK, SelectPackets, MayProduce
  <2> QED BY <1>10, <2>1 DEF TypeOK, SelectPackets, To
<1>11. CASE SelectSocketError
  BY <1>11, UdpAssumption DEF TypeOK, SelectSocketError, To
<1>12. CASE UNCHANGED vars
  BY <1>12 DEF TypeOK, vars
<1> QED
  BY <1>1, <1>2, <1>3, <1>4, <1>5, <1>6, <1>7, <1>8, <1>9, <1>10, <1>11, <1>12, <1>13, <1>14,
     <1>15, <1>16, <1>17, <1>18
  DEF Next

\* The type invariant holds throughout every behaviour of the driver.
THEOREM TypeCorrect == Spec => []TypeOK
<1>1. Init => TypeOK
  <2> SUFFICES ASSUME Init PROVE TypeOK
    OBVIOUS
  <2>1. dedicated \in BOOLEAN /\ hasTcp \in BOOLEAN
    BY Zenon DEF Init
  <2>2. activeSockets \in 0..UdpSockets
    BY UdpAssumption DEF Init
  <2>3. evq \in Seq(Events) /\ Len(evq) <= Cap
    BY CapAssumption DEF Init
  <2> QED BY Zenon, <2>1, <2>2, <2>3 DEF Init, TypeOK, LoopPc, Ended, OwnerPc
<1> QED BY <1>1, TypeStep, PTL DEF Spec

-----------------------------------------------------------------------------
(* The gate.                                                                *)

\* A sender step keeps the gate's invariant: data enters with its sender still
\* to swap, the winner of the swap still to poke, and the poke leaves an event
\* in the channel.
LEMMA GateSender ==
    ASSUME TypeOK, GateInv, NEW s \in Sender, Send(s) \/ Swap(s) \/ Poke(s)
    PROVE  GateInv'
<1> USE DEF driverVars, ownerVars, rigidVars, AfterDrain, AfterClear
<1>1. CASE Send(s)
  BY <1>1 DEF Send, GateInv, TypeOK
<1>2. CASE Swap(s)
  <2>1. ASSUME pc \in AfterClear
        PROVE  evq # << >> \/ \E t \in Sender : spc'[t] = "poke"
    <3>1. CASE writePending
      <4>1. CASE evq # << >>
        BY <4>1
      <4>2. ASSUME NEW t \in Sender, spc[t] = "poke" PROVE spc'[t] = "poke"
        BY <1>2, <4>2 DEF Swap, TypeOK
      <4> QED BY <2>1, <3>1, <4>1, <4>2 DEF GateInv
    <3>2. CASE ~writePending
      BY <1>2, <3>2 DEF Swap, TypeOK
    <3> QED BY <3>1, <3>2
  <2>2. pc' = pc /\ evq' = evq /\ appOut' = appOut /\ writePending'
    BY <1>2 DEF Swap
  <2> QED BY <2>1, <2>2 DEF GateInv
<1>3. CASE Poke(s)
  <2>1. pc' = pc /\ appOut' = appOut /\ writePending' = writePending
    BY <1>3 DEF Poke
  <2>2. pc \in AfterClear => evq' # << >>
    BY <1>3, TrySendFact DEF Poke, Events, Running, Ended
  <2>3. \A t \in Sender : spc[t] = "wake" => spc'[t] = "wake"
    BY <1>3 DEF Poke, TypeOK
  <2> QED BY <2>1, <2>2, <2>3 DEF GateInv, TypeOK
<1> QED BY <1>1, <1>2, <1>3

\* A step of the owner or of another producer leaves the senders alone and
\* takes nothing out of the channel.
LEMMA GateOther ==
    ASSUME TypeOK, GateInv,
           UNCHANGED <<writePending, appOut, spc>>,
           pc' = pc \/ pc' \in Ended,
           evq # << >> => evq' # << >>
    PROVE  GateInv'
BY DEF GateInv, AfterDrain, AfterClear, Ended

\* A step of the driver.
LEMMA GateDriver ==
    ASSUME TypeOK, GateInv,
           \/ LoopTop \/ ClearGate \/ PollWrites \/ PollEvents \/ PollReads
           \/ ImmediateTimeout \/ Park
           \/ SelectTimer \/ SelectEvent \/ SelectPackets \/ SelectSocketError
    PROVE  GateInv'
<1> USE DEF driverVars, ownerVars, rigidVars, AfterDrain, AfterClear
<1>1. CASE LoopTop
  BY <1>1 DEF LoopTop, Goto, GateInv
<1>2. CASE ClearGate
  BY <1>2 DEF ClearGate, Goto, GateInv
<1>3. CASE PollWrites
  BY <1>3 DEF PollWrites, Goto, GateInv
<1>4. CASE PollEvents \/ Park
  BY <1>4 DEF PollEvents, Park, Goto, GateInv
<1>5. CASE PollReads
  BY <1>5 DEF PollReads, To, GateInv
<1>6. CASE ImmediateTimeout \/ SelectTimer \/ SelectPackets \/ SelectSocketError
  <2>1. pc' \in {"top", "failed"}
    BY <1>6 DEF ImmediateTimeout, SelectTimer, HandleTimeout, SelectPackets,
                SelectSocketError, To
  <2> QED BY <2>1 DEF GateInv
<1>7. CASE SelectEvent
  <2>1. Head(evq) \in Events
    BY <1>7 DEF SelectEvent, TypeOK
  <2>2. pc' \in {"top", "exited"}
    BY Zenon, <1>7, <2>1 DEF SelectEvent, To, Events
  <2> QED BY <2>2 DEF GateInv
<1> QED BY <1>1, <1>2, <1>3, <1>4, <1>5, <1>6, <1>7

\* Every step of the system keeps the gate's invariant.
LEMMA GateStep == TypeOK /\ GateInv /\ [Next]_vars => GateInv'
<1> SUFFICES ASSUME TypeOK, GateInv, [Next]_vars PROVE GateInv'
  OBVIOUS
<1> USE DEF driverVars, ownerVars, rigidVars
<1>1. ASSUME NEW s \in Sender, Send(s) \/ Swap(s) \/ Poke(s) PROVE GateInv'
  BY <1>1, GateSender
<1>2. CASE EnqueueWork
  <2>1. evq' # << >>
    BY <1>2, EnqueueFact DEF EnqueueWork, Enqueue, Events, TypeOK
  <2> QED BY <1>2, <2>1, GateOther DEF EnqueueWork
<1>3. CASE CoreClose \/ StoreClosing \/ FinishClose \/ DropFlag
  BY <1>3, GateOther DEF CoreClose, StoreClosing, FinishClose, DropFlag, Ended
<1>4. CASE SendClose \/ DropWake
  <2>1. evq # << >> => evq' # << >>
    BY <1>4, TrySendFact DEF SendClose, DropWake, Events
  <2> QED BY <1>4, <2>1, GateOther DEF SendClose, DropWake
<1>5. CASE \/ LoopTop \/ ClearGate \/ PollWrites \/ PollEvents \/ PollReads
           \/ ImmediateTimeout \/ Park
           \/ SelectTimer \/ SelectEvent \/ SelectPackets \/ SelectSocketError
  BY <1>5, GateDriver
<1>6. CASE UNCHANGED vars
  BY <1>6, GateOther DEF vars
<1> QED BY <1>1, <1>2, <1>3, <1>4, <1>5, <1>6 DEF Next

-----------------------------------------------------------------------------
(* Shutdown and the driver's own output.                                    *)

\* Every step of the system keeps the shutdown invariant.
LEMMA ShutdownStep == TypeOK /\ ShutdownInv /\ [Next]_vars => ShutdownInv'
<1> SUFFICES ASSUME TypeOK, ShutdownInv, [Next]_vars PROVE ShutdownInv'
  OBVIOUS
<1> USE DEF driverVars, ownerVars, rigidVars, AfterTop, AfterClear, AfterDrain
<1>1. ASSUME NEW s \in Sender, Send(s) \/ Swap(s) \/ Poke(s)
      PROVE  ShutdownInv'
  <2>1. evq # << >> => evq' # << >>
    BY <1>1, TrySendFact DEF Send, Swap, Poke, Events
  <2>2. UNCHANGED <<pc, cpc, closing>>
    BY <1>1 DEF Send, Swap, Poke
  <2> QED BY <2>1, <2>2 DEF ShutdownInv
<1>2. CASE EnqueueWork
  <2>1. evq' # << >>
    BY <1>2, EnqueueFact DEF EnqueueWork, Enqueue, Events, TypeOK
  <2> QED BY <2>1 DEF ShutdownInv
<1>3. CASE CoreClose \/ StoreClosing \/ DropFlag
  BY Zenon, <1>3 DEF CoreClose, StoreClosing, DropFlag, ShutdownInv
<1>4. CASE FinishClose
  BY <1>4 DEF FinishClose, ShutdownInv, Ended, Running
<1>5. CASE SendClose \/ DropWake
  <2>1. pc' \in AfterTop => evq' # << >>
    BY <1>5, TrySendFact DEF SendClose, DropWake, Events, Running, Ended
  <2> QED BY <2>1 DEF ShutdownInv
<1>6. CASE LoopTop
  BY <1>6 DEF LoopTop, Goto, ShutdownInv
<1>7. CASE ClearGate \/ PollWrites \/ PollEvents \/ Park
  BY Zenon, <1>7 DEF ClearGate, PollWrites, PollEvents, Park, Goto, ShutdownInv
<1>8. CASE PollReads
  BY <1>8 DEF PollReads, To, ShutdownInv
<1>9. CASE ImmediateTimeout \/ SelectTimer \/ SelectPackets \/ SelectSocketError
  <2>1. pc' \in {"top", "failed"}
    BY <1>9 DEF ImmediateTimeout, SelectTimer, HandleTimeout, SelectPackets,
                SelectSocketError, To
  <2> QED BY <2>1 DEF ShutdownInv
<1>10. CASE SelectEvent
  <2>1. Head(evq) \in Events
    BY <1>10 DEF SelectEvent, TypeOK
  <2>2. pc' \in {"top", "exited"}
    BY Zenon, <1>10, <2>1 DEF SelectEvent, To, Events
  <2> QED BY <2>2 DEF ShutdownInv
<1>11. CASE UNCHANGED vars
  BY <1>11 DEF vars, ShutdownInv
<1> QED
  BY <1>1, <1>2, <1>3, <1>4, <1>5, <1>6, <1>7, <1>8, <1>9, <1>10, <1>11 DEF Next

\* After the drain the driver adds no output of its own before it is back at
\* the top of the loop.
LEMMA DrainStep == TypeOK /\ DrainInv /\ [Next]_vars => DrainInv'
<1> SUFFICES ASSUME TypeOK, DrainInv, [Next]_vars PROVE DrainInv'
  OBVIOUS
<1> USE DEF driverVars, ownerVars, rigidVars, AfterDrain
<1>1. ASSUME NEW s \in Sender, Send(s) \/ Swap(s) \/ Poke(s) PROVE DrainInv'
  BY <1>1 DEF Send, Swap, Poke, DrainInv
<1>2. CASE EnqueueWork \/ CoreClose \/ StoreClosing \/ SendClose \/ DropFlag \/ DropWake
  BY <1>2 DEF EnqueueWork, CoreClose, StoreClosing, SendClose, DropFlag, DropWake,
              DrainInv
<1>3. CASE FinishClose
  BY <1>3 DEF FinishClose, DrainInv
<1>4. CASE LoopTop \/ ClearGate \/ PollWrites \/ PollEvents \/ Park
  BY Zenon, <1>4 DEF LoopTop, ClearGate, PollWrites, PollEvents, Park, Goto, DrainInv
<1>5. CASE PollReads
  BY <1>5 DEF PollReads, To, DrainInv
<1>6. CASE ImmediateTimeout \/ SelectTimer \/ SelectPackets \/ SelectSocketError
  <2>1. pc' \in {"top", "failed"}
    BY <1>6 DEF ImmediateTimeout, SelectTimer, HandleTimeout, SelectPackets,
                SelectSocketError, To
  <2> QED BY <2>1 DEF DrainInv
<1>7. CASE SelectEvent
  <2>1. Head(evq) \in Events
    BY <1>7 DEF SelectEvent, TypeOK
  <2>2. pc' \in {"top", "exited"}
    BY Zenon, <1>7, <2>1 DEF SelectEvent, To, Events
  <2> QED BY <2>2 DEF DrainInv
<1>8. CASE UNCHANGED vars
  BY <1>8 DEF vars, DrainInv
<1> QED BY <1>1, <1>2, <1>3, <1>4, <1>5, <1>6, <1>7, <1>8 DEF Next

-----------------------------------------------------------------------------

\* The inductive invariant.
THEOREM Invariance == Spec => []IInv
<1>1. Init => GateInv /\ ShutdownInv /\ DrainInv
  BY DEF Init, GateInv, ShutdownInv, DrainInv, AfterTop, AfterClear, AfterDrain
<1>2. Spec => [](GateInv /\ ShutdownInv /\ DrainInv)
  BY <1>1, TypeCorrect, GateStep, ShutdownStep, DrainStep, PTL DEF Spec
<1> QED BY <1>2, TypeCorrect, PTL DEF IInv

\* No wake-up is lost between wake_writes and the loop: a driver parked with a
\* sender's data in the core has an event to wake it, or one on its way, and it
\* parks with none of its own output left in the core, poll_reads' excepted.
THEOREM NoLostWakeup == Spec => []NoStrandedWrite
<1>1. IInv => NoStrandedWrite
  <2> SUFFICES ASSUME IInv, pc = "select"
               PROVE  /\ ~netOut
                      /\ appOut # {} => evq # << >> \/ \E s \in Sender : InFlight(s)
    BY DEF NoStrandedWrite
  <2>1. ~netOut
    BY DEF IInv, DrainInv, AfterDrain
  <2>2. appOut # {} => evq # << >> \/ \E s \in Sender : InFlight(s)
    BY DEF IInv, TypeOK, GateInv, InFlight, AfterClear, AfterDrain
  <2> QED BY <2>1, <2>2
<1> QED BY <1>1, Invariance, PTL

\* A raised closing flag never leaves the driver parked with nothing to wake
\* it, even if the Close event was dropped by a full channel.
THEOREM ShutdownNotLost == Spec => []NoLostShutdown
<1>1. IInv => NoLostShutdown
  BY DEF IInv, ShutdownInv, NoLostShutdown, AfterTop, AfterClear, AfterDrain
<1> QED BY <1>1, Invariance, PTL

-----------------------------------------------------------------------------
(* Refinement of FlushService: the step simulation.                         *)

\* Every step of the system is a step of FlushService or leaves it unchanged.
LEMMA Simulation == TypeOK /\ [Next]_vars => [Abstract!Next]_(Abstract!vars)
<1> SUFFICES ASSUME TypeOK, [Next]_vars PROVE [Abstract!Next]_(Abstract!vars)
  OBVIOUS
<1> USE DEF driverVars, ownerVars, rigidVars, Ended, Running
<1>a. ASSUME UNCHANGED <<appOut, closing>>, Running' = Running
      PROVE  [Abstract!Next]_(Abstract!vars)
  BY <1>a, Zenon DEF Abstract!vars
<1>b. ASSUME UNCHANGED <<appOut, closing>>, Running, ~Running'
      PROVE  [Abstract!Next]_(Abstract!vars)
  BY <1>b DEF Abstract!Next, Abstract!Stop
<1>1. ASSUME NEW s \in Sender, Send(s) PROVE [Abstract!Next]_(Abstract!vars)
  BY <1>1 DEF Send, Abstract!Next, Abstract!Write
<1>2. ASSUME NEW s \in Sender, Swap(s) \/ Poke(s)
      PROVE  [Abstract!Next]_(Abstract!vars)
  BY <1>2, <1>a DEF Swap, Poke
<1>3. CASE EnqueueWork \/ CoreClose \/ SendClose \/ DropWake
  BY <1>3, <1>a DEF EnqueueWork, CoreClose, SendClose, DropWake
<1>4. CASE StoreClosing \/ DropFlag
  BY <1>4 DEF StoreClosing, DropFlag, Abstract!Next, Abstract!RequestStop
<1>5. CASE PollWrites
  <2>1. CASE appOut = {}
    BY <1>5, <2>1, <1>a DEF PollWrites, Goto
  <2>2. CASE appOut # {}
    BY <1>5, <2>2 DEF PollWrites, Goto, Abstract!Next, Abstract!Flush
  <2> QED BY <2>1, <2>2
<1>6. CASE UNCHANGED vars
  BY <1>6, <1>a DEF vars
<1>7. CASE \/ FinishClose
           \/ LoopTop \/ ClearGate \/ PollEvents \/ PollReads
           \/ ImmediateTimeout \/ Park
           \/ SelectTimer \/ SelectEvent \/ SelectPackets \/ SelectSocketError
  <2>1. UNCHANGED <<appOut, closing>>
    BY Zenon, <1>7 DEF FinishClose, LoopTop, ClearGate, PollEvents, PollReads,
                ImmediateTimeout, Park, SelectTimer, HandleTimeout, SelectEvent,
                SelectPackets, SelectSocketError
  <2>2. Running \/ (FinishClose /\ UNCHANGED pc)
    BY Zenon, <1>7 DEF FinishClose, LoopTop, ClearGate, PollEvents, PollReads, Goto,
                ImmediateTimeout, Park, SelectTimer, HandleTimeout, SelectEvent,
                SelectPackets, SelectSocketError
  <2>3. CASE Running /\ ~Running'
    BY <2>1, <2>3, <1>b
  <2>4. CASE Running /\ Running'
    BY <2>1, <2>4, <1>a
  <2>5. CASE UNCHANGED pc
    BY <2>1, <2>5, <1>a
  <2> QED BY <2>2, <2>3, <2>4, <2>5
<1> QED BY <1>1, <1>2, <1>3, <1>4, <1>5, <1>6, <1>7 DEF Next

\* The driver implements the steps of FlushService: data written by a task
\* leaves only by a flush of the running loop, and an ended loop stays ended.
THEOREM Refinement == Spec => Abstract!Init /\ [][Abstract!Next]_(Abstract!vars)
<1>1. Init => Abstract!Init
  BY DEF Init, Abstract!Init, Running, Ended
<1> QED BY <1>1, Simulation, TypeCorrect, PTL DEF Spec
=============================================================================
