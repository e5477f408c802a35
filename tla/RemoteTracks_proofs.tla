------------------------ MODULE RemoteTracks_proofs ------------------------
(***************************************************************************)
(* ReportedOnce of RemoteTracks, for any tracks, layers, capacities and    *)
(* calls: on_track goes through its four steps for one track at a time,    *)
(* and each step finds done what the ones before it had to do.             *)
(***************************************************************************)
EXTENDS RemoteTracks, SequenceTheorems, TLAPS

\* What has been set up for the track on_track is running for.
Reporting ==
    /\ phase \in {"register", "callbacks", "publish", "observer"} =>
           subject \in entry /\ reported[subject] = 0
    /\ phase = "callbacks" => subject \in registry
    /\ phase = "publish" => subject \in poller
    /\ phase = "observer" => subject \in javaTracks

\* Only a track that went through all of them has been reported, once.
InPlace ==
    \A t \in Track : reported[t] # 0 => reported[t] = 1 /\ t \in javaTracks

IInv == TypeOK /\ Reporting /\ InPlace

-----------------------------------------------------------------------------

LEMMA InitHolds == Init => IInv
<1> SUFFICES ASSUME Init PROVE IInv
  BY Zenon
<1>1. /\ layersUp \in [Track -> 0..Layers] /\ arrived \in [Track -> 0..MaxRtp]
      /\ reported \in [Track -> Nat] /\ opens \in [Track -> Nat]
      /\ evq \in 0..Cap /\ calls \in 0..MaxCalls
  BY BoundAssumption DEF Init
<1>2. /\ coreEvents \in Seq(Track) /\ coreReads \in Seq(Track \X (1..MaxRtp))
      /\ queue \in [Track -> Seq(0..MaxRtp)] /\ rtp \in [Track -> Seq(1..MaxRtp)]
  BY DEF Init
<1>3. \A t \in Track : Len(queue[t]) <= QCap
  <2>1. \A t \in Track : queue[t] = << >>
    BY Zenon DEF Init
  <2>2. 0 <= QCap
    BY BoundAssumption
  <2>3. \A t \in Track : Len(queue[t]) = 0
    <3>1. Len(<< >>) = 0
      BY Zenon
    <3>2. QED
      BY <2>1, <3>1, Zenon
  <2>4. QED
    BY Zenon, <2>2, <2>3
<1>4. TypeOK
  BY Zenon, <1>1, <1>2, <1>3 DEF Init, TypeOK
<1>5. Reporting /\ InPlace
  BY Zenon DEF Init, Reporting, InPlace
<1>6. QED
  BY Zenon, <1>4, <1>5 DEF IInv

LEMMA InvImplies == IInv => ReportedOnce
<1> SUFFICES ASSUME IInv PROVE ReportedOnce
  BY Zenon
<1>1. TypeOK /\ javaTracks \subseteq poller
  BY Zenon DEF IInv, TypeOK
<1>2. ASSUME NEW t \in Track
      PROVE  reported[t] = 0 \/ (reported[t] = 1 /\ t \in javaTracks)
  BY Zenon DEF IInv, InPlace
<1>3. QED
  BY <1>1, <1>2 DEF ReportedOnce

\* Taking the first element of a queue.
LEMMA Taken ==
  ASSUME NEW S, NEW q \in Seq(S), q # << >>
  PROVE  /\ Head(q) \in S /\ Tail(q) \in Seq(S)
         /\ Len(Tail(q)) = Len(q) - 1 /\ Len(q) \in Nat
BY HeadTailProperties

\* try_send keeps every queue within its capacity.
LEMMA TrySendTypes ==
  ASSUME queue \in [Track -> Seq(0..MaxRtp)], \A u \in Track : Len(queue[u]) <= QCap,
         dropped \subseteq Track, NEW t \in Track, NEW e \in 0..MaxRtp, TrySend(t, e)
  PROVE  /\ queue' \in [Track -> Seq(0..MaxRtp)] /\ \A u \in Track : Len(queue'[u]) <= QCap
         /\ dropped' \subseteq Track
<1>1. dropped' \subseteq Track
  BY Zenon DEF TrySend
<1>2. CASE queue' = queue
  BY Zenon, <1>1, <1>2
<1>3. CASE queue' = [queue EXCEPT ![t] = Append(@, e)] /\ Len(queue[t]) < QCap
  <2>1. queue[t] \in Seq(0..MaxRtp) /\ Len(queue[t]) \in Nat
    OBVIOUS
  <2>2. Append(queue[t], e) \in Seq(0..MaxRtp) /\ Len(Append(queue[t], e)) = Len(queue[t]) + 1
    BY <2>1
  <2>3. Len(queue[t]) + 1 <= QCap
    BY <1>3, <2>1, BoundAssumption
  <2>4. QED
    BY Zenon, <1>1, <1>3, <2>2, <2>3
<1>4. QED
  BY <1>2, <1>3, BoundAssumption DEF TrySend

\* The network and the application's calls.
LEMMA OutsideStep ==
  ASSUME IInv,
         \/ \E t \in Track, first \in BOOLEAN : Packet(t, first)
         \/ PliLock \/ PliSend \/ OtherCall
  PROVE  IInv'
<1>1. CASE \E t \in Track, first \in BOOLEAN : Packet(t, first)
  <2>1. PICK t \in Track, first \in BOOLEAN : Packet(t, first)
    BY Zenon, <1>1
  <2>2. /\ layersUp' \in [Track -> 0..Layers] /\ arrived' \in [Track -> 0..MaxRtp]
        /\ coreEvents' \in Seq(Track)
    <3>1. /\ layersUp \in [Track -> 0..Layers] /\ arrived \in [Track -> 0..MaxRtp]
          /\ arrived[t] < MaxRtp /\ Layers \in Nat /\ MaxRtp \in Nat
          /\ first => layersUp[t] < Layers
      BY Zenon, <2>1, BoundAssumption DEF Packet, IInv, TypeOK
    <3>2. arrived[t] + 1 \in 0..MaxRtp /\ (first => layersUp[t] + 1 \in 0..Layers)
      BY <3>1
    <3>3. layersUp' \in [Track -> 0..Layers]
      BY Zenon, <2>1, <3>1, <3>2 DEF Packet
    <3>4. arrived' \in [Track -> 0..MaxRtp]
      BY Zenon, <2>1, <3>1, <3>2 DEF Packet
    <3>5. coreEvents' \in Seq(Track)
      BY <2>1 DEF Packet, IInv, TypeOK
    <3>6. QED
      BY Zenon, <3>3, <3>4, <3>5
  <2>3. <<t, arrived[t] + 1>> \in Track \X (1..MaxRtp)
    <3>1. arrived[t] \in 0..MaxRtp /\ arrived[t] < MaxRtp /\ MaxRtp \in Nat
      BY Zenon, <2>1, BoundAssumption DEF Packet, IInv, TypeOK
    <3>2. arrived[t] + 1 \in 1..MaxRtp
      BY <3>1
    <3>3. QED
      BY Zenon, <3>2
  <2>4. coreReads' \in Seq(Track \X (1..MaxRtp))
    BY <2>1, <2>3 DEF Packet, IInv, TypeOK
  <2>5. UNCHANGED <<phase, subject, queue, dropped, lock, regVars, seen, evq, appVars>>
    BY Zenon, <2>1 DEF Packet
  <2>6. TypeOK'
    BY Zenon, <2>2, <2>4, <2>5 DEF IInv, TypeOK, regVars, seen, appVars
  <2>7. Reporting' /\ InPlace'
    BY Zenon, <2>5 DEF IInv, Reporting, InPlace, regVars
  <2>8. QED
    BY Zenon, <2>6, <2>7 DEF IInv
<1>2. CASE PliLock \/ PliSend \/ OtherCall
  <2>1. /\ UNCHANGED <<coreVars, phase, subject, queue, dropped, regVars, seen>>
        /\ evq' \in 0..Cap /\ calls' \in 0..MaxCalls
        /\ lock' \in {"free", "app"} /\ pli' \in {"no", "locked"}
    <3>1. /\ evq \in 0..Cap /\ calls \in 0..MaxCalls /\ Cap \in Nat /\ MaxCalls \in Nat
          /\ lock \in {"free", "app"} /\ pli \in {"no", "locked"}
      BY Zenon, BoundAssumption DEF IInv, TypeOK
    <3>2. CASE PliLock
      BY <3>1, <3>2 DEF PliLock
    <3>3. CASE PliSend
      BY <3>1, <3>3 DEF PliSend
    <3>4. CASE OtherCall
      BY <3>1, <3>4 DEF OtherCall
    <3>5. QED
      BY Zenon, <1>2, <3>2, <3>3, <3>4
  <2>2. TypeOK'
    BY Zenon, <2>1 DEF IInv, TypeOK, coreVars, regVars, seen
  <2>3. Reporting' /\ InPlace'
    BY Zenon, <2>1 DEF IInv, Reporting, InPlace, regVars
  <2>4. QED
    BY Zenon, <2>2, <2>3 DEF IInv
<1>3. QED
  BY Zenon, <1>1, <1>2

\* Steps of the driver between its phases.
LEMMA PhaseStep ==
  ASSUME IInv, Iterate \/ EventsDone \/ ReadsDone
  PROVE  IInv'
<1>1. /\ UNCHANGED <<coreVars, subject, queue, dropped, lock, regVars, seen, appVars>>
      /\ evq' \in 0..Cap /\ phase' \in {"events", "reads", "select"}
  BY BoundAssumption DEF Iterate, EventsDone, ReadsDone, IInv, TypeOK
<1>2. TypeOK'
  BY Zenon, <1>1 DEF IInv, TypeOK, coreVars, regVars, seen, appVars
<1>3. Reporting' /\ InPlace'
  BY Zenon, <1>1 DEF IInv, Reporting, InPlace, regVars
<1>4. QED
  BY Zenon, <1>2, <1>3 DEF IInv

\* OnTrack: the first OnOpen of a track adds its queue and starts on_track; a
\* track without a queue has not been reported.
LEMMA HandleOpenStep == ASSUME IInv, HandleOpen PROVE IInv'
<1> DEFINE t == Head(coreEvents)
<1>1. /\ phase = "events" /\ coreEvents # << >> /\ coreEvents' = Tail(coreEvents)
      /\ entry' = entry \cup {t} /\ TrySend(t, OnOpen)
      /\ subject' = (IF t \in entry THEN None ELSE t)
      /\ phase' = (IF t \in entry THEN "events" ELSE "register")
      /\ UNCHANGED <<layersUp, arrived, coreReads, lock, registry, cbs, poller,
                     javaTracks, javaCbs, reported, seen, evq, appVars>>
  BY Zenon DEF HandleOpen
<1>2. coreEvents \in Seq(Track) /\ coreEvents # << >>
  BY Zenon, <1>1 DEF IInv, TypeOK
<1>3. t \in Track /\ coreEvents' \in Seq(Track)
  BY Zenon, <1>1, <1>2, HeadTailProperties
<1> HIDE DEF t
<1>4. OnOpen \in 0..MaxRtp
  BY BoundAssumption DEF OnOpen
<1>5. /\ queue' \in [Track -> Seq(0..MaxRtp)] /\ \A u \in Track : Len(queue'[u]) <= QCap
      /\ dropped' \subseteq Track
  BY Zenon, <1>1, <1>3, <1>4, TrySendTypes DEF IInv, TypeOK
<1>6. TypeOK'
  BY Zenon, <1>1, <1>3, <1>5 DEF IInv, TypeOK, seen, appVars
<1>7. t \notin entry => reported[t] = 0
  BY Zenon, <1>3 DEF IInv, TypeOK, InPlace
<1>8. Reporting'
  BY Zenon, <1>1, <1>7 DEF Reporting
<1>9. InPlace'
  BY Zenon, <1>1 DEF IInv, InPlace
<1>10. QED
  BY Zenon, <1>6, <1>8, <1>9 DEF IInv

\* on_track, one step after the other.
LEMMA RegisterTrackStep == ASSUME IInv, RegisterTrack PROVE IInv'
<1>1. TypeOK'
  BY Zenon DEF RegisterTrack, IInv, TypeOK, Reporting, coreVars, seen, appVars
<1>2. Reporting' /\ InPlace'
  BY Zenon DEF RegisterTrack, IInv, Reporting, InPlace
<1>3. QED
  BY Zenon, <1>1, <1>2 DEF IInv

LEMMA SetCallbacksStep == ASSUME IInv, SetCallbacks PROVE IInv'
<1>1. TypeOK'
  BY Zenon DEF SetCallbacks, IInv, TypeOK, Reporting, coreVars, seen, appVars
<1>2. Reporting' /\ InPlace'
  BY Zenon DEF SetCallbacks, IInv, Reporting, InPlace
<1>3. QED
  BY Zenon, <1>1, <1>2 DEF IInv

LEMMA PublishTrackStep == ASSUME IInv, PublishTrack PROVE IInv'
<1>1. TypeOK'
  BY Zenon DEF PublishTrack, IInv, TypeOK, Reporting, coreVars, seen, appVars
<1>2. Reporting' /\ InPlace'
  BY Zenon DEF PublishTrack, IInv, Reporting, InPlace
<1>3. QED
  BY Zenon, <1>1, <1>2 DEF IInv

LEMMA ObserverOnTrackStep == ASSUME IInv, ObserverOnTrack PROVE IInv'
<1>1. /\ phase = "observer" /\ phase' = "events" /\ subject' = None
      /\ reported' = [reported EXCEPT ![subject] = @ + 1]
      /\ javaCbs' = javaCbs \cup {subject}
      /\ UNCHANGED <<coreVars, queue, dropped, lock, entry, registry, cbs, poller, javaTracks,
                     seen, evq, appVars>>
  BY Zenon DEF ObserverOnTrack
<1>2. subject \in Track /\ subject \in javaTracks /\ reported[subject] = 0
      /\ reported \in [Track -> Nat]
  BY Zenon, <1>1 DEF IInv, TypeOK, Reporting
<1>3. reported' \in [Track -> Nat] /\ reported'[subject] = 1
      /\ \A u \in Track \ {subject} : reported'[u] = reported[u]
  BY <1>1, <1>2
<1>4. TypeOK'
  BY Zenon, <1>1, <1>2, <1>3 DEF IInv, TypeOK, coreVars, seen, appVars
<1>5. Reporting'
  BY Zenon, <1>1 DEF Reporting
<1>6. InPlace'
  BY Zenon, <1>1, <1>2, <1>3 DEF IInv, InPlace
<1>7. QED
  BY Zenon, <1>4, <1>5, <1>6 DEF IInv

LEMMA HandleRtpStep == ASSUME IInv, HandleRtp PROVE IInv'
<1>1. /\ coreReads # << >> /\ coreReads' = Tail(coreReads) /\ entry' = entry
      /\ TrySend(Head(coreReads)[1], Head(coreReads)[2])
      /\ UNCHANGED <<layersUp, arrived, coreEvents, phase, subject, lock, registry,
                     cbs, poller, javaTracks, javaCbs, reported, seen, evq, appVars>>
  BY Zenon DEF HandleRtp
<1>2. coreReads \in Seq(Track \X (1..MaxRtp)) /\ coreReads # << >>
  BY Zenon, <1>1 DEF IInv, TypeOK
<1>3. Head(coreReads) \in Track \X (1..MaxRtp) /\ coreReads' \in Seq(Track \X (1..MaxRtp))
  BY Zenon, <1>1, <1>2, HeadTailProperties
<1>4. Head(coreReads)[1] \in Track /\ Head(coreReads)[2] \in 0..MaxRtp
  BY <1>3
<1>5. /\ queue' \in [Track -> Seq(0..MaxRtp)] /\ \A u \in Track : Len(queue'[u]) <= QCap
      /\ dropped' \subseteq Track
  BY Zenon, <1>1, <1>4, TrySendTypes DEF IInv, TypeOK
<1>6. TypeOK'
  BY Zenon, <1>1, <1>3, <1>5 DEF IInv, TypeOK, seen, appVars
<1>7. Reporting' /\ InPlace'
  BY Zenon, <1>1 DEF IInv, Reporting, InPlace
<1>8. QED
  BY Zenon, <1>6, <1>7 DEF IInv

\* The poller hands one event to the callbacks.
LEMMA PollStep == ASSUME IInv, NEW t \in Track, Poll(t) PROVE IInv'
<1>1. /\ queue[t] # << >> /\ queue' = [queue EXCEPT ![t] = Tail(@)]
      /\ UNCHANGED <<dropped, coreVars, phase, subject, lock, regVars, evq, appVars>>
  BY Zenon DEF Poll
<1>2. queue \in [Track -> Seq(0..MaxRtp)] /\ queue[t] \in Seq(0..MaxRtp)
      /\ \A u \in Track : Len(queue[u]) <= QCap
  BY Zenon DEF IInv, TypeOK
<1>3. /\ Head(queue[t]) \in 0..MaxRtp /\ Tail(queue[t]) \in Seq(0..MaxRtp)
      /\ Len(Tail(queue[t])) = Len(queue[t]) - 1 /\ Len(queue[t]) \in Nat
  <2>1. queue[t] \in Seq(0..MaxRtp) /\ queue[t] # << >>
    BY Zenon, <1>1, <1>2
  <2>2. QED
    BY Zenon, <2>1, Taken
<1>4. Len(Tail(queue[t])) <= QCap
  BY <1>2, <1>3, BoundAssumption
<1>5. queue' \in [Track -> Seq(0..MaxRtp)] /\ \A u \in Track : Len(queue'[u]) <= QCap
  BY Zenon, <1>1, <1>2, <1>3, <1>4
<1>6. opens' \in [Track -> Nat]
  <2>1. opens \in [Track -> Nat] /\ opens[t] + 1 \in Nat
    BY SMTT(20) DEF IInv, TypeOK
  <2>2. opens' = opens \/ opens' = [opens EXCEPT ![t] = @ + 1]
    BY Zenon DEF Poll
  <2>3. QED
    BY Zenon, <2>1, <2>2
<1>7. rtp' \in [Track -> Seq(1..MaxRtp)]
  <2>1. rtp \in [Track -> Seq(1..MaxRtp)] /\ rtp[t] \in Seq(1..MaxRtp)
    BY Zenon DEF IInv, TypeOK
  <2>2. CASE Head(queue[t]) = OnOpen
    BY Zenon, <2>1, <2>2 DEF Poll
  <2>3. CASE Head(queue[t]) # OnOpen
    <3>1. Head(queue[t]) \in 1..MaxRtp
      BY <1>3, <2>3 DEF OnOpen
    <3>2. Append(rtp[t], Head(queue[t])) \in Seq(1..MaxRtp)
      BY <2>1, <3>1
    <3>3. QED
      BY Zenon, <2>1, <3>2 DEF Poll
  <2>4. QED
    BY Zenon, <2>2, <2>3
<1>8. TypeOK'
  BY Zenon, <1>1, <1>5, <1>6, <1>7 DEF IInv, TypeOK, coreVars, regVars, appVars
<1>9. Reporting' /\ InPlace'
  BY Zenon, <1>1 DEF IInv, Reporting, InPlace, regVars
<1>10. QED
  BY Zenon, <1>8, <1>9 DEF IInv

-----------------------------------------------------------------------------

LEMMA Inductive == IInv /\ [Next]_vars => IInv'
<1> SUFFICES ASSUME IInv, [Next]_vars PROVE IInv'
  BY Zenon
<1>1. CASE DriverStep
  BY Zenon, <1>1, PhaseStep, HandleOpenStep, RegisterTrackStep, SetCallbacksStep, PublishTrackStep,
     ObserverOnTrackStep, HandleRtpStep DEF DriverStep
<1>2. CASE Next /\ ~DriverStep
  BY Zenon, <1>2, OutsideStep, PollStep DEF Next
<1>3. CASE UNCHANGED vars
  <2>1. TypeOK'
    BY Zenon, <1>3 DEF IInv, TypeOK, vars, coreVars, regVars, seen, appVars
  <2>2. Reporting' /\ InPlace'
    BY Zenon, <1>3 DEF IInv, Reporting, InPlace, vars, regVars
  <2>3. QED
    BY Zenon, <2>1, <2>2 DEF IInv
<1>4. QED
  BY Zenon, <1>1, <1>2, <1>3 DEF Next

\* on_track: for any tracks and any number of simulcast layers, Observer.onTrack
\* runs at most once for a track, and then with the registry entry, the native
\* callbacks, the poller and the Java object in place.
THEOREM ReportedOnceHolds == Spec => []ReportedOnce
BY InitHolds, Inductive, InvImplies, PTL DEF Spec
=============================================================================
