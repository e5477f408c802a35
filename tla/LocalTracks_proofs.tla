------------------------ MODULE LocalTracks_proofs ------------------------
(***************************************************************************)
(* SentInOrder of LocalTracks for any threads, tracks and transceivers,    *)
(* and SendersAgree for one thread that adds, removes and lists senders    *)
(* (two threads can leave the records apart, see AddBind) with any tracks, *)
(* transceivers, writers and bounds.                                       *)
(***************************************************************************)
EXTENDS LocalTracks, TLAPS

Changes == {"add", "bind", "remove"}

\* The ids calls and handles speak of are transceivers of the core; a call that
\* is binding holds the lock and has its object in the table.
CallOK(th) ==
    /\ call[th].id <= Len(core)
    /\ call[th].op \in Changes => call[th].id # 0
    /\ call[th].op = "bind" => lock = th /\ table[call[th].id] # 0 /\ call[th].track # None
    /\ \A o \in call[th].todo : o[1] <= Len(core) /\ o[2] <= Len(objs[o[1]])
    /\ \A s \in call[th].got : s[1] <= Len(core)

TypeInv ==
    /\ TypeOK
    /\ \A th \in Thread : CallOK(th)
    /\ \A s \in senders : s[1] <= Len(core)

\* Numbers grow from what was sent, over what waits in the channel, to what was
\* written last.
Order ==
    \A t \in Track :
        /\ \A i, j \in 1..Len(queue) :
              i < j /\ queue[i][2] = t /\ queue[j][2] = t => queue[i][3] < queue[j][3]
        /\ \A i \in 1..Len(queue) : queue[i][2] = t =>
              /\ queue[i][3] <= seq[t] /\ (pend[t] # 0 => queue[i][3] < seq[t])
              /\ \A k \in 1..Len(sent[t]) : sent[t][k] < queue[i][3]
        /\ \A k \in 1..Len(sent[t]) :
              sent[t][k] <= seq[t] /\ (pend[t] # 0 => sent[t][k] < seq[t])
        /\ \A i, j \in 1..Len(sent[t]) : i < j => sent[t][i] < sent[t][j]
        /\ pend[t] # 0 => seq[t] # 0

OrderInv == TypeInv /\ Order

\* With one thread.  The transceiver its call is changing, if it is:
Busy(th, i) == call[th].op \in Changes /\ call[th].id = i

\* The three records agree but for the transceiver being changed; for it they
\* hold what the steps so far have left.
Records(th) ==
    /\ \A i \in 1..Len(core) : ~Busy(th, i) => SenderOf(i) = core[i]
    /\ \A t \in Track : ctx[t] # 0 /\ ~Busy(th, ctx[t]) => core[ctx[t]] = t
    /\ \A t \in Track \ twice : \A i \in 1..Len(core) :
          core[i] = t /\ ~Busy(th, i) => ctx[t] = i
    /\ evtTx = {t \in Track : ctx[t] # 0}

Adding(th) ==
    call[th].op \in {"add", "bind"} =>
        /\ core[call[th].id] = call[th].track
        /\ SenderOf(call[th].id) = None
        /\ \A t \in Track : ctx[t] # call[th].id
        /\ call[th].track \in Track \ twice =>
              \A i \in 1..Len(core) : core[i] = call[th].track => i = call[th].id

Removing(th) ==
    call[th].op = "remove" =>
        LET old == SenderOf(call[th].id)
        IN /\ core[call[th].id] = None
           /\ \A t \in Track : ctx[t] = call[th].id => old = t
           /\ old \in Track => old \in twice \/ \A i \in 1..Len(core) : core[i] # old

\* A listing in progress: transceivers added meanwhile have no sender, and what
\* has been visited has been found.
Listing(th) ==
    /\ call[th].op \in {"get", "visit"} =>
          \A i \in (call[th].id + 1)..Len(core) : core[i] = None
    /\ call[th].op = "get" => call[th].got = {}
    /\ call[th].op = "visit" =>
          /\ \A i \in 1..call[th].id : table[i] # 0
          /\ call[th].todo \subseteq {<<i, table[i]>> : i \in 1..call[th].id}
          /\ call[th].got = {<<i, core[i]>> : i \in
                {j \in 1..call[th].id : core[j] # None /\ <<j, table[j]>> \notin call[th].todo}}

AgreeInv(th) == OrderInv /\ Records(th) /\ Adding(th) /\ Removing(th) /\ Listing(th)

-----------------------------------------------------------------------------
(* Sequences, sets of numbers and calls.                                    *)

Carried == Track \cup {Own, None}

\* The length and the elements of a sequence.
LEMMA Lengths ==
  ASSUME NEW S, NEW q \in Seq(S)
  PROVE  /\ Len(q) \in Nat /\ DOMAIN q = 1..Len(q)
         /\ \A i \in 1..Len(q) : q[i] \in S
OBVIOUS

\* Storing into a sequence.
LEMMA Stored ==
  ASSUME NEW S, NEW q \in Seq(S), NEW i \in 1..Len(q), NEW v \in S
  PROVE  /\ [q EXCEPT ![i] = v] \in Seq(S) /\ Len([q EXCEPT ![i] = v]) = Len(q)
         /\ [q EXCEPT ![i] = v][i] = v
         /\ \A j \in 1..Len(q) : j # i => [q EXCEPT ![i] = v][j] = q[j]
OBVIOUS

\* Appending to a sequence.
LEMMA Added ==
  ASSUME NEW S, NEW q \in Seq(S), NEW v \in S
  PROVE  /\ Append(q, v) \in Seq(S) /\ Len(Append(q, v)) = Len(q) + 1
         /\ Len(q) \in Nat /\ Append(q, v)[Len(q) + 1] = v
         /\ \A i \in 1..Len(q) : Append(q, v)[i] = q[i]
OBVIOUS

\* Taking the first of a sequence.
LEMMA Taken ==
  ASSUME NEW S, NEW q \in Seq(S), q # << >>
  PROVE  /\ Head(q) \in S /\ Tail(q) \in Seq(S) /\ Head(q) = q[1]
         /\ Len(Tail(q)) = Len(q) - 1 /\ Len(q) \in Nat /\ Len(q) >= 1
         /\ \A i \in 1..Len(Tail(q)) : Tail(q)[i] = q[i + 1]
OBVIOUS

\* What all calls keep when one changes: everything but alone.
SameCall(x) ==
    /\ call'[x].op = call[x].op /\ call'[x].id = call[x].id
    /\ call'[x].track = call[x].track
    /\ call'[x].todo = call[x].todo /\ call'[x].got = call[x].got

LEMMA IdleCall == Idle \in Calls
BY BoundAssumption DEF Idle, Calls

LEMMA BeginCalls ==
  ASSUME TypeInv, NEW th \in Thread, NEW op \in {"add", "remove", "get"},
         NEW i \in 0..MaxTr, NEW t \in Carried, Begin(th, op, i, t)
  PROVE  /\ call' \in [Thread -> Calls] /\ calls' \in 0..MaxCalls
         /\ call'[th].op = op /\ call'[th].id = i /\ call'[th].track = t
         /\ call'[th].todo = {} /\ call'[th].got = {}
         /\ call[th] = Idle
         /\ \A x \in Thread \ {th} : SameCall(x)
<1> DEFINE alone == \A x \in Thread : call[x] = Idle
           mine == [Idle EXCEPT !.op = op, !.id = i, !.track = t, !.alone = alone]
<1>1. /\ call[th] = Idle /\ calls < MaxCalls /\ calls' = calls + 1
      /\ call' = [x \in Thread |-> IF x = th THEN mine
                                   ELSE IF call[x] = Idle THEN Idle
                                   ELSE [call[x] EXCEPT !.alone = FALSE]]
  BY Zenon DEF Begin
<1>2. /\ mine \in Calls /\ mine.op = op /\ mine.id = i /\ mine.track = t
      /\ mine.todo = {} /\ mine.got = {}
  <2>1. alone \in BOOLEAN
    BY Zenon
  <2> HIDE DEF alone
  <2>2. QED
    BY Zenon, <2>1, BoundAssumption DEF Idle, Calls, Carried
<1> HIDE DEF mine
<1>3. call \in [Thread -> Calls] /\ calls \in 0..MaxCalls /\ MaxCalls \in Nat
  BY Zenon, BoundAssumption DEF TypeInv, TypeOK
<1>4. \A x \in Thread : [call[x] EXCEPT !.alone = FALSE] \in Calls
  BY ZenonT(40), <1>3 DEF Calls
<1>5. call' \in [Thread -> Calls]
  BY Zenon, <1>1, <1>2, <1>3, <1>4, IdleCall
<1>6. ASSUME NEW x \in Thread \ {th} PROVE SameCall(x)
  BY <1>1, <1>3 DEF SameCall, Calls
<1>7. QED
  BY <1>1, <1>2, <1>3, <1>5, <1>6

-----------------------------------------------------------------------------
(* Ids stay within the core, objects within their bounds (TypeInv).         *)

LEMMA CoreLen == TypeInv => core \in Seq(Carried) /\ Len(core) \in Nat /\ Len(core) <= MaxTr
BY Zenon, Lengths DEF TypeInv, TypeOK, Carried

\* A call that adds to or overwrites the core, and the overlapping of calls.
LEMMA CoreTypes ==
  ASSUME TypeInv, core' \in Seq(Carried), Len(core') \in Nat, Len(core) <= Len(core'),
         Len(core') <= MaxTr,
         call' \in [Thread -> Calls], calls' \in 0..MaxCalls, twice' \subseteq Track,
         sure' \subseteq Track \X (1..MaxRtp),
         UNCHANGED <<closed, objs, table, lock, ctx, evtTx, senders, writeVars>>,
         \A x \in Thread :
            \/ SameCall(x)
            \/ /\ call'[x].op # "bind" /\ call'[x].id \in 0..Len(core')
               /\ call'[x].op \in Changes => call'[x].id # 0
               /\ call'[x].todo = {} /\ call'[x].got = {}
  PROVE  TypeInv'
<1>1. Len(core) \in Nat
  BY Zenon, CoreLen
<1>2. /\ ctx \in [Track -> 0..Len(core)] /\ pend \in [Track -> 0..Len(core)]
      /\ \A i \in Ids : table[i] # 0 => i <= Len(core)
  BY Zenon DEF TypeInv, TypeOK
<1>3. /\ ctx \in [Track -> 0..Len(core')] /\ pend \in [Track -> 0..Len(core')]
      /\ \A i \in Ids : table[i] # 0 => i <= Len(core')
  BY <1>1, <1>2 DEF Ids
<1>4. TypeOK'
  BY Zenon, <1>3 DEF TypeInv, TypeOK, writeVars, Carried
<1>5. ASSUME NEW x \in Thread
      PROVE  CallOK(x)'
  <2>1. CASE SameCall(x)
    <3>1. /\ call[x].id <= Len(core) /\ call[x].id \in Nat
          /\ call[x].op \in Changes => call[x].id # 0
          /\ call[x].op = "bind" => lock = x /\ table[call[x].id] # 0 /\ call[x].track # None
          /\ \A o \in call[x].todo :
                o[1] \in Nat /\ o[1] <= Len(core) /\ o[2] <= Len(objs[o[1]])
          /\ \A s \in call[x].got : s[1] <= Len(core) /\ s[1] \in Nat
      BY DEF TypeInv, CallOK, TypeOK, Calls, Ids
    <3>2. QED
      BY <1>1, <2>1, <3>1 DEF SameCall, CallOK
  <2>2. CASE ~SameCall(x)
    BY <2>2 DEF CallOK
  <2>3. QED
    BY Zenon, <2>1, <2>2
<1>6. ASSUME NEW s \in senders' PROVE s[1] <= Len(core')
  <2>1. s[1] <= Len(core) /\ s[1] \in Nat
    BY DEF TypeInv, TypeOK, Ids
  <2>2. QED
    BY <1>1, <2>1
<1>7. QED
  BY Zenon, <1>4, <1>5, <1>6 DEF TypeInv

\* Where add_track puts the track.
LEMMA AddTrackCore ==
  ASSUME TypeInv, NEW th \in Thread, NEW t \in Track, AddTrack(th, t)
  PROVE  \E i \in Ids :
            /\ Begin(th, "add", i, t)
            /\ core' \in Seq(Carried) /\ Len(core') \in Nat /\ Len(core) <= Len(core')
            /\ Len(core') <= MaxTr /\ i \in 1..Len(core')
            /\ core'[i] = t
            /\ \A j \in 1..Len(core') : j # i => j \in 1..Len(core) /\ core'[j] = core[j]
            /\ i \in 1..Len(core) => core[i] = None
<1> DEFINE free == {i \in 1..Len(core) : core[i] = None}
<1>1. PICK i \in 1..MaxTr :
         /\ IF free = {} THEN i = Len(core) + 1 ELSE i \in free
         /\ Begin(th, "add", i, t)
         /\ core' = IF free = {} THEN Append(core, t) ELSE [core EXCEPT ![i] = t]
  BY Zenon DEF AddTrack
<1>2. core \in Seq(Carried) /\ Len(core) \in Nat /\ Len(core) <= MaxTr /\ t \in Carried
      /\ MaxTr \in Nat
  BY Zenon, CoreLen, BoundAssumption DEF Carried
<1>3. CASE free = {}
  <2>1. i = Len(core) + 1 /\ i \in Ids /\ core' = Append(core, t)
    BY <1>1, <1>2, <1>3 DEF Ids
  <2>2. /\ core' \in Seq(Carried) /\ Len(core') = Len(core) + 1 /\ core'[Len(core) + 1] = t
        /\ \A j \in 1..Len(core) : core'[j] = core[j]
    BY <1>2, <2>1, Added
  <2> HIDE DEF free
  <2>3. /\ i \in 1..Len(core') /\ core'[i] = t /\ i \notin 1..Len(core)
        /\ \A j \in 1..Len(core') : j # i => j \in 1..Len(core)
    BY <1>2, <2>1, <2>2
  <2>4. Len(core') \in Nat /\ Len(core) <= Len(core') /\ Len(core') <= MaxTr
    BY <1>1, <1>2, <2>1, <2>2
  <2>5. QED
    BY Zenon, <1>1, <2>1, <2>2, <2>3, <2>4
<1>4. CASE free # {}
  <2>3. i \in 1..Len(core) /\ core[i] = None
    BY Zenon, <1>1, <1>4
  <2>4. core' = [core EXCEPT ![i] = t] /\ i \in Ids
    BY <1>1, <1>2, <1>4, <2>3 DEF Ids
  <2>5. /\ core' \in Seq(Carried) /\ Len(core') = Len(core) /\ core'[i] = t
        /\ \A j \in 1..Len(core) : j # i => core'[j] = core[j]
    BY <1>2, <2>3, <2>4, Stored
  <2>6. QED
    BY SMTT(30), <1>1, <1>2, <2>3, <2>4, <2>5
<1>5. QED
  BY Zenon, <1>3, <1>4

LEMMA AddTrackTypes ==
  ASSUME TypeInv, NEW th \in Thread, NEW t \in Track, AddTrack(th, t)
  PROVE  TypeInv'
<1>1. PICK i \in Ids :
         /\ Begin(th, "add", i, t)
         /\ core' \in Seq(Carried) /\ Len(core') \in Nat /\ Len(core) <= Len(core')
         /\ Len(core') <= MaxTr /\ i \in 1..Len(core')
  BY Zenon, AddTrackCore
<1>2. i \in 0..MaxTr /\ t \in Carried
  BY DEF Ids, Carried
<1>3. /\ call' \in [Thread -> Calls] /\ calls' \in 0..MaxCalls
      /\ call'[th].op = "add" /\ call'[th].id = i
      /\ call'[th].todo = {} /\ call'[th].got = {}
      /\ \A x \in Thread \ {th} : SameCall(x)
  BY Zenon, <1>1, <1>2, BeginCalls
<1>4. /\ twice' \subseteq Track /\ sure' \subseteq Track \X (1..MaxRtp)
      /\ UNCHANGED <<closed, objs, table, lock, ctx, evtTx, senders, writeVars>>
  BY Zenon DEF AddTrack, TypeInv, TypeOK
<1>5. QED
  BY <1>1, <1>3, <1>4, CoreTypes

LEMMA AddTransceiverTypes ==
  ASSUME TypeInv, NEW th \in Thread, NEW t \in {Own, None}, AddTransceiver(th, t)
  PROVE  TypeInv'
<1>1. /\ Len(core) < MaxTr /\ Begin(th, "add", Len(core) + 1, t) /\ core' = Append(core, t)
      /\ UNCHANGED <<closed, objs, table, lock, ctx, evtTx, senders, twice, writeVars, sure>>
  BY Zenon DEF AddTransceiver
<1>2. core \in Seq(Carried) /\ Len(core) \in Nat /\ t \in Carried /\ MaxTr \in Nat
  BY Zenon, CoreLen, BoundAssumption DEF Carried
<1>3. core' \in Seq(Carried) /\ Len(core') = Len(core) + 1
  BY Zenon, <1>1, <1>2, Added
<1>4. Len(core) + 1 \in 0..MaxTr /\ Len(core') <= MaxTr /\ Len(core) <= Len(core')
      /\ Len(core') \in Nat
  BY <1>1, <1>2, <1>3
<1>5. /\ call' \in [Thread -> Calls] /\ calls' \in 0..MaxCalls
      /\ call'[th].op = "add" /\ call'[th].id = Len(core) + 1
      /\ call'[th].todo = {} /\ call'[th].got = {}
      /\ \A x \in Thread \ {th} : SameCall(x)
  BY Zenon, <1>1, <1>2, <1>4, BeginCalls
<1>6. twice' \subseteq Track /\ sure' \subseteq Track \X (1..MaxRtp)
  BY Zenon, <1>1 DEF TypeInv, TypeOK
<1>7. QED
  BY <1>1, <1>2, <1>3, <1>4, <1>5, <1>6, CoreTypes

LEMMA RemoteTransceiverTypes == ASSUME TypeInv, RemoteTransceiver PROVE TypeInv'
<1>1. /\ Len(core) < MaxTr /\ core' = Append(core, None)
      /\ UNCHANGED <<closed, objs, table, lock, ctx, evtTx, apiVars, writeVars, sure>>
  BY Zenon DEF RemoteTransceiver
<1>2. core \in Seq(Carried) /\ Len(core) \in Nat /\ None \in Carried /\ MaxTr \in Nat
  BY Zenon, CoreLen, BoundAssumption DEF Carried
<1>3. core' \in Seq(Carried) /\ Len(core') = Len(core) + 1
  BY Zenon, <1>1, <1>2, Added
<1>4. Len(core') <= MaxTr /\ Len(core) <= Len(core') /\ Len(core') \in Nat
  BY <1>1, <1>2, <1>3
<1>5. /\ call' \in [Thread -> Calls] /\ calls' \in 0..MaxCalls /\ twice' \subseteq Track
      /\ sure' \subseteq Track \X (1..MaxRtp) /\ UNCHANGED senders
      /\ \A x \in Thread : SameCall(x)
  BY Zenon, <1>1 DEF TypeInv, TypeOK, apiVars, SameCall
<1>6. QED
  BY Zenon, <1>1, <1>3, <1>4, <1>5, CoreTypes

LEMMA RemoveTrackTypes ==
  ASSUME TypeInv, NEW th \in Thread, NEW s \in senders, RemoveTrack(th, s)
  PROVE  TypeInv' /\ s[1] \in 1..Len(core) /\ s[2] \in Carried
<1>1. /\ Begin(th, "remove", s[1], s[2]) /\ core' = [core EXCEPT ![s[1]] = None]
      /\ sure' \subseteq sure
      /\ UNCHANGED <<closed, objs, table, lock, ctx, evtTx, senders, twice, writeVars>>
  BY Zenon DEF RemoveTrack
<1>2. core \in Seq(Carried) /\ Len(core) \in Nat /\ Len(core) <= MaxTr /\ None \in Carried
      /\ MaxTr \in Nat
  BY Zenon, CoreLen, BoundAssumption DEF Carried
<1>3. s \in Ids \X (Track \cup {Own}) /\ s[1] <= Len(core)
  BY Zenon DEF TypeInv, TypeOK
<1>4. s[1] \in 1..Len(core) /\ s[1] \in 0..MaxTr /\ s[2] \in Carried /\ s[1] # 0
  BY <1>2, <1>3 DEF Ids, Carried
<1>5. core' \in Seq(Carried) /\ Len(core') = Len(core)
  BY <1>1, <1>2, <1>4, Stored
<1>6. /\ call' \in [Thread -> Calls] /\ calls' \in 0..MaxCalls
      /\ call'[th].op = "remove" /\ call'[th].id = s[1]
      /\ call'[th].todo = {} /\ call'[th].got = {}
      /\ \A x \in Thread \ {th} : SameCall(x)
  BY <1>1, <1>4, BeginCalls
<1>7. twice' \subseteq Track /\ sure' \subseteq Track \X (1..MaxRtp)
  BY Zenon, <1>1 DEF TypeInv, TypeOK
<1>8. TypeInv'
  BY <1>1, <1>2, <1>4, <1>5, <1>6, <1>7, CoreTypes
<1>9. QED
  BY Zenon, <1>4, <1>8

LEMMA GetSendersTypes == ASSUME TypeInv, NEW th \in Thread, GetSenders(th) PROVE TypeInv'
<1>1. /\ Begin(th, "get", Len(core), None)
      /\ UNCHANGED <<core, closed, objs, table, lock, ctx, evtTx, senders, twice, writeVars,
                     sure>>
  BY Zenon DEF GetSenders
<1>2. core \in Seq(Carried) /\ Len(core) \in Nat /\ Len(core) <= MaxTr /\ MaxTr \in Nat
      /\ None \in Carried
  BY Zenon, CoreLen, BoundAssumption DEF Carried
<1>3. Len(core) \in 0..MaxTr
  BY <1>2
<1>4. /\ call' \in [Thread -> Calls] /\ calls' \in 0..MaxCalls
      /\ call'[th].op = "get" /\ call'[th].id = Len(core)
      /\ call'[th].todo = {} /\ call'[th].got = {}
      /\ \A x \in Thread \ {th} : SameCall(x)
  BY Zenon, <1>1, <1>2, <1>3, BeginCalls
<1>5. twice' \subseteq Track /\ sure' \subseteq Track \X (1..MaxRtp)
  BY Zenon, <1>1 DEF TypeInv, TypeOK
<1>6. Len(core') = Len(core) /\ Len(core) <= Len(core') /\ call'[th].id \in 0..Len(core')
      /\ call'[th].op \notin Changes
  BY <1>1, <1>2, <1>4 DEF Changes
<1>7. QED
  BY Zenon, <1>1, <1>2, <1>4, <1>5, <1>6, CoreTypes

\* entry(id).or_insert_with: an object without a sender, if there was none.
LEMMA OrInsertTypes ==
  ASSUME TypeInv, NEW i \in Ids, i <= Len(core), OrInsert(i)
  PROVE  /\ objs' \in [Ids -> Seq(Carried)] /\ table' \in [Ids -> 0..MaxObjs]
         /\ \A j \in Ids : /\ table'[j] <= Len(objs'[j]) /\ Len(objs'[j]) <= MaxObjs
                           /\ table'[j] # 0 => j <= Len(core)
                           /\ Len(objs[j]) <= Len(objs'[j])
         /\ table'[i] # 0 /\ objs'[i][table'[i]] = SenderOf(i)
         /\ table[i] # 0 => table'[i] = table[i]
         /\ \A j \in Ids \ {i} : table'[j] = table[j] /\ objs'[j] = objs[j]
<1>1. /\ objs \in [Ids -> Seq(Carried)] /\ table \in [Ids -> 0..MaxObjs]
      /\ \A j \in Ids : /\ table[j] <= Len(objs[j]) /\ Len(objs[j]) <= MaxObjs
                        /\ table[j] # 0 => j <= Len(core)
      /\ MaxObjs \in Nat
  BY Zenon, BoundAssumption DEF TypeInv, TypeOK, Carried
<1>2. CASE table[i] # 0
  <2>1. objs' = objs /\ table' = table
    BY Zenon, <1>2 DEF OrInsert
  <2>2. \A j \in Ids : Len(objs[j]) \in Nat
    BY Zenon, <1>1, Lengths
  <2>3. QED
    BY <1>1, <1>2, <2>1, <2>2 DEF SenderOf
<1>3. CASE table[i] = 0
  <2>1. /\ Len(objs[i]) < MaxObjs /\ objs' = [objs EXCEPT ![i] = Append(objs[i], None)]
        /\ table' = [table EXCEPT ![i] = Len(objs[i]) + 1]
    BY Zenon, <1>3 DEF OrInsert
  <2>2. objs[i] \in Seq(Carried) /\ None \in Carried /\ \A j \in Ids : Len(objs[j]) \in Nat
    BY Zenon, <1>1, Lengths DEF Carried
  <2> DEFINE q == Append(objs[i], None)
  <2>3. /\ q \in Seq(Carried) /\ Len(q) = Len(objs[i]) + 1 /\ Len(objs[i]) \in Nat
        /\ q[Len(objs[i]) + 1] = None
    BY <2>2, Added
  <2> HIDE DEF q
  <2>4. /\ objs' = [objs EXCEPT ![i] = q] /\ objs'[i] = q
        /\ objs' \in [Ids -> Seq(Carried)]
    BY Zenon, <1>1, <2>1, <2>3 DEF q
  <2>5. table'[i] = Len(objs[i]) + 1 /\ table' \in [Ids -> 0..MaxObjs]
    BY <1>1, <2>1, <2>3
  <2>6. \A j \in Ids \ {i} : table'[j] = table[j] /\ objs'[j] = objs[j]
    BY Zenon, <1>1, <2>1, <2>4
  <2>7. SenderOf(i) = None
    BY Zenon, <1>3 DEF SenderOf
  <2>8. \A j \in Ids : /\ table'[j] <= Len(objs'[j]) /\ Len(objs'[j]) <= MaxObjs
                       /\ table'[j] # 0 => j <= Len(core)
                       /\ Len(objs[j]) <= Len(objs'[j])
    BY <1>1, <2>1, <2>2, <2>3, <2>4, <2>5, <2>6
  <2>9. table'[i] # 0 /\ objs'[i][table'[i]] = SenderOf(i)
    BY <2>3, <2>4, <2>5, <2>7
  <2>10. QED
    BY Zenon, <1>3, <2>4, <2>5, <2>6, <2>8, <2>9
<1>4. QED
  BY Zenon, <1>2, <1>3

\* The steps of the calls under the rtp_transceivers lock, which leave the core
\* as it is: objects and bindings within bounds.
LEMMA TableTypes ==
  ASSUME TypeInv, objs' \in [Ids -> Seq(Carried)], table' \in [Ids -> 0..MaxObjs],
         \A j \in Ids : /\ table'[j] <= Len(objs'[j]) /\ Len(objs'[j]) <= MaxObjs
                        /\ table'[j] # 0 => j <= Len(core)
                        /\ Len(objs[j]) <= Len(objs'[j]),
         lock' \in Thread \cup {None}, ctx' \in [Track -> 0..Len(core)],
         evtTx' \subseteq Track,
         senders' \subseteq Ids \X (Track \cup {Own}), \A s \in senders' : s[1] <= Len(core),
         call' \in [Thread -> Calls],
         UNCHANGED <<core, closed, calls, twice, writeVars, sure>>,
         \A x \in Thread : CallOK(x)'
  PROVE  TypeInv'
<1>1. TypeOK'
  BY Zenon DEF TypeInv, TypeOK, writeVars, Carried
<1>2. QED
  BY Zenon, <1>1 DEF TypeInv

\* What a call in progress has, when it is not the one that moves.
LEMMA CallKept ==
  ASSUME TypeInv, NEW x \in Thread, SameCall(x),
         \A j \in Ids : Len(objs[j]) <= Len(objs'[j]) /\ Len(objs'[j]) \in Nat,
         UNCHANGED core,
         call[x].op = "bind" => lock' = x /\ table'[call[x].id] # 0
  PROVE  CallOK(x)'
<1>1. /\ call[x].id <= Len(core)
      /\ call[x].op \in Changes => call[x].id # 0
      /\ call[x].op = "bind" => call[x].track # None
      /\ \A s \in call[x].got : s[1] <= Len(core)
  BY Zenon DEF TypeInv, CallOK
<1>2. ASSUME NEW o \in call[x].todo PROVE o[1] <= Len(core) /\ o[2] <= Len(objs'[o[1]])
  <2>1. o[1] \in Ids /\ o[1] <= Len(core) /\ o[2] \in Nat /\ o[2] <= Len(objs[o[1]])
    BY DEF TypeInv, CallOK, TypeOK, Calls
  <2>2. Len(objs[o[1]]) \in Nat
    BY ZenonT(40), <2>1, Lengths DEF TypeInv, TypeOK
  <2>3. QED
    BY <2>1, <2>2
<1>3. QED
  BY Zenon, <1>1, <1>2 DEF SameCall, CallOK

\* No call is binding while the lock is free.
LEMMA FreeLock == TypeInv /\ lock = None => \A x \in Thread : call[x].op # "bind"
BY Zenon, ValueAssumption DEF TypeInv, CallOK

\* set_sender, up to get_parameters.
LEMMA TakeSenderTypes ==
  ASSUME TypeInv, NEW old, TakeSender(old)
  PROVE  ctx' \in [Track -> 0..Len(core)] /\ evtTx' \subseteq Track
<1>1. ctx \in [Track -> 0..Len(core)] /\ evtTx \subseteq Track /\ 0 \in 0..Len(core)
  <2>1. ctx \in [Track -> 0..Len(core)] /\ evtTx \subseteq Track /\ Len(core) \in Nat
    BY Zenon, CoreLen DEF TypeInv, TypeOK
  <2>2. 0 \in 0..Len(core)
    BY <2>1
  <2>3. QED
    BY Zenon, <2>1, <2>2
<1>2. QED
  BY Zenon, <1>1 DEF TakeSender

\* A call that returns.
LEMMA ReturnCalls ==
  ASSUME TypeInv, NEW th \in Thread, Return(th)
  PROVE  /\ call' \in [Thread -> Calls] /\ call'[th] = Idle
         /\ \A x \in Thread \ {th} : SameCall(x)
         /\ Idle.op = "idle" /\ Idle.id = 0 /\ Idle.todo = {} /\ Idle.got = {}
<1>1. call \in [Thread -> Calls]
  BY Zenon DEF TypeInv, TypeOK
<1>2. QED
  BY Zenon, <1>1, IdleCall DEF Return, SameCall, Idle

LEMMA AddLockTypes == ASSUME TypeInv, NEW th \in Thread, AddLock(th) PROVE TypeInv'
<1> DEFINE c == call[th]
<1>1. /\ c.op = "add" /\ lock = None /\ OrInsert(c.id)
      /\ UNCHANGED <<core, closed, calls, senders, twice, writeVars, sure>>
  BY Zenon DEF AddLock
<1>2. c \in Calls /\ c.id \in Ids /\ c.id <= Len(core) /\ c.todo \subseteq Ids \X (1..MaxObjs)
  BY <1>1 DEF TypeInv, CallOK, TypeOK, Calls, Changes, Ids
<1>3. /\ objs' \in [Ids -> Seq(Carried)] /\ table' \in [Ids -> 0..MaxObjs]
      /\ \A j \in Ids : /\ table'[j] <= Len(objs'[j]) /\ Len(objs'[j]) <= MaxObjs
                        /\ table'[j] # 0 => j <= Len(core)
                        /\ Len(objs[j]) <= Len(objs'[j])
      /\ table'[c.id] # 0
  BY Zenon, <1>1, <1>2, OrInsertTypes
<1>4. \A j \in Ids : Len(objs'[j]) \in Nat
  BY Zenon, <1>3, Lengths
<1>5. /\ senders' \subseteq Ids \X (Track \cup {Own}) /\ \A s \in senders' : s[1] <= Len(core)
  BY Zenon, <1>1 DEF TypeInv, TypeOK
<1>6. \A x \in Thread : call[x].op # "bind"
  BY Zenon, <1>1, FreeLock
<1>7. CASE c.track = None
  <2>1. Return(th) /\ UNCHANGED <<lock, ctx, evtTx>>
    BY Zenon, <1>7 DEF AddLock
  <2>2. /\ call' \in [Thread -> Calls] /\ call'[th] = Idle
        /\ \A x \in Thread \ {th} : SameCall(x)
        /\ Idle.op = "idle" /\ Idle.id = 0 /\ Idle.todo = {} /\ Idle.got = {}
    BY Zenon, <2>1, ReturnCalls
  <2>3. \A x \in Thread : CallOK(x)'
    <3>1. \A x \in Thread \ {th} : CallOK(x)'
      BY Zenon, <1>1, <1>3, <1>4, <1>6, <2>2, CallKept
    <3>2. CallOK(th)'
      BY <1>1, <2>2, CoreLen DEF CallOK, Changes
    <3>3. QED
      BY Zenon, <3>1, <3>2
  <2>4. /\ lock' \in Thread \cup {None} /\ ctx' \in [Track -> 0..Len(core)]
        /\ evtTx' \subseteq Track
    BY Zenon, <2>1 DEF TypeInv, TypeOK
  <2>5. QED
    BY Zenon, <1>1, <1>3, <1>5, <2>2, <2>3, <2>4, TableTypes
<1>8. CASE c.track # None
  <2>1. /\ lock' = th /\ call' = [call EXCEPT ![th].op = "bind"]
        /\ TakeSender(SenderOf(c.id))
    BY Zenon, <1>8 DEF AddLock
  <2>2. ctx' \in [Track -> 0..Len(core)] /\ evtTx' \subseteq Track
    BY Zenon, <2>1, TakeSenderTypes
  <2>3. /\ call' \in [Thread -> Calls] /\ \A x \in Thread \ {th} : SameCall(x)
        /\ call'[th].op = "bind" /\ call'[th].id = c.id /\ call'[th].track = c.track
        /\ call'[th].todo = c.todo /\ call'[th].got = c.got
    <3>1. call \in [Thread -> Calls]
      BY Zenon DEF TypeInv, TypeOK
    <3>2. call' = [call EXCEPT ![th] = [call[th] EXCEPT !.op = "bind"]]
      BY Zenon, <2>1
    <3>3. [call[th] EXCEPT !.op = "bind"] \in Calls
      BY <3>1 DEF Calls
    <3>4. QED
      BY Zenon, <3>1, <3>2, <3>3 DEF Calls, SameCall
  <2>4. \A s \in c.got : s[1] <= Len(core)
    BY Zenon DEF TypeInv, CallOK
  <2>5. ASSUME NEW o \in c.todo PROVE o[1] <= Len(core) /\ o[2] <= Len(objs'[o[1]])
    <3>1. o[1] \in Ids /\ o[1] <= Len(core) /\ o[2] \in Nat /\ o[2] <= Len(objs[o[1]])
      BY <1>2 DEF TypeInv, CallOK
    <3>2. Len(objs[o[1]]) \in Nat
      BY ZenonT(40), <3>1, Lengths DEF TypeInv, TypeOK
    <3>3. QED
      BY <1>3, <1>4, <3>1, <3>2
  <2>6. \A x \in Thread : CallOK(x)'
    <3>1. ASSUME NEW x \in Thread \ {th}
          PROVE  CallOK(x)'
      BY Zenon, <1>1, <1>3, <1>4, <1>6, <2>3, CallKept
    <3>2. CallOK(th)'
      BY <1>1, <1>2, <1>3, <1>8, <2>1, <2>3, <2>4, <2>5 DEF CallOK, Ids
    <3>3. QED
      BY Zenon, <3>1, <3>2
  <2>7. QED
    BY Zenon, <1>1, <1>3, <1>5, <2>1, <2>2, <2>3, <2>6, TableTypes
<1>9. QED
  BY Zenon, <1>7, <1>8

\* The end of set_sender: the object's sender.
LEMMA SetSenderTypes ==
  ASSUME TypeInv, NEW i \in Ids, table[i] # 0, NEW v \in Carried,
         objs' = [objs EXCEPT ![i][table[i]] = v], UNCHANGED table
  PROVE  /\ objs' \in [Ids -> Seq(Carried)] /\ table' \in [Ids -> 0..MaxObjs]
         /\ \A j \in Ids : /\ table'[j] <= Len(objs'[j]) /\ Len(objs'[j]) <= MaxObjs
                           /\ table'[j] # 0 => j <= Len(core)
                           /\ Len(objs[j]) <= Len(objs'[j]) /\ Len(objs'[j]) \in Nat
         /\ objs'[i][table[i]] = v
         /\ \A j \in Ids \ {i} : objs'[j] = objs[j]
<1>1. /\ objs \in [Ids -> Seq(Carried)] /\ table \in [Ids -> 0..MaxObjs]
      /\ \A j \in Ids : /\ table[j] <= Len(objs[j]) /\ Len(objs[j]) <= MaxObjs
                        /\ table[j] # 0 => j <= Len(core)
  BY Zenon DEF TypeInv, TypeOK, Carried
<1>2. objs[i] \in Seq(Carried) /\ \A j \in Ids : Len(objs[j]) \in Nat
  BY Zenon, <1>1, Lengths
<1>3. table[i] \in 1..Len(objs[i])
  BY <1>1, <1>2
<1> DEFINE q == [objs[i] EXCEPT ![table[i]] = v]
<1>4. q \in Seq(Carried) /\ Len(q) = Len(objs[i]) /\ q[table[i]] = v
  BY <1>2, <1>3, Stored
<1>5. objs' = [objs EXCEPT ![i] = q]
  BY Zenon
<1> HIDE DEF q
<1>6. objs'[i] = q /\ \A j \in Ids \ {i} : objs'[j] = objs[j]
  BY Zenon, <1>1, <1>5
<1>7. objs' \in [Ids -> Seq(Carried)]
  BY Zenon, <1>1, <1>4, <1>5
<1>8. \A j \in Ids : Len(objs'[j]) = Len(objs[j])
  BY ZenonT(40), <1>4, <1>6
<1>9. QED
  BY <1>1, <1>2, <1>4, <1>6, <1>7, <1>8

LEMMA AddBindTypes == ASSUME TypeInv, NEW th \in Thread, AddBind(th) PROVE TypeInv'
<1> DEFINE c == call[th]
           v == IF core[c.id] = None THEN None ELSE c.track
<1>1. /\ c.op = "bind" /\ lock' = None /\ objs' = [objs EXCEPT ![c.id][table[c.id]] = v]
      /\ evtTx' = IF core[c.id] # None /\ c.track \in Track THEN evtTx \cup {c.track} ELSE evtTx
      /\ ctx' = [t \in Track |-> IF core[c.id] # None /\ t = c.track THEN c.id ELSE ctx[t]]
      /\ senders' = IF c.track \in Track THEN senders \cup {<<c.id, c.track>>} ELSE senders
      /\ Return(th)
      /\ UNCHANGED <<core, closed, table, calls, twice, writeVars, sure>>
  BY ZenonT(40) DEF AddBind
<1>2. /\ c.id \in Ids /\ c.id <= Len(core) /\ c.id \in 0..Len(core) /\ table[c.id] # 0
      /\ v \in Carried /\ lock = th
  BY SMTT(30), <1>1, CoreLen DEF TypeInv, CallOK, TypeOK, Calls, Changes, Ids, Carried
<1> HIDE DEF v
<1>3. /\ objs' \in [Ids -> Seq(Carried)] /\ table' \in [Ids -> 0..MaxObjs]
      /\ \A j \in Ids : /\ table'[j] <= Len(objs'[j]) /\ Len(objs'[j]) <= MaxObjs
                        /\ table'[j] # 0 => j <= Len(core)
                        /\ Len(objs[j]) <= Len(objs'[j]) /\ Len(objs'[j]) \in Nat
  BY Zenon, <1>1, <1>2, SetSenderTypes
<1>4. /\ call' \in [Thread -> Calls] /\ call'[th] = Idle
      /\ \A x \in Thread \ {th} : SameCall(x)
      /\ Idle.op = "idle" /\ Idle.id = 0 /\ Idle.todo = {} /\ Idle.got = {}
  BY Zenon, <1>1, ReturnCalls
<1>5. \A x \in Thread \ {th} : call[x].op # "bind"
  BY Zenon, <1>2 DEF TypeInv, CallOK
<1>6. \A x \in Thread : CallOK(x)'
  <2>1. \A x \in Thread \ {th} : CallOK(x)'
    BY ZenonT(40), <1>1, <1>3, <1>4, <1>5, CallKept
  <2>2. CallOK(th)'
    BY <1>1, <1>4, CoreLen DEF CallOK, Changes
  <2>3. QED
    BY Zenon, <2>1, <2>2
<1>7. lock' \in Thread \cup {None} /\ evtTx' \subseteq Track /\ ctx' \in [Track -> 0..Len(core)]
  BY ZenonT(40), <1>1, <1>2 DEF TypeInv, TypeOK
<1>8. /\ senders' \subseteq Ids \X (Track \cup {Own})
      /\ \A s \in senders' : s[1] <= Len(core)
  BY SMTT(30), <1>1, <1>2 DEF TypeInv, TypeOK
<1>9. QED
  BY ZenonT(40), <1>1, <1>3, <1>4, <1>6, <1>7, <1>8, TableTypes

LEMMA RemoveLockTypes == ASSUME TypeInv, NEW th \in Thread, RemoveLock(th) PROVE TypeInv'
<1> DEFINE c == call[th]
<1>1. /\ c.op = "remove" /\ lock = None /\ Return(th)
      /\ UNCHANGED <<core, closed, table, lock, calls, senders, twice, writeVars, sure>>
  BY Zenon DEF RemoveLock
<1>2. c.id \in Ids /\ None \in Carried
  BY <1>1 DEF TypeInv, CallOK, TypeOK, Calls, Changes, Ids, Carried
<1>3. /\ objs' \in [Ids -> Seq(Carried)] /\ table' \in [Ids -> 0..MaxObjs]
      /\ \A j \in Ids : /\ table'[j] <= Len(objs'[j]) /\ Len(objs'[j]) <= MaxObjs
                        /\ table'[j] # 0 => j <= Len(core)
                        /\ Len(objs[j]) <= Len(objs'[j]) /\ Len(objs'[j]) \in Nat
      /\ ctx' \in [Track -> 0..Len(core)] /\ evtTx' \subseteq Track
  <2>1. CASE table[c.id] = 0
    <3>1. UNCHANGED <<objs, ctx, evtTx>>
      BY Zenon, <2>1 DEF RemoveLock
    <3>2. \A j \in Ids : Len(objs[j]) \in Nat
      BY ZenonT(40), Lengths DEF TypeInv, TypeOK
    <3>3. QED
      BY <1>1, <3>1, <3>2 DEF TypeInv, TypeOK, Carried
  <2>2. CASE table[c.id] # 0
    <3>1. TakeSender(SenderOf(c.id)) /\ objs' = [objs EXCEPT ![c.id][table[c.id]] = None]
      BY Zenon, <2>2 DEF RemoveLock
    <3>2. QED
      BY Zenon, <1>1, <1>2, <2>2, <3>1, SetSenderTypes, TakeSenderTypes
  <2>3. QED
    BY Zenon, <2>1, <2>2
<1>4. /\ call' \in [Thread -> Calls] /\ call'[th] = Idle
      /\ \A x \in Thread \ {th} : SameCall(x)
      /\ Idle.op = "idle" /\ Idle.id = 0 /\ Idle.todo = {} /\ Idle.got = {}
  BY Zenon, <1>1, ReturnCalls
<1>5. \A x \in Thread : call[x].op # "bind"
  BY Zenon, <1>1, FreeLock
<1>6. \A x \in Thread : CallOK(x)'
  <2>1. \A x \in Thread \ {th} : CallOK(x)'
    BY Zenon, <1>1, <1>3, <1>4, <1>5, CallKept
  <2>2. CallOK(th)'
    BY <1>1, <1>4, CoreLen DEF CallOK, Changes
  <2>3. QED
    BY Zenon, <2>1, <2>2
<1>7. /\ lock' \in Thread \cup {None} /\ senders' \subseteq Ids \X (Track \cup {Own})
      /\ \A s \in senders' : s[1] <= Len(core)
  BY ZenonT(40), <1>1 DEF TypeInv, TypeOK
<1>8. QED
  BY Zenon, <1>1, <1>3, <1>4, <1>6, <1>7, TableTypes
LEMMA GetLockTypes ==
  ASSUME TypeInv, NEW th \in Thread, GetLock(th)
  PROVE  /\ TypeInv'
         /\ call'[th].op = "visit" /\ call'[th].id = call[th].id
         /\ call'[th].todo = {<<i, table'[i]>> : i \in 1..call[th].id}
         /\ call'[th].got = call[th].got /\ call'[th].track = call[th].track
         /\ \A x \in Thread \ {th} : SameCall(x)
         /\ \A i \in 1..call[th].id :
               /\ table'[i] # 0
               /\ table[i] # 0 => table'[i] = table[i] /\ objs'[i] = objs[i]
               /\ table[i] = 0 => objs'[i][table'[i]] = None
<1> DEFINE n == call[th].id
           new == {i \in 1..n : table[i] = 0}
<1>1. /\ call[th].op = "get" /\ lock = None /\ \A i \in new : Len(objs[i]) < MaxObjs
      /\ objs' = [i \in Ids |-> IF i \in new THEN Append(objs[i], None) ELSE objs[i]]
      /\ table' = [i \in Ids |-> IF i \in new THEN Len(objs[i]) + 1
                                ELSE IF i <= n THEN table[i] ELSE 0]
      /\ call' = [call EXCEPT ![th].op = "visit", ![th].todo = {<<i, table'[i]>> : i \in 1..n}]
      /\ UNCHANGED <<core, closed, lock, ctx, evtTx, calls, senders, twice, writeVars, sure>>
  BY Zenon DEF GetLock
<1>2. /\ call \in [Thread -> Calls] /\ call[th] \in Calls /\ n \in 0..MaxTr /\ n \in Nat
      /\ n <= Len(core) /\ \A s \in call[th].got : s[1] <= Len(core)
  BY SMTT(30), BoundAssumption DEF TypeInv, CallOK, TypeOK, Calls
<1>3. /\ objs \in [Ids -> Seq(Carried)] /\ table \in [Ids -> 0..MaxObjs] /\ MaxObjs \in Nat
      /\ \A j \in Ids : /\ table[j] <= Len(objs[j]) /\ Len(objs[j]) <= MaxObjs
                        /\ table[j] # 0 => j <= Len(core)
      /\ \A j \in Ids : Len(objs[j]) \in Nat
  BY Zenon, BoundAssumption, Lengths DEF TypeInv, TypeOK, Carried
<1>4. new \subseteq Ids /\ (\A i \in new : table[i] = 0 /\ i <= n) /\ 1..n \subseteq Ids
      /\ \A i \in 1..n : i \notin new => table[i] # 0
  BY SMTT(30), <1>2, BoundAssumption DEF Ids
<1>5. \A i \in Ids : /\ Append(objs[i], None) \in Seq(Carried)
                     /\ Len(Append(objs[i], None)) = Len(objs[i]) + 1
                     /\ Append(objs[i], None)[Len(objs[i]) + 1] = None
  BY <1>3, Added DEF Carried
<1> HIDE DEF new, n
<1>6. \A i \in Ids :
         /\ i \in new => objs'[i] = Append(objs[i], None) /\ table'[i] = Len(objs[i]) + 1
         /\ i \notin new => objs'[i] = objs[i] /\ (i <= n => table'[i] = table[i])
                                               /\ (~(i <= n) => table'[i] = 0)
  BY Zenon, <1>1
<1>7. /\ objs' \in [Ids -> Seq(Carried)] /\ table' \in [Ids -> 0..MaxObjs]
  <2>1. \A i \in Ids : (IF i \in new THEN Append(objs[i], None) ELSE objs[i]) \in Seq(Carried)
    BY Zenon, <1>3, <1>5
  <2>2. \A i \in Ids : (IF i \in new THEN Len(objs[i]) + 1
                                ELSE IF i <= n THEN table[i] ELSE 0) \in 0..MaxObjs
    BY <1>1, <1>3
  <2>3. QED
    BY Zenon, <1>1, <2>1, <2>2
<1>8. \A j \in Ids : /\ table'[j] <= Len(objs'[j]) /\ Len(objs'[j]) <= MaxObjs
                     /\ table'[j] # 0 => j <= Len(core)
                     /\ Len(objs[j]) <= Len(objs'[j]) /\ Len(objs'[j]) \in Nat
  <2> SUFFICES ASSUME NEW j \in Ids
               PROVE  /\ table'[j] <= Len(objs'[j]) /\ Len(objs'[j]) <= MaxObjs
                      /\ table'[j] # 0 => j <= Len(core)
                      /\ Len(objs[j]) <= Len(objs'[j]) /\ Len(objs'[j]) \in Nat
    BY Zenon
  <2>1. CASE j \in new
    <3>1. j <= Len(core)
      BY <1>2, <1>4, <2>1, CoreLen DEF Ids
    <3>2. QED
      BY SMTT(30), <1>1, <1>3, <1>5, <1>6, <2>1, <3>1
  <2>2. CASE j \notin new
    BY <1>3, <1>6, <2>2
  <2>3. QED
    BY Zenon, <2>1, <2>2
<1>9. \A i \in 1..n : /\ table'[i] \in 1..MaxObjs
                      /\ table[i] # 0 => table'[i] = table[i] /\ objs'[i] = objs[i]
                      /\ table[i] = 0 => objs'[i][table'[i]] = None
  <2> SUFFICES ASSUME NEW i \in 1..n
               PROVE  /\ table'[i] \in 1..MaxObjs
                      /\ table[i] # 0 => table'[i] = table[i] /\ objs'[i] = objs[i]
                      /\ table[i] = 0 => objs'[i][table'[i]] = None
    BY ZenonT(40)
  <2>1. i \in Ids /\ i <= n
    BY SMTT(30), <1>2, <1>4
  <2>2. CASE i \in new
    BY <1>1, <1>3, <1>4, <1>5, <1>6, <2>1, <2>2
  <2>3. CASE i \notin new
    BY <1>3, <1>4, <1>6, <2>1, <2>3
  <2>4. QED
    BY Zenon, <2>2, <2>3
<1> DEFINE todo == {<<i, table'[i]>> : i \in 1..n}
           c == [call[th] EXCEPT !.op = "visit", !.todo = todo]
<1>10. todo \subseteq Ids \X (1..MaxObjs)
  BY <1>4, <1>9
<1>11. \A o \in todo : o[1] <= Len(core) /\ o[2] <= Len(objs'[o[1]])
  BY <1>2, <1>4, <1>8, CoreLen
<1>12. call' = [call EXCEPT ![th] = c]
  BY Zenon, <1>1
<1> HIDE DEF todo
<1>13. /\ c \in Calls /\ c.op = "visit" /\ c.id = n /\ c.todo = todo /\ c.got = call[th].got
       /\ c.track = call[th].track
  BY ZenonT(40), <1>2, <1>10 DEF Calls, n
<1> HIDE DEF c
<1>14. call' \in [Thread -> Calls] /\ call'[th] = c /\ \A x \in Thread \ {th} : SameCall(x)
  BY ZenonT(40), <1>2, <1>12, <1>13 DEF SameCall
<1>15. \A x \in Thread : CallOK(x)'
  <2>1. \A x \in Thread \ {th} : CallOK(x)'
    BY <1>1, <1>8, <1>14, CallKept, FreeLock
  <2>2. CallOK(th)'
    BY ZenonT(40), <1>1, <1>2, <1>11, <1>13, <1>14 DEF CallOK, Changes
  <2>3. QED
    BY Zenon, <2>1, <2>2
<1>16. /\ lock' \in Thread \cup {None} /\ senders' \subseteq Ids \X (Track \cup {Own})
       /\ \A s \in senders' : s[1] <= Len(core)
       /\ ctx' \in [Track -> 0..Len(core)] /\ evtTx' \subseteq Track
  BY Zenon, <1>1 DEF TypeInv, TypeOK
<1>17. TypeInv'
  BY <1>1, <1>7, <1>8, <1>14, <1>15, <1>16, TableTypes
<1>18. QED
  BY <1>9, <1>13, <1>14, <1>17 DEF n, todo


LEMMA VisitTypes ==
  ASSUME TypeInv, NEW th \in Thread, NEW o \in Ids \X (1..MaxObjs), Visit(th, o)
  PROVE  /\ TypeInv'
         /\ call'[th].op = "visit" /\ call'[th].id = call[th].id
         /\ call'[th].todo = call[th].todo \ {o}
         /\ call'[th].got = IF objs[o[1]][o[2]] = None THEN call[th].got
                            ELSE call[th].got \cup {<<o[1], objs[o[1]][o[2]]>>}
         /\ \A x \in Thread \ {th} : SameCall(x)
<1> DEFINE sender == objs[o[1]][o[2]]
           todo == call[th].todo \ {o}
           got == IF sender = None THEN call[th].got ELSE call[th].got \cup {<<o[1], sender>>}
           c == [call[th] EXCEPT !.todo = todo, !.got = got]
<1>1. /\ call[th].op = "visit" /\ o \in call[th].todo
      /\ call' = [call EXCEPT ![th] = c]
      /\ UNCHANGED <<core, closed, objs, table, lock, ctx, evtTx, calls, senders, twice,
                     writeVars, sure>>
  BY Zenon DEF Visit
<1>2. /\ call \in [Thread -> Calls] /\ call[th] \in Calls
      /\ call[th].id <= Len(core) /\ \A s \in call[th].got : s[1] <= Len(core)
      /\ \A x \in call[th].todo : x[1] <= Len(core) /\ x[2] <= Len(objs[x[1]])
      /\ objs \in [Ids -> Seq(Carried)]
  BY Zenon DEF TypeInv, CallOK, TypeOK, Carried
<1>3. \A j \in Ids : Len(objs[j]) \in Nat
  BY Zenon, <1>2, Lengths
<1>4. o[1] \in Ids /\ o[2] \in 1..Len(objs[o[1]]) /\ o[1] <= Len(core)
  BY <1>1, <1>2, <1>3
<1>5. sender \in Carried
  BY <1>2, <1>4
<1> HIDE DEF sender
<1>6. /\ todo \in SUBSET (Ids \X (1..MaxObjs)) /\ got \in SUBSET (Ids \X (Track \cup {Own}))
      /\ \A s \in got : s[1] <= Len(core)
  BY <1>2, <1>4, <1>5 DEF Calls, Carried
<1>7. \A x \in todo : x[1] <= Len(core) /\ x[2] <= Len(objs[x[1]])
  BY Zenon, <1>2
<1> HIDE DEF todo, got
<1>8. c \in Calls /\ c.op = "visit" /\ c.id = call[th].id /\ c.todo = todo /\ c.got = got
  BY Zenon, <1>1, <1>2, <1>6 DEF Calls
<1> HIDE DEF c
<1>9. call' \in [Thread -> Calls] /\ call'[th] = c /\ \A x \in Thread \ {th} : SameCall(x)
  BY Zenon, <1>1, <1>2, <1>8 DEF SameCall
<1>10. \A x \in Thread : CallOK(x)'
  <2>1. ASSUME NEW x \in Thread \ {th} PROVE CallOK(x)'
    <3>1. call[x].op = "bind" => lock' = x /\ table'[call[x].id] # 0
      BY ZenonT(40), <1>1 DEF TypeInv, CallOK
    <3>2. \A j \in Ids : Len(objs[j]) <= Len(objs'[j]) /\ Len(objs'[j]) \in Nat
      BY SMTT(30), <1>1, <1>3
    <3>3. QED
      BY ZenonT(40), <1>1, <1>9, <3>1, <3>2, CallKept
  <2>2. CallOK(th)'
    BY <1>1, <1>2, <1>6, <1>7, <1>8, <1>9 DEF CallOK, Changes
  <2>3. QED
    BY Zenon, <2>1, <2>2
<1>11. TypeInv'
  <2>1. TypeOK'
    BY Zenon, <1>1, <1>9 DEF TypeInv, TypeOK, writeVars
  <2>2. \A s \in senders' : s[1] <= Len(core')
    BY Zenon, <1>1 DEF TypeInv
  <2>3. QED
    BY Zenon, <1>10, <2>1, <2>2 DEF TypeInv
<1>12. QED
  BY Zenon, <1>8, <1>9, <1>11 DEF todo, got, sender

LEMMA GetReturnTypes == ASSUME TypeInv, NEW th \in Thread, GetReturn(th) PROVE TypeInv'
<1>1. /\ senders' = senders \cup call[th].got /\ Return(th)
      /\ UNCHANGED <<core, closed, objs, table, lock, ctx, evtTx, calls, twice, writeVars, sure>>
      /\ call[th].op = "visit"
  BY Zenon DEF GetReturn
<1>2. /\ call[th].got \subseteq Ids \X (Track \cup {Own})
      /\ \A s \in call[th].got : s[1] <= Len(core)
  BY ZenonT(40) DEF TypeInv, CallOK, TypeOK, Calls
<1>3. /\ call' \in [Thread -> Calls] /\ call'[th] = Idle
      /\ \A x \in Thread \ {th} : SameCall(x)
      /\ Idle.op = "idle" /\ Idle.id = 0 /\ Idle.todo = {} /\ Idle.got = {}
  BY ZenonT(40), <1>1, ReturnCalls
<1>4. \A j \in Ids : Len(objs[j]) <= Len(objs'[j]) /\ Len(objs'[j]) \in Nat
  <2>1. \A j \in Ids : Len(objs[j]) \in Nat
    BY Zenon, Lengths DEF TypeInv, TypeOK
  <2>2. QED
    BY <1>1, <2>1
<1>5. \A x \in Thread : CallOK(x)'
  <2>1. ASSUME NEW x \in Thread \ {th} PROVE CallOK(x)'
    <3>1. call[x].op = "bind" => lock' = x /\ table'[call[x].id] # 0
      BY Zenon, <1>1 DEF TypeInv, CallOK
    <3>2. QED
      BY ZenonT(40), <1>1, <1>3, <1>4, <3>1, CallKept
  <2>2. CallOK(th)'
    BY <1>1, <1>3, CoreLen DEF CallOK, Changes
  <2>3. QED
    BY Zenon, <2>1, <2>2
<1>6. TypeOK'
  BY Zenon, <1>1, <1>2, <1>3 DEF TypeInv, TypeOK, writeVars
<1>7. \A s \in senders' : s[1] <= Len(core')
  BY Zenon, <1>1, <1>2 DEF TypeInv
<1>8. QED
  BY Zenon, <1>5, <1>6, <1>7 DEF TypeInv

LEMMA OnTrackTypes == ASSUME TypeInv, NEW i \in Ids, OnTrack(i) PROVE TypeInv'
<1>1. /\ i <= Len(core) /\ lock = None /\ OrInsert(i)
      /\ UNCHANGED <<core, closed, lock, ctx, evtTx, apiVars, writeVars, sure>>
  BY Zenon DEF OnTrack
<1>2. /\ objs' \in [Ids -> Seq(Carried)] /\ table' \in [Ids -> 0..MaxObjs]
      /\ \A j \in Ids : /\ table'[j] <= Len(objs'[j]) /\ Len(objs'[j]) <= MaxObjs
                        /\ table'[j] # 0 => j <= Len(core)
                        /\ Len(objs[j]) <= Len(objs'[j])
  BY Zenon, <1>1, OrInsertTypes
<1>3. \A j \in Ids : Len(objs'[j]) \in Nat
  BY Zenon, <1>2, Lengths
<1>4. /\ call' = call /\ calls' = calls /\ senders' = senders /\ twice' = twice
  BY Zenon, <1>1 DEF apiVars
<1>5. ASSUME NEW x \in Thread PROVE CallOK(x)'
  BY Zenon, <1>1, <1>2, <1>3, <1>4, CallKept, FreeLock DEF SameCall
<1>6. /\ call' \in [Thread -> Calls] /\ lock' \in Thread \cup {None}
      /\ senders' \subseteq Ids \X (Track \cup {Own})
      /\ \A s \in senders' : s[1] <= Len(core)
      /\ ctx' \in [Track -> 0..Len(core)] /\ evtTx' \subseteq Track
  BY Zenon, <1>1, <1>4 DEF TypeInv, TypeOK
<1>7. QED
  BY <1>1, <1>2, <1>4, <1>5, <1>6, TableTypes

\* The writers, the driver and close leave the calls and their records alone.
LEMMA WriteTypes ==
  ASSUME TypeInv, UNCHANGED <<core, objs, table, lock, ctx, evtTx, apiVars>>,
         closed' \in BOOLEAN, pend' \in [Track -> 0..Len(core)], seq' \in [Track -> 0..MaxRtp],
         queue' \in Seq(Ids \X Track \X (1..MaxRtp)), Len(queue') <= Cap,
         sent' \in [Track -> Seq(1..MaxRtp)], sure' \subseteq Track \X (1..MaxRtp)
  PROVE  TypeInv'
<1>1. call' = call /\ calls' = calls /\ senders' = senders /\ twice' = twice
  BY Zenon DEF apiVars
<1>2. TypeOK'
  BY Zenon, <1>1 DEF TypeInv, TypeOK
<1>3. \A x \in Thread : CallOK(x)'
  BY Zenon, <1>1 DEF TypeInv, CallOK
<1>4. QED
  BY Zenon, <1>1, <1>2, <1>3 DEF TypeInv

-----------------------------------------------------------------------------
(* Packets stay in order.                                                   *)

Waiting == Ids \X Track \X (1..MaxRtp)

LEMMA OrderKept == ASSUME Order, UNCHANGED writeVars PROVE Order'
BY DEF Order, writeVars

LEMMA CloseStep == ASSUME OrderInv, Close PROVE OrderInv'
<1>1. /\ closed' = TRUE /\ queue' = << >> /\ sure' = {}
      /\ UNCHANGED <<core, objs, table, lock, ctx, evtTx, apiVars>>
      /\ pend' = pend /\ seq' = seq /\ sent' = sent
  BY ZenonT(40) DEF Close
<1>2. queue' \in Seq(Waiting) /\ Len(queue') = 0 /\ Len(queue') <= Cap
  BY <1>1, BoundAssumption
<1>3. TypeInv'
  BY ZenonT(40), <1>1, <1>2, WriteTypes DEF OrderInv, TypeInv, TypeOK, Waiting
<1>4. Order'
  BY <1>1, <1>2 DEF OrderInv, Order
<1>5. QED
  BY Zenon, <1>3, <1>4 DEF OrderInv

LEMMA WriteRtpStep == ASSUME OrderInv, NEW t \in Track, WriteRtp(t) PROVE OrderInv'
<1>1. /\ ctx[t] # 0 /\ pend[t] = 0 /\ seq[t] < MaxRtp
      /\ seq' = [seq EXCEPT ![t] = seq[t] + 1] /\ pend' = [pend EXCEPT ![t] = ctx[t]]
      /\ sure' \subseteq sure \cup {<<t, seq'[t]>>}
      /\ UNCHANGED <<core, closed, objs, table, lock, ctx, evtTx, apiVars>>
      /\ queue' = queue /\ sent' = sent
  BY Zenon DEF WriteRtp
<1>2. /\ seq \in [Track -> 0..MaxRtp] /\ pend \in [Track -> 0..Len(core)]
      /\ ctx \in [Track -> 0..Len(core)] /\ MaxRtp \in Nat
      /\ queue \in Seq(Waiting) /\ sent \in [Track -> Seq(1..MaxRtp)]
      /\ sure \subseteq Track \X (1..MaxRtp) /\ closed \in BOOLEAN /\ Len(queue) <= Cap
  BY ZenonT(40), BoundAssumption DEF OrderInv, TypeInv, TypeOK, Waiting
<1>3. /\ seq'[t] = seq[t] + 1 /\ seq'[t] \in 1..MaxRtp
      /\ seq' \in [Track -> 0..MaxRtp] /\ pend' \in [Track -> 0..Len(core)]
      /\ \A u \in Track \ {t} : seq'[u] = seq[u] /\ pend'[u] = pend[u]
  BY <1>1, <1>2
<1>4. sure' \subseteq Track \X (1..MaxRtp)
  BY SMTT(30), <1>1, <1>2, <1>3
<1>5. TypeInv'
  BY Zenon, <1>1, <1>2, <1>3, <1>4, WriteTypes DEF OrderInv, Waiting
<1>6. /\ \A i \in 1..Len(queue) : queue[i][2] \in Track /\ queue[i][3] \in Nat
      /\ \A u \in Track : \A k \in 1..Len(sent[u]) : sent[u][k] \in Nat
  <2>1. \A i \in 1..Len(queue) : queue[i] \in Waiting
    BY <1>2
  <2>2. ASSUME NEW u \in Track PROVE \A k \in 1..Len(sent[u]) : sent[u][k] \in 1..MaxRtp
    <3>1. sent[u] \in Seq(1..MaxRtp)
      BY Zenon, <1>2
    <3>2. QED
      BY Zenon, <3>1, Lengths
  <2>3. QED
    BY <2>1, <2>2 DEF Waiting
<1>7. Order'
  <2> SUFFICES ASSUME NEW u \in Track
               PROVE  /\ \A i \in 1..Len(queue) : queue[i][2] = u =>
                            /\ queue[i][3] <= seq'[u]
                            /\ (pend'[u] # 0 => queue[i][3] < seq'[u])
                      /\ \A k \in 1..Len(sent[u]) :
                            sent[u][k] <= seq'[u] /\ (pend'[u] # 0 => sent[u][k] < seq'[u])
                      /\ pend'[u] # 0 => seq'[u] # 0
    <3>1. queue' = queue /\ sent' = sent
      BY Zenon, <1>1
    <3>2. QED
      BY ZenonT(40), <3>1 DEF OrderInv, Order
  <2>1. CASE u = t
    <3>1. /\ seq[t] \in Nat /\ seq'[t] = seq[t] + 1
          /\ \A i \in 1..Len(queue) : queue[i][2] = t => queue[i][3] \in Nat /\ queue[i][3] <= seq[t]
          /\ \A k \in 1..Len(sent[t]) : sent[t][k] \in Nat /\ sent[t][k] <= seq[t]
      <4>1. seq[t] \in 0..MaxRtp
        BY Zenon, <1>2
      <4>2. seq[t] \in Nat
        BY <4>1
      <4>3. QED
        BY Zenon, <1>3, <1>6, <4>2 DEF OrderInv, Order
    <3>2. /\ \A i \in 1..Len(queue) : queue[i][2] = t =>
                queue[i][3] <= seq'[t] /\ queue[i][3] < seq'[t]
          /\ \A k \in 1..Len(sent[t]) : sent[t][k] <= seq'[t] /\ sent[t][k] < seq'[t]
          /\ seq'[t] # 0
      BY SMTT(30), <3>1
    <3>3. QED
      BY Zenon, <2>1, <3>2
  <2>2. CASE u # t
    BY Zenon, <1>3, <2>2 DEF OrderInv, Order
  <2>3. QED
    BY Zenon, <2>1, <2>2
<1>8. QED
  BY Zenon, <1>5, <1>7 DEF OrderInv

LEMMA SendRtpStep == ASSUME OrderInv, NEW t \in Track, SendRtp(t) PROVE OrderInv'
<1>1. /\ pend[t] # 0 /\ pend' = [pend EXCEPT ![t] = 0]
      /\ UNCHANGED <<core, closed, objs, table, lock, ctx, evtTx, apiVars>>
      /\ seq' = seq /\ sent' = sent /\ sure' = sure
      /\ \/ queue' = queue
         \/ Len(queue) < Cap /\ queue' = Append(queue, <<pend[t], t, seq[t]>>)
  BY Zenon DEF SendRtp
<1>2. /\ seq \in [Track -> 0..MaxRtp] /\ pend \in [Track -> 0..Len(core)]
      /\ MaxRtp \in Nat /\ MaxTr \in Nat /\ Cap \in Nat
      /\ queue \in Seq(Waiting) /\ sent \in [Track -> Seq(1..MaxRtp)]
      /\ sure \subseteq Track \X (1..MaxRtp) /\ closed \in BOOLEAN /\ Len(queue) <= Cap
      /\ Len(core) \in Nat /\ Len(core) <= MaxTr
  BY Zenon, BoundAssumption, CoreLen DEF OrderInv, TypeInv, TypeOK, Waiting
<1> DEFINE p == <<pend[t], t, seq[t]>>
<1>3. p \in Waiting /\ p[2] = t /\ p[3] = seq[t]
  <2>1. pend[t] \in 0..Len(core) /\ seq[t] \in 0..MaxRtp /\ seq[t] # 0 /\ pend[t] # 0
    BY Zenon, <1>1, <1>2 DEF OrderInv, Order
  <2>2. pend[t] \in Ids /\ seq[t] \in 1..MaxRtp
    BY <1>2, <2>1 DEF Ids
  <2>3. QED
    BY <2>2 DEF Waiting
<1> HIDE DEF p
<1>4. /\ Append(queue, p) \in Seq(Waiting) /\ Len(Append(queue, p)) = Len(queue) + 1
      /\ Len(queue) \in Nat /\ Append(queue, p)[Len(queue) + 1] = p
      /\ \A i \in 1..Len(queue) : Append(queue, p)[i] = queue[i]
  BY <1>2, <1>3, Added
<1>5. /\ queue' \in Seq(Waiting) /\ Len(queue') <= Cap /\ Len(queue') \in Nat
      /\ \A i \in 1..Len(queue') : \/ i \in 1..Len(queue) /\ queue'[i] = queue[i]
                                   \/ i = Len(queue) + 1 /\ queue'[i] = p
  <2>1. CASE queue' = queue
    BY Zenon, <1>2, <1>4, <2>1
  <2>2. CASE Len(queue) < Cap /\ queue' = Append(queue, p)
    <3>1. \A i \in 1..(Len(queue) + 1) : i \in 1..Len(queue) \/ i = Len(queue) + 1
      BY <1>4
    <3>2. QED
      BY <1>2, <1>4, <2>2, <3>1
  <2>3. QED
    BY Zenon, <1>1, <2>1, <2>2 DEF p
<1>6. /\ pend' \in [Track -> 0..Len(core)] /\ pend'[t] = 0
      /\ \A u \in Track \ {t} : pend'[u] = pend[u]
  BY <1>1, <1>2
<1>7. TypeInv'
  BY Zenon, <1>1, <1>2, <1>5, <1>6, WriteTypes DEF OrderInv, Waiting
<1>8. Order'
  <2> SUFFICES ASSUME NEW u \in Track
               PROVE  /\ \A i, j \in 1..Len(queue') :
                            i < j /\ queue'[i][2] = u /\ queue'[j][2] = u
                               => queue'[i][3] < queue'[j][3]
                      /\ \A i \in 1..Len(queue') : queue'[i][2] = u =>
                            /\ queue'[i][3] <= seq[u]
                            /\ (pend'[u] # 0 => queue'[i][3] < seq[u])
                            /\ \A k \in 1..Len(sent[u]) : sent[u][k] < queue'[i][3]
    BY ZenonT(40), <1>1, <1>6 DEF OrderInv, Order
  <2>1. /\ \A i, j \in 1..Len(queue) :
              i < j /\ queue[i][2] = u /\ queue[j][2] = u => queue[i][3] < queue[j][3]
        /\ \A i \in 1..Len(queue) : queue[i][2] = u =>
              /\ queue[i][3] <= seq[u] /\ (pend[u] # 0 => queue[i][3] < seq[u])
              /\ \A k \in 1..Len(sent[u]) : sent[u][k] < queue[i][3]
        /\ \A k \in 1..Len(sent[u]) : pend[u] # 0 => sent[u][k] < seq[u]
    BY Zenon DEF OrderInv, Order
  <2>2. ASSUME NEW i \in 1..Len(queue'), queue'[i][2] = u
        PROVE  /\ queue'[i][3] <= seq[u] /\ (pend'[u] # 0 => queue'[i][3] < seq[u])
               /\ \A k \in 1..Len(sent[u]) : sent[u][k] < queue'[i][3]
    <3>1. CASE i \in 1..Len(queue) /\ queue'[i] = queue[i]
      BY Zenon, <1>6, <2>1, <2>2, <3>1
    <3>2. CASE queue'[i] = p
      <4>1. u = t /\ queue'[i][3] = seq[u] /\ seq[u] <= seq[u]
        BY SMTT(30), <1>2, <1>3, <2>2, <3>2
      <4>2. QED
        BY ZenonT(40), <1>1, <1>6, <2>1, <4>1
    <3>3. QED
      BY Zenon, <1>5, <3>1, <3>2
  <2>3. ASSUME NEW i \in 1..Len(queue'), NEW j \in 1..Len(queue'),
               i < j, queue'[i][2] = u, queue'[j][2] = u
        PROVE  queue'[i][3] < queue'[j][3]
    <3>1. i \in 1..Len(queue) /\ queue'[i] = queue[i]
      BY <1>4, <1>5, <2>3
    <3>2. CASE j \in 1..Len(queue) /\ queue'[j] = queue[j]
      BY Zenon, <2>1, <2>3, <3>1, <3>2
    <3>3. CASE queue'[j] = p
      BY Zenon, <1>1, <1>3, <2>1, <2>3, <3>1, <3>3
    <3>4. QED
      BY Zenon, <1>5, <3>2, <3>3
  <2>4. QED
    BY ZenonT(40), <2>2, <2>3
<1>9. QED
  BY Zenon, <1>7, <1>8 DEF OrderInv

\* The driver takes the first packet: the core accepts it, or it is dropped.
LEMMA SenderRtpStep == ASSUME OrderInv, SenderRtp PROVE OrderInv'
<1> DEFINE t == Head(queue)[2]
           n == Head(queue)[3]
           q == Append(sent[t], n)
<1>1. /\ queue # << >> /\ queue' = Tail(queue)
      /\ sent' = sent \/ sent' = [sent EXCEPT ![t] = q]
      /\ UNCHANGED <<core, closed, objs, table, lock, ctx, evtTx, apiVars>>
      /\ pend' = pend /\ seq' = seq /\ sure' = sure
  BY Zenon DEF SenderRtp
<1>2. /\ seq \in [Track -> 0..MaxRtp] /\ pend \in [Track -> 0..Len(core)]
      /\ MaxRtp \in Nat /\ Cap \in Nat
      /\ queue \in Seq(Waiting) /\ sent \in [Track -> Seq(1..MaxRtp)]
      /\ sure \subseteq Track \X (1..MaxRtp) /\ closed \in BOOLEAN /\ Len(queue) <= Cap
  BY ZenonT(40), BoundAssumption DEF OrderInv, TypeInv, TypeOK, Waiting
<1>3. /\ queue' \in Seq(Waiting) /\ Head(queue) = queue[1] /\ queue[1] \in Waiting
      /\ Len(queue') = Len(queue) - 1 /\ Len(queue) \in Nat /\ Len(queue) >= 1
      /\ \A i \in 1..Len(queue') : queue'[i] = queue[i + 1]
  BY <1>1, <1>2, Taken
<1>4. /\ t = queue[1][2] /\ n = queue[1][3] /\ t \in Track /\ n \in 1..MaxRtp
      /\ 1 \in 1..Len(queue)
  BY <1>3 DEF Waiting
<1>5. Len(queue') <= Cap /\ Len(queue') \in Nat
      /\ \A i \in 1..Len(queue') : i + 1 \in 1..Len(queue) /\ 1 < i + 1
  BY <1>2, <1>3
<1> HIDE DEF t, n
<1>6. sent[t] \in Seq(1..MaxRtp)
  BY ZenonT(40), <1>2, <1>4
<1>7. /\ q \in Seq(1..MaxRtp) /\ Len(q) = Len(sent[t]) + 1 /\ Len(sent[t]) \in Nat
      /\ q[Len(sent[t]) + 1] = n /\ \A k \in 1..Len(sent[t]) : q[k] = sent[t][k]
  BY <1>4, <1>6, Added
<1> HIDE DEF q
<1>8. /\ sent' \in [Track -> Seq(1..MaxRtp)]
      /\ \A u \in Track : \/ sent'[u] = sent[u]
                          \/ u = t /\ sent'[u] = q
  BY Zenon, <1>1, <1>2, <1>7
<1>9. TypeInv'
  BY Zenon, <1>1, <1>2, <1>3, <1>5, <1>8, WriteTypes DEF OrderInv, Waiting
<1>10. Order'
  <2> SUFFICES ASSUME NEW u \in Track
               PROVE  /\ \A i, j \in 1..Len(queue') :
                            i < j /\ queue'[i][2] = u /\ queue'[j][2] = u
                               => queue'[i][3] < queue'[j][3]
                      /\ \A i \in 1..Len(queue') : queue'[i][2] = u =>
                            /\ queue'[i][3] <= seq[u]
                            /\ (pend[u] # 0 => queue'[i][3] < seq[u])
                            /\ \A k \in 1..Len(sent'[u]) : sent'[u][k] < queue'[i][3]
                      /\ \A k \in 1..Len(sent'[u]) :
                            sent'[u][k] <= seq[u] /\ (pend[u] # 0 => sent'[u][k] < seq[u])
                      /\ \A i, j \in 1..Len(sent'[u]) : i < j => sent'[u][i] < sent'[u][j]
    BY <1>1 DEF OrderInv, Order
  <2>1. /\ \A i, j \in 1..Len(queue) :
              i < j /\ queue[i][2] = u /\ queue[j][2] = u => queue[i][3] < queue[j][3]
        /\ \A i \in 1..Len(queue) : queue[i][2] = u =>
              /\ queue[i][3] <= seq[u] /\ (pend[u] # 0 => queue[i][3] < seq[u])
              /\ \A k \in 1..Len(sent[u]) : sent[u][k] < queue[i][3]
        /\ \A k \in 1..Len(sent[u]) :
              sent[u][k] <= seq[u] /\ (pend[u] # 0 => sent[u][k] < seq[u])
        /\ \A i, j \in 1..Len(sent[u]) : i < j => sent[u][i] < sent[u][j]
    BY Zenon DEF OrderInv, Order
  <2>2. \A i, j \in 1..Len(queue') :
           i < j /\ queue'[i][2] = u /\ queue'[j][2] = u => queue'[i][3] < queue'[j][3]
    <3> SUFFICES ASSUME NEW i \in 1..Len(queue'), NEW j \in 1..Len(queue'), i < j,
                        queue'[i][2] = u, queue'[j][2] = u
                 PROVE  queue'[i][3] < queue'[j][3]
      BY Zenon
    <3>1. i + 1 < j + 1 /\ i + 1 \in 1..Len(queue) /\ j + 1 \in 1..Len(queue)
      BY <1>5
    <3>2. queue'[i] = queue[i + 1] /\ queue'[j] = queue[j + 1]
      BY Zenon, <1>3
    <3>3. QED
      BY Zenon, <2>1, <3>1, <3>2
  <2>3. \A i \in 1..Len(queue') : queue'[i][2] = u =>
           queue'[i][3] <= seq[u] /\ (pend[u] # 0 => queue'[i][3] < seq[u])
    BY ZenonT(40), <1>3, <1>5, <2>1
  <2>4. CASE sent'[u] = sent[u]
    <3>1. \A i \in 1..Len(queue') : queue'[i][2] = u =>
             \A k \in 1..Len(sent[u]) : sent[u][k] < queue'[i][3]
      BY ZenonT(40), <1>3, <1>5, <2>1
    <3>2. QED
      BY Zenon, <2>1, <2>2, <2>3, <2>4, <3>1
  <2>5. CASE u = t /\ sent'[u] = q
    <3>1. \A k \in 1..Len(q) : \/ k \in 1..Len(sent[t]) /\ q[k] = sent[t][k]
                               \/ k = Len(sent[t]) + 1 /\ q[k] = n
      BY SMTT(30), <1>7
    <3>2. \A i \in 1..Len(queue') : queue'[i][2] = u =>
             /\ n < queue'[i][3]
             /\ \A k \in 1..Len(sent[u]) : sent[u][k] < queue'[i][3]
      <4> SUFFICES ASSUME NEW i \in 1..Len(queue'), queue'[i][2] = u
                   PROVE  /\ n < queue'[i][3]
                          /\ \A k \in 1..Len(sent[u]) : sent[u][k] < queue'[i][3]
        BY Zenon
      <4>1. 1 < i + 1 /\ 1 \in 1..Len(queue) /\ i + 1 \in 1..Len(queue)
        BY <1>5
      <4>2. queue'[i] = queue[i + 1] /\ queue[1][2] = u /\ queue[1][3] = n
        BY Zenon, <1>3, <1>4, <2>5
      <4>3. QED
        BY Zenon, <2>1, <4>1, <4>2
    <3>3. /\ n <= seq[u] /\ (pend[u] # 0 => n < seq[u])
          /\ \A k \in 1..Len(sent[u]) : sent[u][k] < n
      BY Zenon, <1>4, <2>1, <2>5
    <3>4. \A i \in 1..Len(queue') : queue'[i][2] = u =>
             \A k \in 1..Len(q) : q[k] < queue'[i][3]
      BY ZenonT(40), <2>5, <3>1, <3>2
    <3>5. \A k \in 1..Len(q) : q[k] <= seq[u] /\ (pend[u] # 0 => q[k] < seq[u])
      BY Zenon, <2>1, <2>5, <3>1, <3>3
    <3>6. ASSUME NEW i \in 1..Len(q), NEW j \in 1..Len(q), i < j PROVE q[i] < q[j]
      <4>1. i \in 1..Len(sent[t]) /\ q[i] = sent[t][i]
        BY SMTT(30), <1>7, <3>1, <3>6
      <4>2. CASE j \in 1..Len(sent[t]) /\ q[j] = sent[t][j]
        BY SMTT(30), <2>1, <2>5, <3>6, <4>1, <4>2
      <4>3. CASE q[j] = n
        BY <2>5, <3>3, <4>1, <4>3
      <4>4. QED
        BY Zenon, <3>1, <4>2, <4>3
    <3>7. QED
      BY SMTT(30), <2>2, <2>3, <2>5, <3>4, <3>5, <3>6
  <2>6. QED
    BY ZenonT(40), <1>8, <2>4, <2>5
<1>11. QED
  BY Zenon, <1>9, <1>10 DEF OrderInv

LEMMA OrderInit == Init => OrderInv
<1> SUFFICES ASSUME Init PROVE OrderInv
  BY Zenon
<1> USE BoundAssumption, ValueAssumption
<1>1. TypeOK
  <2>1. /\ core \in Seq(Track \cup {Own, None}) /\ Len(core) = 0 /\ Len(core) <= MaxTr
        /\ queue \in Seq(Ids \X Track \X (1..MaxRtp)) /\ Len(queue) <= Cap
        /\ objs \in [Ids -> Seq(Track \cup {Own, None})]
        /\ sent \in [Track -> Seq(1..MaxRtp)]
    BY DEF Init
  <2>2. /\ table \in [Ids -> 0..MaxObjs]
        /\ \A i \in Ids : /\ table[i] <= Len(objs[i]) /\ Len(objs[i]) <= MaxObjs
                          /\ table[i] # 0 => i <= Len(core)
        /\ ctx \in [Track -> 0..Len(core)] /\ pend \in [Track -> 0..Len(core)]
        /\ seq \in [Track -> 0..MaxRtp] /\ calls \in 0..MaxCalls
    BY <2>1 DEF Init
  <2>3. call \in [Thread -> Calls]
    BY Zenon, IdleCall DEF Init
  <2>4. /\ closed \in BOOLEAN /\ lock \in Thread \cup {None} /\ evtTx \subseteq Track
        /\ senders \subseteq Ids \X (Track \cup {Own}) /\ twice \subseteq Track
        /\ sure \subseteq Track \X (1..MaxRtp)
    BY Zenon DEF Init
  <2>5. QED
    BY Zenon, <2>1, <2>2, <2>3, <2>4 DEF TypeOK
<1>2. \A th \in Thread : CallOK(th)
  <2>1. ASSUME NEW th \in Thread PROVE CallOK(th)
    <3>1. call[th] = Idle /\ Len(core) = 0
      BY DEF Init
    <3>2. /\ Idle.op = "idle" /\ Idle.id = 0 /\ Idle.todo = {} /\ Idle.got = {}
      BY Zenon DEF Idle
    <3>3. Idle.id <= Len(core) /\ Idle.op \notin Changes /\ Idle.op # "bind"
      BY <3>1, <3>2 DEF Changes
    <3>4. QED
      BY Zenon, <3>1, <3>2, <3>3 DEF CallOK
  <2>2. QED
    BY Zenon, <2>1
<1>3. \A s \in senders : s[1] <= Len(core)
  BY ZenonT(40) DEF Init
<1>4. Order
  BY DEF Init, Order
<1>5. QED
  BY <1>1, <1>2, <1>3, <1>4 DEF OrderInv, TypeInv

LEMMA StutterStep == ASSUME OrderInv, UNCHANGED vars PROVE OrderInv'
<1>1. /\ UNCHANGED <<core, closed, objs, table, lock, ctx, evtTx, apiVars, sure>>
      /\ UNCHANGED writeVars /\ call' = call /\ senders' = senders /\ calls' = calls
      /\ twice' = twice
  BY ZenonT(40) DEF vars, apiVars
<1>2. TypeOK'
  BY ZenonT(40), <1>1 DEF OrderInv, TypeInv, TypeOK, writeVars
<1>3. QED
  BY Zenon, <1>1, <1>2, OrderKept DEF OrderInv, TypeInv, CallOK

LEMMA OrderStep == ASSUME OrderInv, [Next]_vars PROVE OrderInv'
<1>1. ASSUME NEW th \in Thread, NEW t \in Track, AddTrack(th, t) PROVE OrderInv'
  BY Zenon, <1>1, AddTrackTypes, OrderKept DEF OrderInv, AddTrack
<1>2. ASSUME NEW th \in Thread, NEW t \in {Own, None}, AddTransceiver(th, t) PROVE OrderInv'
  BY Zenon, <1>2, AddTransceiverTypes, OrderKept DEF OrderInv, AddTransceiver
<1>3. ASSUME NEW th \in Thread, NEW s \in senders, RemoveTrack(th, s) PROVE OrderInv'
  BY Zenon, <1>3, RemoveTrackTypes, OrderKept DEF OrderInv, RemoveTrack
<1>4. ASSUME NEW th \in Thread, GetSenders(th) PROVE OrderInv'
  BY <1>4, GetSendersTypes, OrderKept DEF OrderInv, GetSenders
<1>5. ASSUME NEW th \in Thread, AddLock(th) PROVE OrderInv'
  BY Zenon, <1>5, AddLockTypes, OrderKept DEF OrderInv, AddLock
<1>6. ASSUME NEW th \in Thread, AddBind(th) PROVE OrderInv'
  BY Zenon, <1>6, AddBindTypes, OrderKept DEF OrderInv, AddBind
<1>7. ASSUME NEW th \in Thread, RemoveLock(th) PROVE OrderInv'
  BY Zenon, <1>7, RemoveLockTypes, OrderKept DEF OrderInv, RemoveLock
<1>8. ASSUME NEW th \in Thread, GetLock(th) PROVE OrderInv'
  <2>1. UNCHANGED writeVars
    BY Zenon, <1>8 DEF GetLock
  <2>2. QED
    BY Zenon, <1>8, <2>1, GetLockTypes, OrderKept DEF OrderInv
<1>9. ASSUME NEW th \in Thread, NEW o \in Ids \X (1..MaxObjs), Visit(th, o) PROVE OrderInv'
  <2>1. UNCHANGED writeVars
    BY Zenon, <1>9 DEF Visit
  <2>2. QED
    BY Zenon, <1>9, <2>1, VisitTypes, OrderKept DEF OrderInv
<1>10. ASSUME NEW th \in Thread, GetReturn(th) PROVE OrderInv'
  BY Zenon, <1>10, GetReturnTypes, OrderKept DEF OrderInv, GetReturn
<1>11. ASSUME RemoteTransceiver PROVE OrderInv'
  BY Zenon, <1>11, RemoteTransceiverTypes, OrderKept DEF OrderInv, RemoteTransceiver
<1>12. ASSUME NEW i \in Ids, OnTrack(i) PROVE OrderInv'
  BY Zenon, <1>12, OnTrackTypes, OrderKept DEF OrderInv, OnTrack
<1>13. QED
  BY ZenonT(40), <1>1, <1>2, <1>3, <1>4, <1>5, <1>6, <1>7, <1>8, <1>9, <1>10, <1>11, <1>12,
     CloseStep, WriteRtpStep, SendRtpStep, SenderRtpStep, StutterStep DEF Next, Step

\* SentInOrder, whatever the threads do: the core accepts the packets of a track
\* in the order in which write_rtp was called.
THEOREM SentInOrderHolds == Spec => []SentInOrder
<1>1. OrderInv => SentInOrder
  BY Zenon DEF OrderInv, Order, SentInOrder
<1>2. OrderInv /\ [Next]_vars => OrderInv'
  BY Zenon, OrderStep
<1>3. QED
  BY <1>1, <1>2, OrderInit, PTL DEF Spec

-----------------------------------------------------------------------------
(* The records agree between the calls of one thread.                       *)

LEMMA Basics ==
  ASSUME TypeInv, NEW th \in Thread
  PROVE  /\ Len(core) \in Nat /\ 1..Len(core) \subseteq Ids
         /\ \A t \in Track : ctx[t] \in 0..Len(core)
         /\ \A i \in Ids : table[i] # 0 => i \in 1..Len(core)
         /\ None \notin Track /\ Own \notin Track /\ Own # None /\ evtTx \subseteq Track
         /\ call[th].id \in 0..Len(core)
         /\ call[th].op \in Changes => call[th].id \in 1..Len(core)
<1>1. Len(core) \in Nat /\ Len(core) <= MaxTr /\ MaxTr \in Nat
  BY Zenon, CoreLen, BoundAssumption
<1>2. /\ ctx \in [Track -> 0..Len(core)] /\ evtTx \subseteq Track
      /\ \A i \in Ids : table[i] # 0 => i <= Len(core)
      /\ call[th].id \in 0..MaxTr /\ call[th].id <= Len(core)
      /\ call[th].op \in Changes => call[th].id # 0
  BY Zenon DEF TypeInv, TypeOK, CallOK, Calls
<1>3. QED
  BY <1>1, <1>2, ValueAssumption DEF Ids

LEMMA SameSender == ASSUME NEW i, UNCHANGED <<objs, table>> PROVE SenderOf(i)' = SenderOf(i)
BY Zenon DEF SenderOf

\* add_track and add_transceiver begin: the core has a sender the others have not.
LEMMA AddsAgree ==
  ASSUME NEW th \in Thread, AgreeInv(th), OrderInv', NEW i \in Ids, NEW t,
         call[th].op = "idle", call'[th].op = "add", call'[th].id = i, call'[th].track = t,
         i \in 1..Len(core'), core'[i] = t,
         \A j \in 1..Len(core') : j # i => j \in 1..Len(core) /\ core'[j] = core[j],
         i \in 1..Len(core) => core[i] = None,
         1..Len(core) \subseteq 1..Len(core'),
         twice \subseteq twice',
         t \in Track /\ (\E j \in 1..Len(core) : core[j] = t) => t \in twice',
         UNCHANGED <<objs, table, ctx, evtTx>>
  PROVE  AgreeInv(th)'
<1>1. /\ 1..Len(core) \subseteq Ids /\ (\A u \in Track : ctx[u] \in 0..Len(core))
      /\ (\A j \in Ids : table[j] # 0 => j \in 1..Len(core))
      /\ None \notin Track /\ Len(core) \in Nat
  BY Zenon, Basics DEF AgreeInv, OrderInv
<1>2. /\ \A j \in 1..Len(core) : SenderOf(j) = core[j]
      /\ \A u \in Track : ctx[u] # 0 => core[ctx[u]] = u
      /\ \A u \in Track \ twice : \A j \in 1..Len(core) : core[j] = u => ctx[u] = j
      /\ evtTx = {u \in Track : ctx[u] # 0}
  BY Zenon DEF AgreeInv, Records, Busy, Changes
<1>3. \A j : Busy(th, j)' <=> j = i
  BY ZenonT(40) DEF Busy, Changes
<1>4. \A j : SenderOf(j)' = SenderOf(j)
  BY ZenonT(40), SameSender
<1>5. \A u \in Track : ctx[u] # 0 => ctx[u] \in 1..Len(core) /\ ctx[u] # i
  BY <1>1, <1>2
<1>6. Records(th)'
  <2>1. \A j \in 1..Len(core') : ~Busy(th, j)' => SenderOf(j)' = core'[j]
    BY ZenonT(40), <1>2, <1>3, <1>4
  <2>2. \A u \in Track : ctx'[u] # 0 /\ ~Busy(th, ctx[u])' => core'[ctx'[u]] = u
    BY ZenonT(40), <1>2, <1>5
  <2>3. \A u \in Track \ twice' : \A j \in 1..Len(core') :
           core'[j] = u /\ ~Busy(th, j)' => ctx'[u] = j
    <3> SUFFICES ASSUME NEW u \in Track \ twice', NEW j \in 1..Len(core'), core'[j] = u,
                        ~Busy(th, j)'
                 PROVE  ctx[u] = j
      BY Zenon
    <3>1. j \in 1..Len(core) /\ core[j] = u /\ u \in Track \ twice
      BY Zenon, <1>3
    <3>2. QED
      BY ZenonT(40), <1>2, <3>1
  <2>4. evtTx' = {u \in Track : ctx'[u] # 0}
    BY Zenon, <1>2
  <2>5. QED
    BY Zenon, <2>1, <2>2, <2>3, <2>4 DEF Records
<1>7. Adding(th)'
  <2>1. SenderOf(i)' = None
    <3>1. CASE i \in 1..Len(core)
      BY Zenon, <1>2, <1>4, <3>1
    <3>2. CASE i \notin 1..Len(core)
      BY ZenonT(40), <1>1, <1>4, <3>2 DEF SenderOf
    <3>3. QED
      BY Zenon, <3>1, <3>2
  <2>2. \A u \in Track : ctx'[u] # i
    <3>1. i # 0
      BY DEF Ids
    <3>2. QED
      BY ZenonT(40), <1>5, <3>1
  <2>3. t \in Track \ twice' => \A j \in 1..Len(core') : core'[j] = t => j = i
    BY Zenon
  <2>4. QED
    BY Zenon, <2>1, <2>2, <2>3 DEF Adding
<1>8. Removing(th)' /\ Listing(th)'
  BY Zenon DEF Removing, Listing
<1>9. QED
  BY Zenon, <1>6, <1>7, <1>8 DEF AgreeInv

LEMMA AddTrackAgree ==
  ASSUME NEW th \in Thread, AgreeInv(th), NEW t \in Track, AddTrack(th, t), OrderInv'
  PROVE  AgreeInv(th)'
<1>1. TypeInv
  BY Zenon DEF AgreeInv, OrderInv
<1>2. PICK i \in Ids :
            /\ Begin(th, "add", i, t)
            /\ core' \in Seq(Carried) /\ Len(core') \in Nat /\ Len(core) <= Len(core')
            /\ Len(core') <= MaxTr /\ i \in 1..Len(core')
            /\ core'[i] = t
            /\ \A j \in 1..Len(core') : j # i => j \in 1..Len(core) /\ core'[j] = core[j]
            /\ i \in 1..Len(core) => core[i] = None
  BY Zenon, <1>1, AddTrackCore
<1>3. i \in 0..MaxTr /\ t \in Carried
  <2>1. i \in 1..MaxTr /\ t \in Carried
    BY Zenon DEF Ids, Carried
  <2>2. QED
    BY <2>1
<1>4. call[th] = Idle /\ call'[th].op = "add" /\ call'[th].id = i /\ call'[th].track = t
  <2>1. Begin(th, "add", i, t)
    BY Zenon, <1>2
  <2>2. QED
    BY Zenon, <1>1, <1>3, <2>1, BeginCalls
<1>5. call[th].op = "idle"
  <2>1. Idle.op = "idle"
    BY DEF Idle
  <2>2. QED
    BY Zenon, <1>4, <2>1
<1>6. 1..Len(core) \subseteq 1..Len(core')
  BY SMTT(30), <1>1, <1>2, CoreLen
<1>7. /\ twice \subseteq twice'
      /\ (\E j \in 1..Len(core) : core[j] = t) => t \in twice'
      /\ UNCHANGED <<objs, table, ctx, evtTx>>
  BY ZenonT(40) DEF AddTrack
<1>8. QED
  BY ZenonT(40), <1>2, <1>4, <1>5, <1>6, <1>7, AddsAgree

LEMMA AddTransceiverAgree ==
  ASSUME NEW th \in Thread, AgreeInv(th), NEW t \in {Own, None}, AddTransceiver(th, t), OrderInv'
  PROVE  AgreeInv(th)'
<1>1. TypeInv
  BY ZenonT(40) DEF AgreeInv, OrderInv
<1>2. /\ Len(core) < MaxTr /\ Begin(th, "add", Len(core) + 1, t) /\ core' = Append(core, t)
      /\ twice' = twice /\ UNCHANGED <<objs, table, ctx, evtTx>>
  BY ZenonT(40) DEF AddTransceiver
<1>3. core \in Seq(Carried) /\ Len(core) \in Nat /\ t \in Carried /\ MaxTr \in Nat
  BY ZenonT(40), <1>1, CoreLen, BoundAssumption DEF Carried
<1>4. /\ Len(core') = Len(core) + 1 /\ core'[Len(core) + 1] = t
      /\ \A j \in 1..Len(core) : core'[j] = core[j]
  BY SMTT(30), <1>2, <1>3, Added
<1> DEFINE i == Len(core) + 1
<1>5. i \in Ids /\ i \in 0..MaxTr /\ i \in 1..Len(core') /\ i \notin 1..Len(core)
      /\ 1..Len(core) \subseteq 1..Len(core')
      /\ \A j \in 1..Len(core') : j # i => j \in 1..Len(core)
  BY SMTT(30), <1>2, <1>3, <1>4 DEF Ids
<1> HIDE DEF i
<1>6. call[th] = Idle /\ call'[th].op = "add" /\ call'[th].id = i /\ call'[th].track = t
  BY ZenonT(40), <1>1, <1>2, <1>3, <1>5, BeginCalls DEF i
<1>7. call[th].op = "idle" /\ t \notin Track
  BY <1>6, ValueAssumption DEF Idle
<1>8. core'[i] = t
  BY Zenon, <1>4 DEF i
<1>9. QED
  BY <1>2, <1>4, <1>5, <1>6, <1>7, <1>8, AddsAgree

\* Between calls no transceiver is being changed, and the records agree.
LEMMA Settled ==
  ASSUME NEW th \in Thread, AgreeInv(th), call[th].op \notin Changes
  PROVE  /\ \A j \in 1..Len(core) : SenderOf(j) = core[j]
         /\ \A u \in Track : ctx[u] # 0 => core[ctx[u]] = u
         /\ \A u \in Track \ twice : \A j \in 1..Len(core) : core[j] = u => ctx[u] = j
         /\ evtTx = {u \in Track : ctx[u] # 0}
BY Zenon DEF AgreeInv, Records, Busy

\* And conversely.
LEMMA Settles ==
  ASSUME NEW th \in Thread, OrderInv', call'[th].op \notin Changes, Listing(th)',
         \A j \in 1..Len(core') : SenderOf(j)' = core'[j],
         \A u \in Track : ctx'[u] # 0 => core'[ctx'[u]] = u,
         \A u \in Track \ twice' : \A j \in 1..Len(core') : core'[j] = u => ctx'[u] = j,
         evtTx' = {u \in Track : ctx'[u] # 0}
  PROVE  AgreeInv(th)'
<1>1. Records(th)'
  BY Zenon DEF Records
<1>2. Adding(th)' /\ Removing(th)'
  BY Zenon DEF Adding, Removing, Changes
<1>3. QED
  BY Zenon, <1>1, <1>2 DEF AgreeInv

LEMMA RemoveTrackAgree ==
  ASSUME NEW th \in Thread, AgreeInv(th), NEW s \in senders, RemoveTrack(th, s), OrderInv'
  PROVE  AgreeInv(th)'
<1> DEFINE i == s[1]
<1>1. TypeInv
  BY Zenon DEF AgreeInv, OrderInv
<1>2. i \in 1..Len(core) /\ s[2] \in Carried
  BY Zenon, <1>1, RemoveTrackTypes
<1>3. /\ Begin(th, "remove", i, s[2]) /\ core' = [core EXCEPT ![i] = None]
      /\ twice' = twice /\ UNCHANGED <<objs, table, ctx, evtTx>>
  BY ZenonT(40) DEF RemoveTrack
<1>4. /\ core \in Seq(Carried) /\ None \in Carried /\ 1..Len(core) \subseteq Ids
      /\ (\A u \in Track : ctx[u] \in 0..Len(core)) /\ None \notin Track
      /\ Len(core) \in Nat
  BY ZenonT(40), <1>1, CoreLen, Basics DEF Carried
<1> HIDE DEF i
<1>5. /\ Len(core') = Len(core) /\ core'[i] = None
      /\ \A j \in 1..Len(core) : j # i => core'[j] = core[j]
  BY <1>2, <1>3, <1>4, Stored
<1>6. i \in 0..MaxTr
  <2>1. i \in 1..MaxTr
    BY Zenon, <1>2, <1>4 DEF Ids
  <2>2. QED
    BY <2>1
<1>7. call[th] = Idle /\ call'[th].op = "remove" /\ call'[th].id = i
  <2>1. PICK t \in Carried : Begin(th, "remove", i, t)
    BY Zenon, <1>2, <1>3 DEF i
  <2>2. QED
    BY Zenon, <1>1, <1>6, <2>1, BeginCalls
<1>8. /\ \A j \in 1..Len(core) : SenderOf(j) = core[j]
      /\ \A u \in Track : ctx[u] # 0 => core[ctx[u]] = u
      /\ \A u \in Track \ twice : \A j \in 1..Len(core) : core[j] = u => ctx[u] = j
      /\ evtTx = {u \in Track : ctx[u] # 0}
  <2>1. call[th].op \notin Changes
    <3>1. Idle.op = "idle" /\ "idle" \notin Changes
      BY DEF Idle, Changes
    <3>2. QED
      BY Zenon, <1>7, <3>1
  <2>2. QED
    BY Zenon, <2>1, Settled
<1>9. \A j : (Busy(th, j)' <=> j = i) /\ SenderOf(j)' = SenderOf(j)
  BY Zenon, <1>3, <1>7, SameSender DEF Busy, Changes
<1>10. \A u \in Track : ctx[u] # 0 => ctx[u] \in 1..Len(core)
  BY <1>4
<1>11. Records(th)'
  <2>1. \A j \in 1..Len(core') : ~Busy(th, j)' => SenderOf(j)' = core'[j]
    BY ZenonT(40), <1>5, <1>8, <1>9
  <2>2. \A u \in Track : ctx'[u] # 0 /\ ~Busy(th, ctx[u])' => core'[ctx'[u]] = u
    BY ZenonT(40), <1>3, <1>5, <1>8, <1>9, <1>10
  <2>3. \A u \in Track \ twice' : \A j \in 1..Len(core') :
           core'[j] = u /\ ~Busy(th, j)' => ctx'[u] = j
    BY SMTT(30), <1>3, <1>5, <1>8, <1>9
  <2>4. evtTx' = {u \in Track : ctx'[u] # 0}
    BY Zenon, <1>3, <1>8
  <2>5. QED
    BY ZenonT(40), <1>3, <2>1, <2>2, <2>3, <2>4 DEF Records
<1>12. Removing(th)'
  <2>1. SenderOf(i)' = core[i]
    BY ZenonT(40), <1>2, <1>8, <1>9
  <2>2. \A u \in Track : ctx'[u] = i => core[i] = u
    BY <1>2, <1>3, <1>4, <1>8
  <2>3. core[i] \in Track => core[i] \in twice' \/ \A j \in 1..Len(core') : core'[j] # core[i]
    <3> SUFFICES ASSUME core[i] \in Track \ twice, NEW j \in 1..Len(core), core'[j] = core[i]
                 PROVE  FALSE
      BY Zenon, <1>3, <1>5
    <3>1. j # i /\ core[j] = core[i]
      BY Zenon, <1>4, <1>5
    <3>2. QED
      BY Zenon, <1>2, <1>8, <3>1
  <2>4. QED
    BY Zenon, <1>5, <1>7, <2>1, <2>2, <2>3 DEF Removing
<1>13. Adding(th)' /\ Listing(th)'
  BY ZenonT(40), <1>7 DEF Adding, Listing
<1>14. QED
  BY Zenon, <1>11, <1>12, <1>13 DEF AgreeInv

LEMMA GetSendersAgree ==
  ASSUME NEW th \in Thread, AgreeInv(th), GetSenders(th), OrderInv'
  PROVE  AgreeInv(th)'
<1>1. TypeInv
  BY Zenon DEF AgreeInv, OrderInv
<1>2. /\ Begin(th, "get", Len(core), None)
      /\ UNCHANGED <<core, objs, table, ctx, evtTx, twice>>
  BY Zenon DEF GetSenders
<1>3. Len(core) \in 0..MaxTr /\ None \in Carried /\ Len(core) \in Nat
  <2>1. Len(core) \in Nat /\ Len(core) <= MaxTr /\ MaxTr \in Nat /\ None \in Carried
    BY Zenon, <1>1, CoreLen, BoundAssumption DEF Carried
  <2>2. QED
    BY <2>1
<1>4. /\ call[th] = Idle /\ call'[th].op = "get" /\ call'[th].id = Len(core)
      /\ call'[th].got = {}
  BY Zenon, <1>1, <1>2, <1>3, BeginCalls
<1>5. /\ \A j \in 1..Len(core) : SenderOf(j) = core[j]
      /\ \A u \in Track : ctx[u] # 0 => core[ctx[u]] = u
      /\ \A u \in Track \ twice : \A j \in 1..Len(core) : core[j] = u => ctx[u] = j
      /\ evtTx = {u \in Track : ctx[u] # 0}
  <2>1. Idle.op = "idle" /\ "idle" \notin Changes
    BY DEF Idle, Changes
  <2>2. QED
    BY ZenonT(40), <1>4, <2>1, Settled
<1>6. \A j : SenderOf(j)' = SenderOf(j)
  BY ZenonT(40), <1>2, SameSender
<1>7. Listing(th)'
  <2>1. \A j \in (Len(core) + 1)..Len(core) : FALSE
    BY <1>3
  <2>2. QED
    BY Zenon, <1>2, <1>4, <2>1 DEF Listing
<1>8. call'[th].op \notin Changes
  BY Zenon, <1>4 DEF Changes
<1>9. QED
  BY ZenonT(40), <1>2, <1>5, <1>6, <1>7, <1>8, Settles

\* or_insert: no id's sender changes.
LEMMA OrInsertSenders ==
  ASSUME TypeInv, NEW i \in Ids, i <= Len(core), OrInsert(i)
  PROVE  \A j \in Ids : SenderOf(j)' = SenderOf(j)
<1>1. /\ table'[i] # 0 /\ objs'[i][table'[i]] = SenderOf(i)
      /\ \A j \in Ids \ {i} : table'[j] = table[j] /\ objs'[j] = objs[j]
  BY Zenon, OrInsertTypes
<1>2. SenderOf(i)' = SenderOf(i)
  <2>1. SenderOf(i)' = objs'[i][table'[i]]
    BY Zenon, <1>1 DEF SenderOf
  <2>2. QED
    BY Zenon, <1>1, <2>1
<1>3. \A j \in Ids \ {i} : SenderOf(j)' = SenderOf(j)
  BY Zenon, <1>1 DEF SenderOf
<1>4. QED
  BY Zenon, <1>2, <1>3

LEMMA AddLockAgree ==
  ASSUME NEW th \in Thread, AgreeInv(th), AddLock(th), OrderInv'
  PROVE  AgreeInv(th)'
<1> DEFINE i == call[th].id
           t == call[th].track
<1>1. TypeInv
  BY Zenon DEF AgreeInv, OrderInv
<1>2. /\ call[th].op = "add" /\ OrInsert(i) /\ core' = core /\ twice' = twice
  BY Zenon DEF AddLock
<1>3. /\ 1..Len(core) \subseteq Ids /\ i \in 1..Len(core) /\ i <= Len(core)
      /\ (\A u \in Track : ctx[u] \in 0..Len(core)) /\ evtTx \subseteq Track
      /\ None \notin Track /\ call \in [Thread -> Calls]
  <2>1. call \in [Thread -> Calls]
    BY Zenon, <1>1 DEF TypeInv, TypeOK
  <2>2. call[th].op \in Changes
    BY Zenon, <1>2 DEF Changes
  <2>3. i \in 1..Len(core) /\ Len(core) \in Nat
    BY Zenon, <1>1, <2>2, Basics
  <2> HIDE DEF i
  <2>4. i <= Len(core)
    BY <2>3
  <2>5. QED
    BY Zenon, <1>1, <2>1, <2>3, <2>4, Basics
<1>4. \A j \in Ids : SenderOf(j)' = SenderOf(j)
  BY Zenon, <1>1, <1>2, <1>3, OrInsertSenders
<1>5. /\ core[i] = t /\ SenderOf(i) = None /\ (\A u \in Track : ctx[u] # i)
      /\ t \in Track \ twice => \A j \in 1..Len(core) : core[j] = t => j = i
  BY Zenon, <1>2 DEF AgreeInv, Adding
<1>6. ctx \in [Track -> 0..Len(core)]
  BY Zenon, <1>1 DEF TypeInv, TypeOK
<1>7. /\ \A j \in 1..Len(core) : j # i => SenderOf(j) = core[j]
      /\ \A u \in Track : ctx[u] # 0 => core[ctx[u]] = u
      /\ \A u \in Track \ twice : \A j \in 1..Len(core) : core[j] = u /\ j # i => ctx[u] = j
      /\ evtTx = {u \in Track : ctx[u] # 0}
  BY ZenonT(40), <1>5 DEF AgreeInv, Records, Busy
<1>8. CASE t = None
  <2>1. Return(th) /\ ctx' = ctx /\ evtTx' = evtTx
    BY Zenon, <1>8 DEF AddLock
  <2>2. call'[th] = Idle /\ Idle.op = "idle"
    BY ZenonT(40), <1>1, <2>1, ReturnCalls
  <2>3. Listing(th)' /\ call'[th].op \notin Changes
    BY ZenonT(40), <2>2 DEF Listing, Changes
  <2>4. \A j \in 1..Len(core') : SenderOf(j)' = core'[j]
    BY ZenonT(40), <1>2, <1>3, <1>4, <1>5, <1>7, <1>8
  <2>5. \A u \in Track \ twice' : \A j \in 1..Len(core') : core'[j] = u => ctx'[u] = j
    <3> SUFFICES ASSUME NEW u \in Track \ twice, NEW j \in 1..Len(core), core[j] = u
                 PROVE  ctx[u] = j
      BY Zenon, <1>2, <2>1
    <3>1. j # i
      BY Zenon, <1>3, <1>5, <1>8
    <3>2. QED
      BY Zenon, <1>7, <3>1
  <2>6. QED
    BY Zenon, <1>2, <1>7, <2>1, <2>3, <2>4, <2>5, Settles
<1>9. CASE t # None
  <2>1. /\ call' = [call EXCEPT ![th].op = "bind"] /\ TakeSender(None)
    BY Zenon, <1>5, <1>9 DEF AddLock
  <2>2. ctx' = ctx
    BY Zenon, <1>3, <1>6, <2>1 DEF TakeSender
  <2>3. evtTx' = evtTx
    BY Zenon, <1>3, <2>1 DEF TakeSender
  <2>4. call'[th].op = "bind" /\ call'[th].id = i /\ call'[th].track = t
    <3>1. call' = [call EXCEPT ![th] = [call[th] EXCEPT !.op = "bind"]]
      BY Zenon, <2>1
    <3>2. QED
      BY ZenonT(40), <1>3, <3>1 DEF Calls
  <2>5. \A j : Busy(th, j)' <=> j = i
    BY Zenon, <2>4 DEF Busy, Changes
  <2> HIDE DEF i, t
  <2>6. Records(th)'
    <3>1. \A j \in 1..Len(core') : ~Busy(th, j)' => SenderOf(j)' = core'[j]
      BY Zenon, <1>2, <1>3, <1>4, <1>7, <2>5
    <3>2. \A u \in Track \ twice' : \A j \in 1..Len(core') :
             core'[j] = u /\ ~Busy(th, j)' => ctx'[u] = j
      BY ZenonT(40), <1>2, <1>7, <2>2, <2>5
    <3>3. QED
      BY Zenon, <1>2, <1>7, <2>2, <2>3, <3>1, <3>2 DEF Records
  <2>7. Adding(th)'
    BY Zenon, <1>2, <1>3, <1>4, <1>5, <2>2, <2>4 DEF Adding
  <2>8. Removing(th)' /\ Listing(th)'
    BY Zenon, <2>4 DEF Removing, Listing
  <2>9. QED
    BY Zenon, <2>6, <2>7, <2>8 DEF AgreeInv
<1>10. QED
  BY Zenon, <1>8, <1>9

LEMMA AddBindAgree ==
  ASSUME NEW th \in Thread, AgreeInv(th), AddBind(th), OrderInv'
  PROVE  AgreeInv(th)'
<1> DEFINE i == call[th].id
           t == call[th].track
<1>1. TypeInv
  BY Zenon DEF AgreeInv, OrderInv
<1>2. call[th].op = "bind"
  BY Zenon DEF AddBind
<1>3. /\ core[i] = t /\ SenderOf(i) = None /\ (\A u \in Track : ctx[u] # i)
      /\ t \in Track \ twice => \A j \in 1..Len(core) : core[j] = t => j = i
  BY Zenon, <1>2 DEF AgreeInv, Adding
<1>4. /\ i \in 1..Len(core) /\ 1..Len(core) \subseteq Ids /\ None \notin Track
      /\ (\A u \in Track : ctx[u] \in 0..Len(core)) /\ evtTx \subseteq Track
  BY ZenonT(40), <1>1, <1>2, Basics DEF Changes
<1>5. table[i] # 0 /\ t # None /\ ctx \in [Track -> 0..Len(core)]
  BY ZenonT(40), <1>1, <1>2 DEF TypeInv, TypeOK, CallOK
<1>6. t \in Carried
  BY ZenonT(40), <1>1 DEF TypeInv, TypeOK, Calls, Carried
<1>7. /\ objs' = [objs EXCEPT ![i][table[i]] = t] /\ table' = table
      /\ evtTx' = IF t \in Track THEN evtTx \cup {t} ELSE evtTx
      /\ ctx' = [u \in Track |-> IF u = t THEN i ELSE ctx[u]]
      /\ Return(th) /\ core' = core /\ twice' = twice
  BY Zenon, <1>3, <1>5 DEF AddBind
<1>8. /\ \A j \in 1..Len(core) : j # i => SenderOf(j) = core[j]
      /\ \A u \in Track : ctx[u] # 0 => core[ctx[u]] = u
      /\ \A u \in Track \ twice : \A j \in 1..Len(core) : core[j] = u /\ j # i => ctx[u] = j
      /\ evtTx = {u \in Track : ctx[u] # 0}
  BY Zenon, <1>3 DEF AgreeInv, Records, Busy
<1>9. call'[th] = Idle /\ Idle.op = "idle"
  BY Zenon, <1>1, <1>7, ReturnCalls
<1>10. Listing(th)' /\ call'[th].op \notin Changes
  BY Zenon, <1>9 DEF Listing, Changes
<1> HIDE DEF i, t
<1>11. i \in Ids /\ i # 0
  <2>1. i \in Ids /\ i \in 1..Len(core)
    BY Zenon, <1>4
  <2>2. QED
    BY <2>1
<1>12. objs'[i][table[i]] = t /\ \A j \in Ids \ {i} : objs'[j] = objs[j]
  BY ZenonT(40), <1>1, <1>5, <1>6, <1>7, <1>11, SetSenderTypes
<1>13. \A j \in Ids : SenderOf(j)' = IF j = i THEN t ELSE SenderOf(j)
  BY <1>5, <1>7, <1>12 DEF SenderOf
<1>14. \A j \in 1..Len(core') : SenderOf(j)' = core'[j]
  BY Zenon, <1>3, <1>4, <1>7, <1>8, <1>13
<1>15. \A u \in Track : ctx'[u] = IF u = t THEN i ELSE ctx[u]
  BY Zenon, <1>7
<1>16. \A u \in Track : ctx'[u] # 0 => core'[ctx'[u]] = u
  BY Zenon, <1>3, <1>7, <1>8, <1>15
<1>17. \A u \in Track \ twice' : \A j \in 1..Len(core') : core'[j] = u => ctx'[u] = j
  BY ZenonT(40), <1>3, <1>7, <1>8, <1>15
<1>18. evtTx' = {u \in Track : ctx'[u] # 0}
  BY Zenon, <1>7, <1>8, <1>11, <1>15
<1>19. QED
  BY Zenon, <1>10, <1>14, <1>16, <1>17, <1>18, Settles

LEMMA RemoveLockAgree ==
  ASSUME NEW th \in Thread, AgreeInv(th), RemoveLock(th), OrderInv'
  PROVE  AgreeInv(th)'
<1> DEFINE i == call[th].id
           old == SenderOf(i)
<1>1. TypeInv
  BY Zenon DEF AgreeInv, OrderInv
<1>2. call[th].op = "remove" /\ Return(th) /\ core' = core /\ twice' = twice /\ table' = table
  BY Zenon DEF RemoveLock
<1>3. /\ core[i] = None /\ (\A u \in Track : ctx[u] = i => old = u)
      /\ old \in Track => old \in twice \/ \A j \in 1..Len(core) : core[j] # old
  BY Zenon, <1>2 DEF AgreeInv, Removing
<1>4. /\ i \in 1..Len(core) /\ 1..Len(core) \subseteq Ids /\ None \notin Track
      /\ (\A u \in Track : ctx[u] \in 0..Len(core)) /\ evtTx \subseteq Track
      /\ None \in Carried
  BY Zenon, <1>1, <1>2, Basics DEF Changes, Carried
<1>5. /\ \A j \in 1..Len(core) : j # i => SenderOf(j) = core[j]
      /\ \A u \in Track : ctx[u] # 0 /\ ctx[u] # i => core[ctx[u]] = u
      /\ \A u \in Track \ twice : \A j \in 1..Len(core) : core[j] = u /\ j # i => ctx[u] = j
      /\ evtTx = {u \in Track : ctx[u] # 0}
  BY Zenon DEF AgreeInv, Records, Busy
<1>6. call'[th] = Idle /\ Idle.op = "idle"
  BY Zenon, <1>1, <1>2, ReturnCalls
<1>7. Listing(th)' /\ call'[th].op \notin Changes
  BY Zenon, <1>6 DEF Listing, Changes
<1>8. i \in Ids
  BY ZenonT(40), <1>4
<1>9. CASE table[i] = 0
  <2>1. objs' = objs /\ ctx' = ctx /\ evtTx' = evtTx
    BY Zenon, <1>9 DEF RemoveLock
  <2>2. old = None
    BY Zenon, <1>9 DEF SenderOf
  <2>3. \A j : SenderOf(j)' = SenderOf(j)
    BY Zenon, <1>2, <2>1, SameSender
  <2> HIDE DEF i, old
  <2>4. \A u \in Track : ctx[u] # i
    BY ZenonT(40), <1>3, <1>4, <2>2
  <2>5. \A j \in 1..Len(core') : SenderOf(j)' = core'[j]
    BY ZenonT(40), <1>2, <1>3, <1>5, <2>2, <2>3 DEF old
  <2>6. \A u \in Track : ctx'[u] # 0 => core'[ctx'[u]] = u
    BY ZenonT(40), <1>2, <1>5, <2>1, <2>4
  <2>7. \A u \in Track \ twice' : \A j \in 1..Len(core') : core'[j] = u => ctx'[u] = j
    BY SMTT(30), <1>2, <1>3, <1>4, <1>5, <2>1
  <2>8. QED
    BY Zenon, <1>5, <1>7, <2>1, <2>5, <2>6, <2>7, Settles
<1>10. CASE table[i] # 0
  <2>1. /\ evtTx' = evtTx \ {old} /\ ctx' = [u \in Track |-> IF u = old THEN 0 ELSE ctx[u]]
        /\ objs' = [objs EXCEPT ![i][table[i]] = None]
    BY Zenon, <1>10 DEF RemoveLock, TakeSender
  <2> HIDE DEF i, old
  <2>2. objs'[i][table[i]] = None /\ \A j \in Ids \ {i} : objs'[j] = objs[j]
    BY Zenon, <1>1, <1>2, <1>4, <1>8, <1>10, <2>1, SetSenderTypes
  <2>3. \A j \in Ids : SenderOf(j)' = IF j = i THEN None ELSE SenderOf(j)
    BY ZenonT(40), <1>2, <1>10, <2>2 DEF SenderOf
  <2>4. \A u \in Track : ctx'[u] = IF u = old THEN 0 ELSE ctx[u]
    BY ZenonT(40), <2>1
  <2>5. \A j \in 1..Len(core') : SenderOf(j)' = core'[j]
    BY Zenon, <1>2, <1>3, <1>4, <1>5, <2>3
  <2>6. \A u \in Track : ctx'[u] # 0 => core'[ctx'[u]] = u
    BY Zenon, <1>2, <1>3, <1>5, <2>4
  <2>7. \A u \in Track \ twice' : \A j \in 1..Len(core') : core'[j] = u => ctx'[u] = j
    <3> SUFFICES ASSUME NEW u \in Track \ twice, NEW j \in 1..Len(core), core[j] = u
                 PROVE  ctx'[u] = j
      BY Zenon, <1>2
    <3>1. j # i /\ u # old
      BY ZenonT(40), <1>3, <1>4
    <3>2. QED
      BY Zenon, <1>5, <2>4, <3>1
  <2>8. evtTx' = {u \in Track : ctx'[u] # 0}
    BY ZenonT(40), <1>5, <2>1, <2>4
  <2>9. QED
    BY Zenon, <1>7, <2>5, <2>6, <2>7, <2>8, Settles
<1>11. QED
  BY Zenon, <1>9, <1>10

LEMMA GetLockAgree ==
  ASSUME NEW th \in Thread, AgreeInv(th), GetLock(th), OrderInv'
  PROVE  AgreeInv(th)'
<1> DEFINE n == call[th].id
<1>1. TypeInv
  BY Zenon DEF AgreeInv, OrderInv
<1>2. call[th].op = "get" /\ core' = core /\ ctx' = ctx /\ evtTx' = evtTx /\ twice' = twice
  BY Zenon DEF GetLock
<1>3. /\ call'[th].op = "visit" /\ call'[th].id = n
      /\ call'[th].todo = {<<i, table'[i]>> : i \in 1..n}
      /\ call'[th].got = call[th].got
      /\ \A i \in 1..n : /\ table'[i] # 0
                         /\ table[i] # 0 => table'[i] = table[i] /\ objs'[i] = objs[i]
                         /\ table[i] = 0 => objs'[i][table'[i]] = None
  BY Zenon, <1>1, GetLockTypes
<1>4. /\ n \in 0..Len(core) /\ Len(core) \in Nat /\ 1..Len(core) \subseteq Ids
  BY Zenon, <1>1, Basics
<1>5. call[th].got = {} /\ \A i \in (n + 1)..Len(core) : core[i] = None
  BY Zenon, <1>2 DEF AgreeInv, Listing
<1>6. \A i \in Ids : ~(i \in 1..n) => table'[i] = 0
  BY <1>4 DEF GetLock, Ids
<1>7. /\ \A j \in 1..Len(core) : SenderOf(j) = core[j]
      /\ \A u \in Track : ctx[u] # 0 => core[ctx[u]] = u
      /\ \A u \in Track \ twice : \A j \in 1..Len(core) : core[j] = u => ctx[u] = j
      /\ evtTx = {u \in Track : ctx[u] # 0}
  BY Zenon, <1>2, Settled DEF Changes
<1> HIDE DEF n
<1>8. ASSUME NEW j \in 1..Len(core) PROVE SenderOf(j)' = core[j]
  <2>1. CASE j \in 1..n
    <3>1. SenderOf(j)' = objs'[j][table'[j]]
      BY ZenonT(40), <1>3, <2>1 DEF SenderOf
    <3>2. CASE table[j] # 0
      BY ZenonT(40), <1>3, <1>7, <2>1, <3>1, <3>2 DEF SenderOf
    <3>3. CASE table[j] = 0
      BY ZenonT(40), <1>3, <1>7, <2>1, <3>1, <3>3 DEF SenderOf
    <3>4. QED
      BY Zenon, <3>2, <3>3
  <2>2. CASE j \notin 1..n
    <3>1. j \in Ids /\ core[j] = None
      <4>1. j \in Ids /\ (j \in (n + 1)..Len(core) => core[j] = None) /\ j \notin 1..n
        BY Zenon, <1>4, <1>5, <2>2
      <4>2. j \in (n + 1)..Len(core)
        <5>1. n \in 0..Len(core) /\ Len(core) \in Nat /\ j \in 1..Len(core) /\ j \notin 1..n
          BY Zenon, <1>4, <4>1
        <5>2. QED
          BY <5>1
      <4>3. QED
        BY Zenon, <4>1, <4>2
    <3>2. QED
      BY ZenonT(40), <1>6, <2>2, <3>1 DEF SenderOf
  <2>3. QED
    BY Zenon, <2>1, <2>2
<1>9. Listing(th)'
  <2>1. {j \in 1..n : core[j] # None /\ <<j, table'[j]>> \notin call'[th].todo} = {}
    BY Zenon, <1>3
  <2>2. call'[th].got = {<<i, core[i]>> : i \in
            {j \in 1..n : core[j] # None /\ <<j, table'[j]>> \notin call'[th].todo}}
    BY Zenon, <1>3, <1>5, <2>1
  <2>3. QED
    BY ZenonT(40), <1>2, <1>3, <1>5, <2>2 DEF Listing
<1>10. call'[th].op \notin Changes
  BY ZenonT(40), <1>3 DEF Changes
<1>11. QED
  BY ZenonT(40), <1>2, <1>7, <1>8, <1>9, <1>10, Settles

LEMMA VisitAgree ==
  ASSUME NEW th \in Thread, AgreeInv(th), NEW o \in Ids \X (1..MaxObjs), Visit(th, o), OrderInv'
  PROVE  AgreeInv(th)'
<1> DEFINE n == call[th].id
           todo == call[th].todo
           got == call[th].got
<1>1. TypeInv
  BY Zenon DEF AgreeInv, OrderInv
<1>2. /\ call[th].op = "visit" /\ o \in todo
      /\ UNCHANGED <<core, ctx, evtTx, twice, objs, table>>
  BY Zenon DEF Visit
<1>3. /\ call'[th].op = "visit" /\ call'[th].id = n /\ call'[th].todo = todo \ {o}
      /\ call'[th].got = IF objs[o[1]][o[2]] = None THEN got
                         ELSE got \cup {<<o[1], objs[o[1]][o[2]]>>}
  BY Zenon, <1>1, VisitTypes
<1>4. /\ n \in 0..Len(core) /\ Len(core) \in Nat
  BY Zenon, <1>1, Basics
<1>5. /\ \A i \in (n + 1)..Len(core) : core[i] = None
      /\ \A i \in 1..n : table[i] # 0
      /\ todo \subseteq {<<i, table[i]>> : i \in 1..n}
      /\ got = {<<i, core[i]>> : i \in {j \in 1..n : core[j] # None /\ <<j, table[j]>> \notin todo}}
  BY Zenon, <1>2 DEF AgreeInv, Listing
<1>6. /\ \A j \in 1..Len(core) : SenderOf(j) = core[j]
      /\ \A u \in Track : ctx[u] # 0 => core[ctx[u]] = u
      /\ \A u \in Track \ twice : \A j \in 1..Len(core) : core[j] = u => ctx[u] = j
      /\ evtTx = {u \in Track : ctx[u] # 0}
  BY Zenon, <1>2, Settled DEF Changes
<1>7. \A j : SenderOf(j)' = SenderOf(j)
  BY Zenon, <1>2, SameSender
<1> HIDE DEF n, todo, got
<1>8. PICK k \in 1..n : o = <<k, table[k]>>
  BY ZenonT(40), <1>2, <1>5
<1>9. objs[o[1]][o[2]] = core[k] /\ o[1] = k
  BY <1>4, <1>5, <1>6, <1>8 DEF SenderOf
<1>10. \A j \in 1..n : <<j, table[j]>> \in todo \ {o} <=> <<j, table[j]>> \in todo /\ j # k
  BY Zenon, <1>8
<1>11. call'[th].got = {<<i, core[i]>> : i \in
          {j \in 1..n : core[j] # None /\ <<j, table[j]>> \notin todo \ {o}}}
  <2> DEFINE A == {j \in 1..n : core[j] # None /\ <<j, table[j]>> \notin todo}
             B == {j \in 1..n : core[j] # None /\ <<j, table[j]>> \notin todo \ {o}}
  <2>1. got = {<<i, core[i]>> : i \in A}
    BY Zenon, <1>5
  <2>2. CASE core[k] = None
    <3>1. A = B
      BY Zenon, <1>10, <2>2
    <3>2. QED
      BY Zenon, <1>3, <1>9, <2>1, <2>2, <3>1
  <2>3. CASE core[k] # None
    <3>1. B = A \cup {k}
      BY Zenon, <1>8, <1>10, <2>3
    <3>2. call'[th].got = got \cup {<<k, core[k]>>}
      BY Zenon, <1>3, <1>9, <2>3
    <3> HIDE DEF A, B
    <3>3. {<<i, core[i]>> : i \in A \cup {k}} = {<<i, core[i]>> : i \in A} \cup {<<k, core[k]>>}
      BY Zenon
    <3>4. call'[th].got = {<<i, core[i]>> : i \in B}
      BY Zenon, <2>1, <3>1, <3>2, <3>3
    <3>5. QED
      BY Zenon, <3>4 DEF B
  <2>4. QED
    BY ZenonT(40), <2>2, <2>3
<1>12. Listing(th)'
  <2>1. call'[th].todo \subseteq {<<i, table[i]>> : i \in 1..n}
    BY Zenon, <1>3, <1>5
  <2>2. core' = core /\ table' = table
    BY ZenonT(40), <1>2
  <2>3. /\ \A i \in (call'[th].id + 1)..Len(core') : core'[i] = None
        /\ \A i \in 1..call'[th].id : table'[i] # 0
        /\ call'[th].todo \subseteq {<<i, table'[i]>> : i \in 1..call'[th].id}
    BY ZenonT(40), <1>3, <1>5, <2>1, <2>2
  <2>4. call'[th].got = {<<i, core'[i]>> : i \in
           {j \in 1..call'[th].id : core'[j] # None /\ <<j, table'[j]>> \notin call'[th].todo}}
    BY Zenon, <1>3, <1>11, <2>2
  <2>5. QED
    BY Zenon, <1>3, <2>3, <2>4 DEF Listing
<1>13. call'[th].op \notin Changes
  BY ZenonT(40), <1>3 DEF Changes
<1>14. QED
  BY ZenonT(40), <1>2, <1>6, <1>7, <1>12, <1>13, Settles

LEMMA GetReturnAgree ==
  ASSUME NEW th \in Thread, AgreeInv(th), GetReturn(th), OrderInv'
  PROVE  AgreeInv(th)'
<1>1. TypeInv
  BY Zenon DEF AgreeInv, OrderInv
<1>2. /\ call[th].op = "visit" /\ Return(th) /\ UNCHANGED <<core, ctx, evtTx, twice, objs, table>>
  BY Zenon DEF GetReturn
<1>3. call'[th] = Idle /\ Idle.op = "idle"
  BY Zenon, <1>1, <1>2, ReturnCalls
<1>4. Listing(th)' /\ call'[th].op \notin Changes
  BY Zenon, <1>3 DEF Listing, Changes
<1>5. /\ \A j \in 1..Len(core) : SenderOf(j) = core[j]
      /\ \A u \in Track : ctx[u] # 0 => core[ctx[u]] = u
      /\ \A u \in Track \ twice : \A j \in 1..Len(core) : core[j] = u => ctx[u] = j
      /\ evtTx = {u \in Track : ctx[u] # 0}
  BY Zenon, <1>2, Settled DEF Changes
<1>6. \A j : SenderOf(j)' = SenderOf(j)
  BY Zenon, <1>2, SameSender
<1>7. QED
  BY ZenonT(40), <1>2, <1>4, <1>5, <1>6, Settles

\* The network: transceivers of the remote offer, and receivers.
LEMMA RemoteTransceiverAgree ==
  ASSUME NEW th \in Thread, AgreeInv(th), RemoteTransceiver, OrderInv'
  PROVE  AgreeInv(th)'
<1> DEFINE c == call[th]
<1>1. TypeInv
  BY Zenon DEF AgreeInv, OrderInv
<1>2. /\ Len(core) < MaxTr /\ core' = Append(core, None) /\ call' = call /\ twice' = twice
      /\ UNCHANGED <<objs, table, ctx, evtTx>>
  BY Zenon DEF RemoteTransceiver, apiVars
<1>3. core \in Seq(Carried) /\ Len(core) \in Nat /\ None \in Carried /\ MaxTr \in Nat
  BY ZenonT(40), <1>1, CoreLen, BoundAssumption DEF Carried
<1>4. /\ Len(core') = Len(core) + 1 /\ core'[Len(core) + 1] = None
      /\ \A j \in 1..Len(core) : core'[j] = core[j]
  BY SMTT(30), <1>2, <1>3, Added
<1>5. /\ (\A u \in Track : ctx[u] \in 0..Len(core)) /\ None \notin Track
      /\ (\A i \in Ids : table[i] # 0 => i \in 1..Len(core))
      /\ c.id \in 0..Len(core) /\ (c.op \in Changes => c.id \in 1..Len(core))
  BY Zenon, <1>1, Basics
<1>6. \A j \in 1..Len(core') : \/ j \in 1..Len(core) /\ core'[j] = core[j]
                               \/ j \notin 1..Len(core) /\ j \in Ids /\ core'[j] = None
  BY <1>2, <1>3, <1>4 DEF Ids
<1>7. \A j : (Busy(th, j)' <=> Busy(th, j)) /\ SenderOf(j)' = SenderOf(j)
  BY ZenonT(40), <1>2, SameSender DEF Busy
<1>8. \A j \in Ids : j \notin 1..Len(core) => SenderOf(j) = None
  BY Zenon, <1>5 DEF SenderOf
<1>9. \A u \in Track : ctx[u] # 0 => ctx[u] \in 1..Len(core)
  BY SMTT(30), <1>3, <1>5
<1>10. Records(th)'
  <2>1. /\ \A j \in 1..Len(core) : ~Busy(th, j) => SenderOf(j) = core[j]
        /\ \A u \in Track : ctx[u] # 0 /\ ~Busy(th, ctx[u]) => core[ctx[u]] = u
        /\ \A u \in Track \ twice : \A j \in 1..Len(core) :
              core[j] = u /\ ~Busy(th, j) => ctx[u] = j
        /\ evtTx = {u \in Track : ctx[u] # 0}
    BY Zenon DEF AgreeInv, Records
  <2>2. \A j \in 1..Len(core') : ~Busy(th, j)' => SenderOf(j)' = core'[j]
    BY Zenon, <1>6, <1>7, <1>8, <2>1
  <2>3. \A u \in Track : ctx[u] # 0 /\ ~Busy(th, ctx[u]) => core'[ctx[u]] = u
    BY ZenonT(40), <1>4, <1>9, <2>1
  <2>4. \A u \in Track \ twice : \A j \in 1..Len(core') :
           core'[j] = u /\ ~Busy(th, j)' => ctx[u] = j
    BY <1>5, <1>6, <1>7, <2>1
  <2>5. \A u \in Track : Busy(th, ctx[u])' <=> Busy(th, ctx[u])
    BY Zenon, <1>2 DEF Busy
  <2>6. QED
    BY ZenonT(40), <1>2, <2>1, <2>2, <2>3, <2>4, <2>5 DEF Records
<1>11. Adding(th)'
  <2>1. CASE c.op \in {"add", "bind"}
    <3>1. /\ core[c.id] = c.track /\ SenderOf(c.id) = None /\ (\A t \in Track : ctx[t] # c.id)
          /\ c.track \in Track \ twice =>
                \A i \in 1..Len(core) : core[i] = c.track => i = c.id
      BY Zenon, <2>1 DEF AgreeInv, Adding
    <3>2. core'[c.id] = c.track
      BY ZenonT(40), <1>4, <1>5, <2>1, <3>1 DEF Changes
    <3>3. SenderOf(c.id)' = None
      BY ZenonT(40), <1>2, <3>1 DEF SenderOf
    <3>4. c.track \in Track \ twice => \A i \in 1..Len(core') : core'[i] = c.track => i = c.id
      BY ZenonT(40), <1>5, <1>6, <3>1
    <3>5. QED
      BY Zenon, <1>2, <3>1, <3>2, <3>3, <3>4 DEF Adding
  <2>2. CASE c.op \notin {"add", "bind"}
    BY Zenon, <1>2, <2>2 DEF Adding
  <2>3. QED
    BY ZenonT(40), <2>1, <2>2
<1>12. Removing(th)'
  <2>1. CASE c.op = "remove"
    <3> DEFINE old == SenderOf(c.id)
    <3>1. /\ core[c.id] = None /\ (\A t \in Track : ctx[t] = c.id => old = t)
          /\ old \in Track => old \in twice \/ \A i \in 1..Len(core) : core[i] # old
      BY Zenon, <2>1 DEF AgreeInv, Removing
    <3>2. core'[c.id] = None
      BY Zenon, <1>4, <1>5, <2>1, <3>1 DEF Changes
    <3>3. SenderOf(c.id)' = old
      BY Zenon, <1>2 DEF SenderOf
    <3> HIDE DEF old
    <3>4. old \in Track => old \in twice \/ \A i \in 1..Len(core') : core'[i] # old
      BY ZenonT(40), <1>5, <1>6, <3>1
    <3>5. QED
      BY Zenon, <1>2, <3>1, <3>2, <3>3, <3>4 DEF Removing
  <2>2. CASE c.op # "remove"
    BY ZenonT(40), <1>2, <2>2 DEF Removing
  <2>3. QED
    BY ZenonT(40), <2>1, <2>2
<1>13. Listing(th)'
  <2>1. c.op \in {"get", "visit"} => \A i \in (c.id + 1)..Len(core') : core'[i] = None
    <3> SUFFICES ASSUME c.op \in {"get", "visit"}, NEW i \in (c.id + 1)..Len(core')
                 PROVE  core'[i] = None
      BY ZenonT(40)
    <3>1. \A k \in (c.id + 1)..Len(core) : core[k] = None
      BY ZenonT(40) DEF AgreeInv, Listing
    <3>2. i \in 1..Len(core') /\ (i \in 1..Len(core) => i \in (c.id + 1)..Len(core))
      BY SMTT(30), <1>3, <1>4, <1>5
    <3>3. QED
      BY Zenon, <1>6, <3>1, <3>2
  <2>2. \A j \in 1..c.id : core'[j] = core[j]
    BY <1>3, <1>4, <1>5
  <2>3. c.op = "visit" =>
          c.got = {<<i, core'[i]>> : i \in
                {j \in 1..c.id : core'[j] # None /\ <<j, table[j]>> \notin c.todo}}
    <3>1. {j \in 1..c.id : core'[j] # None /\ <<j, table[j]>> \notin c.todo}
            = {j \in 1..c.id : core[j] # None /\ <<j, table[j]>> \notin c.todo}
      BY Zenon, <2>2
    <3> DEFINE A == {j \in 1..c.id : core[j] # None /\ <<j, table[j]>> \notin c.todo}
    <3>2. {<<i, core'[i]>> : i \in A} = {<<i, core[i]>> : i \in A}
      BY Zenon, <2>2
    <3>3. QED
      BY Zenon, <3>1, <3>2 DEF AgreeInv, Listing
  <2>4. /\ c.op = "get" => c.got = {}
        /\ c.op = "visit" => (\A i \in 1..c.id : table[i] # 0)
                             /\ c.todo \subseteq {<<i, table[i]>> : i \in 1..c.id}
    BY Zenon DEF AgreeInv, Listing
  <2>5. QED
    BY Zenon, <1>2, <2>1, <2>3, <2>4 DEF Listing
<1>14. QED
  BY Zenon, <1>10, <1>11, <1>12, <1>13 DEF AgreeInv

\* Steps that leave the calls and the senders of all ids as they are.
LEMMA StillAgree ==
  ASSUME NEW th \in Thread, AgreeInv(th), OrderInv',
         UNCHANGED <<call, core, ctx, evtTx, twice>>,
         \A j \in Ids : SenderOf(j)' = SenderOf(j),
         call[th].op = "visit" => \A j \in 1..call[th].id : table'[j] = table[j]
  PROVE  AgreeInv(th)'
<1> DEFINE c == call[th]
<1>1. /\ 1..Len(core) \subseteq Ids /\ c.id \in 0..Len(core)
      /\ (c.op \in Changes => c.id \in 1..Len(core))
  BY Zenon, Basics DEF AgreeInv, OrderInv
<1>2. \A j : Busy(th, j)' <=> Busy(th, j)
  BY Zenon DEF Busy
<1>3. \A u \in Track : Busy(th, ctx[u])' <=> Busy(th, ctx[u])
  BY ZenonT(40) DEF Busy
<1>4. Records(th)'
  <2>1. \A j \in 1..Len(core) : ~Busy(th, j)' => SenderOf(j)' = core[j]
    BY Zenon, <1>1, <1>2 DEF AgreeInv, Records
  <2>2. QED
    BY ZenonT(40), <1>2, <1>3, <2>1 DEF AgreeInv, Records
<1>5. ASSUME c.op \in Changes PROVE SenderOf(c.id)' = SenderOf(c.id)
  <2>1. PICK k \in Ids : k = c.id
    BY Zenon, <1>1, <1>5
  <2>2. c'.id = k
    BY Zenon, <2>1
  <2>3. SenderOf(k)' = SenderOf(k)
    BY Zenon
  <2>4. QED
    BY Zenon, <2>1, <2>2, <2>3 DEF SenderOf
<1>6. Adding(th)'
  BY Zenon, <1>5 DEF AgreeInv, Adding, Changes
<1>7. Removing(th)'
  BY Zenon, <1>5 DEF AgreeInv, Removing, Changes
<1>8. Listing(th)'
  <2>1. CASE c.op = "visit"
    <3>1. /\ \A i \in (c.id + 1)..Len(core) : core[i] = None
          /\ \A i \in 1..c.id : table[i] # 0
          /\ c.todo \subseteq {<<i, table[i]>> : i \in 1..c.id}
          /\ c.got = {<<i, core[i]>> : i \in
                {j \in 1..c.id : core[j] # None /\ <<j, table[j]>> \notin c.todo}}
      BY Zenon, <2>1 DEF AgreeInv, Listing
    <3>2. \A j \in 1..c.id : table'[j] = table[j]
      BY Zenon, <2>1
    <3>3. {<<i, table'[i]>> : i \in 1..c.id} = {<<i, table[i]>> : i \in 1..c.id}
      BY Zenon, <3>2
    <3>4. {j \in 1..c.id : core[j] # None /\ <<j, table'[j]>> \notin c.todo}
            = {j \in 1..c.id : core[j] # None /\ <<j, table[j]>> \notin c.todo}
      BY Zenon, <3>2
    <3>5. QED
      BY ZenonT(40), <2>1, <3>1, <3>2, <3>3, <3>4 DEF Listing
  <2>2. CASE c.op # "visit"
    BY Zenon, <2>2 DEF AgreeInv, Listing
  <2>3. QED
    BY ZenonT(40), <2>1, <2>2
<1>9. QED
  BY Zenon, <1>4, <1>6, <1>7, <1>8 DEF AgreeInv

LEMMA OnTrackAgree ==
  ASSUME NEW th \in Thread, AgreeInv(th), NEW i \in Ids, OnTrack(i), OrderInv'
  PROVE  AgreeInv(th)'
<1>1. TypeInv
  BY Zenon DEF AgreeInv, OrderInv
<1>2. /\ i <= Len(core) /\ table[i] = 0 /\ OrInsert(i)
      /\ UNCHANGED <<call, core, ctx, evtTx, twice>>
  BY Zenon DEF OnTrack, apiVars
<1>3. \A j \in Ids : SenderOf(j)' = SenderOf(j)
  BY Zenon, <1>1, <1>2, OrInsertSenders
<1>4. \A j \in Ids \ {i} : table'[j] = table[j]
  BY Zenon, <1>1, <1>2, OrInsertTypes
<1>5. call[th].op = "visit" => \A j \in 1..call[th].id : table[j] # 0 /\ j \in Ids
  <2>1. call[th].id \in 0..Len(core) /\ 1..Len(core) \subseteq Ids /\ Len(core) \in Nat
    BY Zenon, <1>1, Basics
  <2>2. 1..call[th].id \subseteq Ids
    BY <2>1
  <2>3. QED
    BY Zenon, <2>2 DEF AgreeInv, Listing
<1>6. QED
  BY Zenon, <1>2, <1>3, <1>4, <1>5, StillAgree

LEMMA OtherAgree ==
  ASSUME NEW th \in Thread, AgreeInv(th), OrderInv',
         UNCHANGED <<core, objs, table, ctx, evtTx, apiVars>>
  PROVE  AgreeInv(th)'
<1>1. UNCHANGED <<call, core, ctx, evtTx, twice>> /\ table' = table
  BY Zenon DEF apiVars
<1>2. \A j : SenderOf(j)' = SenderOf(j)
  BY Zenon, SameSender
<1>3. QED
  BY Zenon, <1>1, <1>2, StillAgree

LEMMA AgreeInit == ASSUME Init, NEW th \in Thread PROVE AgreeInv(th)
<1>1. call[th].op = "idle"
  BY Zenon DEF Init, Idle
<1>2. Records(th)
  BY <1>1 DEF Init, Records
<1>3. Adding(th) /\ Removing(th) /\ Listing(th)
  BY Zenon, <1>1 DEF Adding, Removing, Listing
<1>4. QED
  BY Zenon, <1>2, <1>3, OrderInit DEF AgreeInv

LEMMA AgreeStep ==
  ASSUME NEW app, Thread = {app}, AgreeInv(app), [Next]_vars
  PROVE  AgreeInv(app)'
<1>1. OrderInv' /\ app \in Thread
  BY Zenon, OrderStep DEF AgreeInv
<1>2. ASSUME NEW th \in Thread, NEW t \in Track, AddTrack(th, t) PROVE AgreeInv(app)'
  BY Zenon, <1>1, <1>2, AddTrackAgree
<1>3. ASSUME NEW th \in Thread, NEW t \in {Own, None}, AddTransceiver(th, t)
      PROVE  AgreeInv(app)'
  BY Zenon, <1>1, <1>3, AddTransceiverAgree
<1>4. ASSUME NEW th \in Thread, NEW s \in senders, RemoveTrack(th, s) PROVE AgreeInv(app)'
  BY Zenon, <1>1, <1>4, RemoveTrackAgree
<1>5. ASSUME NEW th \in Thread, GetSenders(th) PROVE AgreeInv(app)'
  BY Zenon, <1>1, <1>5, GetSendersAgree
<1>6. ASSUME NEW th \in Thread, AddLock(th) PROVE AgreeInv(app)'
  BY ZenonT(40), <1>1, <1>6, AddLockAgree
<1>7. ASSUME NEW th \in Thread, AddBind(th) PROVE AgreeInv(app)'
  BY Zenon, <1>1, <1>7, AddBindAgree
<1>8. ASSUME NEW th \in Thread, RemoveLock(th) PROVE AgreeInv(app)'
  BY Zenon, <1>1, <1>8, RemoveLockAgree
<1>9. ASSUME NEW th \in Thread, GetLock(th) PROVE AgreeInv(app)'
  BY Zenon, <1>1, <1>9, GetLockAgree
<1>10. ASSUME NEW th \in Thread, NEW o \in Ids \X (1..MaxObjs), Visit(th, o)
       PROVE  AgreeInv(app)'
  BY ZenonT(40), <1>1, <1>10, VisitAgree
<1>11. ASSUME NEW th \in Thread, GetReturn(th) PROVE AgreeInv(app)'
  BY Zenon, <1>1, <1>11, GetReturnAgree
<1>12. ASSUME RemoteTransceiver PROVE AgreeInv(app)'
  BY Zenon, <1>1, <1>12, RemoteTransceiverAgree
<1>13. ASSUME NEW i \in Ids, OnTrack(i) PROVE AgreeInv(app)'
  BY ZenonT(40), <1>1, <1>13, OnTrackAgree
<1>14. ASSUME Close PROVE AgreeInv(app)'
  BY Zenon, <1>1, <1>14, OtherAgree DEF Close
<1>15. ASSUME NEW t \in Track, WriteRtp(t) \/ SendRtp(t) PROVE AgreeInv(app)'
  BY Zenon, <1>1, <1>15, OtherAgree DEF WriteRtp, SendRtp
<1>16. ASSUME SenderRtp PROVE AgreeInv(app)'
  BY ZenonT(40), <1>1, <1>16, OtherAgree DEF SenderRtp
<1>17. ASSUME UNCHANGED vars PROVE AgreeInv(app)'
  BY Zenon, <1>1, <1>17, OtherAgree DEF vars
<1>18. QED
  BY ZenonT(40), <1>2, <1>3, <1>4, <1>5, <1>6, <1>7, <1>8, <1>9, <1>10, <1>11, <1>12, <1>13, <1>14,
     <1>15, <1>16, <1>17 DEF Next, Step

LEMMA AgreeImplies ==
  ASSUME NEW app, Thread = {app}, AgreeInv(app)
  PROVE  SendersAgree
<1>1. TypeOK /\ app \in Thread /\ TypeInv
  BY Zenon DEF AgreeInv, OrderInv, TypeInv
<1>2. RecordsAgree
  <2> SUFFICES ASSUME \A th \in Thread : call[th].op \notin {"add", "bind", "remove"}
               PROVE  /\ \A i \in 1..Len(core) : SenderOf(i) = core[i]
                      /\ \A t \in Track : ctx[t] # 0 => core[ctx[t]] = t
                      /\ \A t \in Track \ twice : \A i \in 1..Len(core) :
                            core[i] = t => ctx[t] = i
                      /\ evtTx = {t \in Track : ctx[t] # 0}
    BY Zenon DEF RecordsAgree
  <2>1. call[app].op \notin Changes
    BY Zenon, <1>1 DEF Changes
  <2>2. QED
    BY Zenon, <1>1, <2>1, Settled
<1>3. AllSendersListed
  <2> DEFINE c == call[app]
             A == {j \in 1..c.id : core[j] # None /\ <<j, table[j]>> \notin c.todo}
             B == {j \in 1..Len(core) : core[j] # None}
  <2> SUFFICES ASSUME c.op = "visit", c.todo = {}
               PROVE  c.got = {<<i, core[i]>> : i \in B}
    BY Zenon DEF AllSendersListed
  <2>1. c.got = {<<i, core[i]>> : i \in A} /\ \A i \in (c.id + 1)..Len(core) : core[i] = None
    BY Zenon DEF AgreeInv, Listing
  <2>2. c.id \in 0..Len(core) /\ Len(core) \in Nat
    BY ZenonT(40), <1>1, Basics
  <2>3. A = B
    <3> HIDE DEF c
    <3>1. A = {j \in 1..c.id : core[j] # None}
      BY ZenonT(40)
    <3>2. 1..c.id \subseteq 1..Len(core)
      BY <2>2
    <3>3. ASSUME NEW j \in 1..Len(core), core[j] # None
          PROVE  j \in 1..c.id
      <4>1. j \notin (c.id + 1)..Len(core)
        BY Zenon, <2>1, <3>3
      <4>2. QED
        BY <2>2, <4>1
    <3>4. QED
      BY Zenon, <3>1, <3>2, <3>3
  <2>4. QED
    BY Zenon, <2>1, <2>3
<1>4. QED
  BY Zenon, <1>1, <1>2, <1>3 DEF SendersAgree

\* SendersAgree, with one thread that adds, removes and lists senders and any
\* writers: addTrack, addTransceiver, removeTrack and getSenders, with the
\* transceivers and receivers the network adds between their steps, leave the
\* core, the table and the tracks in agreement, and getSenders lists them all.
THEOREM SendersAgreeHolds ==
  ASSUME NEW app, Thread = {app}
  PROVE  Spec => []SendersAgree
<1>1. Init => AgreeInv(app)
  BY Zenon, AgreeInit
<1>2. AgreeInv(app) /\ [Next]_vars => AgreeInv(app)'
  BY Zenon, AgreeStep
<1>3. AgreeInv(app) => SendersAgree
  BY Zenon, AgreeImplies
<1>4. QED
  BY <1>1, <1>2, <1>3, PTL DEF Spec
=============================================================================
