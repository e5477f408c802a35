---------------------- MODULE DataChannelBridge_proofs ----------------------
(***************************************************************************)
(* CallbacksTrue of DataChannelBridge, for any channels, queue capacity,   *)
(* messages and reuse of ids, when the application creates its channels    *)
(* and registers their callbacks before the handshake.                     *)
(*                                                                         *)
(* The argument: the sender of an id is stored once, so one object, the    *)
(* current one, gets all its events, and the others never open. Its poller *)
(* stops at the first close. The open events of an id can be numbered by   *)
(* the uses of the id so that the numbers grow from what on_open has seen  *)
(* through the event queue to what the core still holds.                   *)
(***************************************************************************)
EXTENDS DataChannelBridge, TLAPS

\* The object the events of its id go to.
Current(r) == tx[r[1]] = r[2]

\* create_data_channel has made an object of the id.
Created(i) == IF i \in Local /\ made[i] \in {"tx", "yes"} THEN 1 ELSE 0

\* Nothing has happened to any channel before the handshake.
Quiet ==
    ~handshake =>
        /\ coreEvents = << >> /\ coreReads = << >> /\ phase = "select"
        /\ \A r \in Rcv : queue[r] = << >>
        /\ \A i \in Id : uses[i] = 0 /\ closed[i] = 0

\* Where the driver is tells what the core still has.
Placed ==
    /\ phase = "open" => coreEvents # << >> /\ coreEvents[1].kind = "open"
    /\ phase = "reads" => coreEvents = << >>

\* Only the current object of an id has events, and only its poller ends.
Objects ==
    /\ \A i \in Id :
        /\ tx[i] <= objs[i] /\ objs[i] <= uses[i] + Created(i)
        /\ uses[i] <= MaxOpens /\ (i \in Local => uses[i] <= 1)
    /\ \A r \in Rcv :
        /\ r[2] > objs[r[1]] => poller[r] = "none"
        /\ ~Current(r) => /\ queue[r] = << >> /\ opened[r] = FALSE
                          /\ poller[r] \in {"none", "poll", "sleep"}
        /\ Current(r) => /\ poller[r] # "sleep"
                         /\ poller[r] = "none" => r[1] \in Local /\ made[r[1]] = "tx"

\* How far a channel is in the core, and in create_data_channel.
Channels ==
    /\ \A i \in Id :
        /\ core[i] \in {"open", "closed"} => handshake
        /\ uses[i] = 0 => sent[i] = 0 /\ core[i] \in {"none", "connecting"}
    /\ \A i \in Local :
        /\ core[i] \in {"none", "connecting"} => uses[i] = 0
        /\ handshake => made[i] \in {"no", "yes"} /\ core[i] # "connecting"
        /\ core[i] = "none" <=> made[i] = "no"
        /\ tx[i] # 0 <=> made[i] \in {"tx", "yes"}
        /\ i \in cbs => made[i] = "yes"
    /\ \A i \in Remote : core[i] # "connecting"

\* The callbacks are registered while the current poller can call them.
Registered ==
    \A r \in Rcv :
        Current(r) /\ poller[r] = "poll" /\ (r[1] \in Remote \/ handshake) => r[1] \in cbs

\* A close under way is the close of a channel the core closed, and the
\* current poller has called on_close at most once.
Closing ==
    /\ \A k \in 1..Len(coreEvents) :
        coreEvents[k].kind = "close" => closed[coreEvents[k].id] >= 1
    /\ \A r \in Rcv : \A k \in 1..Len(queue[r]) :
        queue[r][k].kind = "close" => closed[r[1]] >= 1
    /\ \A i \in Id : closes[i] <= closed[i] /\ (tx[i] = 0 => closes[i] = 0)
    /\ \A r \in Rcv :
        Current(r) /\ closes[r[1]] > 0 => poller[r] \in {"finish", "done"}

\* The messages of a channel grow from got through the queue to coreReads.
Ordered ==
    /\ \A k \in 1..Len(coreReads) :
        /\ coreReads[k].n <= sent[coreReads[k].id]
        /\ \A j \in 1..Len(coreReads) :
            j < k /\ coreReads[j].id = coreReads[k].id => coreReads[j].n < coreReads[k].n
    /\ \A r \in Rcv : \A k \in 1..Len(queue[r]) : queue[r][k].kind = "message" =>
        /\ queue[r][k].n <= sent[r[1]]
        /\ \A j \in 1..Len(queue[r]) :
            j < k /\ queue[r][j].kind = "message" => queue[r][j].n < queue[r][k].n
        /\ \A j \in 1..Len(coreReads) :
            coreReads[j].id = r[1] => queue[r][k].n < coreReads[j].n
        /\ \A j \in 1..Len(got[r[1]]) : got[r[1]][j] < queue[r][k].n
    /\ \A i \in Id : \A k \in 1..Len(got[i]) :
        /\ got[i][k] <= sent[i]
        /\ \A j \in 1..Len(got[i]) : j < k => got[i][j] < got[i][k]
        /\ \A j \in 1..Len(coreReads) : coreReads[j].id = i => got[i][k] < coreReads[j].n

\* on_open has run exactly if the current poller has noted the opening.
Opening ==
    /\ \A i \in Id : /\ tx[i] = 0 => opens[i] = 0
                     /\ opens[i] <= uses[i]
                     /\ got[i] # << >> => opens[i] >= 1
    /\ \A r \in Rcv : Current(r) => (opens[r[1]] = 0 <=> opened[r] = FALSE)

IsOpen(k, i) == coreEvents[k].kind = "open" /\ coreEvents[k].id = i

\* f numbers the open events of channel i in the core: by uses on_open has not
\* told of, and that no object has been made for unless it is being announced.
CoreNumbers(i, f) ==
    \A k \in 1..Len(coreEvents) : IsOpen(k, i) =>
        /\ f[k] <= uses[i] /\ opens[i] < f[k]
        /\ \A j \in 1..Len(coreEvents) : j < k /\ IsOpen(j, i) => f[j] < f[k]
        /\ objs[i] <= f[k] + Created(i)
        /\ ~(k = 1 /\ phase = "open") => objs[i] < f[k] + Created(i)

\* g numbers those in the queue of an object: by earlier ones than the core's,
\* and not by the first use when a message comes before.
QueueNumbers(r, f, g) ==
    \A k \in 1..Len(queue[r]) :
        /\ queue[r][k].kind = "open" =>
            /\ g[k] <= uses[r[1]] /\ opens[r[1]] < g[k]
            /\ \A j \in 1..Len(queue[r]) :
                j < k => /\ queue[r][j].kind = "open" => g[j] < g[k]
                         /\ queue[r][j].kind = "message" => g[k] > 1
            /\ \A j \in 1..Len(coreEvents) : IsOpen(j, r[1]) => g[k] < f[j]
        /\ queue[r][k].kind = "message" =>
            \A j \in 1..Len(coreEvents) : IsOpen(j, r[1]) => f[j] > 1

Numbering(i, f, g) ==
    CoreNumbers(i, f) /\ \A r \in Rcv : r[1] = i => QueueNumbers(r, f, g)

Tags == [Nat -> Nat]

Numbered == \A i \in Id : \E f, g \in Tags : Numbering(i, f, g)

IInv ==
    /\ TypeOK /\ Quiet /\ Placed /\ Objects /\ Channels /\ Registered
    /\ Closing /\ Ordered /\ Opening /\ Numbered

-----------------------------------------------------------------------------
(* Objects and queues.                                                      *)

LEMMA Pairs ==
  /\ \A r \in Rcv : r[1] \in Id /\ r[2] \in 1..MaxObjs /\ r = <<r[1], r[2]>>
  /\ \A i \in Id : \A k \in 1..MaxObjs : <<i, k>> \in Rcv
BY DEF Rcv

\* Adding an element at the end, and taking the first.
LEMMA Added ==
  ASSUME NEW S, NEW q \in Seq(S), NEW e \in S
  PROVE  /\ Append(q, e) \in Seq(S) /\ Len(q) \in Nat
         /\ Len(Append(q, e)) = Len(q) + 1 /\ Append(q, e)[Len(q) + 1] = e
         /\ \A k \in 1..Len(q) : Append(q, e)[k] = q[k]
OBVIOUS

LEMMA Taken ==
  ASSUME NEW S, NEW q \in Seq(S), q # << >>
  PROVE  /\ Len(q) \in Nat /\ Len(q) >= 1 /\ Head(q) = q[1] /\ q[1] \in S
         /\ Tail(q) \in Seq(S) /\ Len(Tail(q)) = Len(q) - 1
         /\ \A k \in 1..Len(Tail(q)) : Tail(q)[k] = q[k + 1] /\ k + 1 \in 1..Len(q)
OBVIOUS

LEMMA Counted ==
  ASSUME NEW F \in [Id -> Nat], NEW i \in Id
  PROVE  [F EXCEPT ![i] = @ + 1] \in [Id -> Nat]
OBVIOUS

LEMMA Listed ==
  ASSUME NEW S, NEW n \in Nat, NEW q \in [1..n -> S]
  PROVE  q \in Seq(S) /\ Len(q) = n
<1>1. Seq(S) = UNION {[1..m -> S] : m \in Nat}
  OBVIOUS
<1>2. q \in Seq(S)
  BY Zenon, <1>1
<1>3. Len(q) \in Nat /\ DOMAIN q = 1..Len(q) /\ DOMAIN q = 1..n
  BY <1>2
<1>4. QED
  BY <1>2, <1>3

LEMMA TagValues ==
  /\ \A f \in Tags : \A n \in Nat : f[n] \in Nat
  /\ \A f \in Tags : \A m \in Nat : \A n \in 1..m : f[n] \in Nat
BY DEF Tags

\* A new number for the place after the m-th, and numbers moved down a place.
LEMMA Retagged ==
  ASSUME NEW f \in Tags, NEW m \in Nat, NEW n \in Nat
  PROVE  \E t \in Tags : (\A k \in 1..m : t[k] = f[k]) /\ t[m + 1] = n
<1> DEFINE t == [k \in Nat |-> IF k = m + 1 THEN n ELSE f[k]]
<1>1. t \in Tags
  BY Zenon DEF Tags
<1>2. (\A k \in 1..m : t[k] = f[k]) /\ t[m + 1] = n
  OBVIOUS
<1> HIDE DEF t
<1>3. QED
  BY Zenon, <1>1, <1>2

LEMMA Shifted ==
  ASSUME NEW f \in Tags
  PROVE  \E t \in Tags : \A k \in Nat : t[k] = f[k + 1]
<1> DEFINE t == [k \in Nat |-> f[k + 1]]
<1>1. \A k \in Nat : k + 1 \in Nat
  OBVIOUS
<1>2. t \in Tags
  BY Zenon, <1>1 DEF Tags
<1>3. QED
  BY Zenon, <1>2

LEMMA Elements ==
  ASSUME NEW S, NEW q \in Seq(S)
  PROVE  Len(q) \in Nat /\ \A k \in 1..Len(q) : q[k] \in S
OBVIOUS

\* What the core holds, the queues and got.
LEMMA CoreItems ==
  ASSUME TypeOK
  PROVE  /\ \A k \in 1..Len(coreEvents) : coreEvents[k] \in [kind : {"open", "close"}, id : Id]
         /\ \A k \in 1..Len(coreEvents) : coreEvents[k].id \in Id
         /\ \A k \in 1..Len(coreReads) : /\ coreReads[k].id \in Id
                                         /\ coreReads[k].n \in Nat /\ coreReads[k].n \in 1..MaxMsgs
<1>1. /\ \A k \in 1..Len(coreEvents) : coreEvents[k] \in [kind : {"open", "close"}, id : Id]
      /\ \A k \in 1..Len(coreReads) : coreReads[k] \in [id : Id, n : 1..MaxMsgs]
  BY ZenonT(40), Elements DEF TypeOK
<1>2. QED
  BY <1>1, BoundAssumption

LEMMA QueueItems ==
  ASSUME TypeOK
  PROVE  /\ \A r \in Rcv : queue[r] \in Seq(ChannelEvents) /\ Len(queue[r]) \in Nat
         /\ \A r \in Rcv : \A k \in 1..Len(queue[r]) :
               /\ queue[r][k] \in ChannelEvents
               /\ queue[r][k].n \in Nat
         /\ \A i \in Id : got[i] \in Seq(1..MaxMsgs) /\ Len(got[i]) \in Nat
         /\ \A i \in Id : \A k \in 1..Len(got[i]) : got[i][k] \in Nat
<1>1. /\ \A r \in Rcv : queue[r] \in Seq(ChannelEvents)
      /\ \A i \in Id : got[i] \in Seq(1..MaxMsgs)
  BY Zenon DEF TypeOK
<1>2. /\ \A r \in Rcv : Len(queue[r]) \in Nat /\ \A k \in 1..Len(queue[r]) : queue[r][k] \in ChannelEvents
      /\ \A i \in Id : Len(got[i]) \in Nat /\ \A k \in 1..Len(got[i]) : got[i][k] \in 1..MaxMsgs
  BY Zenon, <1>1, Elements
<1>3. \A e \in ChannelEvents : e.n \in Nat
  BY BoundAssumption DEF ChannelEvents, OnOpen, OnClose, OnMessage
<1>4. \A n \in 1..MaxMsgs : n \in Nat
  BY BoundAssumption
<1>5. QED
  BY Zenon, <1>1, <1>2, <1>3, <1>4

-----------------------------------------------------------------------------
(* What each part of the invariant depends on.                              *)

LEMMA SameQuiet ==
  ASSUME Quiet, UNCHANGED <<handshake, coreEvents, coreReads, phase, queue, uses, closed>>
  PROVE  Quiet'
BY Zenon DEF Quiet

LEMMA SamePlaced == ASSUME Placed, UNCHANGED <<phase, coreEvents>> PROVE Placed'
BY Zenon DEF Placed

LEMMA SameObjects ==
  ASSUME Objects, UNCHANGED <<tx, objs, uses, made, poller, queue, opened>>
  PROVE  Objects'
BY Zenon DEF Objects, Current, Created

LEMMA SameChannels ==
  ASSUME Channels, UNCHANGED <<core, handshake, uses, sent, made, tx, cbs>>
  PROVE  Channels'
BY Zenon DEF Channels

LEMMA SameRegistered ==
  ASSUME Registered, UNCHANGED <<tx, poller, handshake, cbs>>
  PROVE  Registered'
BY Zenon DEF Registered, Current

LEMMA SameClosing ==
  ASSUME Closing, UNCHANGED <<coreEvents, queue, closed, closes, tx, poller>>
  PROVE  Closing'
BY Zenon DEF Closing, Current

LEMMA SameOrdered ==
  ASSUME Ordered, UNCHANGED <<coreReads, sent, queue, got>>
  PROVE  Ordered'
BY ZenonT(40) DEF Ordered

LEMMA SameOpening ==
  ASSUME Opening, UNCHANGED <<tx, opens, uses, got, opened>>
  PROVE  Opening'
BY Zenon DEF Opening, Current

LEMMA SameNumbered ==
  ASSUME Numbered, UNCHANGED <<coreEvents, uses, opens, objs, made, phase, queue>>
  PROVE  Numbered'
<1>1. ASSUME NEW i \in Id, NEW f, NEW g, Numbering(i, f, g)
      PROVE  Numbering(i, f, g)'
  <2>1. CoreNumbers(i, f)'
    BY ZenonT(40), <1>1 DEF Numbering, CoreNumbers, Created, IsOpen
  <2>2. ASSUME NEW r \in Rcv, QueueNumbers(r, f, g) PROVE QueueNumbers(r, f, g)'
    BY <2>2 DEF QueueNumbers, IsOpen
  <2>3. QED
    BY Zenon, <1>1, <2>1, <2>2 DEF Numbering
<1>2. QED
  BY Zenon, <1>1 DEF Numbered

-----------------------------------------------------------------------------

LEMMA InitHolds == Init => IInv
<1> SUFFICES ASSUME Init PROVE IInv
  BY Zenon
<1>1. /\ uses \in [Id -> Nat] /\ closed \in [Id -> Nat] /\ sent \in [Id -> 0..MaxMsgs]
      /\ objs \in [Id -> 0..MaxObjs] /\ tx \in [Id -> 0..MaxObjs]
      /\ opens \in [Id -> Nat] /\ closes \in [Id -> Nat]
  BY BoundAssumption DEF Init, MaxObjs
<1>2. /\ coreEvents \in Seq([kind : {"open", "close"}, id : Id])
      /\ coreReads \in Seq([id : Id, n : 1..MaxMsgs])
      /\ queue \in [Rcv -> Seq(ChannelEvents)] /\ got \in [Id -> Seq(1..MaxMsgs)]
  BY DEF Init
<1>3. /\ \A i \in Id : /\ uses[i] = 0 /\ closed[i] = 0 /\ sent[i] = 0 /\ objs[i] = 0
                       /\ tx[i] = 0 /\ opens[i] = 0 /\ closes[i] = 0 /\ got[i] = << >>
                       /\ core[i] = "none"
      /\ \A r \in Rcv : queue[r] = << >> /\ poller[r] = "none" /\ opened[r] = FALSE
      /\ \A i \in Local : made[i] = "no"
      /\ coreEvents = << >> /\ coreReads = << >> /\ phase = "select" /\ cbs = {}
  BY Zenon DEF Init, Id
<1>4. \A r \in Rcv : Len(queue[r]) = 0
  BY <1>3
<1>5. TypeOK
  <2>1. \A r \in Rcv : Len(queue[r]) <= QCap
    BY <1>4, BoundAssumption
  <2>2. /\ core \in [Id -> {"none", "connecting", "open", "closed"}]
        /\ handshake \in BOOLEAN /\ phase \in {"select", "events", "open", "reads"}
        /\ made \in [Local -> {"no", "core", "tx", "yes"}] /\ dropped \subseteq Id
        /\ poller \in [Rcv -> {"none", "poll", "sleep", "finish", "done"}]
        /\ opened \in [Rcv -> BOOLEAN] /\ cbs \subseteq Id /\ announced \subseteq Id
    BY Zenon DEF Init
  <2>3. QED
    BY Zenon, <1>1, <1>2, <2>1, <2>2 DEF TypeOK
<1>6. ~ \E r \in Rcv : Current(r)
  BY <1>3, Pairs DEF Current
<1>7. 1..Len(coreEvents) = {} /\ 1..Len(coreReads) = {}
  BY <1>3
<1>8. \A r \in Rcv : 1..Len(queue[r]) = {}
  BY <1>4
<1>9. \A i \in Id : 1..Len(got[i]) = {}
  BY <1>3
<1>10. Quiet /\ Placed /\ Channels /\ Registered
  BY Zenon, <1>3, <1>6 DEF Quiet, Placed, Channels, Registered, Id, Init
<1>11. Objects
  <2>1. \A i \in Id : Created(i) = 0
    BY Zenon, <1>3 DEF Created
  <2>2. \A i \in Id : /\ tx[i] <= objs[i] /\ objs[i] <= uses[i] + Created(i)
                      /\ uses[i] <= MaxOpens /\ uses[i] <= 1
    BY <1>3, <2>1, BoundAssumption
  <2>3. QED
    BY Zenon, <1>3, <1>6, <2>2 DEF Objects
<1>12. Closing /\ Opening
  <2>1. \A i \in Id : closes[i] <= closed[i] /\ opens[i] <= uses[i] /\ ~(closes[i] > 0)
    BY <1>3
  <2>2. QED
    BY Zenon, <1>3, <1>6, <1>7, <1>8, <2>1 DEF Closing, Opening
<1>13. Ordered
  BY Zenon, <1>7, <1>8, <1>9 DEF Ordered
<1>14. Numbered
  <2>1. [n \in Nat |-> 0] \in Tags
    BY DEF Tags
  <2>2. \A i \in Id : Numbering(i, [n \in Nat |-> 0], [n \in Nat |-> 0])
    BY Zenon, <1>7, <1>8 DEF Numbering, CoreNumbers, QueueNumbers
  <2>3. QED
    BY Zenon, <2>1, <2>2 DEF Numbered
<1>15. QED
  BY Zenon, <1>5, <1>10, <1>11, <1>12, <1>13, <1>14 DEF IInv

LEMMA InvImplies == IInv => CallbacksTrue
<1> SUFFICES ASSUME IInv PROVE CallbacksTrue
  BY Zenon
<1>1. OpenFirstAndOnce
  BY Zenon DEF IInv, Opening, OpenFirstAndOnce
<1>2. CloseIsTrue
  BY Zenon DEF IInv, Closing, CloseIsTrue
<1>3. InOrder
  BY Zenon DEF IInv, Ordered, InOrder
<1>4. QED
  BY Zenon, <1>1, <1>2, <1>3 DEF IInv, CallbacksTrue
-----------------------------------------------------------------------------
(* The application thread.                                                  *)

LEMMA CreateCoreStep ==
  ASSUME Careful, IInv, NEW i \in Local, CreateCore(i)
  PROVE  IInv'
<1>1. /\ made[i] = "no" /\ ~handshake /\ made' = [made EXCEPT ![i] = "core"]
      /\ core' = [core EXCEPT ![i] = "connecting"] /\ i \in Id
      /\ UNCHANGED <<uses, closed, sent, handshake, coreEvents, coreReads, phase, objs,
                     tx, queue, dropped, poller, opened, cbs, announced, opens, got, closes>>
  BY Zenon DEF CreateCore, rcvVars, appSees, Id
<1>2. TypeOK'
  BY Zenon, <1>1 DEF IInv, TypeOK
<1>3. /\ \A j \in Local : made'[j] = IF j = i THEN "core" ELSE made[j]
      /\ \A j \in Id : core'[j] = IF j = i THEN "connecting" ELSE core[j]
  BY Zenon, <1>1 DEF IInv, TypeOK
<1>4. \A j \in Id : Created(j)' = Created(j)
  BY <1>1, <1>3 DEF Created
<1>5. Channels'
  BY <1>1, <1>3, IdAssumption DEF IInv, Channels, Id
<1>6. Objects'
  <2>1. \A j \in Local : made[j] = "tx" => made'[j] = "tx"
    BY Zenon, <1>1, <1>3
  <2>2. QED
    BY Zenon, <1>1, <1>4, <2>1 DEF IInv, Objects, Current
<1>7. Numbered'
  <2>1. ASSUME NEW j \in Id, NEW f, NEW g, Numbering(j, f, g)
        PROVE  Numbering(j, f, g)'
    <3>1. CoreNumbers(j, f)'
      BY Zenon, <1>1, <1>4, <2>1 DEF Numbering, CoreNumbers, IsOpen
    <3>2. ASSUME NEW r \in Rcv, QueueNumbers(r, f, g) PROVE QueueNumbers(r, f, g)'
      BY <1>1, <3>2 DEF QueueNumbers, IsOpen
    <3>3. QED
      BY Zenon, <2>1, <3>1, <3>2 DEF Numbering
  <2>2. QED
    BY Zenon, <2>1 DEF IInv, Numbered
<1>8. Quiet' /\ Placed' /\ Registered' /\ Closing' /\ Ordered' /\ Opening'
  BY Zenon, <1>1, SameQuiet, SamePlaced, SameRegistered, SameClosing, SameOrdered,
     SameOpening DEF IInv
<1>9. QED
  BY Zenon, <1>2, <1>5, <1>6, <1>7, <1>8 DEF IInv

LEMMA InsertTxStep ==
  ASSUME Careful, IInv, NEW i \in Local, InsertTx(i)
  PROVE  IInv'
<1>1. /\ made[i] = "core" /\ made' = [made EXCEPT ![i] = "tx"] /\ i \in Id
      /\ tx' = [tx EXCEPT ![i] = objs[i] + 1] /\ objs' = [objs EXCEPT ![i] = @ + 1]
      /\ UNCHANGED <<core, uses, closed, sent, handshake, coreEvents, coreReads, phase,
                     queue, dropped, poller, opened, cbs, announced, opens, got, closes>>
  BY Zenon DEF InsertTx, coreVars, appSees, Id
<1>2. /\ ~handshake /\ tx[i] = 0 /\ objs[i] = 0 /\ Created(i) = 0 /\ i \notin cbs
      /\ opens[i] = 0 /\ closes[i] = 0 /\ i \notin Remote
  <2>1. ~handshake /\ tx[i] = 0 /\ Created(i) = 0 /\ i \notin Remote /\ i \notin cbs
    BY Zenon, <1>1, IdAssumption DEF IInv, Channels, Created
  <2>2. objs[i] <= uses[i] + 0 /\ uses[i] = 0 /\ objs[i] \in 0..MaxObjs
    BY Zenon, <1>1, <2>1 DEF IInv, Quiet, Objects, TypeOK
  <2>3. objs[i] = 0
    BY <2>2
  <2>4. QED
    BY Zenon, <1>1, <2>1, <2>3 DEF IInv, Opening, Closing
<1>3. TypeOK'
  <2>1. objs[i] + 1 \in 0..MaxObjs
    BY <1>2, BoundAssumption DEF MaxObjs
  <2>2. objs' \in [Id -> 0..MaxObjs] /\ tx' \in [Id -> 0..MaxObjs]
    BY Zenon, <1>1, <2>1 DEF IInv, TypeOK
  <2>3. made' \in [Local -> {"no", "core", "tx", "yes"}]
    BY Zenon, <1>1 DEF IInv, TypeOK
  <2>4. QED
    BY Zenon, <1>1, <2>2, <2>3 DEF IInv, TypeOK
<1>4. /\ \A j \in Local : made'[j] = IF j = i THEN "tx" ELSE made[j]
      /\ \A j \in Id : tx'[j] = IF j = i THEN 1 ELSE tx[j]
      /\ \A j \in Id : objs'[j] = IF j = i THEN 1 ELSE objs[j]
  <2>1. objs[i] + 1 = 1
    BY <1>2
  <2>2. QED
    BY Zenon, <1>1, <2>1 DEF IInv, TypeOK
<1>5. /\ \A j \in Id : j # i => Created(j)' = Created(j)
      /\ Created(i)' = 1
  BY Zenon, <1>1, <1>4 DEF Created
<1>6. /\ \A r \in Rcv : r[1] # i => (Current(r)' <=> Current(r))
      /\ \A r \in Rcv : r[1] = i => ~Current(r) /\ (Current(r)' <=> r[2] = 1)
  BY <1>2, <1>4, Pairs DEF Current
<1>7. /\ coreEvents = << >> /\ Len(coreEvents) = 0 /\ \A r \in Rcv : queue[r] = << >>
  BY <1>2 DEF IInv, Quiet
<1>8. Channels'
  BY <1>1, <1>2, <1>4, IdAssumption DEF IInv, Channels, Id
<1>9. \A r \in Rcv : r[1] = i => opened[r] = FALSE /\ poller[r] = "none"
  BY <1>2, <1>6, Pairs DEF IInv, Objects
<1>10. Objects'
  <2>1. \A j \in Id : tx'[j] <= objs'[j] /\ objs'[j] <= uses[j] + Created(j)'
    <3>1. \A j \in Id : j # i => tx'[j] <= objs'[j] /\ objs'[j] <= uses[j] + Created(j)'
      BY ZenonT(40), <1>4, <1>5 DEF IInv, Objects
    <3>2. tx'[i] <= objs'[i] /\ objs'[i] <= uses[i] + Created(i)'
      BY <1>1, <1>4, <1>5 DEF IInv, TypeOK
    <3>3. QED
      BY Zenon, <3>1, <3>2
  <2>2. \A r \in Rcv : /\ r[2] > objs'[r[1]] => poller[r] = "none"
                       /\ ~Current(r)' => /\ queue[r] = << >> /\ opened[r] = FALSE
                                          /\ poller[r] \in {"none", "poll", "sleep"}
                       /\ Current(r)' => /\ poller[r] # "sleep"
                                         /\ poller[r] = "none" =>
                                              r[1] \in Local /\ made'[r[1]] = "tx"
    <3>1. ASSUME NEW r \in Rcv, r[1] = i
          PROVE  opened[r] = FALSE /\ poller[r] = "none" /\ queue[r] = << >>
                 /\ r[1] \in Local /\ made'[r[1]] = "tx"
      BY Zenon, <1>4, <1>7, <1>9, <3>1
    <3>2. ASSUME NEW r \in Rcv, r[1] # i
          PROVE  /\ r[1] \in Id /\ objs'[r[1]] = objs[r[1]] /\ (Current(r)' <=> Current(r))
                 /\ (r[1] \in Local => made'[r[1]] = made[r[1]])
      BY Zenon, <1>4, <1>6, Pairs, <3>2
    <3>3. QED
      BY ZenonT(40), <3>1, <3>2 DEF IInv, Objects
  <2>3. QED
    BY Zenon, <1>1, <2>1, <2>2 DEF IInv, Objects
<1>11. Registered' /\ Closing' /\ Opening'
  <2>1. Registered'
    BY Zenon, <1>1, <1>6, <1>9 DEF IInv, Registered
  <2>2. Closing'
    <3>1. \A j \in Id : closes'[j] <= closed'[j] /\ (tx'[j] = 0 => closes'[j] = 0)
      BY <1>1, <1>2, <1>4 DEF IInv, Closing
    <3>2. \A r \in Rcv : Current(r)' /\ closes'[r[1]] > 0 => poller'[r] \in {"finish", "done"}
      <4>1. ~(closes[i] > 0)
        BY <1>2
      <4>2. QED
        BY Zenon, <1>1, <1>6, <4>1 DEF IInv, Closing
    <3>3. QED
      BY Zenon, <1>1, <3>1, <3>2 DEF IInv, Closing
  <2>3. Opening'
    BY <1>1, <1>2, <1>4, <1>6, <1>9 DEF IInv, Opening
  <2>4. QED
    BY Zenon, <2>1, <2>2, <2>3
<1>12. Numbered'
  <2>1. ASSUME NEW j \in Id, NEW f, NEW g PROVE Numbering(j, f, g)'
    <3>1. 1..Len(coreEvents)' = {} /\ \A r \in Rcv : 1..Len(queue'[r]) = {}
      BY <1>1, <1>7
    <3>2. QED
      BY Zenon, <3>1 DEF Numbering, CoreNumbers, QueueNumbers
  <2>2. QED
    BY Zenon, <2>1 DEF IInv, Numbered
<1>13. Quiet' /\ Placed' /\ Ordered'
  BY Zenon, <1>1, SameQuiet, SamePlaced, SameOrdered DEF IInv
<1>14. QED
  BY Zenon, <1>3, <1>8, <1>10, <1>11, <1>12, <1>13 DEF IInv

LEMMA SpawnPollerStep ==
  ASSUME Careful, IInv, NEW i \in Local, SpawnPoller(i)
  PROVE  IInv'
<1>1. /\ made[i] = "tx" /\ made' = [made EXCEPT ![i] = "yes"] /\ i \in Id
      /\ poller' = [poller EXCEPT ![<<i, tx[i]>>] = "poll"]
      /\ UNCHANGED <<core, uses, closed, sent, handshake, coreEvents, coreReads, phase, objs,
                     tx, queue, dropped, opened, cbs, announced, opens, got, closes>>
  BY Zenon DEF SpawnPoller, coreVars, rcvVars, appSees, Id
<1>2. ~handshake /\ tx[i] # 0 /\ i \notin Remote /\ i \notin cbs
  BY Zenon, <1>1, IdAssumption DEF IInv, Channels
<1>3. TypeOK'
  BY Zenon, <1>1 DEF IInv, TypeOK
<1>4. <<i, tx[i]>> \in Rcv
  <2>1. tx[i] \in 1..MaxObjs
    BY SMTT(30), <1>1, <1>2 DEF IInv, TypeOK, MaxObjs
  <2>2. QED
    BY Zenon, <1>1, <2>1, Pairs
<1>5. /\ \A j \in Local : made'[j] = IF j = i THEN "yes" ELSE made[j]
      /\ \A r \in Rcv : poller'[r] = IF r = <<i, tx[i]>> THEN "poll" ELSE poller[r]
      /\ \A r \in Rcv : Current(r)' <=> Current(r)
  BY Zenon, <1>1 DEF IInv, TypeOK, Current
<1>6. \A r \in Rcv : r[1] = i /\ Current(r) <=> r = <<i, tx[i]>>
  BY Zenon, <1>4, Pairs DEF Current
<1>7. \A j \in Id : Created(j)' = Created(j)
  BY SMTT(30), <1>1, <1>5 DEF Created
<1>8. tx[i] <= objs[i] /\ closes[i] = 0
  <2>1. closes[i] <= closed[i] /\ closed[i] = 0 /\ closes[i] \in Nat
    BY ZenonT(40), <1>1, <1>2 DEF IInv, Quiet, Closing, TypeOK
  <2>2. QED
    BY <1>1, <2>1 DEF IInv, Objects
<1>9. Channels'
  BY <1>1, <1>2, <1>5 DEF IInv, Channels
<1>10. Objects'
  <2>1. \A r \in Rcv : r = <<i, tx[i]>> => ~(r[2] > objs[r[1]])
    BY <1>1, <1>8, Pairs DEF IInv, TypeOK
  <2>2. \A r \in Rcv : /\ r[2] > objs[r[1]] => poller'[r] = "none"
                       /\ ~Current(r) => poller'[r] \in {"none", "poll", "sleep"}
                       /\ Current(r) => /\ poller'[r] # "sleep"
                                        /\ poller'[r] = "none" =>
                                              r[1] \in Local /\ made'[r[1]] = "tx"
    BY <1>5, <1>6, <2>1, Pairs DEF IInv, Objects
  <2>3. QED
    BY ZenonT(40), <1>1, <1>5, <1>7, <2>2 DEF IInv, Objects
<1>11. Registered'
  BY <1>1, <1>2, <1>5, <1>6 DEF IInv, Registered
<1>12. Closing'
  <2>1. \A r \in Rcv : Current(r)' /\ closes'[r[1]] > 0 => poller'[r] \in {"finish", "done"}
    BY <1>1, <1>5, <1>6, <1>8 DEF IInv, Closing
  <2>2. QED
    BY Zenon, <1>1, <2>1 DEF IInv, Closing
<1>13. Numbered'
  <2>1. ASSUME NEW j \in Id, NEW f, NEW g, Numbering(j, f, g)
        PROVE  Numbering(j, f, g)'
    <3>1. CoreNumbers(j, f)'
      BY ZenonT(40), <1>1, <1>7, <2>1 DEF Numbering, CoreNumbers, IsOpen
    <3>2. ASSUME NEW r \in Rcv, QueueNumbers(r, f, g) PROVE QueueNumbers(r, f, g)'
      BY SMTT(30), <1>1, <3>2 DEF QueueNumbers, IsOpen
    <3>3. QED
      BY Zenon, <2>1, <3>1, <3>2 DEF Numbering
  <2>2. QED
    BY Zenon, <2>1 DEF IInv, Numbered
<1>14. Quiet' /\ Placed' /\ Ordered' /\ Opening'
  BY Zenon, <1>1, SameQuiet, SamePlaced, SameOrdered, SameOpening DEF IInv
<1>15. QED
  BY Zenon, <1>3, <1>9, <1>10, <1>11, <1>12, <1>13, <1>14 DEF IInv

LEMMA SetCallbacksStep ==
  ASSUME IInv, NEW i \in Id, SetCallbacks(i)
  PROVE  IInv'
<1>1. /\ cbs' = cbs \cup {i} /\ (i \in Local => made[i] = "yes")
      /\ UNCHANGED <<core, uses, closed, sent, handshake, coreEvents, coreReads, phase, made,
                     objs, tx, queue, dropped, poller, opened, announced, opens, got, closes>>
  BY Zenon DEF SetCallbacks, coreVars, rcvVars, appSees
<1>2. TypeOK'
  BY Zenon, <1>1 DEF IInv, TypeOK
<1>3. Channels'
  BY Zenon, <1>1 DEF IInv, Channels
<1>4. Registered'
  BY Zenon, <1>1 DEF IInv, Registered, Current
<1>5. Quiet' /\ Placed' /\ Objects' /\ Closing' /\ Ordered' /\ Opening' /\ Numbered'
  BY Zenon, <1>1, SameQuiet, SamePlaced, SameObjects, SameClosing, SameOrdered, SameOpening,
     SameNumbered DEF IInv
<1>6. QED
  BY Zenon, <1>2, <1>3, <1>4, <1>5 DEF IInv

-----------------------------------------------------------------------------
(* The network.                                                             *)

\* The events of a handshake: one opening for each connecting channel.
LEMMA HandshakeEvents ==
  ASSUME TypeOK, NEW up \in SUBSET Id, coreEvents = << >>, NEW s \in Orders(up),
         coreEvents' = coreEvents \o [k \in DOMAIN s |-> CoreEvent("open", s[k])]
  PROVE  /\ coreEvents' \in Seq([kind : {"open", "close"}, id : Id])
         /\ \A k \in 1..Len(coreEvents') : coreEvents'[k].kind = "open" /\ coreEvents'[k].id \in up
         /\ \A j, k \in 1..Len(coreEvents') : j # k => coreEvents'[j].id # coreEvents'[k].id
<1>1. Cardinality(up) \in Nat
  BY Zenon, IdAssumption
<1>2. /\ s \in [1..Cardinality(up) -> up]
      /\ \A j, k \in 1..Cardinality(up) : j # k => s[j] # s[k]
  BY Zenon DEF Orders
<1>3. coreEvents' = << >> \o [k \in 1..Cardinality(up) |-> CoreEvent("open", s[k])]
  BY Zenon, <1>2
<1> DEFINE t == [k \in 1..Cardinality(up) |-> CoreEvent("open", s[k])]
<1>4. t \in Seq([kind : {"open", "close"}, id : Id]) /\ Len(t) = Cardinality(up)
  <2>1. \A k \in 1..Cardinality(up) : CoreEvent("open", s[k]) \in [kind : {"open", "close"}, id : Id]
    BY <1>2 DEF CoreEvent
  <2>2. t \in [1..Cardinality(up) -> [kind : {"open", "close"}, id : Id]]
    BY Zenon, <2>1
  <2> HIDE DEF t
  <2>3. QED
    BY Zenon, <1>1, <2>2, Listed
<1>5. /\ \A k \in 1..Cardinality(up) : t[k].kind = "open" /\ t[k].id = s[k] /\ s[k] \in up
  BY Zenon, <1>2 DEF CoreEvent
<1>6. coreEvents' = t
  <2> HIDE DEF t
  <2>1. coreEvents' = << >> \o t
    BY Zenon, <1>3 DEF t
  <2>2. QED
    BY <1>4, <2>1
<1> HIDE DEF t
<1>7. Len(coreEvents') = Cardinality(up)
  BY Zenon, <1>4, <1>6
<1>8. QED
  <2>1. \A k \in 1..Cardinality(up) : coreEvents'[k].kind = "open" /\ coreEvents'[k].id = s[k]
    BY Zenon, <1>5, <1>6
  <2>2. \A k \in 1..Cardinality(up) : s[k] \in up
    BY Zenon, <1>2
  <2>3. QED
    <3>1. \A k \in 1..Len(coreEvents') : coreEvents'[k].kind = "open" /\ coreEvents'[k].id \in up
      BY Zenon, <1>7, <2>1, <2>2
    <3>2. \A j, k \in 1..Len(coreEvents') : j # k => coreEvents'[j].id # coreEvents'[k].id
      <4>1. ASSUME NEW j \in 1..Cardinality(up), NEW k \in 1..Cardinality(up), j # k
            PROVE  coreEvents'[j].id # coreEvents'[k].id
        <5>1. coreEvents'[j].id = s[j] /\ coreEvents'[k].id = s[k] /\ s[j] # s[k]
          BY Zenon, <1>2, <2>1, <4>1
        <5>2. QED
          BY Zenon, <5>1
      <4>2. QED
        BY <1>7, <4>1
    <3>3. QED
      BY Zenon, <1>4, <1>6, <3>1, <3>2

LEMMA HandshakeStep ==
  ASSUME Careful, IInv, Handshake
  PROVE  IInv'
<1> DEFINE up == {i \in Id : core[i] = "connecting"}
<1>1. /\ phase = "select" /\ ~handshake /\ handshake' = TRUE
      /\ \A i \in Local : made[i] = "no" \/ i \in cbs
      /\ core' = [i \in Id |-> IF i \in up THEN "open" ELSE core[i]]
      /\ uses' = [i \in Id |-> IF i \in up THEN uses[i] + 1 ELSE uses[i]]
      /\ \E s \in Orders(up) :
            coreEvents' = coreEvents \o [k \in DOMAIN s |-> CoreEvent("open", s[k])]
      /\ UNCHANGED <<closed, sent, coreReads, phase, made, objs, tx, queue, dropped,
                     poller, opened, cbs, announced, opens, got, closes>>
  BY Zenon DEF Handshake, rcvVars, appSees
<1>2. /\ coreEvents = << >> /\ \A r \in Rcv : queue[r] = << >>
      /\ \A i \in Id : uses[i] = 0
  BY Zenon, <1>1 DEF IInv, Quiet
<1>3. /\ \A i \in Id : core'[i] = IF i \in up THEN "open" ELSE core[i]
      /\ \A i \in Id : uses'[i] = IF i \in up THEN 1 ELSE 0
  <2>1. 0 + 1 = 1
    OBVIOUS
  <2>2. QED
    BY Zenon, <1>1, <1>2, <2>1
<1>4. up \in SUBSET Id /\ up \subseteq Local /\ (\A i \in up : core[i] = "connecting")
  BY Zenon DEF IInv, Channels, Id
<1>5. \A i \in Id : i \notin up => core[i] # "connecting"
  BY Zenon
<1>. HIDE DEF up
<1>6. /\ coreEvents' \in Seq([kind : {"open", "close"}, id : Id])
      /\ \A k \in 1..Len(coreEvents') : coreEvents'[k].kind = "open" /\ coreEvents'[k].id \in up
      /\ \A j, k \in 1..Len(coreEvents') : j # k => coreEvents'[j].id # coreEvents'[k].id
  BY Zenon, <1>1, <1>2, <1>4, HandshakeEvents DEF IInv
<1>7. TypeOK'
  <2>1. uses' \in [Id -> Nat]
    BY SMTT(30), <1>1 DEF IInv, TypeOK
  <2>2. core' \in [Id -> {"none", "connecting", "open", "closed"}]
    BY Zenon, <1>1 DEF IInv, TypeOK
  <2>3. QED
    BY Zenon, <1>1, <1>6, <2>1, <2>2 DEF IInv, TypeOK
<1>8. Channels'
  <2>1. \A i \in Local : i \in cbs => made[i] = "yes"
    BY Zenon DEF IInv, Channels
  <2>2. ASSUME NEW i \in Id
        PROVE  uses'[i] = 0 => sent[i] = 0 /\ core'[i] \in {"none", "connecting"}
    BY SMTT(30), <1>2, <1>3 DEF IInv, Channels
  <2>3. ASSUME NEW i \in Local
        PROVE  /\ core'[i] \in {"none", "connecting"} => uses'[i] = 0
               /\ made[i] \in {"no", "yes"} /\ core'[i] # "connecting"
               /\ core'[i] = "none" <=> made[i] = "no"
    <3>1. i \in Id /\ (core[i] = "none" <=> made[i] = "no")
      BY Zenon DEF IInv, Channels, Id
    <3>2. QED
      BY <1>1, <1>3, <1>4, <1>5, <2>1, <3>1
  <2>4. \A i \in Remote : core'[i] # "connecting"
    BY Zenon, <1>3 DEF IInv, Channels, Id
  <2>5. QED
    BY Zenon, <1>1, <2>2, <2>3, <2>4 DEF IInv, Channels
<1>9. Objects'
  <2>1. \A i \in Id : Created(i)' = Created(i) /\ Created(i) \in Nat
    BY Zenon, <1>1 DEF Created
  <2>2. \A i \in Id : /\ objs[i] <= uses'[i] + Created(i)'
                      /\ uses'[i] <= MaxOpens /\ (i \in Local => uses'[i] <= 1)
    <3>1. \A i \in Id : objs[i] <= 0 + Created(i) /\ objs[i] \in Nat
      BY <1>2, <2>1 DEF IInv, Objects, TypeOK
    <3>2. QED
      BY <1>3, <2>1, <3>1, BoundAssumption
  <2>3. QED
    BY ZenonT(40), <1>1, <2>2 DEF IInv, Objects, Current
<1>10. Registered'
  <2>1. ASSUME NEW r \in Rcv, Current(r), poller[r] = "poll" PROVE r[1] \in cbs
    <3>1. CASE r[1] \in Remote
      BY Zenon, <2>1, <3>1 DEF IInv, Registered
    <3>2. CASE r[1] \in Local
      <4>1. tx[r[1]] # 0
        BY <2>1, Pairs DEF Current
      <4>2. QED
        BY Zenon, <1>1, <3>2, <4>1 DEF IInv, Channels
    <3>3. QED
      BY Zenon, <3>1, <3>2, Pairs DEF Id
  <2>2. QED
    BY Zenon, <1>1, <2>1 DEF Registered, Current
<1>11. Closing'
  BY Zenon, <1>1, <1>6 DEF IInv, Closing, Current
<1>12. Opening'
  <2>1. \A i \in Id : opens[i] <= uses'[i]
    <3>1. \A i \in Id : opens[i] <= 0 /\ opens[i] \in Nat
      BY Zenon, <1>2 DEF IInv, Opening, TypeOK
    <3>2. QED
      BY <1>3, <3>1
  <2>2. QED
    BY Zenon, <1>1, <2>1 DEF IInv, Opening, Current
<1>13. Numbered'
  <2> DEFINE f == [n \in Nat |-> 1]
  <2>1. f \in Tags
    BY DEF Tags
  <2>2. \A n \in Nat : f[n] = 1
    BY Zenon
  <2> HIDE DEF f
  <2>3. ASSUME NEW i \in Id PROVE CoreNumbers(i, f)'
    <3>1. Created(i)' = Created(i) /\ Created(i) \in Nat
      BY Zenon, <1>1 DEF Created
    <3>2. opens[i] = 0 /\ objs[i] <= Created(i) /\ objs[i] \in Nat
      BY <1>2, <3>1 DEF IInv, Opening, Objects, TypeOK, MaxObjs
    <3>3. ASSUME NEW k \in 1..Len(coreEvents'), IsOpen(k, i)'
          PROVE  /\ f[k] <= uses'[i] /\ opens'[i] < f[k]
                 /\ \A j \in 1..Len(coreEvents') : ~(j < k /\ IsOpen(j, i)')
                 /\ objs'[i] <= f[k] + Created(i)' /\ objs'[i] < f[k] + Created(i)'
      <4>1. f[k] = 1 /\ i \in up
        BY <1>6, <2>2, <3>3 DEF IsOpen
      <4>2. uses'[i] = 1
        BY Zenon, <1>3, <4>1
      <4>3. \A j \in 1..Len(coreEvents') : j < k => coreEvents'[j].id # i
        BY <1>6, <3>3 DEF IsOpen
      <4>4. QED
        BY SMTT(30), <1>1, <3>1, <3>2, <4>1, <4>2, <4>3 DEF IsOpen
    <3>4. QED
      BY Zenon, <3>3 DEF CoreNumbers
  <2>4. \A r \in Rcv : QueueNumbers(r, f, f)'
    <3>1. \A r \in Rcv : 1..Len(queue'[r]) = {}
      BY <1>1, <1>2
    <3>2. QED
      BY Zenon, <3>1 DEF QueueNumbers
  <2>5. QED
    BY Zenon, <2>1, <2>3, <2>4 DEF Numbered, Numbering
<1>14. Quiet' /\ Placed'
  BY Zenon, <1>1 DEF Quiet, Placed
<1>15. Ordered'
  BY Zenon, <1>1, SameOrdered DEF IInv
<1>16. QED
  BY Zenon, <1>7, <1>8, <1>9, <1>10, <1>11, <1>12, <1>13, <1>14, <1>15 DEF IInv

\* An event that is no opening of channel i does not disturb its numbering.
LEMMA NumberingKept ==
  ASSUME NEW i \in Id, NEW f, NEW g, Numbering(i, f, g),
         \A k \in 1..Len(coreEvents') :
            IsOpen(k, i)' => k \in 1..Len(coreEvents) /\ IsOpen(k, i),
         uses'[i] = uses[i], UNCHANGED <<opens, objs, made, phase, queue>>
  PROVE  Numbering(i, f, g)'
<1>1. CoreNumbers(i, f)'
  BY Zenon DEF Numbering, CoreNumbers, Created
<1>2. ASSUME NEW r \in Rcv, r[1] = i PROVE QueueNumbers(r, f, g)'
  <2>1. QueueNumbers(r, f, g)
    BY Zenon, <1>2 DEF Numbering
  <2>2. \A j \in 1..Len(coreEvents') :
            IsOpen(j, r[1])' => j \in 1..Len(coreEvents) /\ IsOpen(j, r[1])
    BY Zenon, <1>2
  <2>3. uses'[r[1]] = uses[r[1]] /\ opens'[r[1]] = opens[r[1]] /\ queue'[r] = queue[r]
    BY Zenon, <1>2
  <2>4. QED
    BY <2>1, <2>2, <2>3 DEF QueueNumbers
<1>3. QED
  BY Zenon, <1>1, <1>2 DEF Numbering

\* What poll_events will find when the core adds an event.
LEMMA EventAdded ==
  ASSUME TypeOK, NEW e \in [kind : {"open", "close"}, id : Id],
         coreEvents' = Append(coreEvents, e)
  PROVE  /\ coreEvents' \in Seq([kind : {"open", "close"}, id : Id])
         /\ Len(coreEvents) \in Nat /\ Len(coreEvents') = Len(coreEvents) + 1
         /\ \A k \in 1..Len(coreEvents') :
               \/ k \in 1..Len(coreEvents) /\ coreEvents'[k] = coreEvents[k]
               \/ k = Len(coreEvents) + 1 /\ coreEvents'[k] = e
<1>1. coreEvents \in Seq([kind : {"open", "close"}, id : Id])
  BY Zenon DEF TypeOK
<1> DEFINE S == [kind : {"open", "close"}, id : Id]
<1>2. /\ coreEvents' \in Seq(S) /\ Len(coreEvents) \in Nat
      /\ Len(coreEvents') = Len(coreEvents) + 1 /\ coreEvents'[Len(coreEvents) + 1] = e
      /\ \A k \in 1..Len(coreEvents) : coreEvents'[k] = coreEvents[k]
  BY <1>1, Added
<1>3. \A k \in 1..Len(coreEvents') : k \in 1..Len(coreEvents) \/ k = Len(coreEvents) + 1
  BY <1>2
<1>4. QED
  BY Zenon, <1>2, <1>3

\* A queued message has been received, so the channel has been open.
LEMMA MessageSent ==
  ASSUME IInv, NEW r \in Rcv, NEW k \in 1..Len(queue[r]), queue[r][k].kind = "message"
  PROVE  uses[r[1]] >= 1
<1>1. queue[r] \in Seq(ChannelEvents) /\ r[1] \in Id
  BY Zenon, Pairs DEF IInv, TypeOK
<1>2. queue[r][k] \in ChannelEvents
  BY ZenonT(40), <1>1, Elements
<1>3. queue[r][k].n \in 1..MaxMsgs
  BY <1>2 DEF ChannelEvents, OnOpen, OnClose, OnMessage
<1>4. queue[r][k].n <= sent[r[1]] /\ (uses[r[1]] = 0 => sent[r[1]] = 0)
  BY Zenon, <1>1 DEF IInv, Ordered, Channels
<1>5. uses[r[1]] \in Nat /\ sent[r[1]] \in 0..MaxMsgs /\ MaxMsgs \in Nat
  BY Zenon, <1>1, BoundAssumption DEF IInv, TypeOK
<1>6. QED
  BY <1>3, <1>4, <1>5

LEMMA RemoteOpenStep ==
  ASSUME IInv, NEW i \in Remote, RemoteOpen(i)
  PROVE  IInv'
<1>1. /\ phase = "select" /\ handshake /\ uses[i] < MaxOpens /\ i \in Id
      /\ core' = [core EXCEPT ![i] = "open"] /\ uses' = [uses EXCEPT ![i] = @ + 1]
      /\ coreEvents' = Append(coreEvents, CoreEvent("open", i))
      /\ UNCHANGED <<closed, sent, handshake, coreReads, phase, made, objs, tx, queue, dropped,
                     poller, opened, cbs, announced, opens, got, closes>>
  BY Zenon DEF RemoteOpen, rcvVars, appSees, Id
<1>2. i \notin Local /\ Created(i) = 0
  BY Zenon, IdAssumption DEF Created
<1>3. uses[i] \in Nat /\ uses[i] + 1 <= MaxOpens /\ MaxOpens \in Nat
  BY SMTT(30), <1>1, BoundAssumption DEF IInv, TypeOK
<1>4. /\ \A j \in Id : core'[j] = IF j = i THEN "open" ELSE core[j]
      /\ \A j \in Id : uses'[j] = IF j = i THEN uses[i] + 1 ELSE uses[j]
  BY Zenon, <1>1 DEF IInv, TypeOK
<1>5. /\ coreEvents' \in Seq([kind : {"open", "close"}, id : Id])
      /\ Len(coreEvents) \in Nat /\ Len(coreEvents') = Len(coreEvents) + 1
      /\ \A k \in 1..Len(coreEvents') :
            \/ k \in 1..Len(coreEvents) /\ coreEvents'[k] = coreEvents[k]
            \/ k = Len(coreEvents) + 1 /\ coreEvents'[k] = CoreEvent("open", i)
  <2>1. CoreEvent("open", i) \in [kind : {"open", "close"}, id : Id]
    BY <1>1 DEF CoreEvent
  <2>2. QED
    BY Zenon, <1>1, <2>1, EventAdded DEF IInv
<1>6. TypeOK'
  <2>1. uses' \in [Id -> Nat]
    BY Zenon, <1>1, Counted DEF IInv, TypeOK
  <2>2. core' \in [Id -> {"none", "connecting", "open", "closed"}]
    BY ZenonT(40), <1>1 DEF IInv, TypeOK
  <2>3. QED
    BY Zenon, <1>1, <1>5, <2>1, <2>2 DEF IInv, TypeOK
<1>7. Channels'
  BY <1>1, <1>2, <1>3, <1>4 DEF IInv, Channels, Id
<1>8. Objects'
  <2>1. \A j \in Id : Created(j)' = Created(j) /\ Created(j) \in Nat
    BY ZenonT(40), <1>1 DEF Created
  <2>2. \A j \in Id : /\ objs[j] <= uses'[j] + Created(j)'
                      /\ uses'[j] <= MaxOpens /\ (j \in Local => uses'[j] <= 1)
    <3>1. \A j \in Id : /\ objs[j] <= uses[j] + Created(j) /\ objs[j] \in Nat
                        /\ uses[j] \in Nat /\ uses[j] <= MaxOpens /\ (j \in Local => uses[j] <= 1)
      BY <2>1 DEF IInv, Objects, TypeOK
    <3>2. QED
      BY SMTT(30), <1>2, <1>3, <1>4, <2>1, <3>1
  <2>3. QED
    BY Zenon, <1>1, <2>2 DEF IInv, Objects, Current
<1>9. Closing'
  <2>1. \A k \in 1..Len(coreEvents') :
            coreEvents'[k].kind = "close" => closed'[coreEvents'[k].id] >= 1
    <3>1. CoreEvent("open", i).kind = "open"
      BY DEF CoreEvent
    <3>2. QED
      BY <1>1, <1>5, <3>1 DEF IInv, Closing
  <2>2. QED
    BY ZenonT(40), <1>1, <2>1 DEF IInv, Closing, Current
<1>10. Opening'
  <2>1. \A j \in Id : opens[j] <= uses'[j]
    <3>1. \A j \in Id : opens[j] <= uses[j] /\ opens[j] \in Nat /\ uses[j] \in Nat
      BY Zenon DEF IInv, Opening, TypeOK
    <3>2. QED
      BY <1>3, <1>4, <3>1
  <2>2. QED
    BY Zenon, <1>1, <2>1 DEF IInv, Opening, Current
<1>11. Numbered'
  <2>1. ASSUME NEW j \in Id, j # i PROVE \E f, g \in Tags : Numbering(j, f, g)'
    <3>1. PICK f \in Tags, g \in Tags : Numbering(j, f, g)
      BY Zenon DEF IInv, Numbered
    <3>2. \A k \in 1..Len(coreEvents') :
             IsOpen(k, j)' => k \in 1..Len(coreEvents) /\ IsOpen(k, j)
      <4>1. CoreEvent("open", i).id = i
        BY DEF CoreEvent
      <4>2. QED
        BY Zenon, <1>5, <2>1, <4>1 DEF IsOpen
    <3>3. uses'[j] = uses[j]
      BY Zenon, <1>4, <2>1
    <3>4. Numbering(j, f, g)'
      BY Zenon, <1>1, <3>1, <3>2, <3>3, NumberingKept
    <3>5. QED
      BY Zenon, <3>4
  <2>2. \E f, g \in Tags : Numbering(i, f, g)'
    <3>1. PICK f0 \in Tags, g \in Tags : Numbering(i, f0, g)
      BY Zenon, <1>1 DEF IInv, Numbered
    <3>2. uses[i] + 1 \in Nat
      BY <1>3
    <3>3. PICK f \in Tags : /\ \A k \in 1..Len(coreEvents) : f[k] = f0[k]
                           /\ f[Len(coreEvents) + 1] = uses[i] + 1
      <4>1. PICK n \in Nat, v \in Nat : n = Len(coreEvents) /\ v = uses[i] + 1
        BY Zenon, <1>5, <3>2
      <4>2. \E f \in Tags : (\A k \in 1..n : f[k] = f0[k]) /\ f[n + 1] = v
        BY ZenonT(40), Retagged
      <4>3. QED
        BY Zenon, <4>1, <4>2
    <3>4. \A k \in 1..Len(coreEvents') :
             IsOpen(k, i)' =>
                \/ k \in 1..Len(coreEvents) /\ IsOpen(k, i) /\ f[k] = f0[k]
                \/ k = Len(coreEvents) + 1 /\ f[k] = uses[i] + 1
      BY Zenon, <1>5, <3>3 DEF IsOpen
    <3>5. /\ opens[i] <= uses[i] /\ objs[i] <= uses[i] /\ opens[i] \in Nat /\ objs[i] \in Nat
          /\ uses'[i] = uses[i] + 1 /\ Created(i)' = 0
      <4>1. objs[i] <= uses[i] + 0 /\ objs[i] \in 0..MaxObjs
        BY ZenonT(40), <1>1, <1>2 DEF IInv, Objects, TypeOK
      <4>2. QED
        BY <1>1, <1>2, <1>3, <1>4, <4>1 DEF IInv, Opening, TypeOK, Created
    <3>6. CoreNumbers(i, f)'
      <4>1. ASSUME NEW k \in 1..Len(coreEvents'), IsOpen(k, i)'
            PROVE  /\ f[k] <= uses[i] + 1 /\ opens[i] < f[k]
                   /\ objs[i] <= f[k] + 0 /\ objs[i] < f[k] + 0
        <5>1. CASE k \in 1..Len(coreEvents) /\ IsOpen(k, i) /\ f[k] = f0[k]
          <6>1. f0[k] <= uses[i] /\ opens[i] < f0[k] /\ objs[i] < f0[k] + 0
            BY Zenon, <1>1, <1>2, <3>1, <5>1 DEF Numbering, CoreNumbers
          <6>2. f0[k] \in Nat
            BY ZenonT(40), <1>5, <3>1, <5>1, TagValues
          <6>3. QED
            BY SMTT(30), <1>3, <3>5, <5>1, <6>1, <6>2
        <5>2. CASE k = Len(coreEvents) + 1 /\ f[k] = uses[i] + 1
          BY <1>3, <3>5, <5>2
        <5>3. QED
          BY ZenonT(40), <3>4, <4>1, <5>1, <5>2
      <4>2. ASSUME NEW k \in 1..Len(coreEvents'), IsOpen(k, i)',
                   NEW j \in 1..Len(coreEvents'), j < k, IsOpen(j, i)'
            PROVE  f[j] < f[k]
        <5>1. j \in 1..Len(coreEvents) /\ IsOpen(j, i) /\ f[j] = f0[j]
          <6>1. j # Len(coreEvents) + 1
            BY <1>5, <4>2
          <6>2. QED
            BY ZenonT(40), <3>4, <4>2, <6>1
        <5>2. f0[j] <= uses[i] /\ f0[j] \in Nat
          <6>1. f0[j] <= uses[i]
            BY Zenon, <3>1, <5>1 DEF Numbering, CoreNumbers
          <6>2. QED
            BY Zenon, <1>5, <3>1, <5>1, <6>1, TagValues
        <5>3. CASE k \in 1..Len(coreEvents) /\ IsOpen(k, i) /\ f[k] = f0[k]
          BY Zenon, <3>1, <4>2, <5>1, <5>3 DEF Numbering, CoreNumbers
        <5>4. CASE k = Len(coreEvents) + 1 /\ f[k] = uses[i] + 1
          <6>1. f0[j] < uses[i] + 1
            BY <1>3, <5>2
          <6>2. QED
            BY Zenon, <5>1, <5>4, <6>1
        <5>5. QED
          BY Zenon, <3>4, <4>2, <5>3, <5>4
      <4>3. opens'[i] = opens[i] /\ objs'[i] = objs[i]
        BY Zenon, <1>1
      <4>4. QED
        BY <3>5, <4>1, <4>2, <4>3 DEF CoreNumbers
    <3>7. ASSUME NEW r \in Rcv, r[1] = i PROVE QueueNumbers(r, f, g)'
      <4>1. QueueNumbers(r, f0, g) /\ queue'[r] = queue[r]
        BY Zenon, <1>1, <3>1, <3>7 DEF Numbering
      <4>2. Len(queue[r]) \in Nat
        BY Zenon, Elements DEF IInv, TypeOK
      <4>3. ASSUME NEW k \in 1..Len(queue[r]), queue[r][k].kind = "open"
            PROVE  /\ g[k] <= uses'[i] /\ opens'[i] < g[k]
                   /\ \A j \in 1..Len(queue[r]) :
                         j < k => /\ queue[r][j].kind = "open" => g[j] < g[k]
                                  /\ queue[r][j].kind = "message" => g[k] > 1
                   /\ \A j \in 1..Len(coreEvents') : IsOpen(j, i)' => g[k] < f[j]
        <5>1. /\ g[k] <= uses[i] /\ opens[i] < g[k]
              /\ \A j \in 1..Len(queue[r]) :
                    j < k => /\ queue[r][j].kind = "open" => g[j] < g[k]
                             /\ queue[r][j].kind = "message" => g[k] > 1
              /\ \A j \in 1..Len(coreEvents) : IsOpen(j, i) => g[k] < f0[j]
          BY Zenon, <3>7, <4>1, <4>3 DEF QueueNumbers
        <5>2. g[k] \in Nat /\ g[k] <= uses[i] + 1 /\ g[k] < uses[i] + 1
          <6>1. g[k] \in Nat /\ g[k] <= uses[i]
            BY Zenon, <3>1, <4>2, <5>1, TagValues
          <6>2. QED
            BY <1>3, <6>1
        <5>3. \A j \in 1..Len(coreEvents') : IsOpen(j, i)' => g[k] < f[j]
          BY Zenon, <3>4, <5>1, <5>2
        <5>4. QED
          BY Zenon, <1>1, <3>5, <5>1, <5>2, <5>3
      <4>4. ASSUME NEW k \in 1..Len(queue[r]), queue[r][k].kind = "message"
            PROVE  \A j \in 1..Len(coreEvents') : IsOpen(j, i)' => f[j] > 1
        <5>1. \A j \in 1..Len(coreEvents) : IsOpen(j, i) => f0[j] > 1
          BY Zenon, <3>7, <4>1, <4>4 DEF QueueNumbers
        <5>2. uses[i] + 1 > 1
          <6>1. uses[i] >= 1
            BY Zenon, <3>7, <4>4, MessageSent
          <6>2. QED
            BY <1>3, <6>1
        <5>3. QED
          BY Zenon, <3>4, <5>1, <5>2
      <4>5. QED
        BY Zenon, <3>7, <4>1, <4>3, <4>4 DEF QueueNumbers
    <3>8. Numbering(i, f, g)'
      BY Zenon, <3>6, <3>7 DEF Numbering
    <3>9. QED
      BY Zenon, <3>1, <3>3, <3>8
  <2>3. QED
    BY Zenon, <2>1, <2>2 DEF Numbered
<1>12. Quiet' /\ Placed'
  BY Zenon, <1>1 DEF Quiet, Placed
<1>13. Ordered' /\ Registered'
  BY Zenon, <1>1, SameOrdered, SameRegistered DEF IInv
<1>14. QED
  BY Zenon, <1>6, <1>7, <1>8, <1>9, <1>10, <1>11, <1>12, <1>13 DEF IInv

LEMMA RemoteCloseStep ==
  ASSUME IInv, NEW i \in Id, RemoteClose(i)
  PROVE  IInv'
<1>1. /\ phase = "select" /\ core[i] = "open"
      /\ core' = [core EXCEPT ![i] = "closed"] /\ closed' = [closed EXCEPT ![i] = @ + 1]
      /\ coreEvents' = Append(coreEvents, CoreEvent("close", i))
      /\ UNCHANGED <<uses, sent, handshake, coreReads, phase, made, objs, tx, queue, dropped,
                     poller, opened, cbs, announced, opens, got, closes>>
  BY Zenon DEF RemoteClose, rcvVars, appSees
<1>2. handshake /\ uses[i] # 0
  BY Zenon, <1>1 DEF IInv, Channels
<1>3. /\ \A j \in Id : core'[j] = IF j = i THEN "closed" ELSE core[j]
      /\ \A j \in Id : closed'[j] >= closed[j] /\ closed[j] \in Nat /\ closed'[j] \in Nat
      /\ closed'[i] >= 1
  <2>1. closed \in [Id -> Nat] /\ core \in [Id -> {"none", "connecting", "open", "closed"}]
    BY Zenon DEF IInv, TypeOK
  <2>2. \A j \in Id : core'[j] = IF j = i THEN "closed" ELSE core[j]
    BY Zenon, <1>1, <2>1
  <2>3. \A j \in Id : closed'[j] = IF j = i THEN closed[i] + 1 ELSE closed[j]
    BY Zenon, <1>1, <2>1
  <2>4. \A j \in Id : closed[j] \in Nat
    BY Zenon, <2>1
  <2>5. QED
    BY <2>2, <2>3, <2>4
<1>4. /\ coreEvents' \in Seq([kind : {"open", "close"}, id : Id])
      /\ Len(coreEvents) \in Nat /\ Len(coreEvents') = Len(coreEvents) + 1
      /\ \A k \in 1..Len(coreEvents') :
            \/ k \in 1..Len(coreEvents) /\ coreEvents'[k] = coreEvents[k]
            \/ k = Len(coreEvents) + 1 /\ coreEvents'[k] = CoreEvent("close", i)
  <2>1. CoreEvent("close", i) \in [kind : {"open", "close"}, id : Id]
    BY DEF CoreEvent
  <2>2. QED
    BY Zenon, <1>1, <2>1, EventAdded DEF IInv
<1>5. TypeOK'
  <2>1. closed' \in [Id -> Nat]
    BY Zenon, <1>1, Counted DEF IInv, TypeOK
  <2>2. core' \in [Id -> {"none", "connecting", "open", "closed"}]
    BY ZenonT(40), <1>1 DEF IInv, TypeOK
  <2>3. QED
    BY Zenon, <1>1, <1>4, <2>1, <2>2 DEF IInv, TypeOK
<1>6. Channels'
  <2>1. Local \subseteq Id /\ Remote \subseteq Id
    BY Zenon DEF Id
  <2>2. QED
    BY <1>1, <1>2, <1>3, <2>1 DEF IInv, Channels
<1>7. Closing'
  <2>1. CoreEvent("close", i).id = i
    BY DEF CoreEvent
  <2>2. \A k \in 1..Len(coreEvents) : coreEvents[k].id \in Id
    BY Zenon, CoreItems DEF IInv
  <2>3. \A j \in Id : closed[j] >= 1 => closed'[j] >= 1
    BY <1>3
  <2>4. \A k \in 1..Len(coreEvents') :
            coreEvents'[k].kind = "close" => closed'[coreEvents'[k].id] >= 1
    BY ZenonT(40), <1>1, <1>3, <1>4, <2>1, <2>2, <2>3 DEF IInv, Closing
  <2>5. \A r \in Rcv : \A k \in 1..Len(queue[r]) :
            queue[r][k].kind = "close" => closed'[r[1]] >= 1
    BY Zenon, <2>3, Pairs DEF IInv, Closing
  <2>6. \A j \in Id : closes[j] <= closed'[j]
    <3>1. \A j \in Id : closes[j] <= closed[j] /\ closes[j] \in Nat
      BY Zenon DEF IInv, Closing, TypeOK
    <3>2. QED
      BY <1>3, <3>1
  <2>7. QED
    BY Zenon, <1>1, <2>4, <2>5, <2>6 DEF IInv, Closing, Current
<1>8. Numbered'
  <2>1. CoreEvent("close", i).kind # "open"
    BY DEF CoreEvent
  <2>2. ASSUME NEW j \in Id, NEW f, NEW g, Numbering(j, f, g) PROVE Numbering(j, f, g)'
    <3>1. \A k \in 1..Len(coreEvents') :
             IsOpen(k, j)' => k \in 1..Len(coreEvents) /\ IsOpen(k, j)
      BY Zenon, <1>4, <2>1 DEF IsOpen
    <3>2. QED
      BY Zenon, <1>1, <2>2, <3>1, NumberingKept
  <2>3. QED
    BY Zenon, <2>2 DEF IInv, Numbered
<1>9. Quiet' /\ Placed'
  BY Zenon, <1>1, <1>2 DEF Quiet, Placed
<1>10. Objects' /\ Registered' /\ Ordered' /\ Opening'
  BY Zenon, <1>1, SameObjects, SameRegistered, SameOrdered, SameOpening DEF IInv
<1>11. QED
  BY Zenon, <1>5, <1>6, <1>7, <1>8, <1>9, <1>10 DEF IInv

LEMMA RemoteSendStep ==
  ASSUME IInv, NEW i \in Id, RemoteSend(i)
  PROVE  IInv'
<1>1. /\ phase = "select" /\ core[i] = "open" /\ sent[i] < MaxMsgs
      /\ sent' = [sent EXCEPT ![i] = @ + 1]
      /\ coreReads' = Append(coreReads, Message(i, sent[i] + 1))
      /\ UNCHANGED <<core, uses, closed, handshake, coreEvents, phase, made, objs, tx, queue,
                     dropped, poller, opened, cbs, announced, opens, got, closes>>
  BY Zenon DEF RemoteSend, rcvVars, appSees
<1>2. handshake /\ uses[i] # 0
  BY Zenon, <1>1 DEF IInv, Channels
<1>3. sent[i] \in Nat /\ sent[i] + 1 \in 1..MaxMsgs /\ MaxMsgs \in Nat
  BY SMTT(30), <1>1, BoundAssumption DEF IInv, TypeOK
<1>4. \A j \in Id : sent'[j] = IF j = i THEN sent[i] + 1 ELSE sent[j]
  BY Zenon, <1>1 DEF IInv, TypeOK
<1>5. /\ coreReads' \in Seq([id : Id, n : 1..MaxMsgs])
      /\ Len(coreReads) \in Nat /\ Len(coreReads') = Len(coreReads) + 1
      /\ \A k \in 1..Len(coreReads') :
            \/ k \in 1..Len(coreReads) /\ coreReads'[k] = coreReads[k]
            \/ /\ k = Len(coreReads) + 1
               /\ coreReads'[k].id = i /\ coreReads'[k].n = sent[i] + 1
  <2>1. /\ Message(i, sent[i] + 1) \in [id : Id, n : 1..MaxMsgs]
        /\ Message(i, sent[i] + 1).id = i /\ Message(i, sent[i] + 1).n = sent[i] + 1
    BY <1>3 DEF Message
  <2>2. coreReads \in Seq([id : Id, n : 1..MaxMsgs])
    BY Zenon DEF IInv, TypeOK
  <2>3. /\ coreReads' \in Seq([id : Id, n : 1..MaxMsgs])
        /\ Len(coreReads) \in Nat /\ Len(coreReads') = Len(coreReads) + 1
        /\ coreReads'[Len(coreReads) + 1] = Message(i, sent[i] + 1)
        /\ \A k \in 1..Len(coreReads) : coreReads'[k] = coreReads[k]
    BY <1>1, <2>1, <2>2, Added
  <2>4. \A k \in 1..Len(coreReads') : k \in 1..Len(coreReads) \/ k = Len(coreReads) + 1
    BY <2>3
  <2>5. QED
    BY Zenon, <2>1, <2>3, <2>4
<1>6. TypeOK'
  <2>1. sent[i] + 1 \in 0..MaxMsgs
    BY <1>3
  <2>2. sent' \in [Id -> 0..MaxMsgs]
    BY Zenon, <1>1, <2>1 DEF IInv, TypeOK
  <2>3. QED
    BY Zenon, <1>1, <1>5, <2>2 DEF IInv, TypeOK
<1>7. Channels'
  BY Zenon, <1>1, <1>2, <1>4 DEF IInv, Channels
<1>8. Ordered'
  <2>1. /\ \A j \in Id : sent'[j] >= sent[j] /\ sent[j] \in Nat /\ sent'[j] \in Nat
        /\ sent'[i] = sent[i] + 1
    <3>1. \A j \in Id : sent[j] \in 0..MaxMsgs
      BY Zenon DEF IInv, TypeOK
    <3>2. QED
      BY <1>3, <1>4, <3>1
  <2>2. \A k \in 1..Len(coreReads) : coreReads[k].id \in Id /\ coreReads[k].n \in Nat
    BY Zenon, CoreItems DEF IInv
  <2>3. ASSUME NEW k \in 1..Len(coreReads')
        PROVE  /\ coreReads'[k].n <= sent'[coreReads'[k].id]
               /\ \A j \in 1..Len(coreReads') :
                    j < k /\ coreReads'[j].id = coreReads'[k].id
                        => coreReads'[j].n < coreReads'[k].n
    <3>1. /\ \A m \in 1..Len(coreReads) : coreReads[m].n <= sent[coreReads[m].id]
          /\ \A j, m \in 1..Len(coreReads) :
                j < m /\ coreReads[j].id = coreReads[m].id => coreReads[j].n < coreReads[m].n
      BY Zenon DEF IInv, Ordered
    <3>2. CASE k \in 1..Len(coreReads) /\ coreReads'[k] = coreReads[k]
      <4>1. \A j \in 1..Len(coreReads') : j < k => j \in 1..Len(coreReads) /\ coreReads'[j] = coreReads[j]
        BY SMTT(30), <1>5, <3>2
      <4>2. coreReads[k].n <= sent'[coreReads[k].id]
        BY SMTT(30), <2>1, <2>2, <3>1, <3>2
      <4>3. QED
        BY Zenon, <3>1, <3>2, <4>1, <4>2
    <3>3. CASE k = Len(coreReads) + 1 /\ coreReads'[k].id = i /\ coreReads'[k].n = sent[i] + 1
      <4>1. \A j \in 1..Len(coreReads') : j < k => j \in 1..Len(coreReads) /\ coreReads'[j] = coreReads[j]
        BY <1>5, <3>3
      <4>2. \A j \in 1..Len(coreReads) : coreReads[j].id = i => coreReads[j].n < sent[i] + 1
        BY SMTT(30), <1>3, <2>2, <3>1
      <4>3. sent[i] + 1 <= sent'[i]
        BY <1>3, <2>1
      <4>4. QED
        BY ZenonT(40), <3>3, <4>1, <4>2, <4>3
    <3>4. QED
      BY Zenon, <1>5, <3>2, <3>3
  <2>4. ASSUME NEW j \in Id, NEW m \in Nat, m <= sent[j],
               \A k \in 1..Len(coreReads) : coreReads[k].id = j => m < coreReads[k].n
        PROVE  /\ m <= sent'[j]
               /\ \A k \in 1..Len(coreReads') : coreReads'[k].id = j => m < coreReads'[k].n
    <3>1. m <= sent'[j] /\ (j = i => m < sent[i] + 1)
      BY <1>3, <2>1, <2>4
    <3>2. QED
      BY Zenon, <1>5, <2>4, <3>1
  <2>5. ASSUME NEW r \in Rcv, NEW k \in 1..Len(queue[r]), queue[r][k].kind = "message"
        PROVE  /\ queue[r][k].n <= sent'[r[1]]
               /\ \A j \in 1..Len(coreReads') :
                    coreReads'[j].id = r[1] => queue[r][k].n < coreReads'[j].n
    <3>1. queue[r][k].n \in Nat /\ r[1] \in Id
      <4>1. queue[r] \in Seq(ChannelEvents)
        BY Zenon DEF IInv, TypeOK
      <4>2. queue[r][k] \in ChannelEvents
        BY Zenon, <4>1, Elements
      <4>3. QED
        BY <4>2, Pairs DEF ChannelEvents, OnOpen, OnClose, OnMessage
    <3>2. QED
      BY Zenon, <2>4, <2>5, <3>1 DEF IInv, Ordered
  <2>6. ASSUME NEW j \in Id, NEW k \in 1..Len(got[j])
        PROVE  /\ got[j][k] <= sent'[j]
               /\ \A m \in 1..Len(coreReads') : coreReads'[m].id = j => got[j][k] < coreReads'[m].n
    <3>1. got[j][k] \in Nat
      <4>1. got[j] \in Seq(1..MaxMsgs)
        BY Zenon DEF IInv, TypeOK
      <4>2. got[j][k] \in 1..MaxMsgs
        BY Zenon, <4>1, Elements
      <4>3. QED
        BY <4>2
    <3>2. QED
      BY Zenon, <2>4, <3>1 DEF IInv, Ordered
  <2>7. QED
    BY ZenonT(40), <1>1, <2>3, <2>5, <2>6 DEF IInv, Ordered
<1>9. Quiet' /\ Placed'
  BY Zenon, <1>1, <1>2 DEF Quiet, Placed
<1>10. Objects' /\ Registered' /\ Closing' /\ Opening' /\ Numbered'
  BY Zenon, <1>1, SameObjects, SameRegistered, SameClosing, SameOpening, SameNumbered DEF IInv
<1>11. QED
  BY Zenon, <1>6, <1>7, <1>8, <1>9, <1>10 DEF IInv

-----------------------------------------------------------------------------
(* The driver.                                                              *)

\* Moving between phases other than "open" leaves the numbering.
LEMMA NumberedPhase ==
  ASSUME IInv, phase # "open", phase' # "open",
         UNCHANGED <<coreEvents, uses, opens, objs, made, queue>>
  PROVE  Numbered'
<1>1. ASSUME NEW i \in Id, NEW f, NEW g, Numbering(i, f, g)
      PROVE  Numbering(i, f, g)'
  <2>1. CoreNumbers(i, f)'
    BY ZenonT(40), <1>1 DEF Numbering, CoreNumbers, Created, IsOpen
  <2>2. ASSUME NEW r \in Rcv, QueueNumbers(r, f, g) PROVE QueueNumbers(r, f, g)'
    BY <2>2 DEF QueueNumbers, IsOpen
  <2>3. QED
    BY Zenon, <1>1, <2>1, <2>2 DEF Numbering
<1>2. QED
  BY Zenon, <1>1 DEF IInv, Numbered

LEMMA PhaseStep ==
  ASSUME IInv, Iterate \/ EventsDone \/ ReadsDone
  PROVE  IInv'
<1>1. /\ phase # "open" /\ phase' \in {"select", "events", "reads"}
      /\ phase' = "reads" => coreEvents = << >>
      /\ UNCHANGED <<core, uses, closed, sent, handshake, coreEvents, coreReads, made, objs,
                     tx, queue, dropped, poller, opened, cbs, announced, opens, got, closes>>
      /\ phase # "select" \/ coreEvents # << >> \/ coreReads # << >>
  BY Zenon DEF Iterate, EventsDone, ReadsDone, coreVars, rcvVars, appSees
<1>2. handshake
  BY Zenon, <1>1 DEF IInv, Quiet
<1>3. TypeOK'
  BY Zenon, <1>1 DEF IInv, TypeOK
<1>4. Quiet' /\ Placed'
  BY Zenon, <1>1, <1>2 DEF Quiet, Placed
<1>5. Numbered'
  BY Zenon, <1>1, NumberedPhase
<1>6. Objects' /\ Channels' /\ Registered' /\ Closing' /\ Ordered' /\ Opening'
  BY Zenon, <1>1, SameObjects, SameChannels, SameRegistered, SameClosing, SameOrdered,
     SameOpening DEF IInv
<1>7. QED
  BY Zenon, <1>3, <1>4, <1>5, <1>6 DEF IInv

\* The head of the core's events.
LEMMA EventTaken ==
  ASSUME TypeOK, coreEvents # << >>
  PROVE  /\ Len(coreEvents) \in Nat /\ 1 \in 1..Len(coreEvents)
         /\ Head(coreEvents) = coreEvents[1] /\ coreEvents[1].id \in Id
         /\ Tail(coreEvents) \in Seq([kind : {"open", "close"}, id : Id])
         /\ Len(Tail(coreEvents)) \in Nat
         /\ \A k \in 1..Len(Tail(coreEvents)) :
               /\ Tail(coreEvents)[k] = coreEvents[k + 1]
               /\ k + 1 \in 1..Len(coreEvents) /\ k \in Nat /\ k + 1 # 1 /\ 1 < k + 1
<1>1. coreEvents \in Seq([kind : {"open", "close"}, id : Id])
  BY Zenon DEF TypeOK
<1>2. /\ Len(coreEvents) \in Nat /\ Len(coreEvents) >= 1 /\ Head(coreEvents) = coreEvents[1]
      /\ coreEvents[1] \in [kind : {"open", "close"}, id : Id]
      /\ Tail(coreEvents) \in Seq([kind : {"open", "close"}, id : Id])
      /\ Len(Tail(coreEvents)) = Len(coreEvents) - 1
      /\ \A k \in 1..Len(Tail(coreEvents)) :
            Tail(coreEvents)[k] = coreEvents[k + 1] /\ k + 1 \in 1..Len(coreEvents)
  BY ZenonT(40), <1>1, Taken
<1>3. 1 \in 1..Len(coreEvents) /\ coreEvents[1].id \in Id /\ Len(Tail(coreEvents)) \in Nat
  BY <1>2
<1>4. \A k \in 1..Len(Tail(coreEvents)) : k \in Nat /\ k + 1 # 1 /\ 1 < k + 1
  BY <1>3
<1>5. QED
  BY Zenon, <1>2, <1>3, <1>4

LEMMA AnnounceClosed ==
  ASSUME IInv, Announce, core[coreEvents[1].id] # "open"
  PROVE  IInv'
<1>1. /\ phase = "events" /\ coreEvents # << >> /\ coreEvents[1].kind = "open"
      /\ phase' = "open"
      /\ UNCHANGED <<core, uses, closed, sent, handshake, coreEvents, coreReads, made, objs,
                     tx, queue, dropped, poller, opened, cbs, announced, opens, got, closes>>
  <2>1. coreEvents # << >> => Head(coreEvents) = coreEvents[1]
    BY Zenon, EventTaken DEF IInv
  <2>2. QED
    BY Zenon, <2>1 DEF Announce, coreVars, rcvVars, appSees
<1>2. TypeOK' /\ Quiet' /\ Placed'
  BY Zenon, <1>1 DEF IInv, TypeOK, Quiet, Placed
<1>3. Numbered'
  <2>1. ASSUME NEW i \in Id, NEW f, NEW g, Numbering(i, f, g)
        PROVE  Numbering(i, f, g)'
    <3>1. CoreNumbers(i, f)'
      BY ZenonT(40), <1>1, <2>1 DEF Numbering, CoreNumbers, Created, IsOpen
    <3>2. ASSUME NEW r \in Rcv, QueueNumbers(r, f, g) PROVE QueueNumbers(r, f, g)'
      BY SMTT(30), <1>1, <3>2 DEF QueueNumbers, IsOpen
    <3>3. QED
      BY Zenon, <2>1, <3>1, <3>2 DEF Numbering
  <2>2. QED
    BY Zenon, <2>1 DEF IInv, Numbered
<1>4. Objects' /\ Channels' /\ Registered' /\ Closing' /\ Ordered' /\ Opening'
  BY Zenon, <1>1, SameObjects, SameChannels, SameRegistered, SameClosing, SameOrdered,
     SameOpening DEF IInv
<1>5. QED
  BY Zenon, <1>2, <1>3, <1>4 DEF IInv

LEMMA AnnounceOpen ==
  ASSUME IInv, Announce, NEW i \in Id, coreEvents[1].id = i, core[i] = "open"
  PROVE  IInv'
<1>1. /\ phase = "events" /\ coreEvents # << >> /\ coreEvents[1].kind = "open"
      /\ phase' = "open"
      /\ objs' = [objs EXCEPT ![i] = @ + 1]
      /\ tx' = IF tx[i] = 0 THEN [tx EXCEPT ![i] = objs[i] + 1] ELSE tx
      /\ poller' = [poller EXCEPT ![<<i, objs[i] + 1>>] = "poll"]
      /\ announced' = announced \cup {i}
      /\ cbs' = IF i \in Remote THEN cbs \cup {i} ELSE cbs
      /\ UNCHANGED <<core, uses, closed, sent, handshake, coreEvents, coreReads, made,
                     queue, dropped, opened, opens, got, closes>>
  <2>1. coreEvents # << >> => Head(coreEvents) = coreEvents[1]
    BY Zenon, EventTaken DEF IInv
  <2>2. QED
    BY Zenon, <2>1 DEF Announce, coreVars, rcvVars, appSees
<1>2. handshake /\ i \in Id /\ 1 \in 1..Len(coreEvents) /\ Len(coreEvents) \in Nat /\ IsOpen(1, i)
  BY ZenonT(40), <1>1, EventTaken DEF IInv, Quiet, IsOpen
<1>3. i \in Local => made[i] = "yes" /\ tx[i] # 0
  BY <1>2 DEF IInv, Channels
<1>4. /\ objs[i] + 1 <= uses[i] + Created(i) /\ uses[i] \in Nat /\ objs[i] \in Nat
      /\ Created(i) \in {0, 1} /\ uses[i] <= MaxOpens
      /\ objs[i] + 1 \in 1..MaxObjs
  <2>1. PICK f \in Tags, g \in Tags : Numbering(i, f, g)
    BY Zenon, <1>2 DEF IInv, Numbered
  <2>2. f[1] <= uses[i] /\ objs[i] < f[1] + Created(i)
    BY Zenon, <1>1, <1>2, <2>1 DEF Numbering, CoreNumbers
  <2>3. f[1] \in Nat /\ Created(i) \in {0, 1} /\ uses[i] \in Nat /\ objs[i] \in 0..MaxObjs
    BY Zenon, <1>2, <2>1, TagValues DEF IInv, TypeOK, Created
  <2>4. uses[i] <= MaxOpens
    BY Zenon, <1>2 DEF IInv, Objects
  <2>5. QED
    BY <2>2, <2>3, <2>4, BoundAssumption DEF MaxObjs
<1>5. <<i, objs[i] + 1>> \in Rcv
  BY Zenon, <1>2, <1>4, Pairs
<1>6. /\ \A j \in Id : objs'[j] = IF j = i THEN objs[i] + 1 ELSE objs[j]
      /\ \A j \in Id : tx'[j] = IF j = i /\ tx[i] = 0 THEN objs[i] + 1 ELSE tx[j]
      /\ \A r \in Rcv : poller'[r] = IF r = <<i, objs[i] + 1>> THEN "poll" ELSE poller[r]
      /\ cbs \subseteq cbs' /\ (i \in Remote => i \in cbs')
      /\ \A j \in Local : j \in cbs' => j \in cbs
  BY Zenon, <1>1, IdAssumption DEF IInv, TypeOK
<1>7. TypeOK'
  <2>1. objs[i] + 1 \in 0..MaxObjs
    BY <1>4
  <2>2. objs' \in [Id -> 0..MaxObjs] /\ tx' \in [Id -> 0..MaxObjs]
    BY Zenon, <1>1, <2>1 DEF IInv, TypeOK
  <2>3. cbs' \subseteq Id /\ announced' \subseteq Id
    BY Zenon, <1>1, <1>2 DEF IInv, TypeOK
  <2>4. poller' \in [Rcv -> {"none", "poll", "sleep", "finish", "done"}]
    BY Zenon, <1>1 DEF IInv, TypeOK
  <2>5. QED
    BY ZenonT(40), <1>1, <2>2, <2>3, <2>4 DEF IInv, TypeOK
<1>8. \A j \in Id : Created(j)' = Created(j)
  BY Zenon, <1>1 DEF Created
<1>9. /\ tx[i] # 0 => \A r \in Rcv : Current(r)' <=> Current(r)
      /\ tx[i] = 0 => \A r \in Rcv : r[1] # i => (Current(r)' <=> Current(r))
      /\ tx[i] = 0 => \A r \in Rcv : r[1] = i => ~Current(r)
      /\ tx[i] = 0 => \A r \in Rcv : r[1] = i /\ Current(r)' => r = <<i, objs[i] + 1>>
  BY SMTT(30), <1>6, Pairs DEF Current
<1>10. Channels'
  <2>1. \A j \in Local : tx'[j] = tx[j] /\ j \in Id
    BY Zenon, <1>3, <1>6 DEF Id
  <2>2. QED
    BY <1>1, <1>6, <2>1 DEF IInv, Channels
<1>11. ASSUME NEW r \in Rcv, r = <<i, objs[i] + 1>>
       PROVE  /\ r[1] = i /\ r[2] = objs[i] + 1 /\ r[2] > objs[i] /\ poller[r] = "none"
              /\ ~Current(r) /\ queue[r] = << >> /\ opened[r] = FALSE
  <2>1. r[1] = i /\ r[2] = objs[i] + 1 /\ r[2] > objs[i]
    BY <1>4, <1>11
  <2>2. ~Current(r)
    <3>1. tx[i] <= objs[i] /\ tx[i] \in Nat
      BY <1>2 DEF IInv, Objects, TypeOK
    <3>2. QED
      BY SMTT(30), <1>4, <2>1, <3>1 DEF Current
  <2>3. QED
    BY ZenonT(40), <2>1, <2>2 DEF IInv, Objects
<1>12. Objects'
  <2>1. \A j \in Id : tx'[j] <= objs'[j] /\ objs'[j] <= uses[j] + Created(j)
    <3>1. \A j \in Id : /\ tx[j] <= objs[j] /\ objs[j] <= uses[j] + Created(j)
                        /\ tx[j] \in 0..MaxObjs /\ objs[j] \in 0..MaxObjs
      BY Zenon DEF IInv, Objects, TypeOK
    <3>2. tx'[i] <= objs'[i] /\ objs'[i] <= uses[i] + Created(i)
      BY SMTT(30), <1>2, <1>4, <1>6, <3>1
    <3>3. QED
      BY Zenon, <1>6, <3>1, <3>2
  <2>2. ASSUME NEW r \in Rcv, r = <<i, objs[i] + 1>>
        PROVE  /\ r[2] > objs'[r[1]] => poller'[r] = "none"
               /\ ~Current(r)' => /\ queue[r] = << >> /\ opened[r] = FALSE
                                  /\ poller'[r] \in {"none", "poll", "sleep"}
               /\ Current(r)' => /\ poller'[r] # "sleep"
                                 /\ poller'[r] = "none" => r[1] \in Local /\ made[r[1]] = "tx"
    <3>1. poller'[r] = "poll" /\ objs'[r[1]] = objs[i] + 1 /\ r[2] = objs[i] + 1
      BY ZenonT(40), <1>2, <1>6, <1>11, <2>2
    <3>2. ~(r[2] > objs'[r[1]])
      BY <1>4, <3>1
    <3>3. QED
      BY Zenon, <1>11, <2>2, <3>1, <3>2
  <2>3. ASSUME NEW r \in Rcv, r # <<i, objs[i] + 1>>
        PROVE  /\ r[2] > objs'[r[1]] => poller'[r] = "none"
               /\ ~Current(r)' => /\ queue[r] = << >> /\ opened[r] = FALSE
                                  /\ poller'[r] \in {"none", "poll", "sleep"}
               /\ Current(r)' => /\ poller'[r] # "sleep"
                                 /\ poller'[r] = "none" => r[1] \in Local /\ made[r[1]] = "tx"
    <3>1. poller'[r] = poller[r]
      BY Zenon, <1>6, <2>3
    <3>2. Current(r)' <=> Current(r)
      BY Zenon, <1>9, <2>3
    <3>3. r[2] > objs'[r[1]] => r[2] > objs[r[1]]
      BY <1>4, <1>6, Pairs
    <3>4. QED
      BY Zenon, <3>1, <3>2, <3>3 DEF IInv, Objects
  <2>4. QED
    BY ZenonT(40), <1>1, <1>8, <2>1, <2>2, <2>3 DEF IInv, Objects
<1>13. Registered'
  <2>1. ASSUME NEW r \in Rcv, Current(r)', poller'[r] = "poll" PROVE r[1] \in cbs'
    <3>1. CASE r = <<i, objs[i] + 1>>
      <4>1. tx[i] = 0
        BY Zenon, <1>9, <1>11, <2>1, <3>1
      <4>2. i \in Remote
        BY Zenon, <1>2, <1>3, <4>1 DEF Id
      <4>3. QED
        BY Zenon, <1>6, <1>11, <3>1, <4>2
    <3>2. CASE r # <<i, objs[i] + 1>>
      <4>1. Current(r) /\ poller[r] = "poll"
        BY Zenon, <1>6, <1>9, <2>1, <3>2
      <4>2. QED
        BY Zenon, <1>2, <1>6, <4>1 DEF IInv, Registered
    <3>3. QED
      BY Zenon, <3>1, <3>2
  <2>2. QED
    BY Zenon, <2>1 DEF Registered
<1>14. Closing' /\ Opening'
  <2>1. tx[i] = 0 => opens[i] = 0 /\ closes[i] = 0
    BY ZenonT(40), <1>2 DEF IInv, Closing, Opening
  <2>2. \A j \in Id : tx'[j] = 0 => tx[j] = 0
    BY <1>4, <1>6
  <2>3. ASSUME NEW r \in Rcv, Current(r)', closes[r[1]] > 0
        PROVE  poller'[r] \in {"finish", "done"}
    <3>1. CASE Current(r)
      <4>1. r # <<i, objs[i] + 1>>
        BY ZenonT(40), <1>11, <3>1
      <4>2. QED
        BY Zenon, <1>6, <2>3, <3>1, <4>1 DEF IInv, Closing
    <3>2. CASE ~Current(r)
      <4>1. tx[i] = 0 /\ r[1] = i
        BY Zenon, <1>9, <2>3, <3>2
      <4>2. closes[r[1]] = 0
        BY Zenon, <2>1, <4>1
      <4>3. QED
        BY <2>3, <4>2
    <3>3. QED
      BY Zenon, <3>1, <3>2
  <2>4. ASSUME NEW r \in Rcv, Current(r)' PROVE opens[r[1]] = 0 <=> opened[r] = FALSE
    <3>1. CASE Current(r)
      BY Zenon, <3>1 DEF IInv, Opening
    <3>2. CASE ~Current(r)
      <4>1. tx[i] = 0 /\ r[1] = i /\ r = <<i, objs[i] + 1>>
        BY Zenon, <1>9, <2>4, <3>2
      <4>2. QED
        BY Zenon, <1>11, <2>1, <4>1
    <3>3. QED
      BY Zenon, <3>1, <3>2
  <2>5. Closing'
    BY Zenon, <1>1, <2>2, <2>3 DEF IInv, Closing
  <2>6. Opening'
    BY Zenon, <1>1, <2>2, <2>4 DEF IInv, Opening
  <2>7. QED
    BY Zenon, <2>5, <2>6
<1>15. Numbered'
  <2>1. ASSUME NEW j \in Id, NEW f \in Tags, NEW g \in Tags, Numbering(j, f, g)
        PROVE  Numbering(j, f, g)'
    <3>1. ASSUME NEW k \in 1..Len(coreEvents), IsOpen(k, j)
          PROVE  /\ objs'[j] <= f[k] + Created(j)
                 /\ ~(k = 1 /\ phase' = "open") => objs'[j] < f[k] + Created(j)
      <4>1. objs[j] < f[k] + Created(j)
        BY ZenonT(40), <1>1, <2>1, <3>1 DEF Numbering, CoreNumbers
      <4>2. f[k] \in Nat /\ objs[j] \in Nat /\ Created(j) \in Nat
        <5>1. objs[j] \in 0..MaxObjs /\ f[k] \in Nat
          BY ZenonT(40), <1>2, <2>1, TagValues DEF IInv, TypeOK
        <5>2. Created(j) \in Nat
          BY DEF Created
        <5>3. QED
          BY <5>1, <5>2
      <4>3. CASE j # i
        <5>1. objs'[j] = objs[j]
          BY Zenon, <1>6, <4>3
        <5>2. QED
          BY <4>1, <4>2, <5>1
      <4>4. CASE j = i /\ k = 1
        <5>1. objs'[j] = objs[j] + 1
          BY Zenon, <1>6, <4>4
        <5>2. objs[j] + 1 <= f[k] + Created(j)
          BY <4>1, <4>2
        <5>3. QED
          BY Zenon, <1>1, <4>4, <5>1, <5>2
      <4>5. CASE j = i /\ k # 1
        <5>1. objs'[j] = objs[j] + 1
          BY Zenon, <1>6, <4>5
        <5>2. 1 < k /\ f[1] < f[k] /\ objs[j] < f[1] + Created(j) /\ f[1] \in Nat
          <6>1. 1 < k
            BY SMTT(30), <1>2, <4>5
          <6>2. QED
            BY ZenonT(40), <1>1, <1>2, <2>1, <3>1, <4>5, <6>1, TagValues DEF Numbering, CoreNumbers
        <5>3. objs[j] + 1 < f[k] + Created(j) /\ objs[j] + 1 <= f[k] + Created(j)
          BY SMTT(30), <4>2, <5>2
        <5>4. QED
          BY Zenon, <5>1, <5>3
      <4>6. QED
        BY Zenon, <4>3, <4>4, <4>5
    <3>2. CoreNumbers(j, f)'
      <4>1. CoreNumbers(j, f)
        BY Zenon, <2>1 DEF Numbering
      <4>2. QED
        BY Zenon, <1>1, <1>8, <3>1, <4>1 DEF CoreNumbers, IsOpen
    <3>3. ASSUME NEW r \in Rcv, QueueNumbers(r, f, g) PROVE QueueNumbers(r, f, g)'
      BY <1>1, <3>3 DEF QueueNumbers, IsOpen
    <3>4. QED
      BY Zenon, <2>1, <3>2, <3>3 DEF Numbering
  <2>2. QED
    BY Zenon, <2>1 DEF IInv, Numbered
<1>16. Quiet' /\ Placed' /\ Ordered'
  BY Zenon, <1>1, <1>2, SameOrdered DEF IInv, Quiet, Placed
<1>17. QED
  BY Zenon, <1>7, <1>10, <1>12, <1>13, <1>14, <1>15, <1>16 DEF IInv

\* What try_send does to the queues: the event comes last in the queue of the
\* current object of the id, or nowhere.
LEMMA Pushed ==
  ASSUME TypeOK, NEW i \in Id, NEW e \in ChannelEvents, TrySend(i, e)
  PROVE  /\ queue' \in [Rcv -> Seq(ChannelEvents)] /\ dropped' \subseteq Id
         /\ \A r \in Rcv : Len(queue'[r]) <= QCap
         /\ \A r \in Rcv :
               \/ queue'[r] = queue[r]
               \/ /\ r[1] = i /\ Current(r) /\ Len(queue'[r]) = Len(queue[r]) + 1
                  /\ queue'[r][Len(queue[r]) + 1] = e
                  /\ \A k \in 1..Len(queue[r]) : queue'[r][k] = queue[r][k]
<1>1. /\ queue \in [Rcv -> Seq(ChannelEvents)] /\ dropped \subseteq Id
      /\ \A r \in Rcv : Len(queue[r]) <= QCap
  BY Zenon DEF TypeOK
<1>2. dropped' \subseteq Id
  BY <1>1 DEF TrySend
<1>3. CASE ~(tx[i] # 0 /\ ~Full(i))
  BY Zenon, <1>1, <1>2, <1>3 DEF TrySend
<1>4. CASE tx[i] # 0 /\ ~Full(i)
  <2> DEFINE s == <<i, tx[i]>>
  <2>1. tx[i] \in 1..MaxObjs
    <3>1. tx[i] \in 0..MaxObjs
      BY Zenon DEF TypeOK
    <3>2. QED
      BY <1>4, <3>1, BoundAssumption DEF MaxObjs
  <2>2. s \in Rcv /\ s[1] = i /\ Current(s)
    BY <2>1, Pairs DEF Current
  <2>3. queue' = [queue EXCEPT ![s] = Append(queue[s], e)]
    BY Zenon, <1>4 DEF TrySend
  <2>4. ~(Len(queue[s]) >= QCap)
    BY Zenon, <1>4 DEF Full
  <2> HIDE DEF s
  <2>5. /\ Append(queue[s], e) \in Seq(ChannelEvents) /\ Len(queue[s]) \in Nat
        /\ Len(Append(queue[s], e)) = Len(queue[s]) + 1
        /\ Append(queue[s], e)[Len(queue[s]) + 1] = e
        /\ \A k \in 1..Len(queue[s]) : Append(queue[s], e)[k] = queue[s][k]
    BY <1>1, <2>2, Added
  <2>6. /\ queue' \in [Rcv -> Seq(ChannelEvents)] /\ queue'[s] = Append(queue[s], e)
        /\ \A r \in Rcv : r # s => queue'[r] = queue[r]
    BY ZenonT(40), <1>1, <2>2, <2>3, <2>5
  <2>7. Len(queue'[s]) <= QCap
    BY SMTT(30), <2>4, <2>5, <2>6, BoundAssumption
  <2>8. QED
    BY ZenonT(40), <1>1, <1>2, <2>2, <2>5, <2>6, <2>7
<1>5. QED
  BY Zenon, <1>3, <1>4

\* The same, place by place.
LEMMA Placing ==
  ASSUME TypeOK, NEW i \in Id, NEW e \in ChannelEvents, TrySend(i, e),
         NEW r \in Rcv, NEW k \in 1..Len(queue'[r])
  PROVE  \/ k \in 1..Len(queue[r]) /\ queue'[r][k] = queue[r][k]
         \/ /\ k = Len(queue[r]) + 1 /\ queue'[r][k] = e /\ r[1] = i /\ Current(r)
            /\ \A j \in 1..Len(queue'[r]) : j < k => j \in 1..Len(queue[r])
<1>1. Len(queue[r]) \in Nat
  BY Zenon, QueueItems
<1>2. CASE queue'[r] = queue[r]
  BY <1>2
<1>3. CASE /\ r[1] = i /\ Current(r) /\ Len(queue'[r]) = Len(queue[r]) + 1
           /\ queue'[r][Len(queue[r]) + 1] = e
           /\ \A m \in 1..Len(queue[r]) : queue'[r][m] = queue[r][m]
  <2>1. /\ k \in 1..Len(queue[r]) \/ k = Len(queue[r]) + 1
        /\ \A j \in 1..Len(queue'[r]) : j < Len(queue[r]) + 1 => j \in 1..Len(queue[r])
    BY <1>1, <1>3
  <2>2. QED
    BY ZenonT(40), <1>3, <2>1
<1>4. QED
  BY <1>2, <1>3, Pushed

LEMMA SentObjects ==
  ASSUME IInv, NEW i \in Id, NEW e \in ChannelEvents, TrySend(i, e),
         UNCHANGED <<tx, objs, uses, made, poller, opened>>
  PROVE  Objects'
<1>1. \A r \in Rcv : ~Current(r) => queue'[r] = queue[r]
  BY Zenon, Pushed DEF IInv
<1>2. QED
  BY Zenon, <1>1 DEF IInv, Objects, Current, Created

LEMMA SentClosing ==
  ASSUME IInv, NEW i \in Id, NEW e \in ChannelEvents, TrySend(i, e),
         e.kind = "close" => closed[i] >= 1,
         \A k \in 1..Len(coreEvents') :
            \E m \in 1..Len(coreEvents) : coreEvents'[k] = coreEvents[m],
         UNCHANGED <<tx, closed, closes, poller>>
  PROVE  Closing'
<1>1. ASSUME NEW r \in Rcv, NEW k \in 1..Len(queue'[r]), queue'[r][k].kind = "close"
      PROVE  closed[r[1]] >= 1
  <2>1. CASE k \in 1..Len(queue[r]) /\ queue'[r][k] = queue[r][k]
    BY Zenon, <1>1, <2>1 DEF IInv, Closing
  <2>2. CASE queue'[r][k] = e /\ r[1] = i
    BY Zenon, <1>1, <2>2
  <2>3. QED
    BY ZenonT(40), <1>1, <2>1, <2>2, Placing DEF IInv
<1>2. \A k \in 1..Len(coreEvents') :
        coreEvents'[k].kind = "close" => closed[coreEvents'[k].id] >= 1
  BY ZenonT(40) DEF IInv, Closing
<1>3. QED
  BY Zenon, <1>1, <1>2 DEF IInv, Closing, Current

LEMMA SentOrdered ==
  ASSUME IInv, NEW i \in Id, NEW e \in ChannelEvents, TrySend(i, e), e.kind # "message",
         UNCHANGED <<coreReads, sent, got>>
  PROVE  Ordered'
<1>1. ASSUME NEW r \in Rcv, NEW k \in 1..Len(queue'[r]), queue'[r][k].kind = "message"
      PROVE  k \in 1..Len(queue[r]) /\ queue'[r][k] = queue[r][k]
  <2>1. (k \in 1..Len(queue[r]) /\ queue'[r][k] = queue[r][k]) \/ queue'[r][k] = e
    BY Placing DEF IInv
  <2>2. QED
    BY Zenon, <1>1, <2>1
<1>2. QED
  BY ZenonT(40), <1>1 DEF IInv, Ordered

\* The core's numbers when the driver has taken an event.
LEMMA CoreTaken ==
  ASSUME TypeOK, coreEvents # << >>, coreEvents' = Tail(coreEvents), phase' = "events",
         UNCHANGED <<uses, opens, objs, made>>,
         NEW i \in Id, NEW f \in Tags, NEW t \in Tags, \A k \in Nat : t[k] = f[k + 1],
         CoreNumbers(i, f)
  PROVE  CoreNumbers(i, t)'
<1>1. \A k \in 1..Len(coreEvents') :
        /\ coreEvents'[k] = coreEvents[k + 1] /\ k + 1 \in 1..Len(coreEvents) /\ k + 1 # 1
        /\ t[k] = f[k + 1]
  BY Zenon, EventTaken
<1>2. \A k \in 1..Len(coreEvents') : \A j \in 1..Len(coreEvents') : j < k => j + 1 < k + 1
  <2>1. Len(coreEvents') \in Nat
    BY Zenon, EventTaken
  <2>2. QED
    BY <2>1
<1>3. \A k \in 1..Len(coreEvents') : IsOpen(k, i)' => IsOpen(k + 1, i)
  BY Zenon, <1>1 DEF IsOpen
<1>4. ASSUME NEW k \in 1..Len(coreEvents'), IsOpen(k, i)'
      PROVE  /\ t[k] <= uses[i] /\ opens[i] < t[k]
             /\ \A j \in 1..Len(coreEvents') : j < k /\ IsOpen(j, i)' => t[j] < t[k]
             /\ objs[i] <= t[k] + Created(i) /\ objs[i] < t[k] + Created(i)
  <2>1. k + 1 \in 1..Len(coreEvents) /\ k + 1 # 1 /\ t[k] = f[k + 1] /\ IsOpen(k + 1, i)
    BY Zenon, <1>1, <1>3, <1>4
  <2>2. /\ f[k + 1] <= uses[i] /\ opens[i] < f[k + 1]
        /\ \A j \in 1..Len(coreEvents) : j < k + 1 /\ IsOpen(j, i) => f[j] < f[k + 1]
        /\ objs[i] <= f[k + 1] + Created(i) /\ objs[i] < f[k + 1] + Created(i)
    BY Zenon, <2>1 DEF CoreNumbers
  <2>3. ASSUME NEW j \in 1..Len(coreEvents'), j < k, IsOpen(j, i)' PROVE t[j] < t[k]
    <3>1. j + 1 \in 1..Len(coreEvents) /\ t[j] = f[j + 1] /\ IsOpen(j + 1, i) /\ j + 1 < k + 1
      BY Zenon, <1>1, <1>2, <1>3, <2>3
    <3>2. QED
      BY Zenon, <2>1, <2>2, <3>1
  <2>4. QED
    BY Zenon, <2>1, <2>2, <2>3
<1>5. Created(i)' = Created(i)
  BY Zenon DEF Created
<1>6. QED
  BY Zenon, <1>4, <1>5 DEF CoreNumbers

\* The openings of channel i left in the core, numbered by f, keep their numbers
\* in t.
Left(i, f, t) ==
    \A k \in 1..Len(coreEvents') : IsOpen(k, i)' =>
        \E m \in 1..Len(coreEvents) : IsOpen(m, i) /\ t[k] = f[m]

\* Queue r kept its events and their numbers g in h, and got others at the places
\* D after them, with numbers that fit.
Extended(r, g, t, h, D) ==
    /\ \A k \in 1..Len(queue'[r]) : k \in D \/ k \in 1..Len(queue[r])
    /\ \A k \in 1..Len(queue[r]) : queue'[r][k] = queue[r][k] /\ h[k] = g[k]
    /\ \A k \in D : \A j \in 1..Len(queue'[r]) : ~(k < j)
    /\ \A k \in D : queue'[r][k].kind = "open" =>
        /\ h[k] <= uses[r[1]] /\ opens[r[1]] < h[k]
        /\ \A j \in 1..Len(queue'[r]) : j < k =>
            /\ queue'[r][j].kind = "open" => h[j] < h[k]
            /\ queue'[r][j].kind = "message" => h[k] > 1
        /\ \A j \in 1..Len(coreEvents') : IsOpen(j, r[1])' => h[k] < t[j]
    /\ \A k \in D : queue'[r][k].kind = "message" =>
        \A j \in 1..Len(coreEvents') : IsOpen(j, r[1])' => t[j] > 1

LEMMA QueueGrown ==
  ASSUME NEW r \in Rcv, NEW f, NEW g, NEW t, NEW h, NEW D, QueueNumbers(r, f, g),
         uses'[r[1]] = uses[r[1]], opens'[r[1]] = opens[r[1]],
         Left(r[1], f, t), Extended(r, g, t, h, D)
  PROVE  QueueNumbers(r, t, h)'
<1>1. ASSUME NEW k \in 1..Len(queue'[r]), queue'[r][k].kind = "open"
      PROVE  /\ h[k] <= uses[r[1]] /\ opens[r[1]] < h[k]
             /\ \A j \in 1..Len(queue'[r]) :
                 j < k => /\ queue'[r][j].kind = "open" => h[j] < h[k]
                          /\ queue'[r][j].kind = "message" => h[k] > 1
             /\ \A j \in 1..Len(coreEvents') : IsOpen(j, r[1])' => h[k] < t[j]
  <2>1. CASE k \in D
    BY Zenon, <1>1, <2>1 DEF Extended
  <2>2. CASE k \in 1..Len(queue[r])
    <3>1. queue[r][k].kind = "open" /\ h[k] = g[k]
      BY Zenon, <1>1, <2>2 DEF Extended
    <3>2. /\ g[k] <= uses[r[1]] /\ opens[r[1]] < g[k]
          /\ \A j \in 1..Len(queue[r]) :
              j < k => /\ queue[r][j].kind = "open" => g[j] < g[k]
                       /\ queue[r][j].kind = "message" => g[k] > 1
          /\ \A j \in 1..Len(coreEvents) : IsOpen(j, r[1]) => g[k] < f[j]
      BY Zenon, <2>2, <3>1 DEF QueueNumbers
    <3>3. \A j \in 1..Len(queue'[r]) : j < k => j \in 1..Len(queue[r])
      BY Zenon, <1>1 DEF Extended
    <3>4. \A j \in 1..Len(coreEvents') : IsOpen(j, r[1])' => h[k] < t[j]
      BY Zenon, <3>1, <3>2 DEF Left
    <3>5. QED
      BY ZenonT(40), <3>1, <3>2, <3>3, <3>4 DEF Extended
  <2>3. QED
    BY Zenon, <1>1, <2>1, <2>2 DEF Extended
<1>2. ASSUME NEW k \in 1..Len(queue'[r]), queue'[r][k].kind = "message"
      PROVE  \A j \in 1..Len(coreEvents') : IsOpen(j, r[1])' => t[j] > 1
  <2>1. CASE k \in D
    BY Zenon, <1>2, <2>1 DEF Extended
  <2>2. CASE k \in 1..Len(queue[r])
    <3>1. queue[r][k].kind = "message"
      BY Zenon, <1>2, <2>2 DEF Extended
    <3>2. \A j \in 1..Len(coreEvents) : IsOpen(j, r[1]) => f[j] > 1
      BY ZenonT(40), <2>2, <3>1 DEF QueueNumbers
    <3>3. QED
      BY Zenon, <3>2 DEF Left
  <2>3. QED
    BY Zenon, <1>2, <2>1, <2>2 DEF Extended
<1>3. QED
  BY Zenon, <1>1, <1>2 DEF QueueNumbers

\* D holds the places of queue r with a new event, e of channel i: at most one.
Grown(r, i, e, D) ==
    /\ \A k \in 1..Len(queue'[r]) : k \in D \/ k \in 1..Len(queue[r])
    /\ \A k \in 1..Len(queue[r]) : queue'[r][k] = queue[r][k]
    /\ \A k \in D :
        /\ k = Len(queue[r]) + 1 /\ queue'[r][k] = e /\ r[1] = i /\ Current(r)
        /\ \A j \in 1..Len(queue'[r]) : ~(k < j) /\ (j < k => j \in 1..Len(queue[r]))

LEMMA NewPlace ==
  ASSUME TypeOK, NEW i \in Id, NEW e \in ChannelEvents, TrySend(i, e), NEW r \in Rcv
  PROVE  \E D : Grown(r, i, e, D)
<1>1. Len(queue[r]) \in Nat
  BY Zenon, QueueItems
<1>2. CASE queue'[r] = queue[r]
  <2>1. Grown(r, i, e, {})
    BY Zenon, <1>2 DEF Grown
  <2>2. QED
    BY Zenon, <2>1
<1>3. CASE /\ r[1] = i /\ Current(r) /\ Len(queue'[r]) = Len(queue[r]) + 1
           /\ queue'[r][Len(queue[r]) + 1] = e
           /\ \A m \in 1..Len(queue[r]) : queue'[r][m] = queue[r][m]
  <2> DEFINE D == {Len(queue[r]) + 1}
  <2>1. /\ \A k \in 1..Len(queue'[r]) : k \in D \/ k \in 1..Len(queue[r])
        /\ \A k \in D : \A j \in 1..Len(queue'[r]) :
              ~(k < j) /\ (j < k => j \in 1..Len(queue[r]))
    BY <1>1, <1>3
  <2>2. \A k \in D : k = Len(queue[r]) + 1
    BY Zenon
  <2> HIDE DEF D
  <2>3. Grown(r, i, e, D)
    BY Zenon, <1>3, <2>1, <2>2 DEF Grown
  <2>4. QED
    BY ZenonT(40), <2>3
<1>4. QED
  BY <1>2, <1>3, Pushed

\* No event but an opening needs a number.
LEMMA SentNumbering ==
  ASSUME IInv, NEW i \in Id, NEW e \in ChannelEvents, TrySend(i, e), e.kind # "open",
         e.kind = "message" => coreEvents' = << >>, UNCHANGED <<uses, opens>>,
         NEW c \in Id, NEW f \in Tags, NEW g \in Tags, NEW t \in Tags,
         Numbering(c, f, g), CoreNumbers(c, t)',
         Left(c, f, t)
  PROVE  Numbering(c, t, g)'
<1>1. ASSUME NEW r \in Rcv, r[1] = c PROVE QueueNumbers(r, t, g)'
  <2>1. PICK D : Grown(r, i, e, D)
    BY Zenon, NewPlace DEF IInv
  <2>2. QueueNumbers(r, f, g)
    BY Zenon, <1>1 DEF Numbering
  <2>3. e.kind = "message" => 1..Len(coreEvents') = {}
    OBVIOUS
  <2>4. uses'[r[1]] = uses[r[1]] /\ opens'[r[1]] = opens[r[1]]
    BY Zenon
  <2>5. Extended(r, g, t, g, D)
    BY Zenon, <2>1, <2>3 DEF Grown, Extended
  <2>6. QED
    BY Zenon, <1>1, <2>2, <2>4, <2>5, QueueGrown
<1>2. QED
  BY Zenon, <1>1 DEF Numbering

\* The number of an opening goes with it to the queue.
LEMMA OpenNumbering ==
  ASSUME IInv, coreEvents # << >>, NEW i \in Id, IsOpen(1, i), TrySend(i, OnOpen),
         coreEvents' = Tail(coreEvents), UNCHANGED <<uses, opens, tx>>,
         NEW f \in Tags, NEW g \in Tags, NEW t \in Tags, \A k \in Nat : t[k] = f[k + 1],
         Numbering(i, f, g), CoreNumbers(i, t)'
  PROVE  \E h \in Tags : Numbering(i, t, h)'
<1>1. OnOpen \in ChannelEvents /\ OnOpen.kind = "open"
  BY DEF ChannelEvents, OnOpen
<1>2. ASSUME NEW r \in Rcv, ~Current(r), NEW h PROVE QueueNumbers(r, t, h)'
  <2>1. queue'[r] = queue[r] /\ queue[r] = << >>
    BY ZenonT(40), <1>1, <1>2, Pushed DEF IInv, Objects
  <2>2. 1..Len(queue'[r]) = {}
    BY <2>1
  <2>3. QED
    BY Zenon, <2>2 DEF QueueNumbers
<1>3. CASE ~ \E s \in Rcv : s[1] = i /\ Current(s)
  BY Zenon, <1>2, <1>3 DEF Numbering
<1>4. CASE \E s \in Rcv : s[1] = i /\ Current(s)
  <2>1. PICK s \in Rcv : s[1] = i /\ Current(s)
    BY Zenon, <1>4
  <2>2. \A r \in Rcv : r[1] = i /\ Current(r) => r = s
    BY <2>1, Pairs DEF Current
  <2>3. Len(queue[s]) \in Nat /\ 1 \in Nat /\ f[1] \in Nat
    BY Zenon, QueueItems, TagValues DEF IInv
  <2>4. PICK h \in Tags : (\A k \in 1..Len(queue[s]) : h[k] = g[k]) /\ h[Len(queue[s]) + 1] = f[1]
    <3>1. PICK n \in Nat, v \in Nat : n = Len(queue[s]) /\ v = f[1]
      BY Zenon, <2>3
    <3>2. \E h \in Tags : (\A k \in 1..n : h[k] = g[k]) /\ h[n + 1] = v
      BY ZenonT(40), Retagged
    <3>3. QED
      BY Zenon, <3>1, <3>2
  <2>5. QueueNumbers(s, f, g) /\ CoreNumbers(i, f)
    BY Zenon, <2>1 DEF Numbering
  <2>6. PICK D : Grown(s, i, OnOpen, D)
    BY Zenon, <1>1, NewPlace DEF IInv
  <2>7. 1 \in 1..Len(coreEvents)
    BY Zenon, EventTaken DEF IInv
  <2>8. /\ f[1] <= uses[i] /\ opens[i] < f[1]
        /\ \A j \in 1..Len(queue[s]) : /\ queue[s][j].kind = "open" => g[j] < f[1]
                                       /\ queue[s][j].kind = "message" => f[1] > 1
    BY Zenon, <2>1, <2>5, <2>7 DEF CoreNumbers, QueueNumbers
  <2>9. ASSUME NEW k \in 1..Len(coreEvents'), IsOpen(k, i)'
        PROVE  /\ k + 1 \in 1..Len(coreEvents) /\ IsOpen(k + 1, i) /\ t[k] = f[k + 1]
               /\ f[1] < t[k]
    <3>1. /\ coreEvents'[k] = coreEvents[k + 1] /\ k + 1 \in 1..Len(coreEvents)
          /\ k \in Nat /\ 1 < k + 1
      BY Zenon, EventTaken DEF IInv
    <3>2. IsOpen(k + 1, i) /\ t[k] = f[k + 1]
      BY Zenon, <2>9, <3>1 DEF IsOpen
    <3>3. f[1] < f[k + 1]
      BY Zenon, <2>5, <2>7, <3>1, <3>2 DEF CoreNumbers
    <3>4. QED
      BY Zenon, <3>1, <3>2, <3>3
  <2>10. Left(s[1], f, t)
    BY Zenon, <2>1, <2>9 DEF Left
  <2>11. ASSUME NEW k \in D
         PROVE  /\ h[k] <= uses[s[1]] /\ opens[s[1]] < h[k] /\ queue'[s][k].kind = "open"
                /\ \A j \in 1..Len(queue'[s]) : j < k =>
                    /\ queue'[s][j].kind = "open" => h[j] < h[k]
                    /\ queue'[s][j].kind = "message" => h[k] > 1
                /\ \A j \in 1..Len(coreEvents') : IsOpen(j, s[1])' => h[k] < t[j]
    <3>1. h[k] = f[1] /\ queue'[s][k].kind = "open"
      BY Zenon, <1>1, <2>4, <2>6 DEF Grown
    <3>2. QED
      BY ZenonT(40), <2>1, <2>4, <2>6, <2>8, <2>9, <3>1 DEF Grown
  <2>12. QueueNumbers(s, t, h)'
    <3>1. Extended(s, g, t, h, D)
      BY Zenon, <1>1, <2>4, <2>6, <2>11 DEF Grown, Extended, OnOpen
    <3>2. uses'[s[1]] = uses[s[1]] /\ opens'[s[1]] = opens[s[1]]
      BY Zenon
    <3>3. QED
      BY Zenon, <2>5, <2>10, <3>1, <3>2, QueueGrown
  <2>13. QED
    BY ZenonT(40), <1>2, <2>2, <2>4, <2>12 DEF Numbering
<1>5. QED
  BY Zenon, <1>3, <1>4

\* Numbered after an event of the core has been handed on.
LEMMA TakenLeft ==
  ASSUME TypeOK, coreEvents # << >>, coreEvents' = Tail(coreEvents),
         NEW i \in Id, NEW f \in Tags, NEW t \in Tags, \A k \in Nat : t[k] = f[k + 1]
  PROVE  Left(i, f, t)
<1>1. ASSUME NEW k \in 1..Len(coreEvents'), IsOpen(k, i)'
      PROVE  \E m \in 1..Len(coreEvents) : IsOpen(m, i) /\ t[k] = f[m]
  <2>1. coreEvents'[k] = coreEvents[k + 1] /\ k + 1 \in 1..Len(coreEvents) /\ k \in Nat
    BY Zenon, EventTaken
  <2>2. IsOpen(k + 1, i) /\ t[k] = f[k + 1]
    BY Zenon, <1>1, <2>1 DEF IsOpen
  <2>3. QED
    BY Zenon, <2>1, <2>2
<1>2. QED
  BY Zenon, <1>1 DEF Left

LEMMA SendOpenStep == ASSUME IInv, SendOpen PROVE IInv'
<1>1. coreEvents # << >> /\ coreEvents[1].kind = "open" /\ phase = "open" /\ phase' = "events"
  BY Zenon DEF SendOpen, IInv, Placed
<1>2. PICK i \in Id : i = coreEvents[1].id
  BY Zenon, <1>1, EventTaken DEF IInv
<1>3. /\ TrySend(i, OnOpen) /\ coreEvents' = Tail(coreEvents)
      /\ UNCHANGED <<core, uses, closed, sent, handshake, coreReads, made, objs, tx,
                     poller, opened, cbs, announced, opens, got, closes>>
  BY Zenon, <1>1, <1>2, EventTaken DEF IInv, SendOpen, coreVars, rcvVars, appSees
<1>4. OnOpen \in ChannelEvents /\ OnOpen.kind = "open"
  BY DEF ChannelEvents, OnOpen
<1>5. handshake /\ IsOpen(1, i)
  BY Zenon, <1>1, <1>2 DEF IInv, Quiet, IsOpen
<1>6. TypeOK'
  <2>1. coreEvents' \in Seq([kind : {"open", "close"}, id : Id])
    BY Zenon, <1>1, <1>3, EventTaken DEF IInv
  <2>2. /\ queue' \in [Rcv -> Seq(ChannelEvents)] /\ dropped' \subseteq Id
        /\ \A r \in Rcv : Len(queue'[r]) <= QCap
    BY Zenon, <1>3, <1>4, Pushed DEF IInv
  <2>3. QED
    BY ZenonT(40), <1>1, <1>3, <2>1, <2>2 DEF IInv, TypeOK
<1>7. Quiet' /\ Placed'
  BY Zenon, <1>1, <1>3, <1>5 DEF Quiet, Placed
<1>8. Objects' /\ Ordered'
  BY Zenon, <1>3, <1>4, SentObjects, SentOrdered
<1>9. Closing'
  <2>1. \A k \in 1..Len(coreEvents') :
            \E m \in 1..Len(coreEvents) : coreEvents'[k] = coreEvents[m]
    BY Zenon, <1>1, <1>3, EventTaken DEF IInv
  <2>2. QED
    BY Zenon, <1>3, <1>4, <2>1, SentClosing
<1>10. Channels' /\ Registered' /\ Opening'
  BY Zenon, <1>3, SameChannels, SameRegistered, SameOpening DEF IInv
<1>11. Numbered'
  <2>1. ASSUME NEW c \in Id PROVE \E t, h \in Tags : Numbering(c, t, h)'
    <3>1. PICK f \in Tags, g \in Tags : Numbering(c, f, g)
      BY Zenon DEF IInv, Numbered
    <3>2. PICK t \in Tags : \A k \in Nat : t[k] = f[k + 1]
      BY Zenon, Shifted
    <3>3. CoreNumbers(c, t)'
      BY Zenon, <1>1, <1>3, <3>1, <3>2, CoreTaken DEF IInv, Numbering
    <3>4. CASE c = i
      BY ZenonT(40), <1>1, <1>3, <1>5, <3>1, <3>2, <3>3, <3>4, OpenNumbering
    <3>5. CASE c # i
      <4>1. Left(c, f, t)
        BY ZenonT(40), <1>1, <1>3, <3>2, TakenLeft DEF IInv
      <4>2. ASSUME NEW r \in Rcv, r[1] = c PROVE QueueNumbers(r, t, g)'
        <5>1. queue'[r] = queue[r]
          BY ZenonT(40), <1>3, <1>4, <3>5, <4>2, Pushed DEF IInv
        <5>2. Extended(r, g, t, g, {})
          BY Zenon, <5>1 DEF Extended
        <5>3. QueueNumbers(r, f, g) /\ uses'[r[1]] = uses[r[1]] /\ opens'[r[1]] = opens[r[1]]
          BY Zenon, <1>3, <3>1, <4>2 DEF Numbering
        <5>4. QED
          BY ZenonT(40), <4>1, <4>2, <5>2, <5>3, QueueGrown
      <4>3. Numbering(c, t, g)'
        BY Zenon, <3>3, <4>2 DEF Numbering
      <4>4. QED
        BY Zenon, <4>3
    <3>6. QED
      BY Zenon, <3>4, <3>5
  <2>2. QED
    BY Zenon, <2>1 DEF Numbered
<1>12. QED
  BY ZenonT(40), <1>6, <1>7, <1>8, <1>9, <1>10, <1>11 DEF IInv

LEMMA HandleCloseStep == ASSUME IInv, HandleClose PROVE IInv'
<1>1. coreEvents # << >> /\ phase = "events" /\ phase' = "events"
  BY Zenon DEF HandleClose
<1>2. PICK i \in Id : i = coreEvents[1].id
  BY Zenon, <1>1, EventTaken DEF IInv
<1>3. /\ coreEvents[1].kind = "close" /\ TrySend(i, OnClose) /\ coreEvents' = Tail(coreEvents)
      /\ UNCHANGED <<core, uses, closed, sent, handshake, coreReads, made, objs, tx,
                     poller, opened, cbs, announced, opens, got, closes>>
  BY ZenonT(40), <1>1, <1>2, EventTaken DEF IInv, HandleClose, coreVars, rcvVars, appSees
<1>4. /\ OnClose \in ChannelEvents /\ OnClose.kind # "open" /\ OnClose.kind # "message"
  BY DEF ChannelEvents, OnClose
<1>5. handshake /\ closed[i] >= 1
  <2>1. 1 \in 1..Len(coreEvents)
    BY Zenon, <1>1, EventTaken DEF IInv
  <2>2. QED
    BY ZenonT(40), <1>1, <1>2, <1>3, <2>1 DEF IInv, Quiet, Closing
<1>6. TypeOK'
  <2>1. coreEvents' \in Seq([kind : {"open", "close"}, id : Id])
    BY Zenon, <1>1, <1>3, EventTaken DEF IInv
  <2>2. /\ queue' \in [Rcv -> Seq(ChannelEvents)] /\ dropped' \subseteq Id
        /\ \A r \in Rcv : Len(queue'[r]) <= QCap
    BY Zenon, <1>3, <1>4, Pushed DEF IInv
  <2>3. QED
    BY ZenonT(40), <1>1, <1>3, <2>1, <2>2 DEF IInv, TypeOK
<1>7. Quiet' /\ Placed'
  BY Zenon, <1>1, <1>3, <1>5 DEF Quiet, Placed
<1>8. Objects' /\ Ordered'
  BY Zenon, <1>3, <1>4, SentObjects, SentOrdered
<1>9. Closing'
  <2>1. \A k \in 1..Len(coreEvents') :
            \E m \in 1..Len(coreEvents) : coreEvents'[k] = coreEvents[m]
    BY Zenon, <1>1, <1>3, EventTaken DEF IInv
  <2>2. QED
    BY Zenon, <1>3, <1>4, <1>5, <2>1, SentClosing
<1>10. Channels' /\ Registered' /\ Opening'
  BY ZenonT(40), <1>3, SameChannels, SameRegistered, SameOpening DEF IInv
<1>11. Numbered'
  <2>1. ASSUME NEW c \in Id PROVE \E t, h \in Tags : Numbering(c, t, h)'
    <3>1. PICK f \in Tags, g \in Tags : Numbering(c, f, g)
      BY Zenon DEF IInv, Numbered
    <3>2. PICK t \in Tags : \A k \in Nat : t[k] = f[k + 1]
      BY Zenon, Shifted
    <3>3. CoreNumbers(c, t)'
      BY ZenonT(40), <1>1, <1>3, <3>1, <3>2, CoreTaken DEF IInv, Numbering
    <3>4. Left(c, f, t)
      BY Zenon, <1>1, <1>3, <3>2, TakenLeft DEF IInv
    <3>5. Numbering(c, t, g)'
      BY ZenonT(40), <1>3, <1>4, <3>1, <3>3, <3>4, SentNumbering
    <3>6. QED
      BY Zenon, <3>5
  <2>2. QED
    BY Zenon, <2>1 DEF Numbered
<1>12. QED
  BY Zenon, <1>6, <1>7, <1>8, <1>9, <1>10, <1>11 DEF IInv

\* The head of the core's messages.
LEMMA ReadTaken ==
  ASSUME TypeOK, coreReads # << >>
  PROVE  /\ Head(coreReads) = coreReads[1] /\ 1 \in 1..Len(coreReads)
         /\ coreReads[1].id \in Id /\ coreReads[1].n \in 1..MaxMsgs
         /\ Tail(coreReads) \in Seq([id : Id, n : 1..MaxMsgs])
         /\ \A k \in 1..Len(Tail(coreReads)) :
               Tail(coreReads)[k] = coreReads[k + 1] /\ k + 1 \in 1..Len(coreReads)
         /\ \A k \in 1..Len(Tail(coreReads)) : 1 < k + 1
         /\ \A j, k \in 1..Len(Tail(coreReads)) : j < k => j + 1 < k + 1
<1>1. coreReads \in Seq([id : Id, n : 1..MaxMsgs])
  BY Zenon DEF TypeOK
<1>2. /\ Len(coreReads) \in Nat /\ Len(coreReads) >= 1 /\ Head(coreReads) = coreReads[1]
      /\ coreReads[1] \in [id : Id, n : 1..MaxMsgs]
      /\ Tail(coreReads) \in Seq([id : Id, n : 1..MaxMsgs])
      /\ Len(Tail(coreReads)) = Len(coreReads) - 1
      /\ \A k \in 1..Len(Tail(coreReads)) :
            Tail(coreReads)[k] = coreReads[k + 1] /\ k + 1 \in 1..Len(coreReads)
  BY Zenon, <1>1, Taken
<1>3. 1 \in 1..Len(coreReads) /\ Len(Tail(coreReads)) \in Nat
  BY <1>2
<1>4. coreReads[1].id \in Id /\ coreReads[1].n \in 1..MaxMsgs
  BY <1>2
<1>5. /\ \A k \in 1..Len(Tail(coreReads)) : 1 < k + 1
      /\ \A j, k \in 1..Len(Tail(coreReads)) : j < k => j + 1 < k + 1
  BY <1>3
<1>6. QED
  BY Zenon, <1>2, <1>3, <1>4, <1>5

LEMMA HandleMessageStep == ASSUME IInv, HandleMessage PROVE IInv'
<1>1. coreReads # << >> /\ phase = "reads" /\ phase' = phase /\ coreEvents = << >>
  BY Zenon DEF HandleMessage, IInv, Placed
<1>2. PICK i \in Id, n \in 1..MaxMsgs : i = coreReads[1].id /\ n = coreReads[1].n
  BY Zenon, <1>1, ReadTaken DEF IInv
<1>3. /\ TrySend(i, OnMessage(n)) /\ coreReads' = Tail(coreReads)
      /\ UNCHANGED <<core, uses, closed, sent, handshake, coreEvents, made, objs, tx,
                     poller, opened, cbs, announced, opens, got, closes>>
  BY ZenonT(40), <1>1, <1>2, ReadTaken DEF IInv, HandleMessage, coreVars, rcvVars, appSees
<1>4. /\ OnMessage(n) \in ChannelEvents /\ OnMessage(n).kind = "message"
      /\ OnMessage(n).kind # "open" /\ OnMessage(n).n = n
  BY DEF ChannelEvents, OnMessage
<1>5. handshake /\ 1..Len(coreEvents) = {}
  <2>1. handshake
    BY Zenon, <1>1 DEF IInv, Quiet
  <2>2. QED
    BY <1>1, <2>1
<1>6. TypeOK'
  <2>1. coreReads' \in Seq([id : Id, n : 1..MaxMsgs])
    BY Zenon, <1>1, <1>3, ReadTaken DEF IInv
  <2>2. /\ queue' \in [Rcv -> Seq(ChannelEvents)] /\ dropped' \subseteq Id
        /\ \A r \in Rcv : Len(queue'[r]) <= QCap
    BY Zenon, <1>3, <1>4, Pushed DEF IInv
  <2>3. QED
    BY ZenonT(40), <1>1, <1>3, <2>1, <2>2 DEF IInv, TypeOK
<1>7. Quiet' /\ Placed'
  BY Zenon, <1>1, <1>3, <1>5 DEF Quiet, Placed
<1>8. Objects'
  BY Zenon, <1>3, <1>4, SentObjects
<1>9. Closing'
  <2>1. \A k \in 1..Len(coreEvents') :
            \E m \in 1..Len(coreEvents) : coreEvents'[k] = coreEvents[m]
    BY Zenon, <1>3
  <2>2. OnMessage(n).kind # "close"
    BY <1>4
  <2>3. QED
    BY Zenon, <1>3, <1>4, <2>1, <2>2, SentClosing
<1>10. Channels' /\ Registered' /\ Opening'
  BY Zenon, <1>3, SameChannels, SameRegistered, SameOpening DEF IInv
<1>11. Numbered'
  <2>1. ASSUME NEW c \in Id, NEW f \in Tags, NEW g \in Tags, Numbering(c, f, g)
        PROVE  Numbering(c, f, g)'
    <3>1. CoreNumbers(c, f)'
      BY Zenon, <1>3, <1>5 DEF CoreNumbers
    <3>2. Left(c, f, f)
      BY Zenon, <1>3, <1>5 DEF Left
    <3>3. QED
      BY ZenonT(40), <1>1, <1>3, <1>4, <2>1, <3>1, <3>2, SentNumbering
  <2>2. QED
    BY Zenon, <2>1 DEF IInv, Numbered
<1>12. Ordered'
  <2>1. /\ \A k \in 1..Len(coreReads') :
              coreReads'[k] = coreReads[k + 1] /\ k + 1 \in 1..Len(coreReads) /\ 1 < k + 1
        /\ \A j, k \in 1..Len(coreReads') : j < k => j + 1 < k + 1
        /\ 1 \in 1..Len(coreReads)
    BY Zenon, <1>1, <1>3, ReadTaken DEF IInv
  <2>2. /\ \A k \in 1..Len(coreReads) : coreReads[k].n <= sent[coreReads[k].id]
        /\ \A j, k \in 1..Len(coreReads) :
              j < k /\ coreReads[j].id = coreReads[k].id => coreReads[j].n < coreReads[k].n
    BY Zenon DEF IInv, Ordered
  <2>3. ASSUME NEW k \in 1..Len(coreReads')
        PROVE  /\ coreReads'[k].n <= sent[coreReads'[k].id]
               /\ \A j \in 1..Len(coreReads') : j < k /\ coreReads'[j].id = coreReads'[k].id
                     => coreReads'[j].n < coreReads'[k].n
    BY Zenon, <2>1, <2>2
  <2>4. ASSUME NEW c \in Id, NEW m,
               \A k \in 1..Len(coreReads) : coreReads[k].id = c => m < coreReads[k].n
        PROVE  \A k \in 1..Len(coreReads') : coreReads'[k].id = c => m < coreReads'[k].n
    BY Zenon, <2>1, <2>4
  <2>5. ASSUME NEW r \in Rcv, NEW k \in 1..Len(queue'[r]), queue'[r][k].kind = "message"
        PROVE  /\ queue'[r][k].n <= sent[r[1]]
               /\ \A j \in 1..Len(queue'[r]) :
                   j < k /\ queue'[r][j].kind = "message" => queue'[r][j].n < queue'[r][k].n
               /\ \A j \in 1..Len(coreReads') :
                   coreReads'[j].id = r[1] => queue'[r][k].n < coreReads'[j].n
               /\ \A j \in 1..Len(got[r[1]]) : got[r[1]][j] < queue'[r][k].n
    <3>1. PICK D : Grown(r, i, OnMessage(n), D)
      BY Zenon, <1>3, <1>4, NewPlace DEF IInv
    <3>2. CASE k \in 1..Len(queue[r])
      <4>1. queue'[r][k] = queue[r][k] /\ queue[r][k].kind = "message"
        BY ZenonT(40), <2>5, <3>1, <3>2 DEF Grown
      <4>2. /\ queue[r][k].n <= sent[r[1]]
            /\ \A j \in 1..Len(queue[r]) :
                j < k /\ queue[r][j].kind = "message" => queue[r][j].n < queue[r][k].n
            /\ \A j \in 1..Len(coreReads) :
                coreReads[j].id = r[1] => queue[r][k].n < coreReads[j].n
            /\ \A j \in 1..Len(got[r[1]]) : got[r[1]][j] < queue[r][k].n
        BY ZenonT(40), <3>2, <4>1 DEF IInv, Ordered
      <4>3. \A j \in 1..Len(coreReads') :
                coreReads'[j].id = r[1] => queue[r][k].n < coreReads'[j].n
        BY Zenon, <2>4, <4>2, Pairs
      <4>4. \A j \in 1..Len(queue'[r]) :
                j < k => j \in 1..Len(queue[r]) /\ queue'[r][j] = queue[r][j]
        BY ZenonT(40), <3>1, <3>2, <2>5 DEF Grown
      <4>5. QED
        BY Zenon, <4>1, <4>2, <4>3, <4>4
    <3>3. CASE k \in D
      <4>1. queue'[r][k].n = n /\ r[1] = i
        BY Zenon, <1>4, <3>1, <3>3 DEF Grown
      <4>2. \A j \in 1..Len(queue'[r]) :
                j < k => j \in 1..Len(queue[r]) /\ queue'[r][j] = queue[r][j]
        BY ZenonT(40), <3>1, <3>3 DEF Grown
      <4>3. \A j \in 1..Len(queue[r]) : queue[r][j].kind = "message" => queue[r][j].n < n
        BY ZenonT(40), <1>2, <2>1, <4>1 DEF IInv, Ordered
      <4>4. \A j \in 1..Len(got[i]) : got[i][j] < n
        BY ZenonT(40), <1>2, <2>1 DEF IInv, Ordered
      <4>5. n <= sent[i] /\ \A j \in 1..Len(coreReads') : coreReads'[j].id = i => n < coreReads'[j].n
        BY ZenonT(40), <1>2, <2>1, <2>2
      <4>6. QED
        BY ZenonT(40), <4>1, <4>2, <4>3, <4>4, <4>5
    <3>4. QED
      BY Zenon, <2>5, <3>1, <3>2, <3>3 DEF Grown
  <2>6. ASSUME NEW c \in Id, NEW k \in 1..Len(got[c])
        PROVE  /\ got[c][k] <= sent[c]
               /\ \A j \in 1..Len(got[c]) : j < k => got[c][j] < got[c][k]
               /\ \A j \in 1..Len(coreReads') : coreReads'[j].id = c => got[c][k] < coreReads'[j].n
    BY Zenon, <2>4 DEF IInv, Ordered
  <2>7. QED
    BY ZenonT(40), <1>3, <2>3, <2>5, <2>6 DEF Ordered
<1>13. QED
  BY ZenonT(40), <1>6, <1>7, <1>8, <1>9, <1>10, <1>11, <1>12 DEF IInv

-----------------------------------------------------------------------------
(* The pollers. Only the current object of an id has anything to take.      *)

LEMMA Popped ==
  ASSUME IInv, NEW r \in Rcv, Pop(r)
  PROVE  /\ poller[r] = "poll" /\ Current(r) /\ handshake /\ r[1] \in cbs /\ r[1] \in Id
         /\ 1 \in 1..Len(queue[r]) /\ Head(queue[r]) = queue[r][1]
         /\ queue[r][1] \in ChannelEvents /\ dropped' = dropped
         /\ queue' \in [Rcv -> Seq(ChannelEvents)]
         /\ \A s \in Rcv : Len(queue'[s]) <= QCap
         /\ \A s \in Rcv : s # r => queue'[s] = queue[s]
         /\ \A s \in Rcv : s[1] = r[1] /\ s # r => ~Current(s) /\ queue[s] = << >>
         /\ \A k \in 1..Len(queue'[r]) :
               /\ queue'[r][k] = queue[r][k + 1] /\ k + 1 \in 1..Len(queue[r])
               /\ k \in Nat /\ 1 < k + 1
         /\ \A j, k \in 1..Len(queue'[r]) : j < k => j + 1 < k + 1
<1>1. /\ poller[r] = "poll" /\ queue[r] # << >> /\ dropped' = dropped
      /\ queue' = [queue EXCEPT ![r] = Tail(queue[r])]
  BY Zenon DEF Pop
<1>2. Current(r) /\ handshake /\ r[1] \in Id
  BY ZenonT(40), <1>1, Pairs DEF IInv, Objects, Quiet
<1>3. r[1] \in cbs
  BY Zenon, <1>1, <1>2 DEF IInv, Registered
<1>4. /\ queue \in [Rcv -> Seq(ChannelEvents)] /\ queue[r] \in Seq(ChannelEvents)
      /\ \A s \in Rcv : Len(queue[s]) <= QCap
  BY ZenonT(40) DEF IInv, TypeOK
<1>5. /\ Len(queue[r]) \in Nat /\ Len(queue[r]) >= 1 /\ Head(queue[r]) = queue[r][1]
      /\ queue[r][1] \in ChannelEvents /\ Tail(queue[r]) \in Seq(ChannelEvents)
      /\ Len(Tail(queue[r])) = Len(queue[r]) - 1
      /\ \A k \in 1..Len(Tail(queue[r])) :
            Tail(queue[r])[k] = queue[r][k + 1] /\ k + 1 \in 1..Len(queue[r])
  BY <1>1, <1>4, Taken
<1>6. /\ queue' \in [Rcv -> Seq(ChannelEvents)] /\ queue'[r] = Tail(queue[r])
      /\ \A s \in Rcv : s # r => queue'[s] = queue[s]
  BY ZenonT(40), <1>1, <1>4, <1>5
<1>7. /\ 1 \in 1..Len(queue[r]) /\ Len(Tail(queue[r])) <= QCap
      /\ \A k \in 1..Len(Tail(queue[r])) : k \in Nat /\ 1 < k + 1
      /\ \A j, k \in 1..Len(Tail(queue[r])) : j < k => j + 1 < k + 1
  BY <1>4, <1>5, BoundAssumption
<1>8. \A s \in Rcv : s[1] = r[1] /\ s # r => ~Current(s)
  BY <1>2, Pairs DEF Current
<1>9. \A s \in Rcv : ~Current(s) => queue[s] = << >>
  BY Zenon DEF IInv, Objects
<1>10. QED
  BY ZenonT(40), <1>1, <1>2, <1>3, <1>4, <1>5, <1>6, <1>7, <1>8, <1>9

LEMMA PoppedObjects ==
  ASSUME IInv, NEW r \in Rcv, Pop(r), UNCHANGED <<tx, objs, uses, made>>,
         \A s \in Rcv : s # r => opened'[s] = opened[s] /\ poller'[s] = poller[s],
         poller'[r] \in {"poll", "finish"}
  PROVE  Objects'
<1>1. poller[r] = "poll" /\ Current(r) /\ \A s \in Rcv : s # r => queue'[s] = queue[s]
  BY ZenonT(40), Popped
<1>2. ~(r[2] > objs[r[1]])
  BY <1>1 DEF IInv, Objects
<1>3. \A s \in Rcv : Current(s)' <=> Current(s)
  BY Zenon DEF Current
<1>4. poller'[r] # "sleep" /\ poller'[r] # "none"
  OBVIOUS
<1>5. \A i \in Id : Created(i)' = Created(i)
  BY Zenon DEF Created
<1>6. ASSUME NEW s \in Rcv
      PROVE  /\ s[2] > objs[s[1]] => poller'[s] = "none"
             /\ ~Current(s) => /\ queue'[s] = << >> /\ opened'[s] = FALSE
                               /\ poller'[s] \in {"none", "poll", "sleep"}
             /\ Current(s) => /\ poller'[s] # "sleep"
                              /\ poller'[s] = "none" => s[1] \in Local /\ made[s[1]] = "tx"
  <2>1. CASE s = r
    BY ZenonT(40), <1>1, <1>2, <1>4, <2>1
  <2>2. CASE s # r
    <3>1. opened'[s] = opened[s] /\ poller'[s] = poller[s] /\ queue'[s] = queue[s]
      BY Zenon, <1>1, <2>2
    <3>2. QED
      BY ZenonT(40), <3>1 DEF IInv, Objects
  <2>3. QED
    BY Zenon, <2>1, <2>2
<1>7. QED
  BY ZenonT(40), <1>3, <1>5, <1>6 DEF IInv, Objects

LEMMA PoppedQueues ==
  ASSUME IInv, NEW r \in Rcv, Pop(r), NEW s \in Rcv, NEW k \in 1..Len(queue'[s])
  PROVE  \E m \in 1..Len(queue[s]) :
            /\ queue'[s][k] = queue[s][m]
            /\ \A j \in 1..Len(queue'[s]) : j < k =>
                \E l \in 1..Len(queue[s]) : l < m /\ queue'[s][j] = queue[s][l]
<1>1. CASE s # r
  <2>1. queue'[s] = queue[s]
    BY Zenon, <1>1, Popped
  <2>2. QED
    BY Zenon, <2>1
<1>2. CASE s = r
  <2>1. queue'[r][k] = queue[r][k + 1] /\ k + 1 \in 1..Len(queue[r])
    BY ZenonT(40), <1>2, Popped
  <2>2. ASSUME NEW j \in 1..Len(queue'[r]), j < k
        PROVE  j + 1 < k + 1 /\ queue'[r][j] = queue[r][j + 1] /\ j + 1 \in 1..Len(queue[r])
    BY ZenonT(40), <1>2, <2>2, Popped
  <2>3. QED
    BY Zenon, <1>2, <2>1, <2>2
<1>3. QED
  BY Zenon, <1>1, <1>2

\* The numbers when on_open has told of no more than the event taken.
LEMMA PoppedNumbered ==
  ASSUME IInv, NEW r \in Rcv, Pop(r), UNCHANGED <<coreEvents, uses, objs, made, phase>>,
         \A c \in Id : c # r[1] => opens'[c] = opens[c],
         \A f, g \in Tags : Numbering(r[1], f, g) =>
            /\ \A k \in 1..Len(coreEvents) : IsOpen(k, r[1]) => opens'[r[1]] < f[k]
            /\ \A k \in 1..Len(queue'[r]) :
                  queue[r][k + 1].kind = "open" => opens'[r[1]] < g[k + 1]
  PROVE  Numbered'
<1>1. /\ \A k, c : IsOpen(k, c)' <=> IsOpen(k, c)
      /\ \A c : Created(c)' = Created(c)
  BY Zenon DEF IsOpen, Created
<1>2. ASSUME NEW c \in Id PROVE \E f, h \in Tags : Numbering(c, f, h)'
  <2>1. PICK f \in Tags, g \in Tags : Numbering(c, f, g)
    BY Zenon DEF IInv, Numbered
  <2>2. CASE c # r[1]
    <3>1. opens'[c] = opens[c]
      BY Zenon, <2>2
    <3>2. CoreNumbers(c, f)'
      BY ZenonT(40), <1>1, <2>1, <3>1 DEF Numbering, CoreNumbers
    <3>3. ASSUME NEW s \in Rcv, s[1] = c PROVE QueueNumbers(s, f, g)'
      <4>1. queue'[s] = queue[s] /\ QueueNumbers(s, f, g)
        BY ZenonT(40), <2>1, <2>2, <3>3, Popped DEF Numbering
      <4>2. opens'[s[1]] = opens[s[1]]
        BY Zenon, <3>1, <3>3
      <4>3. QED
        BY ZenonT(40), <1>1, <4>1, <4>2 DEF QueueNumbers
    <3>4. QED
      BY Zenon, <2>1, <3>2, <3>3 DEF Numbering
  <2>3. CASE c = r[1]
    <3>1. PICK h \in Tags : \A k \in Nat : h[k] = g[k + 1]
      BY Zenon, Shifted
    <3>2. CoreNumbers(c, f)'
      <4>1. \A k \in 1..Len(coreEvents) : IsOpen(k, c) => opens'[c] < f[k]
        BY Zenon, <2>1, <2>3
      <4>2. QED
        BY Zenon, <1>1, <2>1, <4>1 DEF Numbering, CoreNumbers
    <3>3. ASSUME NEW s \in Rcv, s[1] = c, s # r PROVE QueueNumbers(s, f, h)'
      <4>1. queue'[s] = << >>
        <5>1. s[1] = r[1] /\ s # r
          BY Zenon, <2>3, <3>3
        <5>2. queue'[s] = queue[s] /\ queue[s] = << >>
          BY ZenonT(40), <5>1, Popped
        <5>3. QED
          BY Zenon, <5>2
      <4>2. 1..Len(queue'[s]) = {}
        BY <4>1
      <4>3. QED
        BY Zenon, <4>2 DEF QueueNumbers
    <3>4. QueueNumbers(r, f, h)'
      <4>1. QueueNumbers(r, f, g)
        BY Zenon, <2>1, <2>3 DEF Numbering
      <4>2. ASSUME NEW k \in 1..Len(queue'[r])
            PROVE  /\ queue'[r][k] = queue[r][k + 1] /\ k + 1 \in 1..Len(queue[r])
                   /\ h[k] = g[k + 1]
                   /\ \A j \in 1..Len(queue'[r]) : j < k => j + 1 < k + 1
        BY ZenonT(40), <3>1, Popped
      <4>3. ASSUME NEW k \in 1..Len(queue'[r]), queue'[r][k].kind = "open"
            PROVE  /\ h[k] <= uses[r[1]] /\ opens'[r[1]] < h[k]
                   /\ \A j \in 1..Len(queue'[r]) :
                       j < k => /\ queue'[r][j].kind = "open" => h[j] < h[k]
                                /\ queue'[r][j].kind = "message" => h[k] > 1
                   /\ \A j \in 1..Len(coreEvents) : IsOpen(j, r[1]) => h[k] < f[j]
        <5>1. /\ queue[r][k + 1].kind = "open" /\ k + 1 \in 1..Len(queue[r])
              /\ h[k] = g[k + 1]
          BY Zenon, <4>2, <4>3
        <5>2. /\ g[k + 1] <= uses[r[1]]
              /\ \A j \in 1..Len(queue[r]) :
                  j < k + 1 => /\ queue[r][j].kind = "open" => g[j] < g[k + 1]
                               /\ queue[r][j].kind = "message" => g[k + 1] > 1
              /\ \A j \in 1..Len(coreEvents) : IsOpen(j, r[1]) => g[k + 1] < f[j]
          BY Zenon, <4>1, <5>1 DEF QueueNumbers
        <5>3. opens'[r[1]] < g[k + 1]
          BY Zenon, <2>1, <2>3, <5>1
        <5>4. ASSUME NEW j \in 1..Len(queue'[r]), j < k
              PROVE  /\ queue'[r][j].kind = "open" => h[j] < h[k]
                     /\ queue'[r][j].kind = "message" => h[k] > 1
          <6>1. /\ queue'[r][j] = queue[r][j + 1] /\ j + 1 \in 1..Len(queue[r])
                /\ h[j] = g[j + 1] /\ j + 1 < k + 1
            BY Zenon, <4>2, <5>4
          <6>2. QED
            BY ZenonT(40), <5>1, <5>2, <6>1
        <5>5. QED
          BY Zenon, <5>1, <5>2, <5>3, <5>4
      <4>4. ASSUME NEW k \in 1..Len(queue'[r]), queue'[r][k].kind = "message"
            PROVE  \A j \in 1..Len(coreEvents) : IsOpen(j, r[1]) => f[j] > 1
        <5>1. queue[r][k + 1].kind = "message" /\ k + 1 \in 1..Len(queue[r])
          BY Zenon, <4>2, <4>4
        <5>2. QED
          BY Zenon, <4>1, <5>1 DEF QueueNumbers
      <4>5. QED
        BY ZenonT(40), <1>1, <4>3, <4>4 DEF QueueNumbers
    <3>5. Numbering(c, f, h)'
      BY ZenonT(40), <2>3, <3>2, <3>3, <3>4 DEF Numbering
    <3>6. QED
      BY ZenonT(40), <2>1, <3>1, <3>5
  <2>4. QED
    BY Zenon, <2>2, <2>3
<1>3. QED
  BY Zenon, <1>2 DEF Numbered

LEMMA PoppedClosing ==
  ASSUME IInv, NEW r \in Rcv, Pop(r), UNCHANGED <<coreEvents, closed, closes, tx, poller>>
  PROVE  Closing'
<1>1. ASSUME NEW s \in Rcv, NEW k \in 1..Len(queue'[s]), queue'[s][k].kind = "close"
      PROVE  closed[s[1]] >= 1
  <2>1. PICK m \in 1..Len(queue[s]) : queue'[s][k] = queue[s][m]
    BY Zenon, PoppedQueues
  <2>2. QED
    BY Zenon, <1>1, <2>1 DEF IInv, Closing
<1>2. QED
  BY Zenon, <1>1 DEF IInv, Closing, Current

LEMMA PoppedOrdered ==
  ASSUME IInv, NEW r \in Rcv, Pop(r), UNCHANGED <<coreReads, sent, got>>
  PROVE  Ordered'
<1>1. ASSUME NEW s \in Rcv, NEW k \in 1..Len(queue'[s]), queue'[s][k].kind = "message"
      PROVE  /\ queue'[s][k].n <= sent[s[1]]
             /\ \A j \in 1..Len(queue'[s]) :
                 j < k /\ queue'[s][j].kind = "message" => queue'[s][j].n < queue'[s][k].n
             /\ \A j \in 1..Len(coreReads) :
                 coreReads[j].id = s[1] => queue'[s][k].n < coreReads[j].n
             /\ \A j \in 1..Len(got[s[1]]) : got[s[1]][j] < queue'[s][k].n
  <2>1. PICK m \in 1..Len(queue[s]) :
            /\ queue'[s][k] = queue[s][m]
            /\ \A j \in 1..Len(queue'[s]) : j < k =>
                \E l \in 1..Len(queue[s]) : l < m /\ queue'[s][j] = queue[s][l]
    BY Zenon, PoppedQueues
  <2>2. /\ queue[s][m].n <= sent[s[1]]
        /\ \A j \in 1..Len(queue[s]) :
            j < m /\ queue[s][j].kind = "message" => queue[s][j].n < queue[s][m].n
        /\ \A j \in 1..Len(coreReads) :
            coreReads[j].id = s[1] => queue[s][m].n < coreReads[j].n
        /\ \A j \in 1..Len(got[s[1]]) : got[s[1]][j] < queue[s][m].n
    BY ZenonT(40), <1>1, <2>1 DEF IInv, Ordered
  <2>3. QED
    BY ZenonT(40), <2>1, <2>2
<1>2. QED
  BY ZenonT(40), <1>1 DEF IInv, Ordered

LEMMA PollOpenStep == ASSUME IInv, NEW r \in Rcv, PollOpen(r) PROVE IInv'
<1>1. /\ Pop(r) /\ Head(queue[r]) = OnOpen /\ opened' = [opened EXCEPT ![r] = TRUE]
      /\ opens' = Bump(opens, r[1])
      /\ UNCHANGED <<core, uses, closed, sent, handshake, coreEvents, coreReads, phase, made,
                     objs, tx, poller, cbs, announced, got, closes>>
  BY Zenon DEF PollOpen, Owner, coreVars, rcvVars
<1>2. PICK i \in Id : i = r[1]
  BY Zenon, Pairs
<1>3. /\ opens' = [opens EXCEPT ![i] = @ + 1] /\ handshake /\ Current(r)
      /\ 1 \in 1..Len(queue[r]) /\ queue[r][1] = OnOpen /\ poller[r] = "poll"
      /\ dropped' = dropped /\ queue' \in [Rcv -> Seq(ChannelEvents)]
      /\ \A s \in Rcv : Len(queue'[s]) <= QCap
  BY ZenonT(40), <1>1, <1>2, Popped DEF Bump
<1>4. queue[r][1].kind = "open"
  BY <1>3 DEF OnOpen
<1>5. /\ \A s \in Rcv : opened'[s] = IF s = r THEN TRUE ELSE opened[s]
      /\ \A c \in Id : opens'[c] = IF c = i THEN opens[i] + 1 ELSE opens[c]
      /\ opened' \in [Rcv -> BOOLEAN] /\ opens[i] \in Nat
      /\ uses[i] \in Nat
  BY ZenonT(40), <1>1, <1>3 DEF IInv, TypeOK
<1>6. TypeOK'
  <2>1. opens' \in [Id -> Nat]
    BY ZenonT(40), <1>3, Counted DEF IInv, TypeOK
  <2>2. QED
    BY ZenonT(40), <1>1, <1>3, <1>5, <2>1 DEF IInv, TypeOK
<1>7. Quiet' /\ Placed'
  BY Zenon, <1>1, <1>3, SamePlaced DEF IInv, Quiet
<1>8. Objects' /\ Closing' /\ Ordered'
  <2>1. /\ \A s \in Rcv : s # r => opened'[s] = opened[s] /\ poller'[s] = poller[s]
        /\ poller'[r] \in {"poll", "finish"}
    BY Zenon, <1>1, <1>3, <1>5
  <2>2. QED
    BY ZenonT(40), <1>1, <2>1, PoppedObjects, PoppedClosing, PoppedOrdered
<1>9. Channels' /\ Registered'
  BY ZenonT(40), <1>1, SameChannels, SameRegistered DEF IInv
<1>10. ASSUME NEW f \in Tags, NEW g \in Tags, Numbering(i, f, g)
       PROVE  /\ opens[i] + 1 <= g[1] /\ g[1] <= uses[i] /\ g[1] \in Nat
              /\ \A k \in 1..Len(coreEvents) : IsOpen(k, i) => g[1] < f[k]
              /\ \A k \in 1..Len(queue'[r]) : queue[r][k + 1].kind = "open" => g[1] < g[k + 1]
  <2>1. QueueNumbers(r, f, g)
    BY Zenon, <1>2, <1>10 DEF Numbering
  <2>2. /\ g[1] <= uses[i] /\ opens[i] < g[1]
        /\ \A k \in 1..Len(coreEvents) : IsOpen(k, i) => g[1] < f[k]
    BY ZenonT(40), <1>2, <1>3, <1>4, <2>1 DEF QueueNumbers
  <2>3. g[1] \in Nat
    BY SMTT(30), TagValues
  <2>4. opens[i] + 1 <= g[1]
    BY <1>5, <2>2, <2>3
  <2>5. ASSUME NEW k \in 1..Len(queue'[r]), queue[r][k + 1].kind = "open" PROVE g[1] < g[k + 1]
    <3>1. k + 1 \in 1..Len(queue[r]) /\ 1 < k + 1
      BY Zenon, <1>1, Popped
    <3>2. QED
      BY ZenonT(40), <1>3, <1>4, <2>1, <2>5, <3>1 DEF QueueNumbers
  <2>6. QED
    BY ZenonT(40), <2>2, <2>3, <2>4, <2>5
<1>11. Opening'
  <2>1. opens[i] + 1 <= uses[i]
    <3>1. PICK f \in Tags, g \in Tags : Numbering(i, f, g)
      BY Zenon DEF IInv, Numbered
    <3>2. opens[i] + 1 <= g[1] /\ g[1] <= uses[i] /\ g[1] \in Nat
      BY ZenonT(40), <1>10, <3>1
    <3>3. QED
      BY <1>5, <3>2
  <2>2. opens[i] + 1 >= 1 /\ opens[i] + 1 # 0 /\ tx[i] # 0
    BY SMTT(30), <1>2, <1>3, <1>5, Pairs DEF Current
  <2>3. \A c \in Id : /\ tx[c] = 0 => opens'[c] = 0
                      /\ opens'[c] <= uses[c]
                      /\ got[c] # << >> => opens'[c] >= 1
    BY ZenonT(40), <1>5, <2>1, <2>2 DEF IInv, Opening
  <2>4. ASSUME NEW s \in Rcv, Current(s) PROVE opens'[s[1]] = 0 <=> opened'[s] = FALSE
    <3>1. CASE s = r
      BY ZenonT(40), <1>2, <1>5, <2>2, <3>1
    <3>2. CASE s # r
      <4>1. s[1] # i
        BY ZenonT(40), <1>1, <1>2, <2>4, <3>2, Popped
      <4>2. opens'[s[1]] = opens[s[1]] /\ opened'[s] = opened[s]
        BY ZenonT(40), <1>5, <3>2, <4>1, Pairs
      <4>3. QED
        BY Zenon, <2>4, <4>2 DEF IInv, Opening
    <3>3. QED
      BY Zenon, <3>1, <3>2
  <2>5. QED
    BY ZenonT(40), <1>1, <2>3, <2>4 DEF Opening, Current
<1>12. Numbered'
  <2>1. ASSUME NEW f \in Tags, NEW g \in Tags, Numbering(r[1], f, g)
        PROVE  /\ \A k \in 1..Len(coreEvents) : IsOpen(k, r[1]) => opens'[r[1]] < f[k]
               /\ \A k \in 1..Len(queue'[r]) :
                     queue[r][k + 1].kind = "open" => opens'[r[1]] < g[k + 1]
    <3>1. /\ opens'[i] = opens[i] + 1 /\ opens[i] + 1 <= g[1] /\ g[1] \in Nat
          /\ \A k \in 1..Len(coreEvents) : IsOpen(k, i) => g[1] < f[k]
          /\ \A k \in 1..Len(queue'[r]) : queue[r][k + 1].kind = "open" => g[1] < g[k + 1]
      BY Zenon, <1>2, <1>5, <1>10, <2>1
    <3>2. /\ \A k \in 1..Len(coreEvents) : f[k] \in Nat
          /\ \A k \in 1..Len(queue'[r]) : g[k + 1] \in Nat
      <4>1. /\ \A k \in 1..Len(queue'[r]) : k + 1 \in 1..Len(queue[r])
            /\ Len(queue[r]) \in Nat /\ Len(coreEvents) \in Nat
        BY ZenonT(40), <1>1, Popped, QueueItems, Elements DEF IInv, TypeOK
      <4>2. QED
        BY ZenonT(40), <4>1, TagValues
    <3>3. \A n \in Nat : g[1] < n => opens'[i] < n
      <4>1. opens'[i] = opens[i] + 1 /\ opens[i] \in Nat /\ opens[i] + 1 <= g[1] /\ g[1] \in Nat
        BY Zenon, <1>5, <3>1
      <4>2. QED
        BY <4>1
    <3>4. QED
      BY ZenonT(40), <1>2, <3>1, <3>2, <3>3
  <2>2. \A c \in Id : c # r[1] => opens'[c] = opens[c]
    BY ZenonT(40), <1>2, <1>5
  <2>3. QED
    BY ZenonT(40), <1>1, <2>1, <2>2, PoppedNumbered
<1>13. QED
  BY ZenonT(40), <1>6, <1>7, <1>8, <1>9, <1>11, <1>12 DEF IInv

LEMMA MessageAdded ==
  ASSUME NEW q \in Seq(1..MaxMsgs), NEW n \in 1..MaxMsgs
  PROVE  /\ Append(q, n) \in Seq(1..MaxMsgs) /\ Len(q) \in Nat
         /\ Len(Append(q, n)) = Len(q) + 1 /\ Append(q, n)[Len(q) + 1] = n
         /\ \A k \in 1..Len(q) : Append(q, n)[k] = q[k]
OBVIOUS

LEMMA OneMore ==
  ASSUME NEW l \in Nat
  PROVE  /\ \A k \in 1..(l + 1) : k \in 1..l \/ k = l + 1
         /\ \A j, k \in 1..(l + 1) : j < k => j \in 1..l
OBVIOUS

LEMMA PollMessageOrdered ==
  ASSUME IInv, NEW r \in Rcv, Pop(r), queue[r][1].kind = "message",
         NEW n \in 1..MaxMsgs, n = queue[r][1].n,
         got' = [got EXCEPT ![r[1]] = Append(@, n)], UNCHANGED <<coreReads, sent>>
  PROVE  Ordered' /\ got' \in [Id -> Seq(1..MaxMsgs)]
<1>1. PICK i \in Id : i = r[1]
  BY Zenon, Pairs
<1>2. got \in [Id -> Seq(1..MaxMsgs)] /\ got[i] \in Seq(1..MaxMsgs)
  BY ZenonT(40) DEF IInv, TypeOK
<1>3. /\ Append(got[i], n) \in Seq(1..MaxMsgs) /\ Len(got[i]) \in Nat
      /\ Len(Append(got[i], n)) = Len(got[i]) + 1 /\ Append(got[i], n)[Len(got[i]) + 1] = n
      /\ \A k \in 1..Len(got[i]) : Append(got[i], n)[k] = got[i][k]
  BY Zenon, <1>2, MessageAdded
<1>4. /\ got' \in [Id -> Seq(1..MaxMsgs)] /\ got'[i] = Append(got[i], n)
      /\ \A c \in Id : c # i => got'[c] = got[c]
  BY Zenon, <1>1, <1>2, <1>3
<1>5. /\ \A k \in 1..Len(got'[i]) :
            (k \in 1..Len(got[i]) /\ got'[i][k] = got[i][k]) \/ got'[i][k] = n
      /\ \A j, k \in 1..Len(got'[i]) :
            j < k => j \in 1..Len(got[i]) /\ got'[i][j] = got[i][j]
  <2>1. /\ \A k \in 1..Len(got'[i]) : k \in 1..Len(got[i]) \/ k = Len(got[i]) + 1
        /\ \A j, k \in 1..Len(got'[i]) : j < k => j \in 1..Len(got[i])
    <3>1. Len(got'[i]) = Len(got[i]) + 1 /\ Len(got[i]) \in Nat
      BY Zenon, <1>3, <1>4
    <3>2. QED
      BY Zenon, <3>1, OneMore
  <2>2. \A k \in 1..Len(got[i]) : got'[i][k] = got[i][k]
    BY Zenon, <1>3, <1>4
  <2>3. got'[i][Len(got[i]) + 1] = n
    BY Zenon, <1>3, <1>4
  <2>4. QED
    BY Zenon, <2>1, <2>2, <2>3
<1>6. 1 \in 1..Len(queue[r])
  BY ZenonT(40), Popped
<1>7. /\ n <= sent[i] /\ \A j \in 1..Len(got[i]) : got[i][j] < n
      /\ \A j \in 1..Len(coreReads) : coreReads[j].id = i => n < coreReads[j].n
  BY ZenonT(40), <1>1, <1>6 DEF IInv, Ordered
<1>8. ASSUME NEW c \in Id, NEW k \in 1..Len(got'[c])
      PROVE  /\ got'[c][k] <= sent[c]
             /\ \A j \in 1..Len(got'[c]) : j < k => got'[c][j] < got'[c][k]
             /\ \A j \in 1..Len(coreReads) : coreReads[j].id = c => got'[c][k] < coreReads[j].n
  <2>1. CASE c # i
    <3>1. got'[c] = got[c]
      BY Zenon, <1>4, <2>1
    <3>2. QED
      BY ZenonT(40), <3>1 DEF IInv, Ordered
  <2>2. CASE c = i
    <3>1. \A m \in 1..Len(got[i]) :
            /\ got[i][m] <= sent[i]
            /\ \A j \in 1..Len(got[i]) : j < m => got[i][j] < got[i][m]
            /\ \A j \in 1..Len(coreReads) : coreReads[j].id = i => got[i][m] < coreReads[j].n
      BY Zenon DEF IInv, Ordered
    <3>2. QED
      <4>1. CASE k \in 1..Len(got[i]) /\ got'[i][k] = got[i][k]
        BY ZenonT(40), <1>5, <2>2, <3>1, <4>1
      <4>2. CASE got'[i][k] = n
        BY Zenon, <1>5, <1>7, <2>2, <4>2
      <4>3. QED
        BY ZenonT(40), <1>5, <2>2, <4>1, <4>2
  <2>3. QED
    BY ZenonT(40), <2>1, <2>2
<1>9. ASSUME NEW s \in Rcv, NEW k \in 1..Len(queue'[s]), queue'[s][k].kind = "message"
      PROVE  /\ queue'[s][k].n <= sent[s[1]]
             /\ \A j \in 1..Len(queue'[s]) :
                 j < k /\ queue'[s][j].kind = "message" => queue'[s][j].n < queue'[s][k].n
             /\ \A j \in 1..Len(coreReads) :
                 coreReads[j].id = s[1] => queue'[s][k].n < coreReads[j].n
             /\ \A j \in 1..Len(got'[s[1]]) : got'[s[1]][j] < queue'[s][k].n
  <2>1. PICK m \in 1..Len(queue[s]) :
            /\ queue'[s][k] = queue[s][m]
            /\ \A j \in 1..Len(queue'[s]) : j < k =>
                \E l \in 1..Len(queue[s]) : l < m /\ queue'[s][j] = queue[s][l]
    BY Zenon, PoppedQueues
  <2>2. /\ queue[s][m].n <= sent[s[1]]
        /\ \A j \in 1..Len(queue[s]) :
            j < m /\ queue[s][j].kind = "message" => queue[s][j].n < queue[s][m].n
        /\ \A j \in 1..Len(coreReads) :
            coreReads[j].id = s[1] => queue[s][m].n < coreReads[j].n
        /\ \A j \in 1..Len(got[s[1]]) : got[s[1]][j] < queue[s][m].n
    BY ZenonT(40), <1>9, <2>1 DEF IInv, Ordered
  <2>3. \A j \in 1..Len(got'[s[1]]) : got'[s[1]][j] < queue'[s][k].n
    <3>1. CASE s[1] # i
      BY ZenonT(40), <1>4, <2>1, <2>2, <3>1, Pairs
    <3>2. CASE s[1] = i
      <4>1. s = r
        <5>1. 1..Len(<< >>) = {}
          OBVIOUS
        <5>2. queue[s] # << >>
          BY Zenon, <5>1, <2>1
        <5>3. s[1] = r[1]
          BY Zenon, <1>1, <3>2
        <5>4. ASSUME s # r PROVE queue[s] = << >>
          BY ZenonT(40), <5>3, <5>4, Popped
        <5>5. QED
          BY Zenon, <5>2, <5>3, <5>4
      <4>2. queue'[r][k] = queue[r][k + 1] /\ k + 1 \in 1..Len(queue[r]) /\ 1 < k + 1
        BY ZenonT(40), <4>1, Popped
      <4>3. n < queue[r][k + 1].n
        BY ZenonT(40), <1>6, <1>9, <4>1, <4>2 DEF IInv, Ordered
      <4>4. \A j \in 1..Len(got[i]) : got[i][j] < queue'[s][k].n
        BY ZenonT(40), <2>1, <2>2, <3>2
      <4>5. n < queue'[s][k].n
        BY ZenonT(40), <4>1, <4>2, <4>3
      <4>6. QED
        BY ZenonT(40), <1>5, <3>2, <4>4, <4>5
    <3>3. QED
      BY Zenon, <3>1, <3>2
  <2>4. QED
    BY ZenonT(40), <2>1, <2>2, <2>3
<1>10. QED
  BY ZenonT(40), <1>4, <1>8, <1>9 DEF IInv, Ordered

\* What the numbers say when the first event of a queue is a message.
LEMMA MessageFirst ==
  ASSUME IInv, NEW r \in Rcv, Pop(r), queue[r][1].kind = "message",
         NEW f \in Tags, NEW g \in Tags, Numbering(r[1], f, g)
  PROVE  /\ \A k \in 1..Len(coreEvents) : IsOpen(k, r[1]) => opens[r[1]] < f[k] /\ 1 < f[k]
         /\ \A k \in 1..Len(queue'[r]) :
               queue[r][k + 1].kind = "open" => opens[r[1]] < g[k + 1] /\ 1 < g[k + 1]
<1>1. QueueNumbers(r, f, g) /\ CoreNumbers(r[1], f)
  BY Zenon DEF Numbering
<1>2. 1 \in 1..Len(queue[r]) /\ \A k \in 1..Len(queue'[r]) : k + 1 \in 1..Len(queue[r]) /\ 1 < k + 1
  BY Zenon, Popped
<1>3. \A k \in 1..Len(coreEvents) : IsOpen(k, r[1]) => opens[r[1]] < f[k] /\ f[k] > 1
  BY Zenon, <1>1, <1>2 DEF QueueNumbers, CoreNumbers
<1>4. \A k \in 1..Len(queue'[r]) :
          queue[r][k + 1].kind = "open" => opens[r[1]] < g[k + 1] /\ g[k + 1] > 1
  BY Zenon, <1>1, <1>2 DEF QueueNumbers
<1>5. QED
  BY <1>3, <1>4

LEMMA PollMessageStep == ASSUME IInv, NEW r \in Rcv, PollMessage(r) PROVE IInv'
<1>1. /\ Pop(r) /\ Head(queue[r]).kind = "message" /\ opened' = [opened EXCEPT ![r] = TRUE]
      /\ opens' = IF opened[r] THEN opens ELSE Bump(opens, r[1])
      /\ got' = IF r[1] \in cbs
                THEN [got EXCEPT ![r[1]] = Append(@, Head(queue[r]).n)] ELSE got
      /\ UNCHANGED <<core, uses, closed, sent, handshake, coreEvents, coreReads, phase, made,
                     objs, tx, poller, cbs, announced, closes>>
  BY Zenon DEF PollMessage, Owner, coreVars, rcvVars
<1>2. PICK i \in Id : i = r[1]
  BY Zenon, Pairs
<1>3. /\ i \in cbs /\ handshake /\ Current(r) /\ Head(queue[r]) = queue[r][1]
      /\ 1 \in 1..Len(queue[r]) /\ queue[r][1] \in ChannelEvents /\ poller[r] = "poll"
      /\ dropped' = dropped /\ queue' \in [Rcv -> Seq(ChannelEvents)]
      /\ \A s \in Rcv : Len(queue'[s]) <= QCap
  BY ZenonT(40), <1>1, <1>2, Popped
<1>4. queue[r][1].kind = "message" /\ queue[r][1].n \in 1..MaxMsgs
  <2>1. queue[r][1].kind = "message"
    BY ZenonT(40), <1>1, <1>3
  <2>2. \A e \in ChannelEvents : e.kind = "message" => e.n \in 1..MaxMsgs
    BY DEF ChannelEvents, OnOpen, OnClose, OnMessage
  <2>3. QED
    BY ZenonT(40), <1>3, <2>1, <2>2
<1>5. /\ got' = [got EXCEPT ![r[1]] = Append(@, queue[r][1].n)]
      /\ opens' = IF opened[r] THEN opens ELSE [opens EXCEPT ![i] = @ + 1]
  BY ZenonT(40), <1>1, <1>2, <1>3 DEF Bump
<1>6. Ordered' /\ got' \in [Id -> Seq(1..MaxMsgs)]
  BY ZenonT(40), <1>1, <1>4, <1>5, PollMessageOrdered
<1>7. /\ opens[i] = 0 <=> opened[r] = FALSE
      /\ opened[r] \in BOOLEAN /\ opens[i] \in Nat /\ uses[i] \in Nat
  BY ZenonT(40), <1>2, <1>3 DEF IInv, Opening, TypeOK
<1>8. uses[i] >= 1
  BY ZenonT(40), <1>2, <1>3, <1>4, MessageSent
<1>9. /\ opens' \in [Id -> Nat] /\ opens'[i] \in Nat
      /\ \A c \in Id : c # i => opens'[c] = opens[c]
      /\ opens'[i] >= 1 /\ (opens'[i] = opens[i] \/ opens'[i] = 1)
  <2>1. opens \in [Id -> Nat]
    BY Zenon DEF IInv, TypeOK
  <2>2. CASE opened[r] = TRUE
    <3>1. opens' = opens
      BY Zenon, <1>5, <2>2
    <3>2. opens[i] # 0
      BY ZenonT(40), <1>7, <2>2
    <3>3. opens[i] >= 1
      BY SMTT(30), <1>7, <3>2
    <3>4. QED
      BY ZenonT(40), <1>7, <2>1, <3>1, <3>3
  <2>3. CASE opened[r] = FALSE
    <3>1. opens' = [opens EXCEPT ![i] = 0 + 1]
      BY ZenonT(40), <1>5, <1>7, <2>3
    <3>2. QED
      BY <2>1, <3>1
  <2>4. QED
    BY ZenonT(40), <1>7, <2>2, <2>3
<1>10. opens'[i] >= 1 /\ opens'[i] <= uses[i] /\ opens'[i] # 0
  <2>1. opens[i] <= uses[i]
    BY Zenon DEF IInv, Opening
  <2>2. QED
    BY SMTT(30), <1>7, <1>8, <1>9, <2>1
<1>11. \A s \in Rcv : opened'[s] = IF s = r THEN TRUE ELSE opened[s]
  BY ZenonT(40), <1>1 DEF IInv, TypeOK
<1>12. TypeOK'
  <2>1. opened' \in [Rcv -> BOOLEAN]
    BY ZenonT(40), <1>1 DEF IInv, TypeOK
  <2>2. QED
    BY ZenonT(40), <1>1, <1>3, <1>6, <1>9, <2>1 DEF IInv, TypeOK
<1>13. Quiet' /\ Placed'
  BY ZenonT(40), <1>1, <1>3, SamePlaced DEF IInv, Quiet
<1>14. Objects' /\ Closing'
  <2>1. /\ \A s \in Rcv : s # r => opened'[s] = opened[s] /\ poller'[s] = poller[s]
        /\ poller'[r] \in {"poll", "finish"}
    BY ZenonT(40), <1>1, <1>3, <1>11
  <2>2. QED
    BY ZenonT(40), <1>1, <2>1, PoppedObjects, PoppedClosing
<1>15. Channels' /\ Registered'
  BY ZenonT(40), <1>1, SameChannels, SameRegistered DEF IInv
<1>16. Opening'
  <2>1. tx[i] # 0
    BY <1>2, <1>3, Pairs DEF Current
  <2>2. ASSUME NEW c \in Id
        PROVE  /\ tx[c] = 0 => opens'[c] = 0
               /\ opens'[c] <= uses[c]
               /\ got'[c] # << >> => opens'[c] >= 1
    <3>1. CASE c = i
      BY ZenonT(40), <1>10, <2>1, <3>1
    <3>2. CASE c # i
      <4>1. got'[c] = got[c] /\ opens'[c] = opens[c]
        BY ZenonT(40), <1>2, <1>5, <1>9, <3>2 DEF IInv, TypeOK
      <4>2. QED
        BY ZenonT(40), <4>1 DEF IInv, Opening
    <3>3. QED
      BY Zenon, <3>1, <3>2
  <2>3. ASSUME NEW s \in Rcv, Current(s) PROVE opens'[s[1]] = 0 <=> opened'[s] = FALSE
    <3>1. CASE s = r
      BY ZenonT(40), <1>2, <1>10, <1>11, <3>1
    <3>2. CASE s # r
      <4>1. s[1] # i
        BY ZenonT(40), <1>1, <1>2, <2>3, <3>2, Popped
      <4>2. opens'[s[1]] = opens[s[1]] /\ opened'[s] = opened[s]
        BY ZenonT(40), <1>9, <1>11, <3>2, <4>1, Pairs
      <4>3. QED
        BY Zenon, <2>3, <4>2 DEF IInv, Opening
    <3>3. QED
      BY Zenon, <3>1, <3>2
  <2>4. QED
    BY ZenonT(40), <1>1, <2>2, <2>3 DEF Opening, Current
<1>17. Numbered'
  <2>1. ASSUME NEW f \in Tags, NEW g \in Tags, Numbering(r[1], f, g)
        PROVE  /\ \A k \in 1..Len(coreEvents) : IsOpen(k, r[1]) => opens'[r[1]] < f[k]
               /\ \A k \in 1..Len(queue'[r]) :
                     queue[r][k + 1].kind = "open" => opens'[r[1]] < g[k + 1]
    BY ZenonT(40), <1>1, <1>2, <1>4, <1>9, <2>1, MessageFirst
  <2>2. \A c \in Id : c # r[1] => opens'[c] = opens[c]
    BY Zenon, <1>2, <1>9
  <2>3. QED
    BY ZenonT(40), <1>1, <2>1, <2>2, PoppedNumbered
<1>18. QED
  BY ZenonT(40), <1>6, <1>12, <1>13, <1>14, <1>15, <1>16, <1>17 DEF IInv

LEMMA PollCloseStep == ASSUME IInv, NEW r \in Rcv, PollClose(r) PROVE IInv'
<1>1. /\ Pop(r) /\ Head(queue[r]) = OnClose /\ poller' = [poller EXCEPT ![r] = "finish"]
      /\ closes' = Bump(closes, r[1])
      /\ UNCHANGED <<core, uses, closed, sent, handshake, coreEvents, coreReads, phase, made,
                     objs, tx, opened, cbs, announced, opens, got>>
  BY Zenon DEF PollClose, Owner, coreVars, rcvVars
<1>2. PICK i \in Id : i = r[1]
  BY Zenon, Pairs
<1>3. /\ closes' = [closes EXCEPT ![i] = @ + 1] /\ handshake /\ Current(r)
      /\ 1 \in 1..Len(queue[r]) /\ queue[r][1] = OnClose /\ poller[r] = "poll"
      /\ dropped' = dropped /\ queue' \in [Rcv -> Seq(ChannelEvents)]
      /\ \A s \in Rcv : Len(queue'[s]) <= QCap
  BY ZenonT(40), <1>1, <1>2, Popped DEF Bump
<1>4. queue[r][1].kind = "close"
  BY <1>3 DEF OnClose
<1>5. closed[i] >= 1 /\ ~(closes[i] > 0) /\ closes[i] \in Nat /\ closed[i] \in Nat /\ tx[i] # 0
  <2>1. closed[i] >= 1 /\ closes[i] \in Nat /\ closed[i] \in Nat
    BY ZenonT(40), <1>2, <1>3, <1>4 DEF IInv, Closing, TypeOK
  <2>2. ~(closes[i] > 0)
    BY SMTT(30), <1>2, <1>3 DEF IInv, Closing
  <2>3. tx[i] # 0
    BY SMTT(30), <1>2, <1>3, Pairs DEF Current
  <2>4. QED
    BY ZenonT(40), <2>1, <2>2, <2>3
<1>6. /\ \A s \in Rcv : poller'[s] = IF s = r THEN "finish" ELSE poller[s]
      /\ \A c \in Id : closes'[c] = IF c = i THEN closes[i] + 1 ELSE closes[c]
  BY ZenonT(40), <1>1, <1>3 DEF IInv, TypeOK
<1>7. TypeOK'
  <2>1. closes' \in [Id -> Nat]
    BY ZenonT(40), <1>3, Counted DEF IInv, TypeOK
  <2>2. poller' \in [Rcv -> {"none", "poll", "sleep", "finish", "done"}]
    BY ZenonT(40), <1>1 DEF IInv, TypeOK
  <2>3. QED
    BY ZenonT(40), <1>1, <1>3, <2>1, <2>2 DEF IInv, TypeOK
<1>8. Quiet' /\ Placed'
  BY ZenonT(40), <1>1, <1>3, SamePlaced DEF IInv, Quiet
<1>9. Objects' /\ Ordered'
  <2>1. /\ \A s \in Rcv : s # r => opened'[s] = opened[s] /\ poller'[s] = poller[s]
        /\ poller'[r] \in {"poll", "finish"}
    BY Zenon, <1>1, <1>6
  <2>2. QED
    BY ZenonT(40), <1>1, <2>1, PoppedObjects, PoppedOrdered
<1>10. Channels' /\ Opening'
  BY ZenonT(40), <1>1, SameChannels, SameOpening DEF IInv
<1>11. Registered'
  <2>1. \A s \in Rcv : poller'[s] = "poll" => poller[s] = "poll"
    BY <1>6
  <2>2. QED
    BY ZenonT(40), <1>1, <2>1 DEF IInv, Registered, Current
<1>12. Closing'
  <2>1. ASSUME NEW s \in Rcv, NEW k \in 1..Len(queue'[s]), queue'[s][k].kind = "close"
        PROVE  closed[s[1]] >= 1
    <3>1. PICK m \in 1..Len(queue[s]) : queue'[s][k] = queue[s][m]
      BY ZenonT(40), <1>1, PoppedQueues
    <3>2. QED
      BY ZenonT(40), <2>1, <3>1 DEF IInv, Closing
  <2>2. \A c \in Id : closes'[c] <= closed[c] /\ (tx[c] = 0 => closes'[c] = 0)
    <3>1. closes[i] + 1 <= closed[i]
      BY <1>5
    <3>2. QED
      BY ZenonT(40), <1>5, <1>6, <3>1 DEF IInv, Closing
  <2>3. ASSUME NEW s \in Rcv, Current(s), closes'[s[1]] > 0
        PROVE  poller'[s] \in {"finish", "done"}
    <3>1. CASE s = r
      BY Zenon, <1>6, <3>1
    <3>2. CASE s # r
      <4>1. s[1] # i
        BY ZenonT(40), <1>1, <1>2, <2>3, <3>2, Popped
      <4>2. closes'[s[1]] = closes[s[1]] /\ poller'[s] = poller[s]
        BY ZenonT(40), <1>6, <3>2, <4>1, Pairs
      <4>3. QED
        BY ZenonT(40), <2>3, <4>2 DEF IInv, Closing
    <3>3. QED
      BY Zenon, <3>1, <3>2
  <2>4. QED
    BY ZenonT(40), <1>1, <2>1, <2>2, <2>3 DEF IInv, Closing, Current
<1>13. Numbered'
  <2>1. ASSUME NEW f \in Tags, NEW g \in Tags, Numbering(r[1], f, g)
        PROVE  /\ \A k \in 1..Len(coreEvents) : IsOpen(k, r[1]) => opens'[r[1]] < f[k]
               /\ \A k \in 1..Len(queue'[r]) :
                     queue[r][k + 1].kind = "open" => opens'[r[1]] < g[k + 1]
    <3>1. QueueNumbers(r, f, g) /\ CoreNumbers(r[1], f)
      BY Zenon, <2>1 DEF Numbering
    <3>2. \A k \in 1..Len(queue'[r]) : k + 1 \in 1..Len(queue[r])
      BY Zenon, <1>1, Popped
    <3>3. QED
      BY ZenonT(40), <1>1, <3>1, <3>2 DEF QueueNumbers, CoreNumbers
  <2>2. \A c \in Id : c # r[1] => opens'[c] = opens[c]
    BY Zenon, <1>1
  <2>3. QED
    BY ZenonT(40), <1>1, <2>1, <2>2, PoppedNumbered
<1>14. QED
  BY ZenonT(40), <1>7, <1>8, <1>9, <1>10, <1>11, <1>12, <1>13 DEF IInv

\* The pollers of the other objects only sleep and wake.
LEMMA OtherPollers ==
  ASSUME IInv, NEW r \in Rcv, PollNone(r) \/ Awake(r)
  PROVE  IInv'
<1>1. /\ poller[r] \in {"poll", "sleep"} /\ ~Current(r)
      /\ opened[r] = FALSE /\ queue[r] = << >>
  <2>1. CASE PollNone(r)
    BY ZenonT(40), <2>1 DEF PollNone, Owner, Current, IInv, Objects
  <2>2. CASE Awake(r)
    BY Zenon, <2>2 DEF Awake, IInv, Objects
  <2>3. QED
    BY ZenonT(40), <2>1, <2>2
<1>2. /\ \/ poller' = [poller EXCEPT ![r] = "sleep"]
         \/ poller' = [poller EXCEPT ![r] = "poll"]
      /\ UNCHANGED <<core, uses, closed, sent, handshake, coreEvents, coreReads, phase, made,
                     objs, tx, queue, dropped, opened, cbs, announced, opens, got, closes>>
  BY Zenon, <1>1 DEF PollNone, Awake, coreVars, rcvVars, appSees
<1>3. /\ poller' \in [Rcv -> {"none", "poll", "sleep", "finish", "done"}]
      /\ poller'[r] \in {"poll", "sleep"} /\ \A s \in Rcv : s # r => poller'[s] = poller[s]
  BY ZenonT(40), <1>2 DEF IInv, TypeOK
<1>4. TypeOK'
  BY ZenonT(40), <1>2, <1>3 DEF IInv, TypeOK
<1>5. \A s \in Rcv : /\ Current(s)' <=> Current(s)
                     /\ Current(s) => poller'[s] = poller[s]
  BY Zenon, <1>1, <1>2, <1>3 DEF Current
<1>6. Objects'
  <2>1. ~(r[2] > objs[r[1]])
    BY <1>1 DEF IInv, Objects
  <2>2. \A i \in Id : Created(i)' = Created(i)
    BY Zenon, <1>2 DEF Created
  <2>3. ASSUME NEW s \in Rcv
        PROVE  /\ s[2] > objs[s[1]] => poller'[s] = "none"
               /\ ~Current(s) => poller'[s] \in {"none", "poll", "sleep"}
    <3>1. CASE s = r
      BY ZenonT(40), <1>3, <2>1, <3>1
    <3>2. CASE s # r
      BY ZenonT(40), <1>3, <3>2 DEF IInv, Objects
    <3>3. QED
      BY Zenon, <3>1, <3>2
  <2>4. QED
    BY ZenonT(40), <1>2, <1>5, <2>2, <2>3 DEF IInv, Objects
<1>7. Registered' /\ Closing'
  BY ZenonT(40), <1>2, <1>5 DEF IInv, Registered, Closing
<1>8. Quiet' /\ Placed' /\ Channels' /\ Ordered' /\ Opening' /\ Numbered'
  BY ZenonT(40), <1>2, SameQuiet, SamePlaced, SameChannels, SameOrdered, SameOpening,
     SameNumbered DEF IInv
<1>9. QED
  BY ZenonT(40), <1>4, <1>6, <1>7, <1>8 DEF IInv

LEMMA FinishStep == ASSUME IInv, NEW r \in Rcv, Finish(r) PROVE IInv'
<1>1. /\ poller[r] = "finish" /\ poller' = [poller EXCEPT ![r] = "done"]
      /\ cbs' = cbs \ {r[1]}
      /\ UNCHANGED <<core, uses, closed, sent, handshake, coreEvents, coreReads, phase, made,
                     objs, tx, queue, dropped, opened, announced, opens, got, closes>>
  BY Zenon DEF Finish, Owner, coreVars, rcvVars, appSees
<1>2. Current(r)
  <2>1. poller[r] \notin {"none", "poll", "sleep"}
    BY <1>1
  <2>2. QED
    BY ZenonT(40), <2>1 DEF IInv, Objects
<1>3. /\ poller' \in [Rcv -> {"none", "poll", "sleep", "finish", "done"}]
      /\ poller'[r] = "done" /\ \A s \in Rcv : s # r => poller'[s] = poller[s]
  BY ZenonT(40), <1>1 DEF IInv, TypeOK
<1>4. TypeOK'
  BY ZenonT(40), <1>1, <1>3 DEF IInv, TypeOK
<1>5. /\ \A s \in Rcv : Current(s)' <=> Current(s)
      /\ \A i \in Id : Created(i)' = Created(i)
  BY Zenon, <1>1 DEF Current, Created
<1>6. Objects'
  <2>1. ~(r[2] > objs[r[1]])
    BY <1>1 DEF IInv, Objects
  <2>2. ASSUME NEW s \in Rcv
        PROVE  /\ s[2] > objs[s[1]] => poller'[s] = "none"
               /\ ~Current(s) => poller'[s] \in {"none", "poll", "sleep"}
               /\ Current(s) => /\ poller'[s] # "sleep"
                                /\ poller'[s] = "none" => s[1] \in Local /\ made[s[1]] = "tx"
    <3>1. CASE s = r
      BY SMTT(30), <1>2, <1>3, <2>1, <3>1
    <3>2. CASE s # r
      BY ZenonT(40), <1>3, <3>2 DEF IInv, Objects
    <3>3. QED
      BY ZenonT(40), <3>1, <3>2
  <2>3. QED
    BY ZenonT(40), <1>1, <1>5, <2>2 DEF IInv, Objects
<1>7. Registered'
  <2>1. ASSUME NEW s \in Rcv, Current(s), poller'[s] = "poll" PROVE s # r /\ s[1] # r[1]
    <3>1. s # r
      BY <1>3, <2>1
    <3>2. QED
      BY <1>2, <2>1, <3>1, Pairs DEF Current
  <2>2. QED
    BY Zenon, <1>1, <1>3, <1>5, <2>1 DEF IInv, Registered
<1>8. Closing'
  <2>1. \A s \in Rcv : poller[s] \in {"finish", "done"} => poller'[s] \in {"finish", "done"}
    BY Zenon, <1>3
  <2>2. QED
    BY ZenonT(40), <1>1, <1>5, <2>1 DEF IInv, Closing
<1>9. Channels'
  BY Zenon, <1>1 DEF IInv, Channels
<1>10. Quiet' /\ Placed' /\ Ordered' /\ Opening' /\ Numbered'
  BY ZenonT(40), <1>1, SameQuiet, SamePlaced, SameOrdered, SameOpening, SameNumbered DEF IInv
<1>11. QED
  BY ZenonT(40), <1>4, <1>6, <1>7, <1>8, <1>9, <1>10 DEF IInv

-----------------------------------------------------------------------------
(* The theorem.                                                             *)

LEMMA AnnounceStep == ASSUME IInv, Announce PROVE IInv'
<1>1. coreEvents # << >>
  BY Zenon DEF Announce
<1>2. coreEvents[1].id \in Id
  BY Zenon, <1>1, EventTaken DEF IInv
<1>3. QED
  BY Zenon, <1>2, AnnounceClosed, AnnounceOpen

LEMMA InvariantStep == ASSUME Careful, IInv, [Next]_vars PROVE IInv'
<1>1. CASE App
  BY ZenonT(40), <1>1, CreateCoreStep, InsertTxStep, SpawnPollerStep, SetCallbacksStep DEF App, Create
<1>2. CASE Network
  BY ZenonT(40), <1>2, HandshakeStep, RemoteOpenStep, RemoteSendStep, RemoteCloseStep DEF Network
<1>3. CASE DriverStep
  BY ZenonT(40), <1>3, PhaseStep, AnnounceStep, SendOpenStep, HandleCloseStep, HandleMessageStep
     DEF DriverStep
<1>4. ASSUME NEW r \in Rcv, PollerStep(r) PROVE IInv'
  BY ZenonT(40), <1>4, PollOpenStep, PollMessageStep, PollCloseStep, OtherPollers, FinishStep
     DEF PollerStep
<1>5. CASE UNCHANGED vars
  <2>1. UNCHANGED <<core, uses, closed, sent, handshake, coreEvents, coreReads, phase, made,
                    objs, tx, queue, dropped, poller, opened, cbs, announced, opens, got, closes>>
    BY Zenon, <1>5 DEF vars, coreVars, rcvVars, appSees
  <2>2. TypeOK'
    BY ZenonT(40), <2>1 DEF IInv, TypeOK
  <2>3. QED
    BY ZenonT(40), <2>1, <2>2, SameQuiet, SamePlaced, SameObjects, SameChannels, SameRegistered,
       SameClosing, SameOrdered, SameOpening, SameNumbered DEF IInv
<1>6. QED
  BY ZenonT(40), <1>1, <1>2, <1>3, <1>4, <1>5 DEF Next

\* With channels created, and their callbacks registered, before the handshake:
\* whatever the driver, the pollers, the network and the application interleave,
\* on_open runs before the first on_message of a channel and at most once for
\* each time the channel opened, on_close at most once for each time the core
\* closed it, on_message sees the messages in the order they were sent, and no
\* event queue exceeds its capacity.
THEOREM CallbacksTrueHolds ==
  ASSUME Careful
  PROVE  Spec => []CallbacksTrue
<1>1. Init => IInv
  BY InitHolds
<1>2. IInv /\ [Next]_vars => IInv'
  BY Zenon, InvariantStep
<1>3. IInv => CallbacksTrue
  BY InvImplies
<1>4. QED
  BY <1>1, <1>2, <1>3, PTL DEF Spec
=============================================================================
