-------------------------- MODULE PeerHandle_proofs --------------------------
(***************************************************************************)
(* Proofs about PeerHandle, for any threads, connections, users and bounds.*)
(*                                                                         *)
(* What the three properties say of one call depends on what every other   *)
(* call has done to the connection: who may be creating it (Creator), what *)
(* a finished close() has left (Closed), and whether a freed Peer can      *)
(* still be reached by its only user (Freed).                              *)
(***************************************************************************)
EXTENDS PeerHandle, TLAPS

Places == {"idle", "creating", "built", "checked", "inside", "closing", "freed",
           "upcall", "observer"}
Calls == [at: Places, op: Ops \cup {"none"}, c: Conn \cup {"none"}, n: Nat, late: BOOLEAN]

\* The types of the variables, as far as the proofs need them.
Types ==
    /\ call \in [Actor -> Calls]
    /\ java \in [Conn -> {"none", "open", "closed", "failed"}]
    /\ native \in [Conn -> {"none", "live", "freed"}]
    /\ count \in [Conn -> [call: Nat, task: Nat, cb: Nat]]

CreatingAt == {"creating", "built"}
BusyAt == {"checked", "inside", "closing", "freed"} \cup CreatingAt

\* A call is about a connection, and its caller is one of the connection's users.
Callers ==
    \A a \in Actor : call[a].at \in BusyAt => call[a].c \in Conn /\ a \in Users[call[a].c]

\* A connection is created by one thread, before anyone else can use it.
Creator ==
    \A t \in Thread : call[t].at \in CreatingAt =>
        /\ java[call[t].c] = "none"
        /\ \A u \in Thread : call[u].c = call[t].c => u = t

Creating(c) == \E t \in Thread : call[t].at \in CreatingAt /\ call[t].c = c

\* OBSERVERS, at every moment.
Observed == \A c \in Conn : c \in observers <=> java[c] = "open" \/ Creating(c)

\* A close() that returned has set the flag.
Closed == returned \subseteq {c \in Conn : java[c] = "closed"}

OneThread(c) == Users[c] \subseteq Thread /\ \A t, u \in Users[c] : t = u

\* A freed Peer of a connection with one user: the flag is set, or that user is
\* about to set it.
Freed ==
    \A c \in Conn : OneThread(c) /\ native[c] = "freed" =>
        \/ java[c] = "closed" /\ \A a \in Actor : call[a].at \in BusyAt => call[a].c # c
        \/ \E t \in Users[c] : call[t].at = "freed" /\ call[t].c = c

IInv == Types /\ Callers /\ Creator /\ Observed /\ Closed /\ Freed
          /\ ClosedMeansClosed /\ HandleLive

-----------------------------------------------------------------------------
USE UsersAssumption DEF Actor

\* A call moves on.
LEMMA MoveFact ==
    ASSUME NEW r \in Calls, NEW at \in Places
    PROVE  [r EXCEPT !.at = at] \in Calls
BY SMTT(30) DEF Calls

\* The records a call starts with.
LEMMA CallFact ==
    ASSUME NEW at \in Places, NEW c \in Conn, NEW b \in BOOLEAN
    PROVE  /\ Idle \in Calls
           /\ [Idle EXCEPT !.at = at, !.c = c] \in Calls
           /\ [Idle EXCEPT !.at = at, !.c = c, !.late = b] \in Calls
           /\ [[Idle EXCEPT !.at = at, !.c = c] EXCEPT !.late = b] \in Calls
<1>1. Idle \in Calls BY DEF Idle, Calls, Places
<1>2. [Idle EXCEPT !.at = at, !.c = c] \in Calls BY ZenonT(40) DEF Idle, Calls
<1>3. [Idle EXCEPT !.at = at, !.c = c, !.late = b] \in Calls BY ZenonT(40) DEF Idle, Calls
<1>4. [[Idle EXCEPT !.at = at, !.c = c] EXCEPT !.late = b] \in Calls BY ZenonT(40) DEF Idle, Calls
<1>. QED BY SMTT(30), <1>1, <1>2, <1>3, <1>4

\* The initial state satisfies the invariant.
LEMMA InitIInv == Init => IInv
<1> SUFFICES ASSUME Init PROVE IInv
  OBVIOUS
<1> USE DEF Init, Idle
<1>1. Types BY SMTT(30) DEF Types, Calls, Places
<1>2. Callers BY DEF Callers, BusyAt, CreatingAt
<1>3. Creator BY DEF Creator, CreatingAt
<1>4. Observed BY SMTT(30) DEF Observed, Creating
<1>5. Closed BY DEF Closed
<1>6. Freed BY DEF Freed
<1>7. ClosedMeansClosed BY SMTT(30) DEF ClosedMeansClosed
<1>8. HandleLive BY SMTT(30) DEF HandleLive
<1>. QED BY SMTT(30), <1>1, <1>2, <1>3, <1>4, <1>5, <1>6, <1>7, <1>8 DEF IInv

\* An upcall starts.
LEMMA UpcallIInv ==
    ASSUME IInv, NEW c \in Conn, Upcall(c)
    PROVE  IInv'
<1> USE DEF Upcall, Idle, IInv
<1>1. Types'
  <2>1. call' \in [Actor -> Calls]
    <3>1. ([Idle EXCEPT !.at = "upcall", !.c = c]) \in Calls BY CallFact, ZenonT(40) DEF Places
    <3>. QED BY SMTT(30), <3>1 DEF Types
  <2>2. java' \in [Conn -> {"none", "open", "closed", "failed"}] BY DEF Types
  <2>3. native' \in [Conn -> {"none", "live", "freed"}] BY DEF Types
  <2>4. count' \in [Conn -> [call: Nat, task: Nat, cb: Nat]] BY SMTT(30) DEF Types
  <2>. QED BY SMTT(30), <2>1, <2>2, <2>3, <2>4 DEF Types
<1>2. Callers' BY SMTT(30) DEF Callers, BusyAt, CreatingAt
<1>3. Creator' BY SMTT(30) DEF Creator
<1>4. Observed' BY SMTT(30) DEF Observed, Creating
<1>5. Closed' BY SMTT(30) DEF Closed
<1>6. Freed' BY DEF Freed, BusyAt, CreatingAt
<1>7. ClosedMeansClosed' BY SMTT(30) DEF ClosedMeansClosed
<1>8. HandleLive' BY SMTT(30) DEF HandleLive
<1>. QED BY SMTT(30), <1>1, <1>2, <1>3, <1>4, <1>5, <1>6, <1>7, <1>8

\* create() registers the observer.
LEMMA CreateIInv ==
    ASSUME IInv, NEW t \in Thread, NEW c \in Conn, Create(t, c)
    PROVE  IInv'
<1> USE DEF Create, Idle, IInv
<1>1. Types'
  <2>1. call' \in [Actor -> Calls]
    <3>1. ([Idle EXCEPT !.at = "creating", !.c = c]) \in Calls BY CallFact, ZenonT(40) DEF Places
    <3>. QED BY SMTT(30), <3>1 DEF Types
  <2>2. java' \in [Conn -> {"none", "open", "closed", "failed"}] BY SMTT(30) DEF Types
  <2>3. native' \in [Conn -> {"none", "live", "freed"}] BY SMTT(30) DEF Types
  <2>4. count' \in [Conn -> [call: Nat, task: Nat, cb: Nat]] BY SMTT(30) DEF Types
  <2>. QED BY SMTT(30), <2>1, <2>2, <2>3, <2>4 DEF Types
<1>2. Callers' BY SMTT(30) DEF Callers
<1>3. Creator' BY SMTT(30) DEF Creator
<1>4. Observed' BY SMTT(30) DEF Types, Observed, Creating, CreatingAt
<1>5. Closed' BY SMTT(30) DEF Closed
<1>6. Freed' BY DEF Freed
<1>7. ClosedMeansClosed' BY DEF ClosedMeansClosed
<1>8. HandleLive' BY SMTT(30) DEF HandleLive
<1>. QED BY SMTT(30), <1>1, <1>2, <1>3, <1>4, <1>5, <1>6, <1>7, <1>8

\* close() passes its check.
LEMMA CloseBeginIInv ==
    ASSUME IInv, NEW t \in Thread, NEW c \in Conn, CloseBegin(t, c)
    PROVE  IInv'
<1> USE DEF CloseBegin, Idle, IInv
<1>1. Types'
  <2>1. call' \in [Actor -> Calls]
    <3>1. (c \in returned) \in BOOLEAN BY SMTT(30)
    <3>2. \A b \in BOOLEAN : [Idle EXCEPT !.at = "closing", !.c = c, !.late = b] \in Calls
      BY CallFact, ZenonT(40) DEF Places
    <3>3. [Idle EXCEPT !.at = "closing", !.c = c, !.late = c \in returned] \in Calls
      BY <3>1, <3>2, ZenonT(40)
    <3>. QED BY SMTT(30), <3>3 DEF Types
  <2>2. java' \in [Conn -> {"none", "open", "closed", "failed"}] BY SMTT(30) DEF Types
  <2>3. native' \in [Conn -> {"none", "live", "freed"}] BY SMTT(30) DEF Types
  <2>4. count' \in [Conn -> [call: Nat, task: Nat, cb: Nat]] BY DEF Types
  <2>. QED BY SMTT(30), <2>1, <2>2, <2>3, <2>4 DEF Types
<1>2. Callers' BY SMTT(30) DEF Callers
<1>3. Creator' BY DEF Creator, CreatingAt
<1>4. Observed' BY DEF Observed, Creating
<1>5. Closed' BY SMTT(30) DEF Closed
<1>6. Freed' BY SMTT(30) DEF Freed
<1>7. ClosedMeansClosed' BY ZenonT(40) DEF Types, Closed, ClosedMeansClosed
<1>8. HandleLive' BY SMTT(30) DEF HandleLive
<1>. QED BY SMTT(30), <1>1, <1>2, <1>3, <1>4, <1>5, <1>6, <1>7, <1>8

\* An operation passes checkClosed.
LEMMA BeginIInv ==
    ASSUME IInv, NEW a \in Actor, NEW c \in Conn, NEW op \in Ops, Begin(a, c, op)
    PROVE  IInv'
<1> USE DEF Begin, Rest, Kind, Ops, Spawning, Idle, IInv
<1>1. Types'
  <2>1. call' \in [Actor -> Calls] BY SMTT(30) DEF Types, Calls, Places
  <2>2. java' \in [Conn -> {"none", "open", "closed", "failed"}] BY SMTT(30) DEF Types
  <2>3. native' \in [Conn -> {"none", "live", "freed"}] BY SMTT(30) DEF Types
  <2>4. count' \in [Conn -> [call: Nat, task: Nat, cb: Nat]] BY SMTT(30) DEF Types
  <2>. QED BY SMTT(30), <2>1, <2>2, <2>3, <2>4 DEF Types
<1>2. Callers' BY SMTT(30) DEF Callers
<1>3. Creator' BY SMTT(30) DEF Creator, CreatingAt
<1>4. Observed' BY DEF Observed, Creating
<1>5. Closed' BY SMTT(30) DEF Closed
<1>6. Freed' BY SMTT(30) DEF Freed, OneThread
<1>7. ClosedMeansClosed' BY ZenonT(40) DEF Types, Closed, ClosedMeansClosed
<1>8. HandleLive' BY SMTT(30) DEF HandleLive
<1>. QED BY SMTT(30), <1>1, <1>2, <1>3, <1>4, <1>5, <1>6, <1>7, <1>8

\* An operation spawns its task.
LEMMA SpawnIInv ==
    ASSUME IInv, NEW a \in Actor, Spawn(a)
    PROVE  IInv'
<1> USE DEF Spawn, Use, Rest, Ops, Spawning, Idle, IInv
<1>1. Types' BY ZenonT(40) DEF Types, Calls, Places
<1>2. Callers' BY SMTT(30) DEF Callers, BusyAt, CreatingAt
<1>3. Creator' BY SMTT(30) DEF Callers, Creator, BusyAt, CreatingAt
<1>4. Observed' BY SMTT(30) DEF Observed, Creating, CreatingAt
<1>5. Closed' BY SMTT(30) DEF Closed
<1>6. Freed' BY DEF Freed, BusyAt, CreatingAt
<1>7. ClosedMeansClosed' BY SMTT(30) DEF ClosedMeansClosed
<1>8. HandleLive' BY SMTT(30) DEF Callers, Freed, OneThread, HandleLive, BusyAt
<1>. QED BY SMTT(30), <1>1, <1>2, <1>3, <1>4, <1>5, <1>6, <1>7, <1>8

\* A blocking operation enters native code.
LEMMA EnterIInv ==
    ASSUME IInv, NEW a \in Actor, Enter(a)
    PROVE  IInv'
<1> USE DEF Enter, Use, Idle, IInv
<1>1. Types' BY SMTT(30) DEF Types, Calls, Places
<1>2. Callers' BY SMTT(30) DEF Callers, BusyAt
<1>3. Creator' BY DEF Creator, CreatingAt
<1>4. Observed'
  <2>1. \A t \in Thread : call'[t].at \in CreatingAt <=> call[t].at \in CreatingAt
    BY DEF CreatingAt
  <2>2. \A t \in Thread : call'[t].c = call[t].c BY DEF Places
  <2>. QED BY SMTT(30), <2>1, <2>2 DEF Observed, Creating
<1>5. Closed' BY SMTT(30) DEF Closed
<1>6. Freed' BY SMTT(30) DEF Freed, BusyAt
<1>7. ClosedMeansClosed' BY DEF ClosedMeansClosed
<1>8. HandleLive' BY SMTT(30) DEF Callers, Freed, OneThread, HandleLive, BusyAt
<1>. QED BY SMTT(30), <1>1, <1>2, <1>3, <1>4, <1>5, <1>6, <1>7, <1>8

\* A blocking operation returns.
LEMMA FinishIInv ==
    ASSUME IInv, NEW a \in Actor, Finish(a)
    PROVE  IInv'
<1> USE DEF Finish, Use, Rest, Ops, Spawning, Idle, IInv
<1>1. Types' BY ZenonT(40) DEF Types, Calls, Places
<1>2. Callers' BY SMTT(30) DEF Callers, BusyAt, CreatingAt
<1>3. Creator' BY DEF Callers, Creator, BusyAt, CreatingAt
<1>4. Observed' BY SMTT(30) DEF Observed, Creating, CreatingAt
<1>5. Closed' BY SMTT(30) DEF Closed
<1>6. Freed' BY DEF Freed, BusyAt, CreatingAt
<1>7. ClosedMeansClosed' BY SMTT(30) DEF ClosedMeansClosed
<1>8. HandleLive' BY SMTT(30) DEF Callers, Freed, OneThread, HandleLive, BusyAt
<1>. QED BY SMTT(30), <1>1, <1>2, <1>3, <1>4, <1>5, <1>6, <1>7, <1>8

\* webrtc_ffi_peer_create.
LEMMA PeerCreateIInv ==
    ASSUME IInv, NEW t \in Thread, PeerCreate(t)
    PROVE  IInv'
<1> USE DEF PeerCreate, Build, Idle, IInv
<1>1. Types'
  <2>1. call' \in [Actor -> Calls]
    <3>1. call[t] \in Calls /\ "built" \in Places BY SMTT(30) DEF Types, Places
    <3>2. [call[t] EXCEPT !.at = "built"] \in Calls BY <3>1, MoveFact, ZenonT(40)
    <3>. QED BY SMTT(30), <3>2 DEF Types
  <2>2. java' \in [Conn -> {"none", "open", "closed", "failed"}] BY DEF Types
  <2>3. native' \in [Conn -> {"none", "live", "freed"}] BY SMTT(30) DEF Types
  <2>4. count' \in [Conn -> [call: Nat, task: Nat, cb: Nat]] BY SMTT(30) DEF Types
  <2>. QED BY SMTT(30), <2>1, <2>2, <2>3, <2>4 DEF Types
<1>2. Callers' BY SMTT(30) DEF Callers, BusyAt, CreatingAt
<1>3. Creator' BY SMTT(30) DEF Creator, CreatingAt
<1>4. Observed' BY SMTT(30) DEF Observed, Creating, CreatingAt
<1>5. Closed' BY SMTT(30) DEF Closed
<1>6. Freed' BY SMTT(30) DEF Types, Freed, BusyAt, CreatingAt
<1>7. ClosedMeansClosed' BY SMTT(30) DEF ClosedMeansClosed
<1>8. HandleLive' BY DEF HandleLive
<1>. QED BY SMTT(30), <1>1, <1>2, <1>3, <1>4, <1>5, <1>6, <1>7, <1>8

\* create() returns, or throws.
LEMMA CreateReturnIInv ==
    ASSUME IInv, NEW t \in Thread, CreateReturn(t)
    PROVE  IInv'
<1> USE DEF CreateReturn, Idle, IInv
<1>1. Types' BY SMTT(30) DEF Types, Calls, Places
<1>2. Callers' BY SMTT(30) DEF Callers, BusyAt, CreatingAt
<1>3. Creator' BY SMTT(30) DEF Types, Callers, Creator, BusyAt, CreatingAt
<1>4. Observed' BY SMTT(30) DEF Types, Creator, Observed, Creating, CreatingAt
<1>5. Closed' BY SMTT(30) DEF Types, Creator, Closed, CreatingAt
<1>6. Freed'
  <2> SUFFICES ASSUME NEW d \in Conn, OneThread(d), native'[d] = "freed"
               PROVE  \/ java'[d] = "closed" /\ \A a \in Actor : call'[a].at \in BusyAt => call'[a].c # d
                      \/ \E u \in Users[d] : call'[u].at = "freed" /\ call'[u].c = d
    BY SMTT(30) DEF Freed
  <2>1. CASE d = call[t].c
    BY SMTT(30), <2>1 DEF CreatingAt
  <2>2. CASE d # call[t].c
    <3>1. java'[d] = java[d] /\ native[d] = "freed" BY SMTT(30), <2>2 DEF Types
    <3>2. \A a \in Actor : call'[a] = IF a = t THEN Idle ELSE call[a] BY SMTT(30) DEF Types
    <3>3. CASE \E u \in Users[d] : call[u].at = "freed" /\ call[u].c = d
      BY SMTT(30), <2>2, <3>2, <3>3
    <3>4. CASE java[d] = "closed" /\ \A a \in Actor : call[a].at \in BusyAt => call[a].c # d
      BY SMTT(30), <3>1, <3>2, <3>4 DEF CreatingAt
    <3>. QED BY SMTT(30), <3>1, <3>3, <3>4 DEF Freed
  <2>. QED BY SMTT(30), <2>1, <2>2
<1>7. ClosedMeansClosed' BY DEF ClosedMeansClosed
<1>8. HandleLive' BY SMTT(30) DEF HandleLive
<1>. QED BY SMTT(30), <1>1, <1>2, <1>3, <1>4, <1>5, <1>6, <1>7, <1>8

\* close() closes the core.
LEMMA CloseCoreIInv ==
    ASSUME IInv, NEW t \in Thread, CloseCore(t)
    PROVE  IInv'
<1> USE DEF CloseCore, Use, Idle, IInv
<1>1. Types' BY SMTT(30) DEF Types
<1>2. Callers' BY SMTT(30) DEF Callers
<1>3. Creator' BY DEF Creator
<1>4. Observed' BY SMTT(30) DEF Observed, Creating
<1>5. Closed' BY SMTT(30) DEF Closed
<1>6. Freed' BY DEF Freed
<1>7. ClosedMeansClosed' BY SMTT(30) DEF ClosedMeansClosed
<1>8. HandleLive' BY SMTT(30) DEF Callers, Freed, OneThread, HandleLive, BusyAt
<1>. QED BY SMTT(30), <1>1, <1>2, <1>3, <1>4, <1>5, <1>6, <1>7, <1>8

\* close() frees the Peer.
LEMMA PeerCloseIInv ==
    ASSUME IInv, NEW t \in Thread, PeerClose(t)
    PROVE  IInv'
<1> USE DEF PeerClose, Use, Idle, IInv
<1>1. Types'
  <2>1. call' \in [Actor -> Calls]
    <3>1. call[t] \in Calls /\ "freed" \in Places BY DEF Types, Places
    <3>2. [call[t] EXCEPT !.at = "freed"] \in Calls BY <3>1, MoveFact, ZenonT(40)
    <3>. QED BY SMTT(30), <3>2 DEF Types
  <2>2. java' \in [Conn -> {"none", "open", "closed", "failed"}] BY SMTT(30) DEF Types
  <2>3. native' \in [Conn -> {"none", "live", "freed"}] BY ZenonT(40) DEF Types
  <2>4. count' \in [Conn -> [call: Nat, task: Nat, cb: Nat]] BY DEF Types
  <2>. QED BY SMTT(30), <2>1, <2>2, <2>3, <2>4 DEF Types
<1>2. Callers' BY SMTT(30) DEF Callers, BusyAt
<1>3. Creator' BY SMTT(30) DEF Creator, CreatingAt
<1>4. Observed' BY DEF Observed, Creating, CreatingAt
<1>5. Closed' BY SMTT(30) DEF Closed
<1>6. Freed'
  <2> SUFFICES ASSUME NEW d \in Conn, OneThread(d), native'[d] = "freed"
               PROVE  \/ java'[d] = "closed" /\ \A a \in Actor : call'[a].at \in BusyAt => call'[a].c # d
                      \/ \E u \in Users[d] : call'[u].at = "freed" /\ call'[u].c = d
    BY SMTT(30) DEF Freed
  <2>1. CASE d = call[t].c
    BY SMTT(30), <2>1 DEF Types, Callers, BusyAt
  <2>2. CASE d # call[t].c
    BY SMTT(30), <2>2 DEF Freed
  <2>. QED BY SMTT(30), <2>1, <2>2
<1>7. ClosedMeansClosed' BY SMTT(30) DEF ClosedMeansClosed
<1>8. HandleLive' BY SMTT(30) DEF Callers, Freed, OneThread, HandleLive, BusyAt
<1>. QED BY SMTT(30), <1>1, <1>2, <1>3, <1>4, <1>5, <1>6, <1>7, <1>8

\* close() sets the flag and returns.
LEMMA CloseReturnIInv ==
    ASSUME IInv, NEW t \in Thread, CloseReturn(t)
    PROVE  IInv'
<1> USE DEF CloseReturn, Idle, IInv
<1>1. Types' BY ZenonT(40) DEF Types, Calls, Places
<1>2. Callers' BY SMTT(30) DEF Callers, BusyAt, CreatingAt
<1>3. Creator' BY SMTT(30) DEF Callers, Creator, BusyAt, CreatingAt
<1>4. Observed' BY SMTT(30) DEF Types, Creator, Observed, Creating
<1>5. Closed' BY SMTT(30) DEF Types, Callers, Closed, BusyAt
<1>6. Freed'
  <2> SUFFICES ASSUME NEW d \in Conn, OneThread(d), native'[d] = "freed"
               PROVE  \/ java'[d] = "closed" /\ \A a \in Actor : call'[a].at \in BusyAt => call'[a].c # d
                      \/ \E u \in Users[d] : call'[u].at = "freed" /\ call'[u].c = d
    BY SMTT(30) DEF Freed
  <2>1. CASE d = call[t].c
    BY SMTT(30), <2>1 DEF Types, Callers, OneThread, BusyAt
  <2>2. CASE d # call[t].c
    <3>1. java'[d] = java[d] /\ native[d] = "freed" BY SMTT(30), <2>2 DEF Places
    <3>2. \A a \in Actor : call'[a] = IF a = t THEN Idle ELSE call[a] BY SMTT(30) DEF Types
    <3>3. CASE \E u \in Users[d] : call[u].at = "freed" /\ call[u].c = d
      BY SMTT(30), <2>2, <3>2, <3>3
    <3>4. CASE java[d] = "closed" /\ \A a \in Actor : call[a].at \in BusyAt => call[a].c # d
      BY SMTT(30), <3>1, <3>2, <3>4 DEF CreatingAt
    <3>. QED BY SMTT(30), <3>1, <3>3, <3>4 DEF Freed
  <2>. QED BY SMTT(30), <2>1, <2>2
<1>7. ClosedMeansClosed' BY SMTT(30) DEF ClosedMeansClosed
<1>8. HandleLive' BY SMTT(30) DEF HandleLive
<1>. QED BY SMTT(30), <1>1, <1>2, <1>3, <1>4, <1>5, <1>6, <1>7, <1>8

\* An upcall looks its observer up.
LEMMA LookupIInv ==
    ASSUME IInv, NEW c \in Conn, Lookup(c)
    PROVE  IInv'
<1> USE DEF Lookup, Rest, Ops, Spawning, Idle, IInv
<1>1. Types'
  <2>1. call' \in [Actor -> Calls]
    <3>1. (c \in returned) \in BOOLEAN BY SMTT(30)
    <3>2. Rest(c) = [Idle EXCEPT !.at = "observer", !.c = c] BY SMTT(30)
    <3>3. \A b \in BOOLEAN : [[Idle EXCEPT !.at = "observer", !.c = c] EXCEPT !.late = b] \in Calls
      BY CallFact, ZenonT(40) DEF Places
    <3>4. [Rest(c) EXCEPT !.late = c \in returned] \in Calls BY <3>1, <3>2, <3>3, ZenonT(40)
    <3>5. Idle \in Calls BY CallFact, ZenonT(40) DEF Places
    <3>. QED BY SMTT(30), <3>4, <3>5 DEF Types
  <2>2. java' \in [Conn -> {"none", "open", "closed", "failed"}] BY SMTT(30) DEF Types
  <2>3. native' \in [Conn -> {"none", "live", "freed"}] BY SMTT(30) DEF Types
  <2>4. count' \in [Conn -> [call: Nat, task: Nat, cb: Nat]] BY DEF Types
  <2>. QED BY SMTT(30), <2>1, <2>2, <2>3, <2>4 DEF Types
<1>2. Callers' BY SMTT(30) DEF Callers, BusyAt, CreatingAt
<1>3. Creator' BY SMTT(30) DEF Creator
<1>4. Observed' BY SMTT(30) DEF Observed, Creating
<1>5. Closed' BY SMTT(30) DEF Closed
<1>6. Freed' BY SMTT(30) DEF Freed, BusyAt, CreatingAt
<1>7. ClosedMeansClosed' BY SMTT(30) DEF Types, Calls, Closed, Observed, Creating, Creator, ClosedMeansClosed
<1>8. HandleLive' BY SMTT(30) DEF HandleLive
<1>. QED BY SMTT(30), <1>1, <1>2, <1>3, <1>4, <1>5, <1>6, <1>7, <1>8

\* An upcall returns.
LEMMA UpcallReturnIInv ==
    ASSUME IInv, NEW c \in Conn, UpcallReturn(c)
    PROVE  IInv'
<1> USE DEF UpcallReturn, Rest, Idle, IInv
<1>1. Types' BY SMTT(30) DEF Types, Calls, Places
<1>2. Callers' BY SMTT(30) DEF Callers, BusyAt, CreatingAt
<1>3. Creator' BY DEF Creator
<1>4. Observed' BY SMTT(30) DEF Observed, Creating
<1>5. Closed' BY SMTT(30) DEF Closed
<1>6. Freed' BY DEF Freed, OneThread
<1>7. ClosedMeansClosed' BY SMTT(30) DEF ClosedMeansClosed
<1>8. HandleLive' BY SMTT(30) DEF HandleLive
<1>. QED BY SMTT(30), <1>1, <1>2, <1>3, <1>4, <1>5, <1>6, <1>7, <1>8

\* The configuration and the tasks are not looked at by the invariant; nor is
\* anything in a stuttering step.
LEMMA ElsewhereIInv ==
    ASSUME IInv, UNCHANGED <<java, native, observers, call, count, bad, returned>>
    PROVE  IInv'
BY SMTT(30) DEF IInv, Types, Callers, Creator, Observed, Creating, Closed, Freed, OneThread,
       ClosedMeansClosed, HandleLive

\* Every step keeps the invariant.
LEMMA NextIInv == IInv /\ [Next]_vars => IInv'
<1> SUFFICES ASSUME IInv, [Next]_vars PROVE IInv'
  BY SMTT(30)
<1>1. ASSUME NEW c \in Conn, Config(c) PROVE IInv'
  <2>1. UNCHANGED <<java, native, observers, call, count, bad, returned>>
    BY ZenonT(40), <1>1 DEF Config, ConfigCreate, ConfigClose, AddIceServer, SetOption, SetTransport,
                SetPortRange, SetAllocatorFlags, Configure
  <2>. QED BY SMTT(30), <2>1, ElsewhereIInv
<1>2. ASSUME NEW c \in Conn, Upcall(c) PROVE IInv'
  BY SMTT(30), <1>2, UpcallIInv
<1>3. ASSUME NEW t \in Thread, NEW c \in Conn, Create(t, c) \/ CloseBegin(t, c) PROVE IInv'
  BY SMTT(30), <1>3, CreateIInv, CloseBeginIInv
<1>4. ASSUME NEW a \in Actor, NEW c \in Conn, NEW op \in Ops, Begin(a, c, op) PROVE IInv'
  BY SMTT(30), <1>4, BeginIInv
<1>5. ASSUME NEW a \in Actor, Step(a) PROVE IInv'
  BY SMTT(30), <1>5, SpawnIInv, EnterIInv, FinishIInv, PeerCreateIInv, CreateReturnIInv, CloseCoreIInv,
     PeerCloseIInv, CloseReturnIInv, LookupIInv, UpcallReturnIInv DEF Step
<1>6. ASSUME NEW k \in Task, RunTask(k) PROVE IInv'
  <2>1. UNCHANGED <<java, native, observers, call, count, bad, returned>> BY SMTT(30), <1>6 DEF RunTask
  <2>. QED BY SMTT(30), <2>1, ElsewhereIInv
<1>7. CASE UNCHANGED vars
  BY SMTT(30), <1>7, ElsewhereIInv DEF vars
<1>. QED BY SMTT(30), <1>1, <1>2, <1>3, <1>4, <1>5, <1>6, <1>7 DEF Next

-----------------------------------------------------------------------------
\* The handle of a connection that one thread uses is never used after
\* close() freed the Peer (lib.rs:1028, 1104): for any number of threads,
\* connections, tasks and callbacks.
THEOREM HandleLiveHolds == Spec => []HandleLive
<1>1. IInv => HandleLive BY SMTT(30) DEF IInv
<1>. QED BY <1>1, InitIInv, NextIInv, PTL DEF Spec

\* Nothing starts on a connection whose close() has returned, whatever the
\* other threads and the callbacks do.
THEOREM ClosedMeansClosedHolds == Spec => []ClosedMeansClosed
<1>1. IInv => ClosedMeansClosed BY SMTT(30) DEF IInv
<1>. QED BY <1>1, InitIInv, NextIInv, PTL DEF Spec

\* OBSERVERS holds exactly the observers of the open connections, but for
\* those being created or closed.
THEOREM ObserversMatchHolds == Spec => []ObserversMatch
<1>1. IInv => ObserversMatch
  BY DEF IInv, Observed, Creating, CreatingAt, ObserversMatch
<1>. QED BY <1>1, InitIInv, NextIInv, PTL DEF Spec
=============================================================================
