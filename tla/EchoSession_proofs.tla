------------------------- MODULE EchoSession_proofs -------------------------
(***************************************************************************)
(* Proofs about EchoSession, for any set of messages of the client.        *)
(***************************************************************************)
EXTENDS EchoSession, TLAPS

\* The part of TypeOK the proofs need.
Types ==
    /\ at \in [Msg -> Steps]
    /\ pc \in Offer \cup {None}
    /\ conn \in [Offer -> {"none", "new", "described", "answered", "closed"}]
    /\ lock \in Offer \cup {None}
    /\ pending \subseteq Candidate /\ left \subseteq pending
    /\ held \in [Closing -> Offer \cup {None}]
    /\ applied \in [Candidate \X Offer -> Nat]

\* An offer has a connection once its thread has created one.
Created ==
    \A o \in Offer :
        /\ at[o] \in {"idle", "ready"} => conn[o] = "none"
        /\ pc = o => conn[o] # "none"
        /\ \A m \in Closing : held[m] = o => conn[o] # "none"

\* A buffered candidate's thread has ended, and the loop is over without the lock.
Buffered ==
    /\ \A c \in pending : at[c] = "done"
    /\ lock = None => left = {}

\* No further candidate can be added to a connection.
Past(o) == pc # o \/ conn[o] = "closed"

\* A candidate still to be added was not added to a connection that can take it.
NotYet ==
    \A c \in Candidate, o \in Offer : applied[<<c, o>>] > 0 =>
        /\ conn[o] # "none"
        /\ at[c] = "done"
        /\ c \in pending /\ (lock = None \/ c \in left) => Past(o)

Once == Types /\ Created /\ Buffered /\ NotYet /\ AddedAtMostOnce

-----------------------------------------------------------------------------
USE DEF Msg

\* The initial state.
LEMMA InitOnce == Kinds /\ Init => Once
BY DEF Kinds, Init, Once, Types, Steps, Created, Buffered, NotYet, AddedAtMostOnce

\* A thread goes on without touching the session.
LEMMA QuietOnce ==
    ASSUME Kinds, Once, NEW m \in Msg, NEW s \in Steps, at[m] # "done",
           at' = [at EXCEPT ![m] = s], s \in {"idle", "ready"} => at[m] \in {"idle", "ready"},
           UNCHANGED <<pc, conn, lock, pending, left, held, applied>>
    PROVE  Once'
<1> USE DEF Once
<1>1. Types' BY DEF Types
<1>2. Created' BY DEF Types, Created
<1>3. Buffered' BY DEF Types, Buffered
<1>4. NotYet' BY DEF Types, NotYet, Past
<1>5. AddedAtMostOnce' BY SMTT(30) DEF AddedAtMostOnce
<1>. QED BY <1>1, <1>2, <1>3, <1>4, <1>5

\* One ERROR, and the thread ends.
LEMMA FailOnce ==
    ASSUME Kinds, Once, NEW m \in Msg, NEW s \in Steps \ {"done"}, Fail(m, s)
    PROVE  Once'
BY Zenon, QuietOnce DEF Fail, Goto, fields, Steps

\* An offer puts a new connection into the field.
LEMMA CreateOnce ==
    ASSUME Kinds, Once, NEW o \in Offer, Create(o)
    PROVE  Once'
<1>1. CASE Fail(o, "ready") BY <1>1, FailOnce DEF Steps
<1>2. CASE /\ Goto(o, "ready", "describe")
           /\ pc' = o
           /\ conn' = [conn EXCEPT ![o] = "new"]
           /\ UNCHANGED <<gone, rds, lock, pending, left, held, history>>
  <2> USE <1>2 DEF Once, Goto, history
  <2>1. Types' BY DEF Types, Steps
  <2>2. Created' BY DEF Types, Created
  <2>3. Buffered' BY DEF Kinds, Types, Buffered
  <2>4. NotYet'
    <3> SUFFICES ASSUME NEW c \in Candidate, NEW q \in Offer, applied[<<c, q>>] > 0
                 PROVE  /\ conn'[q] # "none"
                        /\ at'[c] = "done"
                        /\ c \in pending /\ (lock = None \/ c \in left) => Past(q)'
      BY DEF NotYet
    <3>1. q # o BY DEF Created, NotYet
    <3>. QED BY <3>1 DEF Kinds, Types, NotYet, Past
  <2>5. AddedAtMostOnce' BY DEF AddedAtMostOnce
  <2>. QED BY <2>1, <2>2, <2>3, <2>4, <2>5
<1>. QED BY <1>1, <1>2 DEF Create

\* setRemoteDescription and setLocalDescription change an open connection.
LEMMA DescribeOnce ==
    ASSUME Kinds, Once, NEW o \in Offer, Usable,
           NEW s \in Steps \ {"idle", "ready"}, at[o] \notin {"idle", "ready", "done"},
           at' = [at EXCEPT ![o] = s],
           NEW d \in {"described", "answered"}, conn' = [conn EXCEPT ![pc] = d],
           UNCHANGED <<pc, lock, pending, left, held, applied>>
    PROVE  Once'
<1> USE DEF Once, Usable
<1>1. Types' BY DEF Types
<1>2. Created' BY DEF Types, Created
<1>3. Buffered' BY DEF Kinds, Types, Buffered
<1>4. NotYet' BY DEF Kinds, Types, NotYet, Past
<1>5. AddedAtMostOnce' BY DEF AddedAtMostOnce
<1>. QED BY <1>1, <1>2, <1>3, <1>4, <1>5

\* The flush begins.
LEMMA FlushOnce ==
    ASSUME Kinds, Once, NEW o \in Offer, Flush(o)
    PROVE  Once'
<1> USE DEF Once, Flush, Goto, history
<1>1. Types' BY DEF Types, Steps
<1>2. Created' BY DEF Types, Created
<1>3. Buffered' BY DEF Kinds, Types, Buffered
<1>4. NotYet' BY DEF Kinds, Types, NotYet, Past
<1>5. AddedAtMostOnce' BY DEF AddedAtMostOnce
<1>. QED BY <1>1, <1>2, <1>3, <1>4, <1>5

\* The flush adds a candidate, or throws.
LEMMA FlushOneOnce ==
    ASSUME Kinds, Once, NEW o \in Offer, FlushOne(o)
    PROVE  Once'
<1> PICK c \in left :
          IF Usable
          THEN /\ Apply(c)
               /\ left' = left \ {c}
               /\ UNCHANGED <<at, gone, pc, conn, rds, lock, pending, held, replies>>
          ELSE /\ Goto(o, "flushing", "done") /\ Reply(o)
               /\ lock' = None /\ left' = {}
               /\ UNCHANGED <<gone, pc, conn, rds, pending, held, applied, early>>
  BY DEF FlushOne
<1>0. c \in Candidate /\ c \in pending /\ lock # None BY DEF Once, Types, Buffered
<1>1. CASE Usable
  <2> USE <1>1 DEF Apply, Usable
  <2>1. pc \in Offer /\ ~Past(pc) BY DEF Once, Types, Past
  <2>2. ~(applied[<<c, pc>>] > 0) BY <1>0, <2>1 DEF Once, NotYet
  <2>3. applied[<<c, pc>>] = 0 BY <1>0, <2>1, <2>2 DEF Once, Types
  <2>4. Types' BY <1>0, <2>1 DEF Once, Types
  <2>5. Created' BY DEF Once, Created
  <2>6. Buffered' BY <1>0 DEF Once, Buffered
  <2>7. \A p \in Candidate \X Offer :
           applied'[p] = IF p = <<c, pc>> THEN 1 ELSE applied[p]
    BY <1>0, <2>1, <2>3 DEF Once, Types
  <2>8. NotYet'
    <3> SUFFICES ASSUME NEW b \in Candidate, NEW q \in Offer, applied'[<<b, q>>] > 0
                 PROVE  /\ conn[q] # "none"
                        /\ at[b] = "done"
                        /\ b \in pending /\ (lock = None \/ b \in left') => Past(q)
      BY DEF NotYet, Past
    <3>1. CASE <<b, q>> = <<c, pc>>
      BY <1>0, <2>1, <3>1 DEF Once, Types, Buffered, Created, NotYet, Past
    <3>2. CASE <<b, q>> # <<c, pc>>
      BY <2>7, <3>2 DEF Once, NotYet
    <3>. QED BY <3>1, <3>2
  <2>9. AddedAtMostOnce' BY <2>7 DEF Once, AddedAtMostOnce
  <2>. QED BY <2>4, <2>5, <2>6, <2>8, <2>9 DEF Once
<1>2. CASE ~Usable
  <2> USE <1>2 DEF Goto
  <2>1. Types' BY DEF Once, Types, Steps
  <2>2. Created' BY DEF Once, Types, Created
  <2>3. Buffered' BY DEF Kinds, Once, Types, Buffered
  <2>4. NotYet' BY DEF Kinds, Once, Types, NotYet, Past, Usable
  <2>5. AddedAtMostOnce' BY DEF Once, AddedAtMostOnce
  <2>. QED BY <2>1, <2>2, <2>3, <2>4, <2>5 DEF Once
<1>. QED BY <1>1, <1>2

\* The flush is over.
LEMMA FlushEndOnce ==
    ASSUME Kinds, Once, NEW o \in Offer, FlushEnd(o)
    PROVE  Once'
<1> USE DEF Once, FlushEnd, Goto, history
<1>1. Types' BY DEF Types, Steps
<1>2. Created' BY DEF Types, Created
<1>3. Buffered' BY DEF Buffered
<1>4. NotYet' BY DEF Kinds, Types, NotYet
<1>5. AddedAtMostOnce' BY DEF AddedAtMostOnce
<1>. QED BY <1>1, <1>2, <1>3, <1>4, <1>5

\* A candidate is buffered, or goes on to be added.
LEMMA CheckOnce ==
    ASSUME Kinds, Once, NEW c \in Candidate, Check(c)
    PROVE  Once'
<1> USE DEF Once, Check, Goto
<1>1. Types' BY DEF Types, Steps
<1>2. Created' BY DEF Kinds, Types, Created
<1>3. Buffered' BY DEF Types, Buffered
<1>4. NotYet' BY DEF Types, NotYet, Past
<1>5. AddedAtMostOnce' BY DEF AddedAtMostOnce
<1>. QED BY <1>1, <1>2, <1>3, <1>4, <1>5

\* A candidate is added by its own thread, or the call throws.
LEMMA AddCandidateOnce ==
    ASSUME Kinds, Once, NEW c \in Candidate, AddCandidate(c)
    PROVE  Once'
<1>1. CASE Usable
  <2> USE <1>1 DEF AddCandidate, Apply, Usable, Goto, fields
  <2>1. pc \in Offer BY DEF Once, Types
  <2>2. applied[<<c, pc>>] = 0 BY <2>1 DEF Once, Types, NotYet
  <2>3. c \notin pending BY DEF Once, Buffered
  <2>4. Types' BY <2>1 DEF Once, Types, Steps
  <2>5. Created' BY DEF Kinds, Once, Types, Created
  <2>6. Buffered' BY DEF Once, Types, Buffered
  <2>7. \A p \in Candidate \X Offer :
           applied'[p] = IF p = <<c, pc>> THEN 1 ELSE applied[p]
    BY SMTT(30), <2>1, <2>2 DEF Once, Types
  <2>8. NotYet'
    <3> SUFFICES ASSUME NEW b \in Candidate, NEW q \in Offer, applied'[<<b, q>>] > 0
                 PROVE  /\ conn[q] # "none"
                        /\ at'[b] = "done"
                        /\ b \in pending /\ (lock = None \/ b \in left) => Past(q)
      BY DEF NotYet, Past
    <3>1. CASE <<b, q>> = <<c, pc>>
      BY <2>1, <2>3, <3>1 DEF Once, Types, Created
    <3>2. CASE <<b, q>> # <<c, pc>>
      BY <2>7, <3>2 DEF Once, Types, NotYet
    <3>. QED BY <3>1, <3>2
  <2>9. AddedAtMostOnce' BY <2>7 DEF Once, AddedAtMostOnce
  <2>. QED BY <2>4, <2>5, <2>6, <2>8, <2>9 DEF Once
<1>2. CASE ~Usable
  BY <1>2, FailOnce DEF AddCandidate, Steps
<1>. QED BY <1>1, <1>2

\* close() empties the field, and closes what it held.
LEMMA CloseOnce ==
    ASSUME Kinds, Once, NEW m \in Closing, HandleClose(m)
    PROVE  Once'
<1>1. CASE Take(m)
  <2> USE <1>1 DEF Once, Take, Goto, history
  <2>1. Types' BY DEF Types, Steps
  <2>2. Created' BY DEF Kinds, Types, Created
  <2>3. Buffered' BY DEF Kinds, Types, Buffered
  <2>4. NotYet' BY DEF Kinds, Types, NotYet, Past
  <2>5. AddedAtMostOnce' BY DEF AddedAtMostOnce
  <2>. QED BY <2>1, <2>2, <2>3, <2>4, <2>5
<1>2. CASE Clear(m)
  <2> USE <1>2 DEF Once, Clear, Goto, history
  <2>1. Types' BY DEF Types, Steps
  <2>2. Created' BY DEF Kinds, Types, Created
  <2>3. Buffered' BY DEF Kinds, Types, Buffered
  <2>4. NotYet' BY DEF Kinds, Types, NotYet, Past
  <2>5. AddedAtMostOnce' BY DEF AddedAtMostOnce
  <2>. QED BY <2>1, <2>2, <2>3, <2>4, <2>5
<1>3. CASE Close(m)
  <2> USE <1>3 DEF Once, Close, Goto
  <2>1. Types' BY DEF Types, Steps
  <2>2. Created' BY DEF Kinds, Types, Created
  <2>3. Buffered' BY DEF Kinds, Types, Buffered
  <2>4. NotYet' BY DEF Kinds, Types, NotYet, Past
  <2>5. AddedAtMostOnce' BY DEF AddedAtMostOnce
  <2>. QED BY <2>1, <2>2, <2>3, <2>4, <2>5
<1>. QED BY <1>1, <1>2, <1>3 DEF HandleClose

\* Every step keeps the invariant.
LEMMA NextOnce == Kinds /\ Once /\ [Next]_vars => Once'
<1> SUFFICES ASSUME Kinds, Once, [Next]_vars PROVE Once'
  BY SMTT(30)
<1>1. ASSUME NEW m \in Msg, OnMessage(m) PROVE Once'
  BY ZenonT(40), <1>1, QuietOnce DEF OnMessage, Goto, fields, Steps
<1>2. ASSUME NEW m \in Disconnect, OnClose(m) PROVE Once'
  BY Zenon, <1>2, QuietOnce DEF OnClose, Goto, Steps, Closing
<1>3. ASSUME NEW o \in Offer, HandleOffer(o) PROVE Once'
  <2>1. CASE Create(o) BY <2>1, CreateOnce
  <2>2. CASE SetRemoteDescription(o)
    <3>1. CASE Fail(o, "describe") BY <3>1, FailOnce DEF Steps
    <3>2. CASE ~Fail(o, "describe")
      BY <2>2, <3>2, DescribeOnce DEF SetRemoteDescription, Goto, Steps, history
    <3>. QED BY <3>1, <3>2
  <2>3. CASE Probe(o) \/ AddTracks(o) \/ CreateAnswer(o)
    <3>1. CASE \E s \in {"probe", "tracks", "answer"} : Fail(o, s)
      BY <3>1, FailOnce DEF Steps
    <3>2. CASE ~\E s \in {"probe", "tracks", "answer"} : Fail(o, s)
      BY <2>3, <3>2, QuietOnce DEF Probe, AddTracks, CreateAnswer, Goto, Steps, fields, history
    <3>. QED BY <3>1, <3>2
  <2>4. CASE Flush(o) BY <2>4, FlushOnce
  <2>5. CASE FlushOne(o) BY <2>5, FlushOneOnce
  <2>6. CASE FlushEnd(o) BY <2>6, FlushEndOnce
  <2>7. CASE SetLocalDescription(o)
    <3>1. CASE Fail(o, "local") BY <3>1, FailOnce DEF Steps
    <3>2. CASE ~Fail(o, "local")
      BY <2>7, <3>2, DescribeOnce DEF SetLocalDescription, Goto, Steps
    <3>. QED BY <3>1, <3>2
  <2>. QED BY <1>3, <2>1, <2>2, <2>3, <2>4, <2>5, <2>6, <2>7 DEF HandleOffer
<1>4. ASSUME NEW c \in Candidate, HandleCandidate(c) PROVE Once'
  BY <1>4, CheckOnce, AddCandidateOnce DEF HandleCandidate
<1>5. ASSUME NEW m \in Closing, HandleClose(m) PROVE Once'
  BY SMTT(30), <1>5, CloseOnce
<1>6. CASE UNCHANGED vars
  BY <1>6 DEF vars, fields, history, Once, Types, Created, Buffered, NotYet, Past, AddedAtMostOnce
<1>. QED BY <1>1, <1>2, <1>3, <1>4, <1>5, <1>6 DEF Next

\* A candidate is added to a connection at most once, by the flush or by its own
\* thread: for any number of offers, candidates, leaves, in any interleaving.
THEOREM AddedAtMostOnceHolds ==
    ASSUME Kinds
    PROVE  Spec => []AddedAtMostOnce
<1>1. Init => Once BY InitOnce
<1>2. Once /\ [Next]_vars => Once' BY NextOnce
<1>3. Once => AddedAtMostOnce BY SMTT(30) DEF Once
<1>. QED BY <1>1, <1>2, <1>3, PTL DEF Spec

-----------------------------------------------------------------------------
\* The flag is up, and anything is added, only when the connection of the one
\* offer has its remote description.
Described ==
    /\ at \in [Msg -> Steps]
    /\ pc \in Offer \cup {None}
    /\ conn \in [Offer -> {"none", "new", "described", "answered", "closed"}]
    /\ lock # None => rds
    /\ lock = None => left = {}
    /\ \A c \in Candidate : at[c] = "add" => rds
    /\ \A o \in Offer :
          /\ at[o] \in {"idle", "ready"} => ~rds
          /\ at[o] \in {"probe", "flush"} \/ rds => conn[o] # "new"
    /\ left \subseteq Candidate /\ pending \subseteq Candidate
    /\ ~early

\* With one offer, no candidate is added to a connection before its remote
\* description is set (EchoSession.java, handleCandidate), whatever candidates,
\* leaves and the closing of the socket come when.
THEOREM NotBeforeDescriptionHolds ==
    ASSUME Kinds, \A o, q \in Offer : o = q
    PROVE  Spec => []NotBeforeDescription
<1>1. Init => Described
  BY SMTT(30) DEF Init, Described, Kinds, Steps
<1>2. Described /\ [Next]_vars => Described'
  <2> SUFFICES ASSUME Described, [Next]_vars PROVE Described'
    BY SMTT(30)
  <2> USE DEF Described, Kinds
  <2>1. ASSUME NEW m \in Msg, NEW s \in Steps, Fail(m, s) PROVE Described'
    BY SMTT(30), <2>1 DEF Fail, Goto, fields, Steps
  <2>2. ASSUME NEW m \in Msg, OnMessage(m) PROVE Described'
    BY SMTT(30), <2>2 DEF OnMessage, Goto, fields, Steps
  <2>3. ASSUME NEW m \in Disconnect, OnClose(m) PROVE Described'
    BY SMTT(30), <2>3 DEF OnClose, Goto, Steps, Closing
  <2>4. ASSUME NEW o \in Offer, HandleOffer(o) PROVE Described'
    <3>1. CASE Create(o) BY SMTT(30), <2>1, <3>1 DEF Create, Goto, Steps, history
    <3>2. CASE SetRemoteDescription(o)
      BY SMTT(30), <2>1, <3>2 DEF SetRemoteDescription, Goto, Steps, Usable, history
    <3>3. CASE Probe(o) BY SMTT(30), <2>1, <3>3 DEF Probe, Goto, Steps, fields, history
    <3>4. CASE Flush(o) BY SMTT(30), <3>4 DEF Flush, Goto, Steps, history
    <3>5. CASE FlushOne(o)
      <4>1. rds BY <3>5 DEF FlushOne
      <4>2. CASE Usable
        BY ZenonT(40), <3>5, <4>1, <4>2 DEF FlushOne, Apply, Usable
      <4>3. CASE ~Usable
        BY SMTT(30), <3>5, <4>1, <4>3 DEF FlushOne, Goto, Steps
      <4>. QED BY SMTT(30), <4>2, <4>3
    <3>6. CASE FlushEnd(o) BY SMTT(30), <3>6 DEF FlushEnd, Goto, Steps, history
    <3>7. CASE AddTracks(o) BY SMTT(30), <2>1, <3>7 DEF AddTracks, Goto, Steps, fields, history
    <3>8. CASE CreateAnswer(o) BY SMTT(30), <2>1, <3>8 DEF CreateAnswer, Goto, Steps, fields, history
    <3>9. CASE SetLocalDescription(o)
      BY SMTT(30), <2>1, <3>9 DEF SetLocalDescription, Goto, Steps, Usable
    <3>. QED BY SMTT(30), <2>4, <3>1, <3>2, <3>3, <3>4, <3>5, <3>6, <3>7, <3>8, <3>9 DEF HandleOffer
  <2>5. ASSUME NEW c \in Candidate, Check(c) PROVE Described'
    BY SMTT(30), <2>5 DEF Check, Goto, Steps
  <2>6. ASSUME NEW c \in Candidate, AddCandidate(c) PROVE Described'
    <3>1. CASE Usable BY ZenonT(40), <2>6, <3>1 DEF AddCandidate, Apply, Usable, Goto, Steps, fields
    <3>2. CASE ~Usable BY SMTT(30), <2>1, <2>6, <3>2 DEF AddCandidate, Steps
    <3>. QED BY SMTT(30), <3>1, <3>2
  <2>7. ASSUME NEW m \in Closing, HandleClose(m) PROVE Described'
    <3>1. CASE Take(m) BY SMTT(30), <3>1 DEF Take, Goto, Steps, history
    <3>2. CASE Clear(m) BY <3>2 DEF Clear, Goto, Steps, history
    <3>3. CASE Close(m) BY <3>3 DEF Close, Goto, Steps
    <3>. QED BY <2>7, <3>1, <3>2, <3>3 DEF HandleClose
  <2>8. CASE UNCHANGED vars BY <2>8 DEF vars, fields, history
  <2>. QED BY <2>2, <2>3, <2>4, <2>5, <2>6, <2>7, <2>8 DEF Next, HandleCandidate
<1>3. Described => NotBeforeDescription BY DEF Described, NotBeforeDescription
<1>. QED BY <1>1, <1>2, <1>3, PTL DEF Spec
=============================================================================
