------------------------------ MODULE PeerHandle ------------------------------
(***************************************************************************)
(* The life of a peer connection's native handle.  Java owns a raw pointer *)
(* to a boxed Peer.  Every operation first reads the flag "closed", then   *)
(* enters native code with the pointer; close() enters native code, which  *)
(* frees the box, and sets the flag last.  Meanwhile the connection's      *)
(* driver calls back into Java, where an observer is looked up by id and   *)
(* may itself call operations; those that are made for callbacks do not    *)
(* block but spawn a task.                                                 *)
(*                                                                         *)
(*   library/.../PeerConnection.java, Configuration.java                   *)
(*   rust-webrtc-ffi/src/lib.rs           config_*, peer_create, ...       *)
(*   rust-webrtc/src/peer_connection/mod.rs      build, close              *)
(*                                                                         *)
(* A call that throws, or that returns an error before it changes          *)
(* anything, is a stuttering step.  What an operation does with the core   *)
(* is kept only for the messages of a data channel.                        *)
(* The observer id of a connection is its name: ids are never reused.      *)
(***************************************************************************)
EXTENDS Naturals, SequencesExt, FiniteSetsExt

CONSTANTS
    Thread,   \* application threads
    Conn,     \* connections, each created at most once; also names the
              \* driver task of the connection, which runs its callbacks
    Users,    \* who calls operations of a connection: threads, callbacks
    MaxSets,  \* bound: setter calls per configuration
    MaxTasks, \* bound: messages and candidates per connection
    MaxCalls, \* bound: blocking operations per connection
    MaxCb     \* bound: callbacks per connection

Actor == Thread \cup Conn

ASSUME UsersAssumption ==
    Thread \cap Conn = {} /\ "none" \notin Conn /\ Users \in [Conn -> SUBSET Actor]
ASSUME BoundAssumption ==
    {MaxSets, MaxTasks, MaxCalls, MaxCb} \subseteq Nat

VARIABLES
    cfg,       \* Configuration of a connection: Java flag and native Config
    java,      \* the PeerConnection object and its flag closed
    native,    \* the boxed Peer
    observers, \* OBSERVERS
    driver,    \* driver task: it may start callbacks
    call,      \* the call each actor is in
    coreClosed,\* the core is closed
    tasks,     \* tasks spawned on PC_RUNTIME that have not run
    inCore,    \* messages the core took, in its order
    count,     \* operations started, and callbacks
    bad,       \* connections whose handle was used after it was freed
    returned   \* history: connections whose close() has returned

vars == <<cfg, java, native, observers, driver, call, coreClosed, tasks, inCore, count, bad, returned>>

Spawning == {"send", "cand"}            \* operations that spawn a task
Ops      == Spawning \cup {"call"}      \* "call": any that blocks
Idle     == [at |-> "idle", op |-> "none", c |-> "none", n |-> 0, late |-> FALSE]
Addrs    == {"none", "port0", "fixed"}  \* listen addresses of a transport
NoConfig == [state |-> "none", udp |-> "port0", tcp |-> "none",
             range |-> FALSE, flags |-> {}, sets |-> 0]

Init ==
    /\ cfg = [c \in Conn |-> NoConfig]
    /\ java = [c \in Conn |-> "none"]
    /\ native = [c \in Conn |-> "none"]
    /\ observers = {}
    /\ driver = [c \in Conn |-> FALSE]
    /\ call = [a \in Actor |-> Idle]
    /\ coreClosed = [c \in Conn |-> FALSE]
    /\ tasks = {}
    /\ inCore = [c \in Conn |-> <<>>]
    /\ count = [c \in Conn |-> [call |-> 0, task |-> 0, cb |-> 0]]
    /\ bad = {} /\ returned = {}

-----------------------------------------------------------------------------
(* The configuration, which one thread builds and hands to create.         *)

Configure(c, new) ==
    /\ cfg[c].state = "open" /\ cfg[c].sets < MaxSets
    /\ \A t \in Thread : call[t].c # c
    /\ cfg' = [cfg EXCEPT ![c] = [new EXCEPT !.sets = @ + 1]]
    /\ UNCHANGED <<java, native, observers, driver, call, coreClosed, tasks, inCore, count, bad, returned>>

ConfigCreate(c) ==
    /\ cfg[c].state = "none"
    /\ cfg' = [cfg EXCEPT ![c].state = "open"]
    /\ UNCHANGED <<java, native, observers, driver, call, coreClosed, tasks, inCore, count, bad, returned>>

(* The default UDP address is used only when neither transport is given.   *)
SetTransport(c, u, t) ==
    Configure(c, [cfg[c] EXCEPT
        !.udp = IF u = "none" /\ t = "none" THEN "port0" ELSE u, !.tcp = t])

(* A range of two zeros is no range.                                       *)
SetPortRange(c, b) == Configure(c, [cfg[c] EXCEPT !.range = b])

SetAllocatorFlags(c, F) == Configure(c, [cfg[c] EXCEPT !.flags = F])

(* The rest, ICE servers, the codecs and the RTCP forwarder, is data only. *)
AddIceServer(c) == Configure(c, cfg[c])
SetOption(c) == Configure(c, cfg[c])

ConfigClose(c) ==
    /\ cfg[c].state = "open"
    /\ \A t \in Thread : call[t].c # c
    /\ cfg' = [cfg EXCEPT ![c] = [NoConfig EXCEPT !.state = "closed"]]
    /\ UNCHANGED <<java, native, observers, driver, call, coreClosed, tasks, inCore, count, bad, returned>>

(* A port range turns "host:0" into "host::port", which does not parse, so *)
(* that the bind fails; flags remove addresses after that.                 *)
Unbindable(k) ==
    /\ k.range
    /\ \/ k.udp = "port0" /\ "udp" \notin k.flags
       \/ k.tcp = "port0" /\ "tcp" \notin k.flags

-----------------------------------------------------------------------------
(* PeerConnection.create.                                                  *)

(* The observer is registered first: callbacks may come before create      *)
(* returns.                                                                *)
Create(t, c) ==
    /\ t \in Users[c] /\ call[t] = Idle
    /\ java[c] = "none" /\ cfg[c].state = "open"
    /\ \A u \in Thread : call[u].c # c
    /\ observers' = observers \cup {c}
    /\ call' = [call EXCEPT ![t] = [Idle EXCEPT !.at = "creating", !.c = c]]
    /\ UNCHANGED <<cfg, java, native, driver, coreClosed, tasks, inCore, count,
                   bad, returned>>

(* Sockets are bound, the driver is spawned and reports that it starts.    *)
Build(c) ==
    \/ /\ ~Unbindable(cfg[c])
       /\ native' = [native EXCEPT ![c] = "live"]
       /\ driver' = [driver EXCEPT ![c] = TRUE]
    \/ UNCHANGED <<native, driver>>

(* webrtc_ffi_peer_create: any failure gives a null handle.                *)
PeerCreate(t) ==
    /\ call[t].at = "creating"
    /\ call' = [call EXCEPT ![t].at = "built"]
    /\ Build(call[t].c)
    /\ UNCHANGED <<cfg, java, observers, coreClosed, tasks, inCore, count, bad,
                   returned>>

\* A plausible bug: the observer of a failed creation is kept.
CreateReturnKeep(t) ==
    LET c == call[t].c IN
    /\ call[t].at = "built"
    /\ cfg' = [cfg EXCEPT ![c] = [NoConfig EXCEPT !.state = "closed"]]
    /\ java' = [java EXCEPT ![c] = IF native[c] = "live" THEN "open" ELSE "failed"]
    /\ call' = [call EXCEPT ![t] = Idle]
    /\ UNCHANGED <<native, observers, driver, coreClosed, tasks, inCore, count,
                   bad, returned>>

(* The configuration is closed either way; without a handle the observer   *)
(* goes.                                                                   *)
CreateReturn(t) ==
    LET c == call[t].c IN
    /\ call[t].at = "built"
    /\ cfg' = [cfg EXCEPT ![c] = [NoConfig EXCEPT !.state = "closed"]]
    /\ \/ /\ native[c] = "live"
          /\ java' = [java EXCEPT ![c] = "open"]
          /\ UNCHANGED observers
       \/ /\ native[c] = "none"
          /\ java' = [java EXCEPT ![c] = "failed"]
          /\ observers' = observers \ {c}
    /\ call' = [call EXCEPT ![t] = Idle]
    /\ UNCHANGED <<native, driver, coreClosed, tasks, inCore, count, bad, returned>>

-----------------------------------------------------------------------------
(* Operations: check the flag, enter native code, return.                  *)

(* Where an actor is when it is in no call.                                *)
Rest(a) == IF a \in Thread THEN Idle ELSE [Idle EXCEPT !.at = "observer", !.c = a]

Kind(op) == IF op \in Spawning THEN "task" ELSE "call"
Limit(op) == IF op \in Spawning THEN MaxTasks ELSE MaxCalls

\* A plausible bug: an operation without checkClosed.
BeginUnchecked(a, c, op) ==
    /\ a \in Users[c] /\ call[a] = Rest(a) /\ (a \in Conn => op \in Spawning)
    /\ java[c] \in {"open", "closed"} /\ count[c][Kind(op)] < Limit(op)
    /\ count' = [count EXCEPT ![c][Kind(op)] = @ + 1]
    /\ call' = [call EXCEPT ![a] = [at |-> "checked", op |-> op, c |-> c,
                                    n |-> count'[c][Kind(op)], late |-> c \in returned]]
    /\ UNCHANGED <<cfg, java, native, observers, driver, coreClosed, tasks, inCore, bad, returned>>

(* checkClosed passes.  Callbacks use only the operations that do not      *)
(* block: tokio panics on a block_on within a runtime thread.              *)
Begin(a, c, op) ==
    /\ a \in Users[c] /\ call[a] = Rest(a) /\ (a \in Conn => op \in Spawning)
    /\ java[c] = "open" /\ count[c][Kind(op)] < Limit(op)
    /\ count' = [count EXCEPT ![c][Kind(op)] = @ + 1]
    /\ call' = [call EXCEPT ![a] = [at |-> "checked", op |-> op, c |-> c,
                                    n |-> count'[c][Kind(op)], late |-> c \in returned]]
    /\ UNCHANGED <<cfg, java, native, observers, driver, coreClosed, tasks, inCore, bad, returned>>

(* The handle is used.  Of a freed one only the fact is recorded.          *)
Use(c) == bad' = IF native[c] = "freed" THEN bad \cup {c} ELSE bad

(* addIceCandidate and the sends clone an Arc out of the Peer, spawn a     *)
(* task that owns it, and return 0.                                        *)
Spawn(a) ==
    LET k == [op |-> call[a].op, c |-> call[a].c, n |-> call[a].n] IN
    /\ call[a].at = "checked" /\ k.op \in Spawning
    /\ Use(k.c)
    /\ tasks' = IF native[k.c] = "live" THEN tasks \cup {k} ELSE tasks
    /\ call' = [call EXCEPT ![a] = Rest(a)]
    /\ UNCHANGED <<cfg, java, native, observers, driver, coreClosed, inCore,
                   count, returned>>

(* The other operations block on a future that borrows from the Peer, ...  *)
Enter(a) ==
    /\ call[a].at = "checked" /\ call[a].op \notin Spawning
    /\ Use(call[a].c)
    /\ call' = [call EXCEPT ![a].at = "inside"]
    /\ UNCHANGED <<cfg, java, native, observers, driver, coreClosed, tasks, inCore, count, returned>>

(* ... so that they use it until they return.                              *)
Finish(a) ==
    /\ call[a].at = "inside"
    /\ Use(call[a].c)
    /\ call' = [call EXCEPT ![a] = Rest(a)]
    /\ UNCHANGED <<cfg, java, native, observers, driver, coreClosed, tasks, inCore,
                   count, returned>>

\* A plausible bug: the task keeps the pointer instead of an Arc.
RunTaskByHandle(k) ==
    /\ k \in tasks
    /\ tasks' = tasks \ {k}
    /\ Use(k.c)
    /\ inCore' = IF k.op = "send" /\ ~coreClosed[k.c]
                 THEN [inCore EXCEPT ![k.c] = Append(@, k.n)] ELSE inCore
    /\ UNCHANGED <<cfg, java, native, observers, driver, call, coreClosed, count, returned>>

(* A spawned task runs on any worker, in any order.  Its error, such as    *)
(* that of a send on a closed connection, is dropped.                      *)
RunTask(k) ==
    /\ k \in tasks
    /\ tasks' = tasks \ {k}
    /\ inCore' = IF k.op = "send" /\ ~coreClosed[k.c]
                 THEN [inCore EXCEPT ![k.c] = Append(@, k.n)] ELSE inCore
    /\ UNCHANGED <<cfg, java, native, observers, driver, call, coreClosed, count, bad,
                   returned>>

-----------------------------------------------------------------------------
(* close().                                                                *)

(* The flag is read, native code takes the box back.                       *)
CloseBegin(t, c) ==
    /\ t \in Users[c] /\ call[t] = Idle
    /\ java[c] = "open"
    /\ call' = [call EXCEPT ![t] = [Idle EXCEPT !.at = "closing", !.c = c,
                                                !.late = c \in returned]]
    /\ UNCHANGED <<cfg, java, native, observers, driver, coreClosed, tasks, inCore, count, bad, returned>>

(* The core is closed, the driver told to stop and then aborted, which     *)
(* does not end a callback that is under way; the box is dropped.          *)
CloseCore(t) ==
    LET c == call[t].c IN
    /\ call[t].at = "closing" /\ ~coreClosed[c]
    /\ Use(c)
    /\ coreClosed' = [coreClosed EXCEPT ![c] = TRUE]
    /\ UNCHANGED <<cfg, java, native, observers, driver, call, tasks, inCore, count, returned>>

PeerClose(t) ==
    LET c == call[t].c IN
    /\ call[t].at = "closing" /\ coreClosed[c]
    /\ Use(c)
    /\ native' = [native EXCEPT ![c] = "freed"]
    /\ driver' = [driver EXCEPT ![c] = FALSE]
    /\ call' = [call EXCEPT ![t].at = "freed"]
    /\ UNCHANGED <<cfg, java, observers, coreClosed, tasks, inCore, count, returned>>

(* The observer goes, the flag is set last.                                *)
CloseReturn(t) ==
    LET c == call[t].c IN
    /\ call[t].at = "freed"
    /\ observers' = observers \ {c}
    /\ java' = [java EXCEPT ![c] = "closed"]
    /\ returned' = returned \cup {c}
    /\ call' = [call EXCEPT ![t] = Idle]
    /\ UNCHANGED <<cfg, native, driver, coreClosed, tasks, inCore, count, bad>>

-----------------------------------------------------------------------------
(* Callbacks.                                                              *)

(* The driver task calls an upcall stub with the observer id.              *)
Upcall(c) ==
    /\ driver[c] /\ call[c] = Idle /\ count[c].cb < MaxCb
    /\ count' = [count EXCEPT ![c].cb = @ + 1]
    /\ call' = [call EXCEPT ![c] = [Idle EXCEPT !.at = "upcall", !.c = c]]
    /\ UNCHANGED <<cfg, java, native, observers, driver, coreClosed, tasks, inCore, bad, returned>>

(* The stub looks the observer up and calls it, or does nothing.           *)
Lookup(c) ==
    /\ call[c].at = "upcall"
    /\ call' = [call EXCEPT ![c] =
                  IF c \in observers THEN [Rest(c) EXCEPT !.late = c \in returned]
                  ELSE Idle]
    /\ UNCHANGED <<cfg, java, native, observers, driver, coreClosed, tasks, inCore, count, bad, returned>>

UpcallReturn(c) ==
    /\ call[c] = Rest(c)
    /\ call' = [call EXCEPT ![c] = Idle]
    /\ UNCHANGED <<cfg, java, native, observers, driver, coreClosed, tasks, inCore, count, bad, returned>>

-----------------------------------------------------------------------------

Config(c) ==
    \/ ConfigCreate(c) \/ ConfigClose(c) \/ AddIceServer(c) \/ SetOption(c)
    \/ \E u, t \in Addrs : SetTransport(c, u, t)
    \/ \E b \in BOOLEAN : SetPortRange(c, b)
    \/ \E F \in SUBSET {"udp", "tcp"} : SetAllocatorFlags(c, F)

Step(a) ==
    \/ Spawn(a) \/ Enter(a) \/ Finish(a)
    \/ a \in Thread /\ (\/ PeerCreate(a) \/ CreateReturn(a)
                        \/ CloseCore(a) \/ PeerClose(a) \/ CloseReturn(a))
    \/ a \in Conn /\ (Lookup(a) \/ UpcallReturn(a))

Task == [op: Spawning, c: Conn, n: 1..MaxTasks]

Next ==
    \/ \E c \in Conn : Config(c) \/ Upcall(c)
    \/ \E t \in Thread, c \in Conn : Create(t, c) \/ CloseBegin(t, c)
    \/ \E a \in Actor, c \in Conn, op \in Ops : Begin(a, c, op)
    \/ \E a \in Actor : Step(a)
    \/ \E k \in Task : RunTask(k)

Spec == Init /\ [][Next]_vars

-----------------------------------------------------------------------------
(* Properties.                                                             *)

(* A connection that one thread uses, and whose callbacks call none of its *)
(* operations, never has its handle used after close() freed the Peer: not *)
(* by an operation, not by a second close, and not by a spawned task,      *)
(* which owns an Arc (lib.rs:1028, 1104) and may run long after.           *)
HandleLive ==
    \A c \in Conn : (Users[c] \subseteq Thread /\ \A t, u \in Users[c] : t = u)
                       => c \notin bad

(* Whoever uses it: an operation that starts after a close() has returned  *)
(* does not enter native code, and an upcall that looks its observer up    *)
(* after that finds none.  So a freed handle is used only by a call that   *)
(* overlaps the close().                                                   *)
ClosedMeansClosed == \A a \in Actor : ~call[a].late

(* OBSERVERS holds the observers of the open connections and no others,    *)
(* whenever no thread is in create or close of the connection: a failed    *)
(* creation and a close leave nothing behind.                              *)
ObserversMatch ==
    \A c \in Conn :
        (\A t \in Thread : call[t].c = c => call[t].at \in {"checked", "inside"})
           => (c \in observers <=> java[c] = "open")
=============================================================================
