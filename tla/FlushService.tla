---------------------------- MODULE FlushService ----------------------------
(***************************************************************************)
(* What a running peer connection promises the tasks that write to it and  *)
(* the owner that shuts it down, without the gate, the channel or the      *)
(* loop: written data leaves in one flush, a requested stop happens, and a *)
(* stopped connection stays stopped. Driver implements it.                 *)
(***************************************************************************)
CONSTANT Sender

VARIABLES
    pending,        \* tasks with data not yet handed to a socket
    stopRequested,  \* close() or Drop has asked for the end
    alive           \* the event loop is running

vars == <<pending, stopRequested, alive>>

Init == pending = {} /\ stopRequested = FALSE /\ alive = TRUE

Write(s) == pending' = pending \cup {s} /\ UNCHANGED <<stopRequested, alive>>

Flush == alive /\ pending # {} /\ pending' = {} /\ UNCHANGED <<stopRequested, alive>>

RequestStop == stopRequested' = TRUE /\ UNCHANGED <<pending, alive>>

Stop == alive /\ alive' = FALSE /\ UNCHANGED <<pending, stopRequested>>

Next == (\E s \in Sender : Write(s)) \/ Flush \/ RequestStop \/ Stop

Spec ==
    /\ Init /\ [][Next]_vars
    /\ WF_vars(Flush)
    /\ WF_vars(stopRequested /\ Stop)
=============================================================================
