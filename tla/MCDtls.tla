------------------------------- MODULE MCDtls -------------------------------
EXTENDS Dtls

W(cut, loss, dup, early, dc, ds) ==
    [cut |-> cut, loss |-> loss, dup |-> dup, early |-> early,
     data |-> [s \in {"client", "server"} |-> IF s = "client" THEN dc ELSE ds]]

\* Long flights in one datagram or cut in two, losses, early timers; the same
\* with a repeated datagram; data written before and after completion.
MCWorkloads ==
    { W(cut, 2, 0, 1, 0, 0) : cut \in {0, 4} } \cup { W(2, 1, 1, 1, 0, 0) } \cup
    { W(0, 0, 2, 0, 1, 2), W(4, 1, 1, 0, 1, 1) }
=============================================================================
