------------------------------- MODULE MCSctp -------------------------------
EXTENDS Sctp

MCInitTsn == [c |-> 1, s |-> 1]

W(sc, ss, dc, ds, neg, un, lim, cl, ls, er) ==
    [script |-> [p \in Peers |-> IF p = "c" THEN sc ELSE ss],
     dial |-> [p \in Peers |-> IF p = "c" THEN dc ELSE ds],
     neg |-> neg, un |-> un, lim |-> [s \in Streams |-> IF s = 1 THEN lim ELSE -1],
     closes |-> [p \in Peers |-> IF p = "c" THEN cl ELSE {}],
     loss |-> ls, early |-> er]

M(s, n) == [s |-> s, n |-> n]

MCWorkloads == {
    W(<<M(1, 2), M(1, 1)>>, <<>>, {}, {}, {1}, {}, -1, {}, 2, 0),
    W(<<M(1, 2)>>, <<>>, {}, {}, {1}, {}, -1, {}, 1, 1),
    W(<<M(1, 1), M(1, 1), M(1, 1), M(1, 1)>>, <<>>, {}, {}, {1}, {}, -1, {}, 1, 0),
    W(<<M(1, 1)>>, <<M(1, 1)>>, {1}, {}, {}, {}, -1, {}, 1, 0),
    W(<<M(1, 1)>>, <<>>, {}, {1}, {}, {}, -1, {}, 1, 0),
    W(<<M(1, 2), M(1, 1)>>, <<>>, {}, {}, {1, 2}, {}, 1, {}, 1, 0),
    W(<<M(1, 2), M(1, 1)>>, <<>>, {}, {}, {1}, {1}, 1, {}, 1, 0),
    W(<<M(1, 1), M(1, 1)>>, <<>>, {}, {}, {1}, {}, -1, {1}, 1, 0) }
=============================================================================
