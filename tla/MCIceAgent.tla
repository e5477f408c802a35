----------------------------- MODULE MCIceAgent -----------------------------
EXTENDS IceAgent

MCAddrs == [x \in {"a", "b"} |-> IF x = "a" THEN {"a1", "a2"} ELSE {"b1"}]
MCPref == [d \in {"a1", "a2", "b1"} |-> IF d = "a1" THEN 5 ELSE IF d = "a2" THEN 4 ELSE 6]
MCTie == [x \in {"a", "b"} |-> IF x = "a" THEN 1 ELSE 2]

W(ca, cb, fs, tr, lt, re, cl, ct, ls, la) ==
    [ctl |-> [x \in {"a", "b"} |-> IF x = "a" THEN ca ELSE cb], first |-> fs, trickle |-> tr,
     lite |-> lt, restart |-> re, close |-> cl, cut |-> ct, loss |-> ls, late |-> la]

\* In this order: a delay; two paths and a loss; both controlling; both
\* controlled; a restart from either side; a lite agent; trickled candidates,
\* which a check may announce first; a cut; a close, of a lite agent too.
MCWorkloads ==
    { W(TRUE, FALSE, {"a1", "b1"}, {}, "none", "none", "none", FALSE, 0, 1),
      W(TRUE, FALSE, {"a1", "a2", "b1"}, {}, "none", "none", "none", FALSE, 1, 0),
      W(TRUE, TRUE, {"a1", "b1"}, {}, "none", "none", "none", FALSE, 1, 0),
      W(FALSE, FALSE, {"a1", "b1"}, {}, "none", "none", "none", FALSE, 1, 0),
      W(TRUE, FALSE, {"a1", "b1"}, {}, "none", "a", "none", FALSE, 1, 0),
      W(TRUE, FALSE, {"a1", "b1"}, {}, "none", "b", "none", FALSE, 0, 0),
      W(TRUE, FALSE, {"a1", "b1"}, {}, "b", "none", "none", FALSE, 1, 0),
      W(TRUE, FALSE, {"b1"}, {"a1"}, "none", "none", "none", FALSE, 0, 0),
      W(TRUE, FALSE, {"a1"}, {"b1"}, "none", "none", "none", FALSE, 1, 0),
      W(TRUE, FALSE, {"a1", "b1"}, {}, "none", "none", "none", TRUE, 0, 0),
      W(TRUE, FALSE, {"a1", "b1"}, {}, "none", "none", "a", FALSE, 0, 0),
      W(TRUE, FALSE, {"a1", "b1"}, {}, "b", "none", "b", FALSE, 0, 0) }
=============================================================================
