------------------------------ MODULE IceAgent ------------------------------
(***************************************************************************)
(* The ICE agent of the core (rtc-ice): connectivity checks, nomination,   *)
(* role conflicts, consent, restarts.  Two agents exchange STUN messages   *)
(* over a network that loses, delays and reorders them; descriptions and   *)
(* candidates reach the other side by signalling, in any order.            *)
(*                                                                         *)
(* One tick of time is one check interval (200 ms); time is kept as ages.  *)
(* A transaction is identified by its request: two equal requests have one *)
(* identity.  Credentials are generation numbers.  A late answer (4 s) is  *)
(* a lost one.  The 487 error an agent sends in a role conflict is not in  *)
(* the network: handle_inbound drops error responses.                      *)
(***************************************************************************)
EXTENDS Integers, Sequences, FiniteSets, SequencesExt

CONSTANTS
    Workloads,     \* roles, restarts, losses: see MCIceAgent
    Addrs,         \* agent -> addresses of its sockets
    Pref,          \* address -> candidate priority, below 2^7 for 2^31
    PrflxPref,     \* priority of a peer-reflexive candidate
    PrflxWait,     \* prflx_acceptance_min_wait, in ticks
    Tie,           \* agent -> tie_breaker
    MaxBinding,    \* max_binding_requests
    Keepalive,     \* keepalive_interval
    Disconnect,    \* disconnected_timeout
    Fail           \* failed_timeout

VARIABLES
    work,    \* the workload, fixed
    ag,      \* the agents
    net,     \* messages under way
    late,    \* ticks that passed while something was under way
    losses,  \* messages lost
    cut,     \* the network is down
    round    \* restarts: how often and how far

vars == <<work, ag, net, late, losses, cut, round>>

Agents == {"a", "b"}
Peer(x) == IF x = "a" THEN "b" ELSE "a"
Owner(addr) == CHOOSE x \in Agents : addr \in Addrs[x]

NoPair == [l |-> "none", i |-> 0]
Most == Disconnect + Fail + 1
Older(n, cap) == IF n < cap THEN n + 1 ELSE n

NewAgent(x, gathered) ==
    [st |-> "New", last |-> "Unspecified", ctl |-> FALSE, gen |-> 1, rgen |-> 0,
     loc |-> gathered, rem |-> <<>>, pairs |-> [k \in {} |-> NoPair],
     nom |-> NoPair, sel |-> NoPair, pend |-> {}, force |-> FALSE,
     age |-> 1, chk |-> 0, since |-> 0, consent |-> Keepalive, tx |-> {}]

(***************************************************************************)
(* Candidates and pairs.  A pair is a local address and the index of a     *)
(* remote candidate.                                                       *)
(***************************************************************************)
add_pair(r, k) ==
    IF k \in DOMAIN r.pairs THEN r
    ELSE [r EXCEPT !.pairs = [q \in DOMAIN @ \cup {k} |->
                                IF q = k THEN [st |-> "Waiting", n |-> 0, ctl |-> r.ctl] ELSE @[q]]]

add_local_candidate(r, addr) ==
    LET r1 == [r EXCEPT !.loc = @ \cup {addr}, !.force = TRUE]
    IN FoldLeft(LAMBDA x, i : add_pair(x, [l |-> addr, i |-> i]), r1, [i \in DOMAIN r.rem |-> i])

add_remote_candidate(r, addr, typ) ==
    LET i == Len(r.rem) + 1
        r1 == [r EXCEPT !.rem = Append(@, [addr |-> addr, typ |-> typ, rx |-> 0]), !.force = TRUE]
    IN IF \E j \in DOMAIN r.rem : r.rem[j].addr = addr /\ r.rem[j].typ = typ THEN r
       ELSE FoldSet(LAMBDA l, x : add_pair(x, [l |-> l, i |-> i]), r1, r.loc)

delete_all_candidates(r, keep) ==
    [r EXCEPT !.loc = IF keep THEN @ ELSE {}, !.rem = <<>>,
              !.pairs = [k \in {} |-> NoPair], !.sel = NoPair, !.nom = NoPair]

\* The first with the address: a signalled candidate may follow the
\* peer-reflexive one that was found before it.
find_remote_candidate(r, addr) ==
    LET I == {i \in DOMAIN r.rem : r.rem[i].addr = addr}
    IN IF I = {} THEN 0 ELSE Min(I)

RemotePref(c) == IF c.typ = "prflx" THEN PrflxPref ELSE Pref[c.addr]
priority(r, k) ==
    LET own == Pref[k.l]
        other == RemotePref(r.rem[k.i])
        g == IF r.pairs[k].ctl THEN own ELSE other
        d == IF r.pairs[k].ctl THEN other ELSE own
    IN (2^8 - 1) * Min({g, d}) + 2 * Max({g, d}) + IF g > d THEN 1 ELSE 0

Best(r, K) == CHOOSE k \in K : \A q \in K : priority(r, q) <= priority(r, k)
Valid(r) == {k \in DOMAIN r.pairs : r.pairs[k].st = "Succeeded"}
Available(r) == {k \in DOMAIN r.pairs : r.pairs[k].st # "Failed"}

is_nominatable(r, k) == r.rem[k.i].typ = "prflx" => r.since > PrflxWait

(***************************************************************************)
(* State changes and requests.                                             *)
(***************************************************************************)
update_connection_state(r, st) ==
    [(IF st = "Failed" /\ r.st # st THEN delete_all_candidates(r, FALSE) ELSE r) EXCEPT !.st = st]

set_selected_pair(r, k) == update_connection_state([r EXCEPT !.sel = k], "Connected")

send_binding_request(r, k, use) ==
    LET m == [k |-> "req", src |-> k.l, dst |-> r.rem[k.i].addr, use |-> use,
              ctl |-> r.ctl, to |-> r.rgen, from |-> r.gen]
    IN IF r.rgen = 0 THEN r ELSE [r EXCEPT !.pend = @ \cup {m}, !.tx = @ \cup {m}]

ping_candidate(r, k) == send_binding_request(r, k, FALSE)
nominate_pair(r) == send_binding_request(r, r.nom, TRUE)
send_binding_success(r, m) == [r EXCEPT !.tx = @ \cup {[k |-> "ok", req |-> m, key |-> r.gen]}]

switch_role(r) ==
    [r EXCEPT !.ctl = ~@, !.nom = NoPair, !.pairs = [k \in DOMAIN @ |-> [@[k] EXCEPT !.ctl = ~r.ctl]]]

ping_all_candidates(r) ==
    LET live == {k \in DOMAIN r.pairs : r.pairs[k].st \in {"Waiting", "InProgress"}}
        over == {k \in live : r.pairs[k].n > MaxBinding}
        r1 == [r EXCEPT !.pairs = [k \in DOMAIN @ |->
                  IF k \in over THEN [@[k] EXCEPT !.st = "Failed"]
                  ELSE IF k \in live THEN [@[k] EXCEPT !.st = "InProgress", !.n = @ + 1] ELSE @[k]]]
    IN FoldSet(LAMBDA k, x : ping_candidate(x, k), r1, live \ over)

\* Consent that ran out is never more than a disconnection.
validate_selected_pairPatient(r) ==
    LET quiet == r.rem[r.sel.i].rx
    IN IF quiet > Disconnect THEN update_connection_state(r, "Disconnected")
       ELSE update_connection_state(r, "Connected")

validate_selected_pair(r) ==
    LET quiet == r.rem[r.sel.i].rx
    IN IF quiet > Disconnect + Fail THEN update_connection_state(r, "Failed")
       ELSE IF quiet > Disconnect THEN update_connection_state(r, "Disconnected")
       ELSE update_connection_state(r, "Connected")

check_keepalive(r) ==
    IF r.sel = NoPair \/ r.consent < Keepalive THEN r
    ELSE ping_candidate([r EXCEPT !.consent = 0], r.sel)

contact_candidates(r, lite) ==
    LET best == Best(r, Valid(r))
        r1 == [r EXCEPT !.nom = best]
    IN IF lite /\ ~r.ctl THEN IF r.sel = NoPair THEN r ELSE validate_selected_pair(r)
       ELSE IF r.sel # NoPair THEN check_keepalive(validate_selected_pair(r))
       ELSE IF ~r.ctl THEN ping_all_candidates(r)
       ELSE IF r.nom # NoPair THEN nominate_pair(r)
       ELSE IF Valid(r) # {} /\ is_nominatable(r, best) THEN nominate_pair(r1)
       ELSE ping_all_candidates(r)

contact(r0, lite) ==
    LET r == [r0 EXCEPT !.force = FALSE]
        fresh == r.st = "Checking" /\ r.last # "Checking"
        r1 == IF fresh THEN [r EXCEPT !.chk = 0] ELSE r
        r2 == update_connection_state(r1, "Failed")
        r3 == contact_candidates(r1, lite)
    IN IF r.st = "Failed" THEN [r EXCEPT !.last = r.st]
       ELSE IF r.st = "Checking" /\ r1.chk > Disconnect + Fail THEN [r2 EXCEPT !.last = r2.st]
       ELSE [r3 EXCEPT !.last = r3.st, !.age = 0]

(***************************************************************************)
(* Messages.                                                               *)
(***************************************************************************)
\* Any check of a valid pair selects it.
handle_binding_requestAnyUse(r, m, k) ==
    LET p == r.pairs[k]
        ok == send_binding_success(r, m)
    IN IF r.ctl
       THEN IF /\ p.st = "Succeeded" /\ r.nom = NoPair /\ r.sel = NoPair
               /\ Best(r, Available(r)) = k /\ is_nominatable(r, k)
            THEN nominate_pair([ok EXCEPT !.nom = k]) ELSE ok
       ELSE IF p.st # "Succeeded" THEN ping_candidate(r, k)
       ELSE IF r.sel = NoPair THEN set_selected_pair(ok, k) ELSE ok

handle_binding_request(r, m, k) ==
    LET p == r.pairs[k]
        ok == send_binding_success(r, m)
    IN IF r.ctl
       THEN IF /\ p.st = "Succeeded" /\ r.nom = NoPair /\ r.sel = NoPair
               /\ Best(r, Available(r)) = k /\ is_nominatable(r, k)
            THEN nominate_pair([ok EXCEPT !.nom = k]) ELSE ok
       ELSE IF ~m.use THEN ping_candidate(ok, k)
       ELSE IF p.st # "Succeeded" THEN ping_candidate(r, k)
       ELSE IF r.sel = NoPair THEN set_selected_pair(ok, k) ELSE ok

handle_success_response(r, m, k) ==
    LET r1 == [r EXCEPT !.pend = @ \ {m}, !.pairs[k].st = "Succeeded"]
    IN IF m \notin r.pend THEN r
       ELSE IF r.ctl /\ m.use /\ r.sel = NoPair THEN set_selected_pair(r1, k) ELSE r1

\* Both sides of a role conflict give way.
handle_requestPolite(x, r, m) ==
    LET r1 == IF m.ctl = r.ctl THEN switch_role(r) ELSE r
        r2 == IF find_remote_candidate(r1, m.src) = 0
              THEN add_remote_candidate(r1, m.src, "prflx") ELSE r1
        i == find_remote_candidate(r2, m.src)
        k == [l |-> m.dst, i |-> i]
    IN IF r1.rgen = 0 \/ m.to # r.gen \/ m.from # r.rgen THEN r1
       ELSE [handle_binding_request(add_pair(r2, k), m, k) EXCEPT !.rem[i].rx = 0]

\* Role conflicts are settled before the credentials are looked at.
handle_request(x, r, m) ==
    LET lose == IF r.ctl THEN Tie[x] < Tie[Peer(x)] ELSE Tie[x] > Tie[Peer(x)]
        r1 == IF m.ctl = r.ctl /\ lose THEN switch_role(r) ELSE r
        r2 == IF find_remote_candidate(r1, m.src) = 0
              THEN add_remote_candidate(r1, m.src, "prflx") ELSE r1
        i == find_remote_candidate(r2, m.src)
        k == [l |-> m.dst, i |-> i]
    IN IF r1.rgen = 0 \/ m.to # r.gen \/ m.from # r.rgen THEN r1
       ELSE [handle_binding_request(add_pair(r2, k), m, k) EXCEPT !.rem[i].rx = 0]

handle_response(r, p) ==
    LET i == find_remote_candidate(r, p.req.dst)
        k == [l |-> p.req.src, i |-> i]
    IN IF r.rgen = 0 \/ p.key # r.rgen \/ i = 0 THEN r
       ELSE [handle_success_response(r, p.req, k) EXCEPT !.rem[i].rx = 0]

handle_inbound(x, r, p) ==
    LET l == IF p.k = "req" THEN p.dst ELSE p.req.src
    IN IF l \notin r.loc THEN r
       ELSE IF p.k = "req" THEN handle_request(x, r, p) ELSE handle_response(r, p)

restart(r) ==
    LET r1 == [delete_all_candidates(r, TRUE) EXCEPT !.gen = @ + 1, !.rgen = 0, !.pend = {}]
        r2 == IF r.ctl THEN [r1 EXCEPT !.since = 0] ELSE r1
    IN update_connection_state(r2, "Checking")

close(r) == update_connection_state(delete_all_candidates(r, FALSE), "Closed")

(***************************************************************************)
(* Actions.                                                                *)
(***************************************************************************)
Init ==
    /\ work \in Workloads
    /\ ag = [x \in Agents |-> NewAgent(x, Addrs[x] \cap work.first)]
    /\ net = {}
    /\ late = 0
    /\ losses = 0
    /\ cut = FALSE
    /\ round = 0

\* The agent's new state; what it has sent goes to the network.
Becomes(x, r, N) ==
    /\ ag' = [ag EXCEPT ![x] = [r EXCEPT !.tx = {}]]
    /\ net' = IF cut THEN {} ELSE N \cup r.tx

Running(x) == ag[x].st \notin {"Failed", "Closed"}

CanLocal(x, addr) == Running(x) /\ addr \in work.trickle \ ag[x].loc
AddLocal(x, addr) ==
    /\ CanLocal(x, addr)
    /\ Becomes(x, add_local_candidate(ag[x], addr), net)
    /\ UNCHANGED <<work, late, losses, cut, round>>

\* A candidate reaches the other side after the description.
CanSignal(x, addr) ==
    /\ Running(x) /\ ag[x].rgen = ag[Peer(x)].gen /\ addr \in ag[Peer(x)].loc
    /\ \A j \in DOMAIN ag[x].rem : ag[x].rem[j] # [addr |-> addr, typ |-> "host", rx |-> ag[x].rem[j].rx]
Signal(x, addr) ==
    /\ CanSignal(x, addr)
    /\ Becomes(x, add_remote_candidate(ag[x], addr, "host"), net)
    /\ UNCHANGED <<work, late, losses, cut, round>>

\* The candidates a description carries.
WithCandidates(r, D) == FoldSet(LAMBDA addr, x : add_remote_candidate(x, addr, "host"), r, D)

\* start_connectivity_checks, by the answerer when it has made the answer, by
\* the offerer when the answer has arrived.
CanStart(x) == ag[x].st = "New" /\ (x = "a" => ag["b"].st # "New")
Start(x) ==
    /\ CanStart(x)
    /\ LET r == [WithCandidates(ag[x], ag[Peer(x)].loc) EXCEPT !.rgen = ag[Peer(x)].gen, !.ctl = work.ctl[x], !.force = TRUE]
       IN Becomes(x, update_connection_state(IF r.ctl THEN [r EXCEPT !.since = 0] ELSE r, "Checking"), net)
    /\ UNCHANGED <<work, late, losses, cut, round>>

\* createOffer with iceRestart.
RestartOffer(x) ==
    /\ work.restart = x /\ round = 0
    /\ \A y \in Agents : ag[y].rgen # 0 /\ ag[y].st # "Closed"
    /\ Becomes(x, restart(ag[x]), net)
    /\ round' = 1
    /\ UNCHANGED <<work, late, losses, cut>>

\* setRemoteDescription with the offer: new credentials restart this side too.
CanAnswer(x) == work.restart = Peer(x) /\ round = 1 /\ ag[x].st # "Closed"
RestartAnswer(x) ==
    /\ CanAnswer(x)
    /\ Becomes(x, WithCandidates([restart(ag[x]) EXCEPT !.rgen = ag[Peer(x)].gen], ag[Peer(x)].loc), net)
    /\ round' = 2
    /\ UNCHANGED <<work, late, losses, cut>>

\* setRemoteDescription with the answer.
CanFinish(x) == work.restart = x /\ round = 2 /\ ag[x].st # "Closed"
RestartDone(x) ==
    /\ CanFinish(x)
    /\ Becomes(x, WithCandidates([ag[x] EXCEPT !.rgen = ag[Peer(x)].gen], ag[Peer(x)].loc), net)
    /\ round' = 3
    /\ UNCHANGED <<work, late, losses, cut>>

To(p) == Owner(IF p.k = "req" THEN p.dst ELSE p.req.src)

Deliver(p) ==
    /\ p \in net
    /\ Becomes(To(p), handle_inbound(To(p), ag[To(p)], p), net \ {p})
    /\ UNCHANGED <<work, late, losses, cut, round>>

Lose(p) ==
    /\ p \in net
    /\ losses < work.loss
    /\ net' = net \ {p}
    /\ losses' = losses + 1
    /\ UNCHANGED <<work, ag, late, cut, round>>

\* The network goes down for good.
Cut ==
    /\ work.cut /\ ~cut
    /\ \A x \in Agents : ag[x].sel # NoPair
    /\ cut' = TRUE
    /\ net' = {}
    /\ UNCHANGED <<work, ag, late, losses, round>>

\* poll_timeout has come.
Overdue(r) == r.st # "Closed" /\ r.rgen # 0 /\ (r.force \/ r.age >= 1)
Due(x) == Overdue(ag[x])

Stirs(x) == contact(ag[x], work.lite = x) # ag[x]
handle_timeout(x) ==
    /\ Due(x)
    /\ Becomes(x, contact(ag[x], work.lite = x), net)
    /\ UNCHANGED <<work, late, losses, cut, round>>

Aged ==
    [x \in Agents |->
       [ag[x] EXCEPT !.age = 1, !.chk = Older(@, Most), !.since = Older(@, PrflxWait + 1),
                     !.consent = Older(@, Keepalive),
                     !.rem = [i \in DOMAIN @ |-> [@[i] EXCEPT !.rx = Older(@, Most)]]]]

\* Something is on its way: a message, a description, a candidate.
UnderWay ==
    \/ net # {}
    \/ \E x \in Agents : \/ CanStart(x) \/ CanAnswer(x) \/ CanFinish(x)
                        \/ \E addr \in Addrs[x] : CanLocal(x, addr)

\* A timeout that is due is handled within the tick, but a failed agent is due
\* all the time.  What is on its way arrives within the tick, with exceptions.
CanTick ==
    /\ \A x \in Agents : Due(x) => ag[x].st = "Failed"
    /\ UnderWay => late < work.late
    /\ Aged # ag
Tick ==
    /\ CanTick
    /\ ag' = Aged
    /\ late' = IF UnderWay THEN late + 1 ELSE late
    /\ UNCHANGED <<work, net, losses, cut, round>>

Close(x) ==
    /\ work.close = x /\ ag[x].st # "Closed" /\ ag[x].sel # NoPair
    /\ Becomes(x, close(ag[x]), net)
    /\ UNCHANGED <<work, late, losses, cut, round>>

Next ==
    \/ \E x \in Agents : \E addr \in Addrs[x] : AddLocal(x, addr)
    \/ \E x \in Agents : \E addr \in Addrs[Peer(x)] : Signal(x, addr)
    \/ \E x \in Agents : Start(x) \/ RestartOffer(x) \/ RestartAnswer(x) \/ RestartDone(x)
    \/ \E p \in net : Deliver(p)
    \/ \E p \in net : Lose(p)
    \/ \E x \in Agents : handle_timeout(x) \/ Close(x)
    \/ Tick
    \/ Cut

\* Weak fairness, with the guards written out: the drivers answer timeouts and
\* messages, time passes, signalling goes on.  Nothing makes the network fail.
Fairness ==
    /\ \A x \in Agents : []<>~(Due(x) /\ Stirs(x)) \/ []<><<handle_timeout(x)>>_vars
    /\ []<>(net = {}) \/ []<><<\E p \in net : Deliver(p)>>_vars
    /\ []<>~CanTick \/ []<><<Tick>>_vars
    /\ \A x \in Agents : \A addr \in Addrs[x] : []<>~CanLocal(x, addr) \/ []<><<AddLocal(x, addr)>>_vars
    /\ \A x \in Agents : []<>~CanStart(x) \/ []<><<Start(x)>>_vars
    /\ \A x \in Agents : []<>~CanAnswer(x) \/ []<><<RestartAnswer(x)>>_vars
    /\ \A x \in Agents : []<>~CanFinish(x) \/ []<><<RestartDone(x)>>_vars

Spec == Init /\ [][Next]_vars /\ Fairness

(***************************************************************************)
(* Properties.                                                             *)
(***************************************************************************)
Path(x) == LET r == ag[x] IN {r.sel.l, r.rem[r.sel.i].addr}

\* What is selected or nominated exists and a check of it has succeeded; an
\* agent is connected or disconnected exactly while it has a selected pair.
SelectedValid ==
    \A x \in Agents :
      LET r == ag[x]
      IN /\ \A k \in {r.sel, r.nom} \ {NoPair} : k \in Valid(r) /\ k.l \in r.loc /\ k.i \in DOMAIN r.rem
         /\ (r.st \in {"Connected", "Disconnected"}) = (r.sel # NoPair)

\* When both agents have selected a pair in the same generation it is the same
\* path, seen from its two ends, unless they had to settle a role conflict; and
\* it is one a check has succeeded on, as above.
Agree ==
    /\ SelectedValid
    /\ (\A x \in Agents : ag[x].sel # NoPair /\ ag[x].rgen = ag[Peer(x)].gen) /\ work.ctl["a"] # work.ctl["b"]
          => Path("a") = Path("b")

Undisturbed == ~work.cut /\ work.close = "none"

\* With few losses both agents connect in the end and stay connected: whoever
\* was to be controlling, with candidates found by a check before they were
\* signalled, and across a restart at any time; two that start in the same role
\* end in different ones.
Connects ==
    Undisturbed =>
        <>[]((\A x \in Agents : ag[x].st = "Connected") /\ ag["a"].ctl # ag["b"].ctl)

\* When the network goes down, or the other side goes away, an agent notices.
LossNoticed ==
    \A x \in Agents : (cut \/ ag[Peer(x)].st = "Closed") ~> ag[x].st \in {"Failed", "Closed"}
=============================================================================
