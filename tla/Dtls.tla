-------------------------------- MODULE Dtls --------------------------------
(***************************************************************************)
(* The DTLS handshake of the core (rtc-dtls): flights, handshake cache,    *)
(* epochs, records that arrive too early, retransmission, application data *)
(* before and after completion.  A client and a server exchange datagrams  *)
(* that are lost, duplicated and reordered.                                *)
(*                                                                         *)
(* A message is its type, sender, epoch, sequence number and what it says  *)
(* (a cookie, a transcript).  Keys are the transcript they are derived     *)
(* from.  Messages are not cut into fragments.  The configuration is the   *)
(* one DTLSTransport makes: certificates on both sides, a client           *)
(* certificate required, no pre-shared key.                                *)
(***************************************************************************)
EXTENDS Integers, Sequences, FiniteSets, SequencesExt

CONSTANTS
    MaxRetransmit,   \* maximum_retransmit_number
    Workloads        \* datagram cut, losses, duplicates, early timeouts, data: see MCDtls

VARIABLES
    work,     \* the workload, fixed
    conn,     \* "client", "server" -> the connection
    net,      \* datagrams under way
    spent,    \* losses, duplicates, early timeouts and writes so far
    last6     \* a datagram with the server's Finished was lost

vars == <<work, conn, net, spent, last6>>

Sides == {"client", "server"}
Other(s) == IF s = "client" THEN "server" ELSE "client"

(***************************************************************************)
(* HandshakeCache.  A rule asks for the latest message of a type.          *)
(***************************************************************************)
Rule(typ, from, epoch, optional) ==
    [typ |-> typ, from |-> from, epoch |-> epoch, optional |-> optional]

Matches(cache, r) ==
    {m \in cache : m.typ = r.typ /\ m.from = r.from /\ m.epoch = r.epoch}

Latest(cache, r) ==
    CHOOSE m \in Matches(cache, r) : \A o \in Matches(cache, r) : o.seq <= m.seq

push(cache, m) ==
    IF \E c \in cache : c.seq = m.seq /\ c.from = m.from THEN cache ELSE cache \cup {m}

full_pull_map(cache, start, rules) ==
    LET found == SelectSeq(rules, LAMBDA r : Matches(cache, r) # {})
    IN [ok |-> /\ \A i \in DOMAIN rules : rules[i].optional \/ Matches(cache, rules[i]) # {}
               /\ \A i \in DOMAIN found : Latest(cache, found[i]).seq = start + i - 1,
        seq |-> start + Len(found),
        msgs |-> {Latest(cache, found[i]) : i \in DOMAIN found}]

Has(pulled, typ) == \E m \in pulled.msgs : m.typ = typ

pull_and_merge(cache, rules) ==
    LET found == SelectSeq(rules, LAMBDA r : Matches(cache, r) # {})
    IN [i \in DOMAIN found |-> <<found[i].typ, found[i].from, Latest(cache, found[i]).seq>>]

HashedRules ==
    << Rule("ClientHello", "client", 0, FALSE), Rule("ServerHello", "server", 0, FALSE),
       Rule("Certificate", "server", 0, FALSE), Rule("ServerKeyExchange", "server", 0, FALSE),
       Rule("CertificateRequest", "server", 0, FALSE), Rule("ServerHelloDone", "server", 0, FALSE),
       Rule("Certificate", "client", 0, FALSE), Rule("ClientKeyExchange", "client", 0, FALSE) >>

session_hash(cache) == pull_and_merge(cache, HashedRules)

VerifyRules ==
    HashedRules \o << Rule("CertificateVerify", "client", 0, FALSE),
                      Rule("Finished", "client", 1, FALSE) >>

(***************************************************************************)
(* Connections and flights.                                                *)
(***************************************************************************)
NewConn(s) ==
    [side |-> s, up |-> FALSE, flight |-> IF s = "client" THEN 1 ELSE 0, st |-> "Preparing",
     timer |-> FALSE, count |-> 0, rx |-> FALSE, recvSeq |-> 0, sendSeq |-> 0, cookie |-> <<>>,
     localEpoch |-> 0, remoteEpoch |-> 0, key |-> <<>>, cache |-> {}, frag |-> {}, next |-> 0,
     flights |-> <<>>, out |-> <<>>, sent |-> <<0, 0>>, queued |-> <<>>, early |-> <<>>,
     seen |-> {}, decrypted |-> <<>>, got |-> <<>>, done |-> FALSE, failed |-> FALSE,
     deaf |-> FALSE]

Handshake(typ, epoch, says) ==
    [kind |-> "handshake", typ |-> typ, epoch |-> epoch, says |-> says]
ChangeCipherSpec == [kind |-> "ccs", typ |-> "", epoch |-> 0, says |-> <<>>]

\* The messages of a packet list with the sequence numbers they get.
Numbered(c, pkts) ==
    LET before(i) == Cardinality({j \in 1..i - 1 : pkts[j].kind = "handshake"})
    IN [i \in DOMAIN pkts |-> [kind |-> pkts[i].kind, typ |-> pkts[i].typ, epoch |-> pkts[i].epoch,
                               says |-> pkts[i].says, from |-> c.side,
                               seq |-> IF pkts[i].kind = "handshake" THEN c.sendSeq + before(i) ELSE 0]]

Messages(pkts) == {p \in ToSet(pkts) : p.kind = "handshake"}

\* Flights 4, 5 and 6 with their order; verify data and signatures are the
\* transcripts they are computed from.
Flight4 ==
    << Handshake("ServerHello", 0, <<>>), Handshake("Certificate", 0, <<>>),
       Handshake("ServerKeyExchange", 0, <<>>), Handshake("CertificateRequest", 0, <<>>),
       Handshake("ServerHelloDone", 0, <<>>) >>

Flight5(c) ==
    LET own == <<Handshake("Certificate", 0, <<>>), Handshake("ClientKeyExchange", 0, <<>>)>>
        with(pkts) == c.cache \cup Messages(Numbered(c, pkts))
        signed == Append(own, Handshake("CertificateVerify", 0, session_hash(with(own))))
    IN signed \o << ChangeCipherSpec,
                    Handshake("Finished", 1, pull_and_merge(with(signed), VerifyRules)) >>

Flight6(c) == << ChangeCipherSpec, Handshake("Finished", 1, pull_and_merge(c.cache, VerifyRules)) >>

\* generate of each flight; flight 5 also initializes the cipher suite.
generate(c) ==
    CASE c.flight = 0 -> <<>>
      [] c.flight = 1 -> <<Handshake("ClientHello", 0, <<>>)>>
      [] c.flight = 2 -> <<Handshake("HelloVerifyRequest", 0, <<"cookie">>)>>
      [] c.flight = 3 -> <<Handshake("ClientHello", 0, c.cookie)>>
      [] c.flight = 4 -> Flight4
      [] c.flight = 5 -> Flight5(c)
      [] c.flight = 6 -> Flight6(c)

has_retransmit(flight) == flight # 2
is_last_send_flight(flight) == flight = 6
is_last_recv_flight(flight) == flight = 5

initalize_cipher_suite(c, pkts) ==
    IF c.flight = 5 /\ c.key = <<>>
    THEN [c EXCEPT !.key = session_hash(c.cache \cup Messages(pkts))] ELSE c

Prepared(c, pkts) ==
    [initalize_cipher_suite(c, pkts) EXCEPT
       !.st = "Sending", !.count = 0, !.flights = pkts,
       !.sendSeq = @ + Cardinality(Messages(pkts)),
       !.localEpoch = IF \E p \in ToSet(pkts) : p.epoch = 1 THEN 1 ELSE @]

Generated(c) == Prepared(c, Numbered(c, generate(c)))

prepare(c) == Generated(IF c.flight = 2 THEN [c EXCEPT !.sendSeq = 0] ELSE c)

send(c) ==
    LET c1 == [c EXCEPT !.out = @ \o c.flights]
    IN IF is_last_send_flight(c.flight) THEN [c1 EXCEPT !.st = "Finished"]
       ELSE [c1 EXCEPT !.timer = TRUE, !.st = "Waiting"]

(***************************************************************************)
(* parse of each flight: what was pulled decides the next flight, or more  *)
(* must be read, or the handshake fails with an alert.                     *)
(***************************************************************************)
Advance(c, flight) == [verdict |-> "next", c |-> [c EXCEPT !.flight = flight]]
KeepReading(c) == [verdict |-> "keep", c |-> c]
Alert(c) == [verdict |-> "alert", c |-> [c EXCEPT !.failed = TRUE]]

parse0(c) ==
    LET p == full_pull_map(c.cache, 0, <<Rule("ClientHello", "client", 0, FALSE)>>)
    IN IF p.ok THEN Advance([c EXCEPT !.recvSeq = p.seq], 2) ELSE KeepReading(c)

\* A first ClientHello that comes again is ignored.
parse2Forward(c) ==
    LET p == full_pull_map(c.cache, c.recvSeq, <<Rule("ClientHello", "client", 0, FALSE)>>)
    IN IF p.ok THEN Advance([c EXCEPT !.recvSeq = p.seq], 4) ELSE KeepReading(c)

parse2(c) ==
    LET p == full_pull_map(c.cache, c.recvSeq, <<Rule("ClientHello", "client", 0, FALSE)>>)
        c1 == [c EXCEPT !.recvSeq = p.seq]
        hello == CHOOSE m \in p.msgs : TRUE
    IN CASE ~p.ok -> parse0(c)
         [] p.ok /\ hello.says = <<>> -> KeepReading(c1)
         [] p.ok /\ hello.says = <<"cookie">> -> Advance(c1, 4)
         [] OTHER -> Alert(c1)

parse3(c) ==
    LET v == full_pull_map(c.cache, c.recvSeq, <<Rule("HelloVerifyRequest", "server", 0, TRUE)>>)
        p == full_pull_map(c.cache, c.recvSeq,
                << Rule("ServerHello", "server", 0, FALSE), Rule("Certificate", "server", 0, TRUE),
                   Rule("ServerKeyExchange", "server", 0, FALSE),
                   Rule("CertificateRequest", "server", 0, TRUE),
                   Rule("ServerHelloDone", "server", 0, FALSE) >>)
    IN CASE v.ok /\ v.msgs # {} ->
              Advance([c EXCEPT !.cookie = (CHOOSE m \in v.msgs : TRUE).says, !.recvSeq = v.seq], 3)
         [] ~(v.ok /\ v.msgs # {}) /\ p.ok -> Advance([c EXCEPT !.recvSeq = p.seq], 5)
         [] OTHER -> KeepReading(c)

Hellos(c, p) ==
    LET verify == CHOOSE m \in p.msgs : m.typ = "HelloVerifyRequest"
    IN CASE ~p.ok -> KeepReading(c)
         [] p.ok /\ Has(p, "ServerHello") -> parse3(c)
         [] p.ok /\ ~Has(p, "ServerHello") /\ Has(p, "HelloVerifyRequest") ->
              Advance([c EXCEPT !.cookie = verify.says, !.recvSeq = p.seq], 3)
         [] OTHER -> Alert(c)

parse1(c) ==
    Hellos(c, full_pull_map(c.cache, c.recvSeq, << Rule("HelloVerifyRequest", "server", 0, TRUE),
                                                   Rule("ServerHello", "server", 0, TRUE) >>))

\* The client's signature covers its transcript; a certificate without it
\* is not enough.  The keys are made once, then Finished can be read.
Verified(c, p) ==
    LET verify == CHOOSE m \in p.msgs : m.typ = "CertificateVerify"
        c1 == IF c.key = <<>> THEN [c EXCEPT !.key = session_hash(c.cache)] ELSE c
        f == full_pull_map(c.cache, p.seq, <<Rule("Finished", "client", 1, FALSE)>>)
    IN IF ~p.ok \/ (Has(p, "Certificate") /\ ~Has(p, "CertificateVerify")) THEN KeepReading(c)
       ELSE IF /\ Has(p, "CertificateVerify")
               /\ ~Has(p, "Certificate") \/ verify.says # session_hash(c.cache) THEN Alert(c)
       ELSE IF ~f.ok THEN KeepReading(c1)
       ELSE IF ~Has(p, "Certificate") THEN Alert([c1 EXCEPT !.recvSeq = f.seq])
       ELSE Advance([c1 EXCEPT !.recvSeq = f.seq], 6)

parse4(c) ==
    Verified(c, full_pull_map(c.cache, c.recvSeq,
        << Rule("Certificate", "client", 0, TRUE), Rule("ClientKeyExchange", "client", 0, FALSE),
           Rule("CertificateVerify", "client", 0, TRUE) >>))

parse5(c) ==
    LET p == full_pull_map(c.cache, c.recvSeq, <<Rule("Finished", "server", 1, FALSE)>>)
        finished == CHOOSE m \in p.msgs : TRUE
    IN CASE ~p.ok -> KeepReading(c)
         [] p.ok /\ finished.says = pull_and_merge(c.cache, VerifyRules) -> Advance(c, 5)
         [] OTHER -> Alert(c)

parse(c) ==
    CASE c.flight = 0 -> parse0(c)
      [] c.flight = 1 -> parse1(c)
      [] c.flight = 2 -> parse2(c)
      [] c.flight = 3 -> parse3(c)
      [] c.flight = 4 -> parse4(c)
      [] c.flight = 5 -> parse5(c)

(***************************************************************************)
(* The state machine of handshaker.rs.  The timer is off from the first    *)
(* packet that arrives, whether it completes a flight or not: deaf records *)
(* that a packet of an earlier flight took it from a waiting side.         *)
(***************************************************************************)
Woken(c) ==
    LET old == ~\E m \in c.cache \cup c.frag : m.from # c.side /\ m.seq >= c.recvSeq
    IN [c EXCEPT !.rx = FALSE, !.timer = FALSE,
                 !.deaf = @ \/ (c.timer /\ has_retransmit(c.flight) /\ old)]

Parsed(r, flight) ==
    IF r.verdict # "next" THEN r.c
    ELSE IF is_last_recv_flight(r.c.flight) /\ r.c.flight = flight THEN [r.c EXCEPT !.st = "Finished"]
    ELSE [r.c EXCEPT !.st = "Preparing"]

wait(c) == Parsed(parse(Woken(c)), c.flight)

RECURSIVE handshake(_)
handshake(c) ==
    CASE c.failed \/ c.st = "Errored" -> c
      [] ~c.failed /\ c.st = "Finished" -> [c EXCEPT !.done = TRUE]
      [] ~c.failed /\ c.st = "Preparing" -> handshake(prepare(c))
      [] ~c.failed /\ c.st = "Sending" -> handshake(send(c))
      [] ~c.failed /\ c.st = "Waiting" -> IF c.rx THEN handshake(wait(c)) ELSE c

handshake_timeout(c) ==
    IF ~has_retransmit(c.flight) THEN [c EXCEPT !.timer = TRUE]
    ELSE IF c.count + 1 > MaxRetransmit THEN [c EXCEPT !.count = @ + 1, !.st = "Errored"]
    ELSE handshake([c EXCEPT !.count = @ + 1, !.st = "Sending"])

(***************************************************************************)
(* Records in.  One of the next epoch, or one that needs keys before they  *)
(* exist, is kept if enqueue allows it.                                    *)
(***************************************************************************)
Accepted(c, r) == [c EXCEPT !.seen = @ \cup {<<r.epoch, r.n>>}]
Enqueued(c, r, enqueue) == IF enqueue THEN [c EXCEPT !.early = Append(@, r)] ELSE c
Message(r) == [typ |-> r.typ, from |-> r.from, epoch |-> r.epoch, seq |-> r.seq, says |-> r.says]

\* Messages leave the fragment buffer in order; an old one stays there unread.
pop(c) ==
    LET upTo == CHOOSE k \in c.next..c.next + Cardinality(c.frag) :
                    /\ \A i \in c.next..k - 1 : \E m \in c.frag : m.seq = i
                    /\ ~\E m \in c.frag : m.seq = k
        popped == {m \in c.frag : m.seq < upTo}
    IN [c EXCEPT !.next = upTo, !.frag = @ \ popped,
                 !.cache = LET new == {m \in popped : push(@, m) # @} IN @ \cup new]

handle_handshake(c, r) ==
    LET c1 == [Accepted(c, r) EXCEPT !.rx = TRUE,
                 !.frag = IF r.seq < c.next \/ \E m \in @ : m.seq = r.seq THEN @ ELSE @ \cup {Message(r)}]
    IN pop(c1)

handle_change_cipher_spec(c, r, enqueue) ==
    IF c.key = <<>> THEN Enqueued(c, r, enqueue)
    ELSE IF r.epoch = c.remoteEpoch THEN [Accepted(c, r) EXCEPT !.remoteEpoch = @ + 1]
    ELSE c

\* The replay detector is not told.
handle_application_dataAgain(c, r) ==
    IF r.epoch = 0 THEN [c EXCEPT !.failed = TRUE]
    ELSE [c EXCEPT !.decrypted = Append(@, r.says[1])]

handle_application_data(c, r) ==
    IF r.epoch = 0 THEN [c EXCEPT !.failed = TRUE]
    ELSE [Accepted(c, r) EXCEPT !.decrypted = Append(@, r.says[1])]

handle_incoming_packet(c, r, enqueue) ==
    CASE c.failed -> c
      [] ~c.failed /\ r.epoch > c.remoteEpoch -> Enqueued(c, r, enqueue)
      [] ~c.failed /\ r.epoch <= c.remoteEpoch ->
           IF <<r.epoch, r.n>> \in c.seen THEN c
           ELSE IF r.epoch # 0 /\ c.key = <<>> THEN Enqueued(c, r, enqueue)
           ELSE IF r.epoch # 0 /\ r.key # c.key THEN c
           ELSE IF r.kind = "handshake" THEN handle_handshake(c, r)
           ELSE IF r.kind = "ccs" THEN handle_change_cipher_spec(c, r, enqueue)
           ELSE handle_application_data(c, r)

handle_incoming_queued_packets(c) ==
    IF c.key = <<>> THEN c
    ELSE FoldLeft(LAMBDA x, r : handle_incoming_packet(x, r, FALSE), [c EXCEPT !.early = <<>>], c.early)

(***************************************************************************)
(* Records out.  Data waits for completion and then goes out in the epoch  *)
(* of that time; own messages enter the cache as they are sent.            *)
(***************************************************************************)
Outgoing(c) ==
    IF ~c.done THEN c
    ELSE [c EXCEPT !.queued = <<>>,
            !.out = @ \o [i \in DOMAIN c.queued |-> [c.queued[i] EXCEPT !.epoch = c.localEpoch]]]

process_packet(a, p) ==
    LET c == a.c
        r == [kind |-> p.kind, typ |-> p.typ, from |-> c.side, epoch |-> p.epoch, seq |-> p.seq,
              says |-> p.says, key |-> IF p.epoch = 1 THEN c.key ELSE <<>>, n |-> c.sent[p.epoch + 1]]
    IN [c |-> [c EXCEPT !.sent[p.epoch + 1] = @ + 1,
                        !.cache = IF p.kind = "handshake" THEN push(@, Message(p)) ELSE @],
        raw |-> Append(a.raw, r)]

\* The records in datagrams: a long flight may take two.
compact_raw_packets(raw) ==
    IF raw = <<>> THEN {}
    ELSE IF Len(raw) >= 5 /\ work.cut > 0
    THEN {SubSeq(raw, 1, work.cut), SubSeq(raw, work.cut + 1, Len(raw))}
    ELSE {raw}

handle_outgoing_packets(c) ==
    LET a == FoldLeft(process_packet, [c |-> [Outgoing(c) EXCEPT !.out = <<>>], raw |-> <<>>],
                      Outgoing(c).out)
    IN [c |-> a.c, datagrams |-> {[to |-> Other(c.side), recs |-> d] : d \in compact_raw_packets(a.raw)}]

write(c, data) ==
    LET p == [kind |-> "app", typ |-> "", epoch |-> c.localEpoch, says |-> <<data>>,
              from |-> c.side, seq |-> 0]
    IN IF c.done THEN [c EXCEPT !.out = Append(@, p)] ELSE [c EXCEPT !.queued = Append(@, p)]

(***************************************************************************)
(* The endpoint.  read makes the server's connection, handles the records, *)
(* runs the handshake, then what was queued, then the handshake again.     *)
(***************************************************************************)
HandshakeAgain(c) == IF c.rx /\ ~c.done THEN handshake(c) ELSE c

Queued(c) ==
    IF c.failed \/ c.st = "Errored" THEN c ELSE HandshakeAgain(handle_incoming_queued_packets(c))

HandUp(c) ==
    IF c.done /\ ~c.failed THEN [c EXCEPT !.got = @ \o c.decrypted, !.decrypted = <<>>] ELSE c

read(c, recs) ==
    LET c1 == FoldLeft(LAMBDA x, r : handle_incoming_packet(x, r, ~c.done), [c EXCEPT !.up = TRUE], recs)
    IN HandUp(IF c.done THEN c1 ELSE Queued(handshake(c1)))

Flush(s, c, others) ==
    LET h == handle_outgoing_packets(c)
    IN /\ conn' = [conn EXCEPT ![s] = h.c]
       /\ net' = others \cup h.datagrams

connect ==
    /\ ~conn["client"].up
    /\ Flush("client", handshake([conn["client"] EXCEPT !.up = TRUE]), net)
    /\ UNCHANGED <<work, spent, last6>>

Deliver ==
    /\ \E d \in net : Flush(d.to, read(conn[d.to], d.recs), net \ {d})
    /\ UNCHANGED <<work, spent, last6>>

Duplicate ==
    /\ spent.dup < work.dup
    /\ \E d \in net : Flush(d.to, read(conn[d.to], d.recs), net)
    /\ spent' = [spent EXCEPT !.dup = @ + 1]
    /\ UNCHANGED <<work, last6>>

Lose ==
    /\ spent.loss < work.loss
    /\ \E d \in net :
         /\ net' = net \ {d}
         /\ last6' = (last6 \/ (d.to = "client" /\ \E i \in DOMAIN d.recs : d.recs[i].typ = "Finished"))
    /\ spent' = [spent EXCEPT !.loss = @ + 1]
    /\ UNCHANGED <<work, conn>>

\* A timer normally outlives the round trip: before that it is early.
handle_timeout(s) ==
    /\ conn[s].timer /\ ~conn[s].failed
    /\ net # {} => spent.early < work.early
    /\ spent' = IF net # {} THEN [spent EXCEPT !.early = @ + 1] ELSE spent
    /\ LET c == [conn[s] EXCEPT !.timer = FALSE]
       IN Flush(s, IF c.done THEN c ELSE handshake_timeout(c), net)
    /\ UNCHANGED <<work, last6>>

Write(s) ==
    /\ conn[s].up /\ ~conn[s].failed
    /\ spent.data[s] < work.data[s]
    /\ Flush(s, write(conn[s], spent.data[s] + 1), net)
    /\ spent' = [spent EXCEPT !.data[s] = @ + 1]
    /\ UNCHANGED <<work, last6>>

Init ==
    /\ work \in Workloads
    /\ conn = [s \in Sides |-> NewConn(s)]
    /\ net = {}
    /\ spent = [loss |-> 0, dup |-> 0, early |-> 0, data |-> [s \in Sides |-> 0]]
    /\ last6 = FALSE

Next ==
    \/ connect \/ Deliver \/ Duplicate \/ Lose
    \/ \E s \in Sides : handle_timeout(s) \/ Write(s)

\* The client connects once a pair is selected, the network delivers what it
\* does not lose, and a timer that is armed expires.
CanTimeout(s) ==
    conn[s].timer /\ ~conn[s].failed /\ net = {} /\ has_retransmit(conn[s].flight)

Fairness ==
    /\ <>(conn["client"].up)
    /\ []<>(net = {}) \/ []<><<Deliver>>_vars
    /\ \A s \in Sides : []<>~CanTimeout(s) \/ []<><<handle_timeout(s)>>_vars

Spec == Init /\ [][Next]_vars /\ Fairness

(***************************************************************************)
(* Properties.                                                             *)
(***************************************************************************)

\* No order, loss or repetition of datagrams makes one of two honest sides
\* fail the handshake or the connection with an alert: no message is taken for
\* another, no transcript differs, no data travels in epoch 0.
NoAlert == \A s \in Sides : ~conn[s].failed

\* Application data is handed up at most once and only after completion,
\* whether it came in time, was queued or was repeated by the network.
DataOnce ==
    \A s \in Sides :
        /\ conn[s].got # <<>> => conn[s].done
        /\ \A i, j \in DOMAIN conn[s].got : conn[s].got[i] = conn[s].got[j] => i = j
        /\ \A i \in DOMAIN conn[s].got : conn[s].got[i] \in 1..spent.data[Other(s)]

\* A side that completed shares its keys with the other one, the client
\* completes only after the server, and then both hash the same transcript,
\* the server's Finished aside.  Nor does a side fail, or data come up twice
\* or early, as above.
Agreement ==
    /\ NoAlert /\ DataOnce
    /\ \A s \in Sides : conn[s].done => conn[s].key # <<>> /\ conn["client"].key = conn["server"].key
    /\ conn["client"].done =>
         /\ conn["server"].done
         /\ pull_and_merge(conn["client"].cache, VerifyRules)
              = pull_and_merge(conn["server"].cache, VerifyRules)

\* Retransmission completes the handshake on both sides after any loss,
\* unless the server's last flight was lost, which it never repeats, or a
\* packet of an earlier flight took the timer from a waiting side.
Completes ==
    <>(\/ \A s \in Sides : conn[s].done
       \/ last6
       \/ \E s \in Sides : conn[s].deaf)
=============================================================================
