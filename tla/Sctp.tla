-------------------------------- MODULE Sctp --------------------------------
(***************************************************************************)
(* The SCTP association under the data channels (rtc-sctp) with the parts  *)
(* of the core that drive it: the endpoint, the SCTP handler and the       *)
(* data-channel handler.  Two peers, a network that loses and reorders     *)
(* packets but does not repeat them (DTLS drops repeated records).         *)
(*                                                                         *)
(* Association 0 is the client's; every INIT that reaches the server makes *)
(* a new association there, so the server's are 1 .. MaxServer.  A chunk   *)
(* fills a packet, and sizes are counted in chunks.  TSNs are counted      *)
(* modulo TsnMod (2^32 in the code).  A handler is an operator from an     *)
(* association to an association; an action applies one and publishes      *)
(* what it sent.                                                           *)
(***************************************************************************)
EXTENDS Integers, Sequences, FiniteSets, SequencesExt

CONSTANTS
    Streams,      \* stream identifiers
    Workloads,    \* what the applications do, and how often the network fails
    MaxServer,    \* bound on the server's associations
    TsnMod,       \* 2^32 in the code
    InitTsn,      \* [client, server] -> first TSN, random in the code
    InitCwnd,     \* initial congestion window, in chunks
    RecvBuf,      \* max_receive_buffer_size, in chunks
    MaxMiss,      \* miss indications before a fast retransmission (3)
    MaxRtx        \* retransmissions before a timer gives up (8 and 5)

VARIABLES
    work,   \* the workload, fixed
    as,     \* associations
    net,    \* packets under way
    dirty,  \* SctpHandlerContext.flush_dirty of the two peers
    chan,   \* data_channels of the two peers: Connecting, Open
    out,    \* what waits in the write queues above the SCTP handler
    wrote,  \* how many messages of its script each application has written
    got,    \* messages given to each application, by stream
    fails,  \* errors the handlers of the two peers have reported
    losses, \* packets lost so far
    early   \* timers that expired although an answer was under way

vars == <<work, as, net, dirty, chan, out, wrote, got, fails, losses, early>>

Peers == {"c", "s"}
Assocs == 0 .. MaxServer
Side(a) == IF a = 0 THEN "c" ELSE "s"
Other(p) == IF p = "c" THEN "s" ELSE "c"

(***************************************************************************)
(* Serial numbers, timers, streams.                                        *)
(***************************************************************************)
Inc(t) == (t + 1) % TsnMod
Dist(a, b) == (b - a) % TsnMod
sna32lt(a, b) == Dist(a, b) \in 1 .. (TsnMod \div 2 - 1)
sna32lte(a, b) == a = b \/ sna32lt(a, b)

Timers == {"T1Init", "T1Cookie", "T3", "Reconfig", "Ack"}
Start(r, t) == [r EXCEPT !.on = @ \cup {t}]
Stop(r, t) == [r EXCEPT !.on = @ \ {t}, !.retrans[t] = 0]

NewStream == [ssn |-> 0, buf |-> 0, next |-> 0, rq |-> {}, lim |-> -1,
              un |-> FALSE, open |-> TRUE]

NoAssoc == [st |-> "None", peer |-> -1, next |-> 0, cum |-> 0, adv |-> 0,
            last |-> 0, pq |-> {}, o |-> <<>>, u |-> <<>>, infl |-> <<>>,
            cwnd |-> InitCwnd, ssth |-> RecvBuf, rwnd |-> RecvBuf, pba |-> 0,
            fr |-> FALSE, exit |-> 0, frSend |-> FALSE, t3Send |-> FALSE,
            fwdSend |-> FALSE, fwd |-> {}, ack |-> "Idle",
            on |-> {}, retrans |-> [t \in Timers |-> 0],
            str |-> [s \in {} |-> NewStream], ctl |-> {}, ev |-> <<>>,
            rsn |-> 0, rcf |-> {}, rreq |-> {}, rcfSend |-> FALSE, sis |-> {}]

NewAssoc(t) ==
    [NoAssoc EXCEPT !.st = "Closed", !.next = t, !.cum = (t - 1) % TsnMod,
                    !.adv = (t - 1) % TsnMod, !.rsn = t]

Packet(r, k, v) == [to |-> r.peer, k |-> k, v |-> v]
Control(r, k, v) == [r EXCEPT !.ctl = @ \cup {Packet(r, k, v)}]
Event(r, k, s) == [r EXCEPT !.ev = Append(@, [k |-> k, s |-> s])]

OpenStream(r, s) ==
    IF s \in DOMAIN r.str THEN r
    ELSE [r EXCEPT !.str = [x \in DOMAIN @ \cup {s} |-> IF x = s THEN NewStream ELSE @[x]]]

unregister_stream(r, s) ==
    IF s \notin DOMAIN r.str THEN r
    ELSE Event([r EXCEPT !.str = [x \in DOMAIN @ \ {s} |-> @[x]]], "lost", s)

\* A handler that fails closes the association.
close(r) ==
    LET ss == SetToSeq(DOMAIN r.str)
    IN [r EXCEPT !.st = "Closed", !.on = {}, !.retrans = [t \in Timers |-> 0],
                 !.str = [s \in {} |-> NewStream],
                 !.ev = @ \o [i \in 1 .. Len(ss) |-> [k |-> "lost", s |-> ss[i]]]]

(***************************************************************************)
(* Sending.                                                                *)
(***************************************************************************)
\* Messages: m > 0 is the application's, the two others are DCEP's, and the
\* empty chunk in the pending queue asks for a stream reset.
OpenMsg == 0
AckMsg == -1
ResetMark == -2

Fragments(r, s, m, n) ==
    LET u == m > 0 /\ r.str[s].un
    IN [i \in 1 .. n |->
          [tsn |-> 0, s |-> s, ssn |-> r.str[s].ssn, m |-> m, b |-> i = 1, e |-> i = n,
           u |-> u, nsent |-> 0, miss |-> 0, acked |-> FALSE, rtx |-> FALSE, ab |-> FALSE]]

Queue(m, un) == IF m > 0 /\ un THEN "u" ELSE "o"

\* packetize, send_payload_data.  The sequence number and the buffered amount
\* move on even when the association does not take the data.
Packetize(r, s, m, n) ==
    LET un == r.str[s].un
        r1 == [r EXCEPT !.str[s].buf = @ + n,
                        !.str[s].ssn = IF m > 0 /\ un THEN @ ELSE @ + 1]
    IN IF r.st # "Established" THEN r1
       ELSE [r1 EXCEPT ![Queue(m, un)] = @ \o Fragments(r, s, m, n)]

Abandoned(c) == c.ab /\ c.e
InflBytes(r) == Cardinality({i \in DOMAIN r.infl : ~r.infl[i].acked})
Pending(r) == r.o # <<>> \/ r.u # <<>>

check_partial_reliability_status(r, c) ==
    IF /\ c.m > 0 /\ c.s \in DOMAIN r.str
       /\ r.str[c.s].lim >= 0 /\ c.nsent >= r.str[c.s].lim
    THEN [c EXCEPT !.ab = TRUE]
    ELSE c

DataPacket(r, c) ==
    Packet(r, "data", [tsn |-> c.tsn, s |-> c.s, ssn |-> c.ssn, m |-> c.m,
                       b |-> c.b, e |-> c.e, u |-> c.u])

\* Sends the i-th chunk in flight again.  MaxSent bounds the count: the code
\* compares it with 1 and with the retransmission limit.
MaxSent == 3
Resend(r, i) ==
    LET c == [r.infl[i] EXCEPT !.rtx = FALSE, !.nsent = IF @ < MaxSent THEN @ + 1 ELSE @]
        d == check_partial_reliability_status(r, c)
    IN [r EXCEPT !.infl[i] = d, !.ctl = @ \cup {DataPacket(r, d)}]

\* The queue peek() looks at: a message begun is finished first, then unordered.
Peek(r) == IF r.o # <<>> /\ ~Head(r.o).b THEN "o" ELSE IF r.u # <<>> THEN "u" ELSE "o"

MoveToInflight(r, q) ==
    LET c == [Head(r[q]) EXCEPT !.tsn = r.next, !.nsent = 1]
        d == check_partial_reliability_status(r, c)
    IN [r EXCEPT ![q] = Tail(@), !.next = Inc(@), !.infl = Append(@, d),
                 !.ctl = @ \cup {DataPacket(r, d)}, !.on = @ \cup {"T3"}]

RECURSIVE pop_pending_data_chunks_to_send(_, _)
pop_pending_data_chunks_to_send(r, sent) ==
    LET q == Peek(r)
    IN IF ~Pending(r) THEN r
       ELSE IF Head(r[q]).m = ResetMark
       THEN pop_pending_data_chunks_to_send(
              [r EXCEPT ![q] = Tail(@), !.sis = @ \cup {Head(r[q]).s}], sent)
       ELSE IF InflBytes(r) + 1 <= r.cwnd /\ r.rwnd >= 1
       THEN pop_pending_data_chunks_to_send(
              MoveToInflight([r EXCEPT !.rwnd = @ - 1], q), TRUE)
       ELSE IF ~sent /\ r.infl = <<>> THEN MoveToInflight(r, q)  \* zero window probe
       ELSE r

\* get_data_packets_to_retransmit
RetransmitMarked(r) ==
    LET R == SetToSortSeq({i \in DOMAIN r.infl : r.infl[i].rtx}, <)
        probe == R # <<>> /\ R[1] = 1 /\ r.rwnd < 1
        awnd == IF r.cwnd < r.rwnd THEN r.cwnd ELSE r.rwnd
        k == IF probe THEN 1 ELSE IF Len(R) < awnd THEN Len(R) ELSE awnd
    IN IF ~r.t3Send THEN r
       ELSE [FoldLeft(Resend, r, SubSeq(R, 1, k)) EXCEPT !.t3Send = probe \/ k < Len(R)]

\* gather_outbound_data_and_reconfig_packets
SendReconfig(r) ==
    LET mine == [rsn |-> r.rsn, last |-> (r.next - 1) % TsnMod, ss |-> r.sis]
        again == {Packet(r, "reset", q) : q \in r.rcf}
        r1 == IF r.rcfSend THEN [r EXCEPT !.ctl = @ \cup again, !.rcfSend = FALSE] ELSE r
        r2 == IF r.sis = {} THEN r1
              ELSE [Control(r1, "reset", mine) EXCEPT !.rcf = @ \cup {mine},
                                                      !.rsn = Inc(@), !.sis = {}]
    IN IF (r.sis # {} \/ r.rcfSend) /\ r2.rcf # {} THEN Start(r2, "Reconfig") ELSE r2

\* A fast retransmission fills one packet: one chunk.
FastRetransmit(r) ==
    LET R == {i \in DOMAIN r.infl : LET c == r.infl[i]
                                    IN ~c.acked /\ ~Abandoned(c) /\ c.nsent = 1 /\ c.miss >= MaxMiss}
        i == CHOOSE x \in R : \A y \in R : x <= y
        r1 == [r EXCEPT !.frSend = FALSE]
    IN IF ~r.frSend THEN r ELSE IF R = {} THEN r1
       ELSE [Resend(r1, i) EXCEPT !.infl[i].rtx = r.infl[i].rtx]

Window(r) ==
    LET n == MapThenSumSet(LAMBDA s : Cardinality(r.str[s].rq), DOMAIN r.str)
    IN IF n < RecvBuf THEN RecvBuf - n ELSE 0

\* Offsets of the TSNs received beyond peer_last_tsn, as get_gap_ack_blocks
\* computes them: with plain comparison and subtraction.
GapOffsets(r) == {IF t >= r.last THEN t - r.last ELSE 0 : t \in r.pq}

SendSack(r) ==
    IF r.ack # "Immediate" THEN r
    ELSE Control([r EXCEPT !.ack = "Idle"], "sack",
                 [cum |-> r.last, rwnd |-> Window(r), gaps |-> GapOffsets(r)])

SendForwardTsn(r) ==
    IF ~r.fwdSend THEN r
    ELSE LET r1 == [r EXCEPT !.fwdSend = FALSE]
         IN IF sna32lt(r.cum, r.adv) THEN Control(r1, "fwd", [cum |-> r.adv, str |-> r.fwd]) ELSE r1

gather_outbound(r) ==
    IF r.st # "Established" THEN r
    ELSE SendForwardTsn(SendSack(FastRetransmit(SendReconfig(
           pop_pending_data_chunks_to_send(RetransmitMarked(r), FALSE)))))

(***************************************************************************)
(* Receiving: acknowledgements.                                            *)
(***************************************************************************)
AtMost(a, b) == IF a < b THEN a ELSE b
AtLeast(a, b) == IF a > b THEN a ELSE b

\* The point up to which chunks may be forgotten moves over abandoned chunks.
AdvancePoint(r) ==
    LET a == Dist(r.cum, r.adv)
        k == Max({j \in a .. Len(r.infl) : \A i \in a + 1 .. j : Abandoned(r.infl[i])})
        new == {c \in {r.infl[i] : i \in a + 1 .. k} : ~c.u}
        top(s) == Max({c.ssn : c \in {x \in new : x.s = s}} \cup {f.ssn : f \in {x \in r.fwd : x.s = s}})
    IN [r EXCEPT !.adv = (r.cum + k) % TsnMod,
                 !.fwd = {[s |-> s, ssn |-> top(s)] : s \in {c.s : c \in new} \cup {f.s : f \in @}}]

on_cumulative_tsn_ack_point_advanced(r, acked) ==
    LET r1 == IF r.infl = <<>> THEN Stop(r, "T3") ELSE Start(r, "T3")
        pba == r.pba + acked
    IN IF r.cwnd <= r.ssth
       THEN IF ~r.fr /\ Pending(r) THEN [r1 EXCEPT !.cwnd = @ + AtMost(acked, @)] ELSE r1
       ELSE IF pba >= r.cwnd /\ Pending(r)
            THEN [r1 EXCEPT !.pba = pba - r.cwnd, !.cwnd = @ + 1]
            ELSE [r1 EXCEPT !.pba = pba]

\* htna: the highest TSN newly acknowledged, as an offset from the ack point.
process_fast_retransmission(r, htna, advanced) ==
    LET limit == IF r.fr THEN Len(r.infl) ELSE htna - 1
        hit == {i \in 1 .. limit : ~r.infl[i].acked /\ ~Abandoned(r.infl[i]) /\ r.infl[i].miss < MaxMiss}
        enter == ~r.fr /\ \E i \in hit : r.infl[i].miss + 1 = MaxMiss
        half == AtLeast(r.cwnd \div 2, 4)
        r1 == IF r.fr /\ ~advanced THEN r
              ELSE [r EXCEPT !.infl = [i \in DOMAIN @ |-> IF i \in hit THEN [@[i] EXCEPT !.miss = @ + 1] ELSE @[i]]]
        r2 == IF enter THEN [r1 EXCEPT !.fr = TRUE, !.exit = (r.cum + htna) % TsnMod, !.ssth = half,
                                       !.cwnd = half, !.pba = 0, !.frSend = TRUE]
              ELSE r1
    IN IF r2.fr /\ advanced THEN [r2 EXCEPT !.frSend = TRUE] ELSE r2

Release(r, s, n) ==
    IF s \in DOMAIN r.str THEN [r EXCEPT !.str[s].buf = AtLeast(@ - n, 0)] ELSE r

\* The last steps of a SACK: FORWARD-TSN, T3 and the peer's window.
ForwardDue(r) == IF sna32lt(r.cum, r.adv) THEN [r EXCEPT !.fwdSend = TRUE] ELSE [r EXCEPT !.fwd = {}]
StartT3(r) == IF r.infl # <<>> THEN Start(r, "T3") ELSE r
PeerWindow(r, d) == [r EXCEPT !.rwnd = AtLeast(d.rwnd - InflBytes(r), 0)]

\* handle_sack with process_selective_ack and postprocess_sack.
handle_sack(r, d) ==
    LET n == Dist(r.cum, d.cum)
        rest == SubSeq(r.infl, n + 1, Len(r.infl))
        popped == {i \in 1 .. n : ~r.infl[i].acked}
        marked == {o \in d.gaps : ~rest[o].acked}
        newly == {r.infl[i] : i \in popped} \cup {rest[o] : o \in marked}
        acked == Cardinality(newly)
        htna == Max({0} \cup marked)
        r1 == IF n > 0 /\ 1 \in popped THEN Stop(r, "T3") ELSE r
        r2 == [r1 EXCEPT
                 !.infl = [o \in DOMAIN rest |->
                             IF o \in marked THEN [rest[o] EXCEPT !.acked = TRUE, !.rtx = FALSE] ELSE rest[o]],
                 !.fr = @ /\ \A i \in 1 .. n : r.infl[i].tsn # r.exit,
                 !.cum = d.cum]
        r3 == IF n > 0 THEN on_cumulative_tsn_ack_point_advanced(r2, acked) ELSE r2
        r4 == FoldSet(LAMBDA s, x : Release(x, s, Cardinality({c \in newly : c.s = s})), r3, {c.s : c \in newly})
        r5 == process_fast_retransmission(PeerWindow(r4, d), htna, n > 0)
        r6 == AdvancePoint(IF sna32lt(r.adv, d.cum) THEN [r5 EXCEPT !.adv = d.cum, !.fwd = {}] ELSE r5)
    IN IF r.st # "Established" \/ sna32lt(d.cum, r.cum) THEN r
       ELSE IF n > Len(r.infl) \/ ~(d.gaps \subseteq DOMAIN rest) THEN close(r)
       ELSE StartT3(ForwardDue(r6))

(***************************************************************************)
(* Receiving: data, forward TSN, stream resets.                            *)
(***************************************************************************)
reset_streams_if_any(r, p, respond) ==
    LET here == p.ss \cap DOMAIN r.str
        r1 == FoldSet(LAMBDA s, x : unregister_stream(x, s),
                      [r EXCEPT !.rreq = {q \in @ : q.rsn # p.rsn}], here)
        mine == [rsn |-> r.rsn, last |-> (r.next - 1) % TsnMod, ss |-> here]
        r2 == IF respond /\ here # {}
              THEN Control([r1 EXCEPT !.rcf = @ \cup {mine}, !.rsn = Inc(@)], "reset", mine) ELSE r1
    IN Control(IF sna32lte(p.last, r.last) THEN r2 ELSE r, "response", [rsn |-> p.rsn])

handle_reset(r, p) ==
    reset_streams_if_any([r EXCEPT !.rreq = {q \in @ : q.rsn # p.rsn} \cup {p}], p, TRUE)

handle_response(r, v) ==
    LET r1 == [r EXCEPT !.rcf = {q \in @ : q.rsn # v.rsn}]
    IN IF r1.rcf = {} THEN Stop(r1, "Reconfig") ELSE r1

\* handle_peer_last_tsn_and_acknowledgement, then handle_chunk_end.
RECURSIVE AdvanceLast(_)
AdvanceLast(r) ==
    IF Inc(r.last) \notin r.pq THEN r
    ELSE AdvanceLast(FoldSet(LAMBDA q, x : reset_streams_if_any(x, q, FALSE),
                             [r EXCEPT !.pq = @ \ {Inc(r.last)}, !.last = Inc(@)], r.rreq))

Acknowledge(r) ==
    LET r1 == AdvanceLast(r)
    IN IF r1.ack = "Idle" /\ r1.pq = {}
       THEN Start([r1 EXCEPT !.ack = "Delay"], "Ack")
       ELSE Stop([r1 EXCEPT !.ack = "Immediate"], "Ack")

\* Complete message of a stream: fragments from the first to the last.
Whole(C) == \E b, e \in C : b.b /\ e.e /\ Cardinality(C) = Dist(b.tsn, e.tsn) + 1
OfSsn(q, n) == {c \in q : ~c.u /\ c.ssn = n}
\* Mutant: a complete message is ready whatever is missing before it.
OrderedReadyEager(t) == {n \in {c.ssn : c \in {x \in t.rq : ~x.u}} : Whole(OfSsn(t.rq, n))}
OrderedReady(t) ==
    LET ns == {c.ssn : c \in {x \in t.rq : ~x.u}}
    IN {n \in ns : /\ \A k \in ns : k <= n => Whole(OfSsn(t.rq, k))
                   /\ t.next .. n - 1 \subseteq ns}
UnorderedReady(t) ==
    LET run(b, e) == {c \in t.rq : c.u /\ Dist(b.tsn, c.tsn) <= Dist(b.tsn, e.tsn)}
    IN {C \in {run(b, e) : b, e \in {c \in t.rq : c.u}} :
          Whole(C) /\ Cardinality({c \in C : c.b}) = 1 /\ Cardinality({c \in C : c.e}) = 1}
Readable(t) == OrderedReady(t) # {} \/ UnorderedReady(t) # {}

handle_data(r, d) ==
    LET new == d.tsn \notin r.pq /\ sna32lt(r.last, d.tsn)
        room == Window(r) > 0 \/ \E t \in r.pq : sna32lt(d.tsn, t)
        r1 == OpenStream(r, d.s)
        t == r1.str[d.s]
        keep == d.u \/ d.ssn >= t.next
        r2 == [r1 EXCEPT !.pq = @ \cup {d.tsn}, !.str[d.s].rq = IF keep THEN @ \cup {d} ELSE @]
        r3 == IF Readable(r2.str[d.s]) THEN Event(r2, "readable", d.s) ELSE r2
    IN Acknowledge(IF ~new THEN r ELSE IF room THEN r3 ELSE r1)

ForwardOrdered(t, n) ==
    IF t.un THEN t
    ELSE [t EXCEPT !.rq = {c \in @ : c.u \/ c.ssn > n \/ Whole(OfSsn(t.rq, c.ssn))},
                   !.next = AtLeast(@, n + 1)]
ForwardUnordered(t, tsn) ==
    IF ~t.un THEN t ELSE [t EXCEPT !.rq = {c \in @ : ~c.u \/ sna32lt(tsn, c.tsn)}]

handle_forward_tsn(r, d) ==
    LET r1 == [r EXCEPT !.last = d.cum, !.pq = {t \in @ : sna32lt(d.cum, t)}]
        r2 == FoldSet(LAMBDA f, x : IF f.s \in DOMAIN x.str
                                    THEN [x EXCEPT !.str[f.s] = ForwardOrdered(@, f.ssn)] ELSE x,
                      r1, d.str)
        r3 == [r2 EXCEPT !.str = [s \in DOMAIN @ |-> ForwardUnordered(@[s], d.cum)]]
        r4 == FoldSet(LAMBDA s, x : Event(x, "readable", s), r3,
                      {s \in DOMAIN r3.str : Readable(r3.str[s])})
    IN IF sna32lte(d.cum, r.last) THEN Stop([r EXCEPT !.ack = "Immediate"], "Ack")
       ELSE Acknowledge(r4)

(***************************************************************************)
(* Handshake and timers.                                                   *)
(***************************************************************************)
SendInit(r) == [r EXCEPT !.ctl = @ \cup {[to |-> -1, k |-> "init", v |-> [tag |-> 0, tsn |-> r.next]]}]

\* handle_first_packet: a new association, which answers with its cookie.
handle_init(a, v) ==
    Control([NewAssoc(InitTsn.s) EXCEPT !.peer = v.tag, !.last = (v.tsn - 1) % TsnMod],
            "initack", [tag |-> a, tsn |-> InitTsn.s])

handle_init_ack(r, v) ==
    IF r.st # "CookieWait" THEN r
    ELSE LET r1 == [r EXCEPT !.peer = v.tag, !.last = (v.tsn - 1) % TsnMod, !.st = "CookieEchoed"]
         IN Start(Control(Stop(r1, "T1Init"), "echo", [tag |-> v.tag]), "T1Cookie")

\* The cookie is the association's own: an echo reaches it by its tag.
handle_cookie_echo(r) ==
    LET r1 == IF r.st = "Established" THEN r ELSE Event([r EXCEPT !.st = "Established"], "connected", 0)
    IN Control(r1, "cookieack", [tag |-> r.peer])

handle_cookie_ack(r) ==
    IF r.st # "CookieEchoed" THEN r
    ELSE Event([Stop(r, "T1Cookie") EXCEPT !.st = "Established"], "connected", 0)

handle_chunk(r, p) ==
    CASE p.k = "initack"   -> handle_init_ack(r, p.v)
      [] p.k = "echo"      -> handle_cookie_echo(r)
      [] p.k = "cookieack" -> handle_cookie_ack(r)
      [] p.k = "data"      -> handle_data(r, p.v)
      [] p.k = "sack"      -> handle_sack(r, p.v)
      [] p.k = "fwd"       -> handle_forward_tsn(r, p.v)
      [] p.k = "reset"     -> handle_reset(r, p.v)
      [] p.k = "response"  -> handle_response(r, p.v)

on_retransmission_timeout(r, t) ==
    LET half == AtLeast(r.cwnd \div 2, 4)
        r1 == AdvancePoint([r EXCEPT !.ssth = half, !.cwnd = 1])
    IN CASE t = "T1Init"   -> SendInit(r)
         [] t = "T1Cookie" -> Control(r, "echo", [tag |-> r.peer])
         [] t = "Reconfig" -> [r EXCEPT !.rcfSend = TRUE]
         [] t = "T3" ->
              [r1 EXCEPT !.fwdSend = @ \/ sna32lt(r1.cum, r1.adv), !.t3Send = TRUE,
                         !.infl = [i \in DOMAIN @ |-> IF @[i].acked \/ Abandoned(@[i]) THEN @[i]
                                                      ELSE [@[i] EXCEPT !.rtx = TRUE]]]

\* Mutant: a timer expires once.
handle_timeoutOnce(r, t) ==
    IF t = "Ack" THEN [r EXCEPT !.on = @ \ {t}, !.ack = "Immediate"]
    ELSE [on_retransmission_timeout(r, t) EXCEPT !.on = @ \ {t}]

\* handle_timeout for one timer: a timer that gives up is not started again.
handle_timeout(r, t) ==
    LET r1 == [r EXCEPT !.on = @ \ {t}, !.retrans[t] = AtMost(@ + 1, MaxRtx + 1)]
    IN IF t = "Ack" THEN [r EXCEPT !.on = @ \ {t}, !.ack = "Immediate"]
       ELSE IF r1.retrans[t] > MaxRtx THEN r1
       ELSE Start(on_retransmission_timeout(r1, t), t)

(***************************************************************************)
(* The handlers above: SctpHandler and DataChannelHandler.  x collects     *)
(* what one call does: association, messages, events, errors.              *)
(***************************************************************************)
\* read() until nothing is readable: the messages and the stream behind them.
Drained(t) ==
    LET R == OrderedReady(t)
        taken == {c \in t.rq : ~c.u /\ c.ssn \in R} \cup UNION UnorderedReady(t)
        firsts == SetToSortSeq({c \in taken : c.b}, LAMBDA a, b : sna32lt(a.tsn, b.tsn))
    IN [t |-> [t EXCEPT !.rq = @ \ taken, !.next = Max({@} \cup {n + 1 : n \in R})],
        ms |-> [i \in DOMAIN firsts |-> firsts[i].m]]

\* One event of Association::poll; an error leaves the rest for the next call.
PollEvent(x, e) ==
    IF x.err THEN [x EXCEPT !.left = Append(@, e)]
    ELSE IF e.k # "readable" THEN [x EXCEPT !.up = Append(@, e)]
    ELSE IF e.s \notin DOMAIN x.r.str \/ ~x.r.str[e.s].open
    THEN [x EXCEPT !.err = TRUE, !.fails = @ \cup {"read"}]
    ELSE LET d == Drained(x.r.str[e.s])
         IN [x EXCEPT !.r.str[e.s] = d.t,
                      !.ms = @ \o [i \in DOMAIN d.ms |-> [s |-> e.s, m |-> d.ms[i]]]]

\* DataChannelHandler::handle_read
ChannelRead(x, y) ==
    IF y.s \in x.chan.open
    THEN IF y.m > 0 THEN [x EXCEPT !.got[y.s] = Append(@, y.m)]
         ELSE IF y.m = OpenMsg THEN [x EXCEPT !.out = Append(@, [k |-> "ack", s |-> y.s, m |-> AckMsg])]
         ELSE x
    ELSE IF y.s \notin x.chan.conn /\ y.m = OpenMsg
    THEN [x EXCEPT !.chan.open = @ \cup {y.s}, !.out = Append(@, [k |-> "ack", s |-> y.s, m |-> AckMsg])]
    ELSE [x EXCEPT !.fails = @ \cup {"channel"}]

\* DataChannelHandler::handle_event: dial every channel, or drop a closed one.
ChannelEvent(x, e) ==
    IF e.k = "connected"
    THEN LET ss == SetToSeq(x.chan.conn)
         IN [x EXCEPT !.chan = [conn |-> {}, open |-> @.open \cup @.conn],
                      !.out = @ \o [i \in DOMAIN ss |-> [k |-> "open", s |-> ss[i], m |-> OpenMsg]]]
    ELSE [x EXCEPT !.chan.open = @ \ {e.s}, !.chan.conn = @ \ {e.s}]

\* handle_read of both handlers: the association's events, the messages they
\* made readable unless one failed, then the events for the channels.
ReadAll(x) == IF x.err THEN x ELSE FoldLeft(ChannelRead, x, x.ms)
EventsUp(x) == FoldLeft(ChannelEvent, x, x.up)
Unhandled(x) == [x EXCEPT !.r.ev = x.left]

HandleRead(p, r) ==
    LET x0 == [r |-> [r EXCEPT !.ev = <<>>], ms |-> <<>>, up |-> <<>>, left |-> <<>>, err |-> FALSE,
               chan |-> chan[p], got |-> got[p], out |-> out[p], fails |-> fails[p]]
    IN Unhandled(EventsUp(ReadAll(FoldLeft(PollEvent, x0, r.ev))))

\* SctpHandler::handle_write of one queued message.
Write1(x, y) ==
    LET r == x.r
        here == y.s \in DOMAIN r.str
        fail == [x EXCEPT !.fails = @ \cup {"write"}]
        frags == IF y.m > 0 THEN work.script[x.p][y.m].n ELSE 1
        opened == [OpenStream(r, y.s) EXCEPT !.str[y.s].lim = work.lim[y.s], !.str[y.s].un = y.s \in work.un]
        marker == [Fragments(r, y.s, ResetMark, 1)[1] EXCEPT !.ssn = 0]
        closed == [r EXCEPT !.str[y.s].open = FALSE, !.o = Append(@, marker)]
    IN IF y.k = "open"
       THEN IF here THEN fail
            ELSE [x EXCEPT !.r = IF y.s \in work.neg THEN opened ELSE Packetize(opened, y.s, y.m, 1)]
       ELSE IF ~here \/ (y.k # "ack" /\ y.s \notin chan[x.p].open) THEN fail
       ELSE IF ~r.str[y.s].open THEN x
       ELSE IF y.k = "close"
       THEN IF r.st # "Established" THEN [fail EXCEPT !.r.str[y.s].open = FALSE]
            ELSE [x EXCEPT !.r = closed, !.chan.open = @ \ {y.s}]
       ELSE [x EXCEPT !.r = Packetize(r, y.s, y.m, frags),
                      !.fails = IF r.st = "Established" THEN @ ELSE @ \cup {"write"}]

(***************************************************************************)
(* Actions.                                                                *)
(***************************************************************************)
NoMsgs == [s \in Streams |-> <<>>]

Init ==
    /\ work \in Workloads
    /\ as = [a \in Assocs |->
               IF a = 0 THEN SendInit(Start([NewAssoc(InitTsn.c) EXCEPT !.st = "CookieWait"], "T1Init"))
               ELSE NoAssoc]
    /\ net = {}
    /\ dirty = [p \in Peers |-> p = "c"]
    /\ chan = [p \in Peers |-> [conn |-> work.dial[p] \cup work.neg, open |-> {}]]
    /\ out = [p \in Peers |-> <<>>]
    /\ wrote = [p \in Peers |-> 0]
    /\ got = [p \in Peers |-> NoMsgs]
    /\ fails = [p \in Peers |-> {}]
    /\ losses = 0
    /\ early = 0

Busy(p) == dirty[p] \/ out[p] # <<>>

\* The association the channels of a peer write to.
Conn(p) ==
    LET E == {a \in Assocs : Side(a) = p /\ as[a].st = "Established"}
    IN IF p = "c" THEN 0 ELSE IF E = {} THEN 1 ELSE CHOOSE a \in E : TRUE

RECURSIVE poll_transmit(_, _)
poll_transmit(r, sent) ==
    LET g == gather_outbound(r)
    IN IF g.ctl = {} THEN [r |-> g, sent |-> sent]
       ELSE poll_transmit([g EXCEPT !.ctl = {}], sent \cup g.ctl)

\* poll_write: the queued writes, then everything the associations can send.
Flush(p) ==
    /\ Busy(p)
    /\ LET a0 == Conn(p)
           x == FoldLeft(Write1, [p |-> p, r |-> as[a0], chan |-> chan[p], fails |-> fails[p]], out[p])
           mine == {a \in Assocs : Side(a) = p}
           t == [a \in mine |-> poll_transmit(IF a = a0 THEN x.r ELSE as[a], {})]
       IN /\ as' = [a \in Assocs |-> IF a \in mine THEN t[a].r ELSE as[a]]
          /\ net' = net \cup UNION {t[a].sent : a \in mine}
          /\ chan' = [chan EXCEPT ![p] = x.chan]
          /\ fails' = [fails EXCEPT ![p] = x.fails]
    /\ out' = [out EXCEPT ![p] = <<>>]
    /\ dirty' = [dirty EXCEPT ![p] = FALSE]
    /\ UNCHANGED <<work, wrote, got, losses, early>>

\* Association a of peer p and its handlers are left as x has them.
Become(a, p, x) ==
    /\ as' = [as EXCEPT ![a] = x.r]
    /\ chan' = [chan EXCEPT ![p] = x.chan]
    /\ got' = [got EXCEPT ![p] = x.got]
    /\ out' = [out EXCEPT ![p] = x.out]
    /\ fails' = [fails EXCEPT ![p] = x.fails]
    /\ dirty' = [dirty EXCEPT ![p] = @ \/ ~x.err]

\* handle_read: a packet arrives.
Receive(pk) ==
    /\ pk \in net
    /\ LET free == {a \in Assocs : as[a].st = "None"}
           a == IF pk.to = -1 THEN Min(free) ELSE pk.to
           p == Side(a)
       IN /\ pk.to = -1 => free # {}
          /\ Become(a, p, HandleRead(p, IF pk.to = -1 THEN handle_init(a, pk.v) ELSE handle_chunk(as[a], pk)))
    /\ net' = net \ {pk}
    /\ UNCHANGED <<work, wrote, losses, early>>

Lose(pk) ==
    /\ pk \in net
    /\ losses < work.loss
    /\ net' = net \ {pk}
    /\ losses' = losses + 1
    /\ UNCHANGED <<work, as, dirty, chan, out, wrote, got, fails, early>>

\* The retransmission timers (at least a second) are longer than the delay of
\* an acknowledgement (200 ms): they expire when nothing is under way, or
\* early, which counts.
Quiet == net = {} /\ \A p \in Peers : ~Busy(p) /\ \A a \in Assocs : "Ack" \notin as[a].on

Timeout(a, t) ==
    /\ t \in as[a].on
    /\ t # "Ack" /\ ~Quiet => early < work.early
    /\ early' = IF t # "Ack" /\ ~Quiet THEN early + 1 ELSE early
    /\ as' = [as EXCEPT ![a] = handle_timeout(@, t)]
    /\ dirty' = [dirty EXCEPT ![Side(a)] = TRUE]
    /\ UNCHANGED <<work, net, chan, out, wrote, got, fails, losses>>

\* RTCDataChannel::send
Send(p) ==
    /\ wrote[p] < Len(work.script[p])
    /\ LET m == wrote[p] + 1
           s == work.script[p][m].s
       IN /\ s \in chan[p].open
          /\ out' = [out EXCEPT ![p] = Append(@, [k |-> "msg", s |-> s, m |-> m])]
          /\ wrote' = [wrote EXCEPT ![p] = m]
    /\ UNCHANGED <<work, as, net, dirty, chan, got, fails, losses, early>>

\* RTCDataChannel::close.  The request waits in the channel, messages wait
\* in the endpoint above it: it goes down before those not yet polled.
Close(p, s) ==
    /\ s \in work.closes[p] \cap chan[p].open
    /\ \A m \in wrote[p] + 1 .. Len(work.script[p]) : work.script[p][m].s # s
    /\ \A i \in DOMAIN out[p] : out[p][i].k # "close"
    /\ LET mine(y) == y.k = "msg" /\ y.s = s
           other(y) == ~mine(y)
       IN out' = [out EXCEPT ![p] = SelectSeq(@, other) \o <<[k |-> "close", s |-> s, m |-> 0]>>
                                    \o SelectSeq(@, mine)]
    /\ UNCHANGED <<work, as, net, dirty, chan, wrote, got, fails, losses, early>>

Step ==
    \/ \E p \in Peers : Flush(p) \/ Send(p)
    \/ \E pk \in net : Receive(pk)
    \/ \E a \in Assocs, t \in Timers : Timeout(a, t)

Next ==
    \/ Step
    \/ \E pk \in net : Lose(pk)
    \/ \E p \in Peers, s \in Streams : Close(p, s)

\* What the guards of Step say, so that fairness need not evaluate the handlers.
CanStep ==
    \/ \E p \in Peers : Busy(p)
    \/ \E p \in Peers : /\ wrote[p] < Len(work.script[p])
                        /\ work.script[p][wrote[p] + 1].s \in chan[p].open
    \/ \E pk \in net : pk.to = -1 => \E a \in Assocs : as[a].st = "None"
    \/ \E a \in Assocs : \E t \in as[a].on : t # "Ack" /\ ~Quiet => early < work.early

\* Weak fairness of Step: the drivers go on while there is something to send,
\* to read or to time out.
Fairness == []<>~CanStep \/ []<><<Step>>_vars

Spec == Init /\ [][Next]_vars /\ Fairness

(***************************************************************************)
(* Properties.                                                             *)
(***************************************************************************)
Written(p, s) == {m \in 1 .. wrote[p] : work.script[p][m].s = s}
Reliable(s) == work.lim[s] = -1

\* No order of packets, acknowledgements and retransmissions makes a handler
\* fail and close the association.
NoAbort == [][\A a \in Assocs : as[a].st = "Established" => as'[a].st = "Established"]_vars

\* Data in flight is watched by the retransmission timer until it gives up.
T3Armed ==
    \A a \in Assocs : as[a].st = "Established" /\ as[a].infl # <<>> =>
      "T3" \in as[a].on \/ as[a].retrans["T3"] > MaxRtx

\* The buffered amount of a stream is what it has queued and unacknowledged.
BufferExact ==
    \A a \in Assocs : \A s \in DOMAIN as[a].str :
      LET r == as[a]
          n(q) == Cardinality({i \in DOMAIN q : q[i].s = s /\ ~q[i].acked /\ q[i].m # ResetMark})
      IN "write" \notin fails[Side(a)] => r.str[s].buf = n(r.infl) + n(r.o) + n(r.u)

\* When all is acknowledged and nothing is under way, the receiver holds no
\* fragments: the window it offers is the whole buffer again.
NothingStuck ==
    Quiet /\ (\A a \in Assocs : as[a].infl = <<>> /\ ~Pending(as[a])) /\ (\A p \in Peers : fails[p] = {})
      => \A a \in Assocs : Window(as[a]) = RecvBuf

\* The three above: timer, counters and queues of an association agree.
QueuesExact == T3Armed /\ BufferExact /\ NothingStuck

\* Messages of an ordered stream arrive in the order of writing and once; on
\* a reliable stream none is left out before one that arrives, unless the
\* receiver reported an error.  And the bookkeeping behind it is exact, as above.
InOrder ==
    QueuesExact /\ \A p \in Peers, s \in Streams \ work.un :
      LET g == got[Other(p)][s]
      IN /\ \A i, j \in DOMAIN g : i < j => g[i] < g[j]
         /\ Reliable(s) /\ fails[Other(p)] = {} =>
              \A i \in DOMAIN g, m \in Written(p, s) : m < g[i] => \E j \in DOMAIN g : g[j] = m

\* The peers connect, their channels open and every message for a reliable
\* stream arrives, whatever is lost within the number of retransmissions,
\* unless a channel is closed or an error is reported.
Delivered ==
    \A p \in Peers :
      <>(\/ \A m \in DOMAIN work.script[p] :
              LET s == work.script[p][m].s
              IN Reliable(s) => m \in Range(got[Other(p)][s])
         \/ \E q \in Peers : fails[q] # {} \/ work.closes[q] # {})

\* A channel that one side closes disappears on the other side.
CloseSeen ==
    \A p \in Peers, s \in Streams :
      (\E a \in Assocs : Side(a) = p /\ s \in DOMAIN as[a].str /\ ~as[a].str[s].open)
        ~> s \notin chan[Other(p)].open \/ fails[p] \cup fails[Other(p)] # {}

\* The two above, and NoAbort: the association stays up, and what is written
\* or closed on one side reaches the other.
ReachesPeer == NoAbort /\ Delivered /\ CloseSeen
=============================================================================
