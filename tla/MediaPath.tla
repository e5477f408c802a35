----------------------------- MODULE MediaPath -----------------------------
(***************************************************************************)
(* One video stream through the media path of the core: sequence numbers   *)
(* and the send buffer of the NACK responder, SRTP with its rollover       *)
(* counter, a network that loses, repeats and reorders, SRTP and its       *)
(* replay window on the other side, receiver report, the receive log of    *)
(* the NACK generator, RTX, the track.                                     *)
(*                                                                         *)
(* A packet carries, besides its header, the place n it has in the stream: *)
(* its sequence number is n % SeqSpace, and an RTX packet carries the      *)
(* place of the packet it repeats.  A ciphertext is the rollover count it  *)
(* was made with; it opens with the same count and no other.               *)
(***************************************************************************)
EXTENDS Integers, Sequences, FiniteSets, SequencesExt, FiniteSetsExt

CONSTANTS
    SeqSpace,        \* 2^16
    LogSize,       \* size of the receive log, a power of two
    BufSize,       \* size of the send buffer, a power of two
    BitmapSize,    \* packets a ReceiverStream tracks
    Window,        \* replay window, of SRTP and of SRTCP
    RtcpMod,       \* MAX_SRTCP_INDEX + 1
    PairBits,      \* bits of a NackPair
    Workloads      \* start, length, RTX, declared, losses, repeats, timers: see MCMedia

ASSUME SizeAssumption ==
    /\ SeqSpace \in Nat /\ SeqSpace % 2 = 0
    /\ 0 < Window /\ Window <= LogSize /\ LogSize <= SeqSpace \div 2 /\ SeqSpace % LogSize = 0
    /\ 0 < BufSize /\ BufSize <= SeqSpace \div 2 /\ SeqSpace % BufSize = 0
    /\ BitmapSize >= LogSize /\ SeqSpace % BitmapSize = 0

VARIABLES
    work,     \* the workload, fixed
    tx,       \* the sending peer
    rx,       \* the receiving peer
    net,      \* packets under way, in both directions
    spent,    \* losses, repeats and timers so far
    heard,    \* places the receive log was told of, and the first of them
    got       \* place -> how often the track was given the packet

vars == <<work, tx, rx, net, spent, heard, got>>

Half == SeqSpace \div 2
Ssrcs == {"media", "rtx"}
wrapping_add(a, b) == (a + b) % SeqSpace
wrapping_sub(a, b) == (a - b) % SeqSpace
\* The numbers after a up to and including b, in the order a loop visits them.
After(a, b) == [i \in 1..wrapping_sub(b, a) |-> wrapping_add(a, i)]
Between(a, b) == Range(After(a, wrapping_sub(b, 1)))

Places == work.start .. work.start + work.length - 1

(***************************************************************************)
(* SRTP: rollover count of a sequence number, replay window.               *)
(***************************************************************************)
next_rollover_count(s, seq) ==
    LET roc == s.index \div SeqSpace
        last == s.index % SeqSpace
        diff == seq - last
    IN CASE ~s.processed -> [roc |-> roc, diff |-> 0]
         [] s.processed /\ s.index > Half /\ last < Half /\ diff > Half ->
                [roc |-> roc - 1, diff |-> diff - SeqSpace]
         [] s.processed /\ s.index > Half /\ last >= Half /\ last - Half > seq ->
                [roc |-> roc + 1, diff |-> diff + SeqSpace]
         [] OTHER -> [roc |-> roc, diff |-> diff]

update_rollover_count(s, seq, diff) ==
    IF s.processed THEN [s EXCEPT !.index = @ + diff]
    ELSE [s EXCEPT !.index = @ + seq, !.processed = TRUE]

NewDetector == [init |-> FALSE, latest |-> 0, mask |-> {}]
NewState == [index |-> 0, processed |-> FALSE, detector |-> NewDetector]

\* The latest number before the first one that is checked.
Started(d, seq, mod) ==
    IF d.init THEN d ELSE [d EXCEPT !.init = TRUE, !.latest = (seq - 1) % mod]

Behind(d, seq, mod) ==
    LET diff == d.latest - seq
        max == mod - 1
    IN CASE diff > max \div 2 -> diff - mod
         [] diff <= -(max \div 2) -> diff + mod
         [] OTHER -> diff

\* Mutant: only the mask is looked at.
checkUnbounded(d, seq, mod) == Behind(d, seq, mod) \notin d.mask

check(d, seq, mod) ==
    LET diff == Behind(d, seq, mod) IN diff < Window /\ diff \notin d.mask

accept(d, seq, mod) ==
    LET diff == Behind(d, seq, mod)
    IN IF diff < 0
       THEN [d EXCEPT !.latest = seq,
                      !.mask = {b - diff : b \in {m \in @ : m - diff < Window}} \cup {0}]
       ELSE [d EXCEPT !.mask = @ \cup {diff}]

\* A packet of the stream, encrypted: the new state and the packet.
encrypt_rtp(s, ssrc, seq, n) ==
    LET next == next_rollover_count(s, seq)
    IN <<update_rollover_count(s, seq, next.diff),
         [ssrc |-> ssrc, seq |-> seq, roc |-> next.roc, n |-> n]>>

decrypt_rtp(s, p) ==
    LET next == next_rollover_count(s, p.seq)
        d == Started(s.detector, p.seq, SeqSpace)
        fresh == check(d, p.seq, SeqSpace)
        opens == fresh /\ p.roc = next.roc
    IN [ok |-> opens,
        state |-> IF opens
                  THEN update_rollover_count(
                           [s EXCEPT !.detector = accept(d, p.seq, SeqSpace)], p.seq, next.diff)
                  ELSE [s EXCEPT !.detector = d]]

(***************************************************************************)
(* SendBuffer and NackResponderInterceptor.                                *)
(***************************************************************************)
None == -1

add_sent(b, n) ==
    LET seq == n % SeqSpace
        diff == wrapping_sub(seq, b.highest)
        ahead == b.started /\ diff > 0 /\ diff < Half
        skipped == IF ahead THEN {i % BufSize : i \in Between(b.highest, seq)} ELSE {}
    IN IF b.started /\ diff = 0 THEN b
       ELSE [started |-> TRUE,
             highest |-> IF b.started /\ ~ahead THEN b.highest ELSE seq,
             packets |-> [i \in 0..BufSize - 1 |->
                             CASE i = seq % BufSize -> n
                               [] i # seq % BufSize /\ i \in skipped -> None
                               [] OTHER -> b.packets[i]]]

get_sent(b, seq) ==
    LET diff == wrapping_sub(b.highest, seq)
        n == b.packets[seq % BufSize]
    IN IF b.started /\ diff < Half /\ diff < BufSize /\ n # None /\ n % SeqSpace = seq
       THEN n ELSE None

\* Mutant: only the base of each pair.
AskedBase(pairs) == [i \in DOMAIN pairs |-> pairs[i].packet_id]

\* The packets a NACK asks for: the base of each pair and the bits after it.
Asked(pairs) ==
    FlattenSeq([i \in DOMAIN pairs |->
        <<pairs[i].packet_id>> \o
        [j \in 1..Cardinality(pairs[i].lost) |->
            wrapping_add(pairs[i].packet_id, SetToSortSeq(pairs[i].lost, <)[j] + 1)]])

\* One retransmission: the packet itself, or an RTX packet around it.
Retransmit(t, n) ==
    IF work.rtx
    THEN LET e == encrypt_rtp(t.srtp["rtx"], "rtx", t.rtx_sequence_number, n)
         IN [t EXCEPT !.srtp["rtx"] = e[1], !.out = @ \cup {e[2]},
                      !.rtx_sequence_number = wrapping_add(@, 1)]
    ELSE LET e == encrypt_rtp(t.srtp["media"], "media", n % SeqSpace, n)
         IN [t EXCEPT !.srtp["media"] = e[1], !.out = @ \cup {e[2]}]

handle_nack(t, pairs) ==
    LET places == SelectSeq([i \in DOMAIN Asked(pairs) |-> get_sent(t.buffer, Asked(pairs)[i])],
                            LAMBDA n : n # None)
    IN FoldLeft(Retransmit, t, places)

(***************************************************************************)
(* ReceiveLog and NackGeneratorInterceptor.                                *)
(***************************************************************************)
NewLog == [bits |-> {}, end |-> 0, started |-> FALSE, last_consecutive |-> 0]

get_received(l, seq) == seq % LogSize \in l.bits

fix_last_consecutive(l) ==
    LET run == After(l.last_consecutive, l.end)
        gaps == {i \in DOMAIN run : ~get_received(l, run[i])}
        reached == IF gaps = {} THEN Len(run) ELSE Min(gaps) - 1
    IN [l EXCEPT !.last_consecutive = wrapping_add(@, reached)]

add(l, seq) ==
    LET diff == wrapping_sub(seq, l.end)
        set(k) == [k EXCEPT !.bits = @ \cup {seq % LogSize}]
        moved == [l EXCEPT !.end = seq,
                           !.bits = @ \ {i % LogSize : i \in Between(l.end, seq)}]
    IN CASE ~l.started ->
                set([l EXCEPT !.end = seq, !.started = TRUE, !.last_consecutive = seq])
         [] l.started /\ diff = 0 -> l
         [] l.started /\ diff > 0 /\ diff < Half ->
                set(CASE wrapping_add(l.last_consecutive, 1) = seq ->
                           [moved EXCEPT !.last_consecutive = seq]
                      [] wrapping_sub(seq, l.last_consecutive) > LogSize ->
                           fix_last_consecutive(
                               [moved EXCEPT !.last_consecutive = wrapping_sub(seq, LogSize)])
                      [] OTHER -> moved)
         [] OTHER ->
                set(IF wrapping_add(l.last_consecutive, 1) = seq
                    THEN fix_last_consecutive([l EXCEPT !.last_consecutive = seq]) ELSE l)

\* skip_last_n is 0, as the default chain leaves it.
missing_seq_numbers(l) ==
    IF wrapping_sub(l.end, l.last_consecutive) >= Half THEN <<>>
    ELSE SelectSeq(After(l.last_consecutive, l.end), LAMBDA i : ~get_received(l, i))

nack_pairs_from_sequence_numbers(seqs) ==
    LET step(pairs, seq) ==
            LET p == Last(pairs)
            IN CASE seq = p.packet_id -> pairs
                 [] seq < p.packet_id \/ seq > p.packet_id + PairBits ->
                        Append(pairs, [packet_id |-> seq, lost |-> {}])
                 [] OTHER -> [pairs EXCEPT ![Len(pairs)].lost = @ \cup {seq - p.packet_id - 1}]
    IN FoldLeft(step, <<[packet_id |-> seqs[1], lost |-> {}]>>, Tail(seqs))

(***************************************************************************)
(* ReceiverStream, which the receiver report is made from.                 *)
(***************************************************************************)
NewStream ==
    [bits |-> {}, started |-> FALSE, seq_num_cycles |-> 0, last_seq_num |-> 0,
     last_report_seq_num |-> 0, total_lost |-> 0]

process_rtp(s, seq) ==
    LET diff == wrapping_sub(seq, s.last_seq_num)
        received == s.bits \cup {seq % BitmapSize}
    IN CASE ~s.started ->
                [s EXCEPT !.started = TRUE, !.bits = received, !.last_seq_num = seq,
                          !.last_report_seq_num = wrapping_sub(seq, 1)]
         [] s.started /\ diff > 0 /\ diff < Half ->
                [s EXCEPT !.bits = received \ {i % BitmapSize : i \in Between(s.last_seq_num, seq)},
                          !.seq_num_cycles = IF seq < s.last_seq_num THEN @ + 1 ELSE @,
                          !.last_seq_num = seq]
         [] OTHER -> [s EXCEPT !.bits = received]

\* What the report says of the stream; the saturation at 24 bits is left out.
generate_report(s) ==
    LET since == IF s.last_seq_num = s.last_report_seq_num THEN {}
                 ELSE Between(s.last_report_seq_num, s.last_seq_num)
        lost == {i \in since : i % BitmapSize \notin s.bits}
    IN [s EXCEPT !.total_lost = @ + Cardinality(lost), !.last_report_seq_num = s.last_seq_num]

last_sequence_number(s) == s.seq_num_cycles * SeqSpace + s.last_seq_num

(***************************************************************************)
(* The sending peer.                                                       *)
(***************************************************************************)
NewSender(start) ==
    [next |-> start,
     srtp |-> [s \in Ssrcs |-> NewState],
     buffer |-> [started |-> FALSE, highest |-> 0, packets |-> [i \in 0..BufSize - 1 |-> None]],
     rtx_sequence_number |-> 0, rtcp |-> NewDetector, out |-> {}]

\* The application writes the next packet.  The sender's handshake is complete:
\* before that SRTP refuses what is written.
write_rtp(t) ==
    LET e == encrypt_rtp(t.srtp["media"], "media", t.next % SeqSpace, t.next)
    IN [t EXCEPT !.next = @ + 1, !.buffer = add_sent(@, t.next),
                 !.srtp["media"] = e[1], !.out = @ \cup {e[2]}]

handle_rtcp(t, p) ==
    LET d == Started(t.rtcp, p.index, RtcpMod)
    IN IF ~check(d, p.index, RtcpMod) THEN [t EXCEPT !.rtcp = d]
       ELSE handle_nack([t EXCEPT !.rtcp = accept(d, p.index, RtcpMod)], p.pairs)

(***************************************************************************)
(* The receiving peer.                                                     *)
(***************************************************************************)
NewReceiver(declared) ==
    [up |-> FALSE, srtp |-> [s \in Ssrcs |-> NewState], bound |-> declared,
     log |-> NewLog, stream |-> NewStream, srtcp_index |-> 0]

\* Receiver report and NACK generator see a packet of the primary SSRC, once
\* the stream is bound.
intercept(r, p) ==
    IF r.bound /\ p.ssrc = "media"
    THEN [r EXCEPT !.stream = process_rtp(@, p.seq), !.log = add(@, p.seq)]
    ELSE r

\* EndpointHandler binds a stream nothing declared when its first packet comes.
handle_undeclared_ssrc(r) == [r EXCEPT !.bound = TRUE]

handle_rtp(r, p) ==
    LET d == decrypt_rtp(r.srtp[p.ssrc], p)
        opened == [r EXCEPT !.srtp[p.ssrc] = d.state]
    IN IF d.ok THEN handle_undeclared_ssrc(intercept(opened, p)) ELSE opened

generate_nacks(r) == nack_pairs_from_sequence_numbers(missing_seq_numbers(r.log))

(***************************************************************************)
(* The system.                                                             *)
(***************************************************************************)
Init ==
    /\ work \in Workloads
    /\ tx = NewSender(work.start)
    /\ rx = NewReceiver(work.declared)
    /\ net = {}
    /\ spent = [loss |-> 0, repeat |-> 0, nack |-> 0, report |-> 0]
    /\ heard = [first |-> None, places |-> {}]
    /\ got = [n \in work.start .. work.start + work.length - 1 |-> 0]

\* The packets the core has produced go out with the step that produced them.
Sending(t) == /\ tx' = [t EXCEPT !.out = {}]
              /\ net' = net \cup t.out

\* DTLSHandshakeComplete at the receiver.
DTLSHandshakeComplete ==
    /\ ~rx.up
    /\ rx' = [rx EXCEPT !.up = TRUE]
    /\ UNCHANGED <<work, tx, net, spent, heard, got>>

WriteRtp ==
    /\ tx.next \in Places
    /\ Sending(write_rtp(tx))
    /\ UNCHANGED <<work, rx, spent, heard, got>>

\* A packet leaves the network, or stays to arrive again.
Arrives(p, rest) ==
    \/ rest = net \ {p} /\ UNCHANGED spent
    \/ /\ spent.repeat < work.repeats
       /\ rest = net
       /\ spent' = [spent EXCEPT !.repeat = @ + 1]

\* A media packet reaches the receiver.
DeliverRtp(p) ==
    /\ p.ssrc \in Ssrcs
    /\ \E rest \in {net, net \ {p}} : Arrives(p, rest) /\ net' = rest
    /\ rx' = IF rx.up THEN handle_rtp(rx, p) ELSE rx
    /\ LET opens == rx.up /\ decrypt_rtp(rx.srtp[p.ssrc], p).ok
       IN /\ got' = IF opens THEN [got EXCEPT ![p.n] = @ + 1] ELSE got
          /\ heard' = IF opens /\ rx.bound /\ p.ssrc = "media"
                         THEN [first |-> IF heard.first = None THEN p.n ELSE heard.first,
                              places |-> heard.places \cup {p.n}]
                         ELSE heard
    /\ UNCHANGED <<work, tx>>

\* A NACK reaches the sender.
DeliverNack(p) ==
    /\ p.ssrc = "rtcp"
    /\ \E rest \in {net, net \ {p}} :
           /\ Arrives(p, rest)
           /\ tx' = [handle_rtcp(tx, p) EXCEPT !.out = {}]
           /\ net' = rest \cup handle_rtcp(tx, p).out
    /\ UNCHANGED <<work, rx, heard, got>>

Lose(p) ==
    /\ spent.loss < work.losses
    /\ spent' = [spent EXCEPT !.loss = @ + 1]
    /\ net' = net \ {p}
    /\ UNCHANGED <<work, tx, rx, heard, got>>

NacksUnderWay == {p \in net : p.ssrc = "rtcp"}

\* The timer of the NACK generator.  RTX numbers its packets for ever, so with
\* RTX the timers are counted.
NackReady ==
    /\ rx.up /\ rx.bound /\ missing_seq_numbers(rx.log) # <<>>
    /\ Cardinality(NacksUnderWay) < work.timers
    /\ work.rtx => spent.nack < work.timers

NackTimer ==
    /\ NackReady
    /\ LET index == (rx.srtcp_index + 1) % RtcpMod
       IN /\ rx' = [rx EXCEPT !.srtcp_index = index]
          /\ net' = net \cup {[ssrc |-> "rtcp", index |-> index, pairs |-> generate_nacks(rx)]}
    /\ spent' = IF work.rtx THEN [spent EXCEPT !.nack = @ + 1] ELSE spent
    /\ UNCHANGED <<work, tx, heard, got>>

\* The timer of the receiver report.  A report has an SSRC, and so an SRTCP index,
\* of its own; the peer keeps nothing of it but statistics.
ReportTimer ==
    /\ rx.up /\ rx.bound
    /\ spent.report < work.reports
    /\ rx' = [rx EXCEPT !.stream = generate_report(@)]
    /\ spent' = [spent EXCEPT !.report = @ + 1]
    /\ UNCHANGED <<work, tx, net, heard, got>>

Next ==
    \/ DTLSHandshakeComplete \/ WriteRtp
    \/ \E p \in net : DeliverRtp(p) \/ DeliverNack(p) \/ Lose(p)
    \/ NackTimer \/ ReportTimer

\* The timer is served as long as there is something to ask for, handshakes
\* complete, the application writes on, and the network keeps nothing for ever.
Fairness ==
    /\ ([]<>~NackReady) \/ ([]<><<NackTimer>>_vars)
    /\ <>rx.up
    /\ <>(tx.next = work.start + work.length)
    /\ []<>(\A p \in net : p.ssrc = "rtcp")
    /\ \A i \in 0..RtcpMod - 1 : []<>(\A p \in NacksUnderWay : p.index # i)

Spec == Init /\ [][Next]_vars /\ Fairness

(***************************************************************************)
(* Properties.                                                             *)
(***************************************************************************)
End == Max(heard.places)

\* Every packet under way was protected with the rollover count of its place in
\* the stream, retransmissions included, and the receiver, once it has opened
\* one packet, will guess that count: the index goes back and forth with
\* reordered packets, across the wrap of the sequence number too.
RolloverAgrees ==
    \A p \in net : p.ssrc = "media" =>
        /\ p.roc = p.n \div SeqSpace
        /\ rx.srtp["media"].processed =>
              next_rollover_count(rx.srtp["media"], p.seq).roc = p.roc

\* The generator asks for exactly the packets of its window that are missing: a
\* packet that came is not asked for, one that did not come is not given up.  A
\* packet older than the log would set another packet's bit; the replay window,
\* which is smaller than the log, keeps it away.
LogExact ==
    rx.log.started =>
        ToSet(missing_seq_numbers(rx.log)) =
            {n % SeqSpace : n \in {m \in heard.first .. End : m > End - LogSize} \ heard.places}

\* Without RTX the track is given a packet once, however often the network
\* repeats it and however often it is sent again.
GivenOnce == ~work.rtx => \A n \in Places : got[n] <= 1

\* The extended sequence number a report carries is the highest place, wraps
\* counted from the first packet heard; every packet that is missing at a report
\* has been counted lost, and none twice.
ReportTrue ==
    rx.stream.started =>
        /\ last_sequence_number(rx.stream) = End - (heard.first \div SeqSpace) * SeqSpace
        /\ LET reported == {n \in heard.first .. End :
                               n % SeqSpace = rx.stream.last_report_seq_num}
           IN \A r \in reported :
                  /\ rx.stream.total_lost >= Cardinality((heard.first .. r) \ heard.places)
                  /\ rx.stream.total_lost <= r - heard.first

\* The four above: the receiver opens and hands up what was sent, once, and
\* what it tells the sender is exact.
ReceiverExact == RolloverAgrees /\ LogExact /\ GivenOnce /\ ReportTrue

\* Without RTX a packet the replay window still admits is received in the end,
\* whatever is lost on the way, NACKs and retransmissions included, if the
\* receiver has heard an earlier and a later one.
Recovered ==
    <>[](~work.rtx /\ rx.log.started =>
            \A n \in heard.first .. End : n > End - Window => got[n] > 0)
=============================================================================
