-------------------------------- MODULE Wire --------------------------------
(***************************************************************************)
(* What one end writes and the other end reads.  One of three tasks is done *)
(* from the start to the end of a behaviour:                               *)
(*                                                                         *)
(*   "datagram"   a message goes through the layers below it, perhaps as   *)
(*                the data of a TURN channel, into one datagram; the       *)
(*                demultiplexer of the other end finds its reader          *)
(*                (rtc/src/peer_connection/handler/demuxer.rs, srtp.rs)    *)
(*   "handshake"  DTLS handshake messages cut into fragments, which arrive *)
(*                in any order and more than once (rtc-dtls/src/conn)      *)
(*   "recording"  frames are packetized, written to a file packet by       *)
(*                packet and read from it again                            *)
(*                                                                         *)
(* The formats are those of the modules instantiated here.  SRTP leaves    *)
(* what the demultiplexer looks at as it is and is not one of the layers.  *)
(***************************************************************************)
EXTENDS Bytes, Integers, FiniteSets

S == INSTANCE SctpWire
R == INSTANCE RtcpWire
D == INSTANCE DtlsCipher
U == INSTANCE StunWire
P == INSTANCE RtpWire
C == INSTANCE Containers
N == INSTANCE DnsWire

CONSTANTS
    Tasks,      \* what is done
    writing,    \* the cipher suite of the end that writes records
    reading,    \* and of the end that reads them
    random,     \* the random bytes of a record
    Edits,      \* extensions set and deleted: [op, id, payload]
    MaxEdits    \* bound: edits of a header

VARIABLES
    task,
    stage,      \* where the task is
    wire,       \* a datagram, the fragments that arrived, or a file's writer
    queue,      \* packets to be written
    got         \* what was read

vars == <<task, stage, wire, queue, got>>

Init ==
    /\ task \in Tasks
    /\ stage = "start"
    /\ wire = IF task.what = "recording" THEN task.writer ELSE << >>
    /\ queue = << >>
    /\ got = IF task.what = "handshake" THEN << >> ELSE Fail

-----------------------------------------------------------------------------
(* Datagrams.                                                              *)

match_range(lower, upper, b) == b # << >> /\ b[1] \in lower .. upper
match_dtls(b) == match_range(20, 63, b)
match_srtp(b) == match_range(128, 191, b)
\* Mutant: one packet type too many.
is_rtcpTo224(b) == Len(b) >= 4 /\ b[2] \in 192 .. 224

is_rtcp(b) == Len(b) >= 4 /\ b[2] \in 192 .. 223

\* An association's packet is the data of a protected record.
Record(data) == D!NewRecordLayer(D!VERSION_DTLS12, 1, [kind |-> "ApplicationData", data |-> data])
Sealed(r) == D!encrypt(writing, r.record_layer_header, D!MarshalRecordLayer(r), random)

Written(m) ==
    CASE m.kind = "stun" -> U!Build(m.value).raw
      [] m.kind = "dtls" -> D!MarshalRecordLayer(m.value)
      [] m.kind = "sctp" -> Sealed(Record(S!write_framed(m.value)))
      [] m.kind = "rtcp" -> R!MarshalRtcp(m.value.packets).raw
      [] m.kind = "rtp" -> P!MarshalPacket(m.value)
      [] m.kind = "dns" -> N!Pack(m.value)

\* One record in the datagram; a protected one has a packet of the association.
DataOf(epoch, r) ==
    IF epoch = 0 \/ r = Fail THEN r ELSE S!UnmarshalPacket(r.content.data)
Opened(raw) == IF raw = Refused THEN Fail ELSE D!RecordLayer(raw)
ReadRecord(b, h) ==
    IF h = Fail THEN Fail
    ELSE DataOf(h.epoch, Opened(IF h.epoch = 0 THEN b ELSE D!decrypt(reading, b)))

FirstRecord(d) ==
    IF d = Fail THEN Fail
    ELSE IF d.records = << >> THEN Fail
    ELSE ReadRecord(d.records[1], D!RecordLayerHeader(d.records[1]))
ReadDtls(b) == FirstRecord(D!unpack_datagram(b))

\* handle_read of the demultiplexer, and is_rtcp in that of SRTP.
Demux(b) ==
    IF b = << >> THEN Fail
    ELSE IF match_dtls(b) THEN ReadDtls(b)
    ELSE IF match_srtp(b) THEN (IF is_rtcp(b) THEN R!UnmarshalRtcp(b) ELSE P!UnmarshalPacket(b))
    ELSE U!Decode(b)

\* What the TURN client hands on of a datagram of its server, if anything.
Relayed(b) == LET c == U!DecodeChannelData(b) IN IF c = Fail THEN << >> ELSE c.data

Sends ==
    /\ task.what = "datagram" /\ stage = "start"
    /\ wire' = IF task.channel = 0 THEN Written(task.message)
               ELSE U!EncodeChannelData([number |-> task.channel, data |-> Written(task.message)])
    /\ stage' = "sent"
    /\ UNCHANGED <<task, queue, got>>

\* A datagram larger than the buffer it is received in loses its end.
Truncates ==
    /\ stage = "sent"
    /\ \E n \in 1 .. Len(wire) - 1 : wire' = Slice(wire, 0, n)
    /\ stage' = "short"
    /\ UNCHANGED <<task, queue, got>>

Receives ==
    /\ stage \in {"sent", "short"}
    /\ got' = IF task.message.kind = "dns" THEN N!Unpack(wire)
              ELSE Demux(IF task.channel = 0 THEN wire ELSE Relayed(wire))
    /\ stage' = IF stage = "sent" THEN "read" ELSE "read short"
    /\ UNCHANGED <<task, wire, queue>>

\* set_extension and del_extension before a packet is sent.
EditsHeader ==
    /\ task.what = "datagram" /\ stage = "start" /\ task.message.kind = "rtp"
    /\ Len(queue) < MaxEdits
    /\ \E e \in Edits :
        /\ queue' = Append(queue, e)
        /\ task' = [task EXCEPT !.message.value.header =
                      IF e.op = "set" THEN P!set_extension(@, e.id, e.payload)
                                      ELSE P!del_extension(@, e.id)]
    /\ UNCHANGED <<stage, wire, got>>

-----------------------------------------------------------------------------
(* Handshake messages in fragments.                                        *)

\* Every fragment of every message, each in a record of its own.
Fragment(f) ==
    D!MarshalRecordLayerHeader([content_type |-> D!ContentTypes.Handshake,
        protocol_version |-> D!VERSION_DTLS12, epoch |-> 0, sequence_number |-> <<0, 0>>,
        content_len |-> Len(f)]) \o f

AllFragments(t) ==
    FlattenSeq([i \in 1 .. Len(t.messages) |-> D!fragment_handshake(t.mtu, t.messages[i])])

\* The loop over pop in handle_incoming_packet: whole messages, in order.
RECURSIVE Popped(_, _)
Popped(cache, done) ==
    LET r == D!pop_message(cache, Len(done))
    IN IF r = Fail THEN [cache |-> cache, done |-> done]
       ELSE Popped(r.cache, Append(done, r.message))

\* queue has the places of the fragments that arrived.
FragmentArrives ==
    /\ task.what = "handshake" /\ Len(queue) < task.arrivals
    /\ \E i \in 1 .. Len(AllFragments(task)) :
        LET pushed == D!push_fragments(wire, Fragment(AllFragments(task)[i])).cache
        IN /\ wire' = Popped(pushed, got).cache
           /\ got' = Popped(pushed, got).done
           /\ queue' = Append(queue, i)
    /\ UNCHANGED <<task, stage>>

-----------------------------------------------------------------------------
(* Recordings.                                                             *)

NewPayloader(t) ==
    CASE t.codec = "vp8" -> [enable_picture_id |-> TRUE, picture_id |-> t.picture_id]
      [] t.codec = "vp9" -> [picture_id |-> t.picture_id]
      [] t.codec = "h264" -> [sps |-> << >>, pps |-> << >>]
      [] t.codec \in {"av1", "opus", "h265"} -> << >>

payload(t, s, frame) ==
    CASE t.codec = "vp8" -> C!Vp8(s, t.mtu, frame)
      [] t.codec = "vp9" -> C!Vp9(s, t.mtu, frame)
      [] t.codec = "av1" -> C!Av1(s, t.mtu, frame)
      [] t.codec = "opus" -> C!Opus(s, t.mtu, frame)
      [] t.codec = "h264" -> C!H264(s, t.mtu, frame)
      [] t.codec = "h265" -> C!Hevc(s, t.mtu, frame)

\* The packets of a frame, with one timestamp and a marker on the last, and then
\* those of the frames after it, by the payloader as this one left it.
RECURSIVE Packets(_, _, _), PacketsOf(_, _, _)
PacketsOf(t, r, i) ==
    [k \in 1 .. Len(r.out) |-> [payload |-> r.out[k], marker |-> k = Len(r.out), timestamp |-> i * 960]]
    \o Packets(t, r.s, i + 1)
Packets(t, s, i) ==
    IF i > Len(t.frames) THEN << >> ELSE PacketsOf(t, payload(t, s, t.frames[i]), i)

Packetizes ==
    /\ task.what = "recording" /\ stage = "start"
    /\ queue' = Packets(task, NewPayloader(task), 1)
    /\ stage' = "packets"
    /\ UNCHANGED <<task, wire, got>>

write_rtp(t, w, p) ==
    CASE t.codec \in {"vp8", "vp9", "av1"} -> C!IvfWriteRtp(w, p)
      [] t.codec = "opus" -> C!OggWriteRtp(w, p)
      [] t.codec \in {"h264", "h265"} -> C!H26xWriteRtp(w, p)

Records ==
    /\ stage = "packets" /\ queue # << >>
    /\ wire' = write_rtp(task, wire, Head(queue))
    /\ queue' = Tail(queue)
    /\ UNCHANGED <<task, stage, got>>

CloseFile(t, w) ==
    CASE t.codec \in {"vp8", "vp9", "av1"} -> C!IvfClose(w)
      [] t.codec = "opus" -> C!OggClose(w)
      [] t.codec \in {"h264", "h265"} -> C!H26xClose(w)

\* The frames a player finds: for Opus the pages between the tags and the end.
Played(t, file) ==
    CASE t.codec \in {"vp8", "vp9", "av1"} ->
           LET frames == C!IvfReader(file).frames IN [i \in 1 .. Len(frames) |-> frames[i].data]
      [] t.codec = "opus" ->
           LET pages == C!OggReader(file, TRUE).pages
           IN [i \in 1 .. Len(pages) - 2 |-> pages[i + 1].payload]
      [] t.codec \in {"h264", "h265"} -> C!H26xReader(file, t.codec = "h265").units

Plays ==
    /\ stage = "packets" /\ queue = << >>
    /\ wire' = CloseFile(task, wire)
    /\ got' = [frames |-> Played(task, wire'.file)]
    /\ stage' = "read"
    /\ UNCHANGED <<task, queue>>

-----------------------------------------------------------------------------
Next ==
    \/ Sends \/ Truncates \/ Receives \/ EditsHeader
    \/ FragmentArrives
    \/ Packetizes \/ Records \/ Plays

Spec == Init /\ [][Next]_vars

-----------------------------------------------------------------------------
(* Properties.                                                             *)

\* A record of a name has its type and its length once it was read.
Filled(rs) ==
    [i \in 1 .. Len(rs) |-> [rs[i] EXCEPT !.header.typ = rs[i].body.typ, !.header.length = 0]]
FilledAll(d) == [d EXCEPT !.answers = Filled(@), !.additionals = Filled(@)]

\* v is what was written as m; an RTP header has the place where it ends, too.
AsWritten(m, v) ==
    CASE m.kind = "rtp" -> /\ {"header", "payload"} \subseteq DOMAIN v
                           /\ v.payload = m.value.payload
                           /\ \A f \in DOMAIN m.value.header : v.header[f] = m.value.header[f]
      [] m.kind = "dns" -> v # Fail /\ FilledAll(v) = FilledAll(m.value)
      [] m.kind = "stun" -> v = U!Build(m.value)
      [] m.kind \in {"dtls", "sctp", "rtcp"} -> v = m.value

\* A datagram that lost its end is refused, and never read as a shorter
\* message, unless it lost only the padding of a channel's data or whole
\* packets of an RTCP compound; an RTP packet's payload has no length of its
\* own.
CutRefused ==
    stage = "read short" /\ task.message.kind # "rtp" =>
        \/ got = Fail
        \/ task.channel # 0 /\ AsWritten(task.message, got)
        \/ task.message.kind = "rtcp" /\ IsStrictPrefix(got.packets, task.message.value.packets)

\* A datagram is read by the reader of the protocol that wrote it, and as what
\* was written, with all the layers in between: handle_read of the
\* demultiplexer finds STUN, DTLS, RTP and RTCP by their first bytes, and no
\* message of one of them, whatever its fields, looks like one of another.
\* An RTP header keeps every extension that was set and not deleted, and
\* marshal_size is the number of bytes written.  A datagram that was cut is
\* refused, as above.
ReadsBack ==
    /\ CutRefused
    /\ task.what = "datagram" /\ stage = "read" =>
        /\ AsWritten(task.message, got)
        /\ task.message.kind = "rtp" /\ task.channel = 0 => P!PacketSize(task.message.value) = Len(wire)

\* The handshake messages come out of the fragment buffer whole and in their
\* order, each as soon as every fragment of it and of those before it arrived,
\* whatever the order and the repetitions.
Reassembled ==
    task.what = "handshake" =>
        LET whole == [i \in 1 .. Len(task.messages) |-> D!MarshalHandshake(task.messages[i])]
            Count(i) == Len(D!fragment_handshake(task.mtu, task.messages[i]))
            before[i \in 0 .. Len(whole)] == IF i = 0 THEN 0 ELSE before[i - 1] + Count(i)
            arrived == {i \in 0 .. Len(whole) : 1 .. before[i] \subseteq ToSet(queue)}
        IN got = SubSeq(whole, 1, CHOOSE i \in arrived : \A j \in arrived : j <= i)

\* A recording has the frames that were packetized, for every codec with a
\* writer and whatever the size of the packets.
Recorded == task.what = "recording" /\ stage = "read" => got.frames = task.expect
=============================================================================
