------------------------------ MODULE RtcpWire ------------------------------
(***************************************************************************)
(* The bytes of an RTCP datagram: rtc-rtcp/src.  A packet is a record      *)
(* whose field kind names its type; a datagram is a sequence of packets.   *)
(***************************************************************************)
EXTENDS Bytes, Integers

\* header.rs
PacketType == [SenderReport |-> 200, ReceiverReport |-> 201, SourceDescription |-> 202,
    Goodbye |-> 203, ApplicationDefined |-> 204, TransportSpecificFeedback |-> 205,
    PayloadSpecificFeedback |-> 206, ExtendedReport |-> 207]
FORMAT_SLI == 2
FORMAT_PLI == 1
FORMAT_FIR == 4
FORMAT_TLN == 1
FORMAT_RRR == 5
FORMAT_REMB == 15
FORMAT_TCC == 15
COUNT_MAX == 31
SDES_MAX_OCTET_COUNT == 255

\* A type that is not one of the above is read as Unsupported, 0.
PacketTypeFrom(n) == IF n \in 200 .. 207 THEN n ELSE 0

\* util.rs
get_padding_size(len) == IF len % 4 = 0 THEN 0 ELSE 4 - (len % 4)

put_padding(len) ==
    [i \in 1 .. get_padding_size(len) |-> IF i = get_padding_size(len) THEN i ELSE 0]

\* Header::marshal_to, with the length and the padding flag that every
\* packet's header() computes from its raw size.
MarshalHeader(count, packet_type, raw_size) ==
    <<128 + Flag(get_padding_size(raw_size) # 0, 5) + count, packet_type>>
    \o U16((raw_size + get_padding_size(raw_size)) \div 4 - 1)

Header(raw) ==
    IF Len(raw) < 4 \/ raw[1] \div 64 # 2 THEN Fail
    ELSE [padding |-> Bit(raw[1], 5), count |-> raw[1] % 32,
          packet_type |-> PacketTypeFrom(raw[2]), length |-> Get16(raw, 2)]

\* The header is readable and says this type.
Is(raw, packet_type) == Header(raw) # Fail /\ Header(raw).packet_type = packet_type

IsFeedback(raw, packet_type, format) == Is(raw, packet_type) /\ Header(raw).count = format

\* A whole packet: header, body, padding.
Packed(count, packet_type, raw_size, body) ==
    MarshalHeader(count, packet_type, raw_size) \o body \o put_padding(raw_size)

-----------------------------------------------------------------------------
(* Reports. *)

RECEPTION_REPORT_LENGTH == 24

ReceptionReport(raw) ==
    Take(<< <<"ssrc", 4>>, <<"fraction_lost", 1>>, <<"total_lost", 3>>,
            <<"last_sequence_number", 4>>, <<"jitter", 4>>, <<"last_sender_report", 4>>,
            <<"delay", 4>> >>, raw)

MarshalReceptionReport(r) ==
    Put(<< <<"ssrc", 4>>, <<"fraction_lost", 1>>, <<"total_lost", 3>>,
           <<"last_sequence_number", 4>>, <<"jitter", 4>>, <<"last_sender_report", 4>>,
           <<"delay", 4>> >>, r)

\* A report is refused when total_lost needs more than 25 bits.
ReportsFit(reports) ==
    /\ Len(reports) <= COUNT_MAX
    /\ \A i \in 1 .. Len(reports) : reports[i].total_lost < 2^25

SenderReportSize(p) ==
    4 + 24 + RECEPTION_REPORT_LENGTH * Len(p.reports) + Len(p.profile_extensions)

MarshalSenderReport(p) ==
    IF ~ReportsFit(p.reports) THEN Refused
    ELSE Packed(Len(p.reports), PacketType.SenderReport, SenderReportSize(p),
            Put(<< <<"ssrc", 4>>, <<"ntp_time", 8>>, <<"rtp_time", 4>>, <<"packet_count", 4>>,
                   <<"octet_count", 4>> >>, p)
            \o Each(MarshalReceptionReport, p.reports) \o p.profile_extensions)

\* Everything after the reports, padding included, is profile_extensions.
SenderReport(raw) ==
    LET reportsEnd == 28 + RECEPTION_REPORT_LENGTH * Header(raw).count
    IN IF ~Is(raw, PacketType.SenderReport) THEN Fail
       ELSE IF Len(raw) < 28 \/ Len(raw) < reportsEnd THEN Fail
       ELSE Take(<< <<"ssrc", 4>>, <<"ntp_time", 8>>, <<"rtp_time", 4>>, <<"packet_count", 4>>,
                    <<"octet_count", 4>> >>, From(raw, 4))
            @@ [kind |-> "SenderReport",
                reports |-> Items(ReceptionReport, Slice(raw, 28, reportsEnd), 24),
                profile_extensions |-> From(raw, reportsEnd)]

ReceiverReportSize(p) ==
    8 + RECEPTION_REPORT_LENGTH * Len(p.reports) + Len(p.profile_extensions)

MarshalReceiverReport(p) ==
    IF ~ReportsFit(p.reports) THEN Refused
    ELSE Packed(Len(p.reports), PacketType.ReceiverReport, ReceiverReportSize(p),
            U32(p.ssrc) \o Each(MarshalReceptionReport, p.reports) \o p.profile_extensions)

ReceiverReport(raw) ==
    LET reportsEnd == 8 + RECEPTION_REPORT_LENGTH * Header(raw).count
    IN IF ~Is(raw, PacketType.ReceiverReport) THEN Fail
       ELSE IF Len(raw) < 8 \/ Len(raw) < reportsEnd THEN Fail
       ELSE [kind |-> "ReceiverReport", ssrc |-> Get32(raw, 4),
             reports |-> Items(ReceptionReport, Slice(raw, 8, reportsEnd), 24),
             profile_extensions |-> From(raw, reportsEnd)]

-----------------------------------------------------------------------------
(* Source descriptions and goodbyes.  The text of an item is its bytes. *)

SdesEnd == 0
SdesCname == 1

\* Types above 8 are read as the end of the list.
SdesType(n) == IF n \in 1 .. 8 THEN n ELSE SdesEnd

ItemSize(it) == 2 + Len(it.text)

ItemFits(it) == it.sdes_type # SdesEnd /\ Len(it.text) <= SDES_MAX_OCTET_COUNT

MarshalItem(it) == <<it.sdes_type, Len(it.text)>> \o it.text

SourceDescriptionItem(raw) ==
    IF Len(raw) < 1 THEN Fail
    ELSE IF SdesType(raw[1]) = SdesEnd THEN [sdes_type |-> SdesEnd, text |-> <<>>]
    ELSE IF Len(raw) < 2 \/ 2 + raw[2] > Len(raw) THEN Fail
    ELSE [sdes_type |-> SdesType(raw[1]), text |-> Slice(raw, 2, 2 + raw[2])]

ChunkRawSize(c) == 4 + Total([i \in 1 .. Len(c.items) |-> ItemSize(c.items[i])]) + 1

ChunkSize(c) == ChunkRawSize(c) + get_padding_size(ChunkRawSize(c))

MarshalSdesChunk(c) ==
    U32(c.source) \o Each(MarshalItem, c.items) \o <<SdesEnd>> \o put_padding(ChunkRawSize(c))

\* The items up to the end mark.  The chunk takes ChunkSize bytes, so the
\* padding after the mark must be there.
RECURSIVE SdesItems(_, _)
SdesItems(raw, offset) ==
    LET Before(it, rest) == IF rest = Fail THEN Fail ELSE [items |-> <<it>> \o rest.items]
        Read(it) == IF it = Fail THEN Fail
                    ELSE IF it.sdes_type = SdesEnd
                    THEN IF Len(raw) - offset - 1 >= get_padding_size(offset + 1)
                         THEN [items |-> <<>>] ELSE Fail
                    ELSE Before(it, SdesItems(raw, offset + ItemSize(it)))
    IN IF offset >= Len(raw) THEN Fail ELSE Read(SourceDescriptionItem(From(raw, offset)))

SourceDescriptionChunk(raw) ==
    LET Build(list) == IF list = Fail THEN Fail
                       ELSE [source |-> Get32(raw, 0), items |-> list.items]
    IN IF Len(raw) < 5 THEN Fail ELSE Build(SdesItems(raw, 4))

RECURSIVE SdesChunks(_)
SdesChunks(raw) ==
    LET Before(c, rest) == IF rest = Fail THEN Fail ELSE [chunks |-> <<c>> \o rest.chunks]
        Read(c) == IF c = Fail THEN Fail ELSE Before(c, SdesChunks(From(raw, ChunkSize(c))))
    IN IF Len(raw) = 0 THEN [chunks |-> <<>>] ELSE Read(SourceDescriptionChunk(raw))

SourceDescriptionSize(p) == 4 + Total([i \in 1 .. Len(p.chunks) |-> ChunkSize(p.chunks[i])])

MarshalSourceDescription(p) ==
    IF \/ Len(p.chunks) > COUNT_MAX
       \/ \E i \in 1 .. Len(p.chunks) : \E j \in 1 .. Len(p.chunks[i].items) :
              ~ItemFits(p.chunks[i].items[j])
    THEN Refused
    ELSE Packed(Len(p.chunks), PacketType.SourceDescription, SourceDescriptionSize(p),
            Each(MarshalSdesChunk, p.chunks))

SourceDescription(raw) ==
    LET Build(list) == IF list = Fail THEN Fail
                       ELSE IF Len(list.chunks) # Header(raw).count THEN Fail
                       ELSE [kind |-> "SourceDescription", chunks |-> list.chunks]
    IN IF ~Is(raw, PacketType.SourceDescription) THEN Fail ELSE Build(SdesChunks(From(raw, 4)))

GoodbyeSize(p) == 4 + 4 * Len(p.sources) + Len(p.reason) + 1

MarshalGoodbye(p) ==
    IF Len(p.sources) > COUNT_MAX \/ Len(p.reason) > SDES_MAX_OCTET_COUNT THEN Refused
    ELSE Packed(Len(p.sources), PacketType.Goodbye, GoodbyeSize(p),
            Each(U32, p.sources) \o <<Len(p.reason)>> \o p.reason)

Goodbye(raw) ==
    LET offset == 4 + 4 * Header(raw).count
        Reason == IF offset = Len(raw) THEN <<>> ELSE Slice(raw, offset + 1, offset + 1 + raw[offset + 1])
    IN IF ~Is(raw, PacketType.Goodbye) \/ get_padding_size(Len(raw)) # 0 THEN Fail
       ELSE IF offset > Len(raw) THEN Fail
       ELSE IF offset < Len(raw) /\ offset + 1 + raw[offset + 1] > Len(raw) THEN Fail
       ELSE [kind |-> "Goodbye", reason |-> Reason,
             sources |-> Items(LAMBDA b : Get32(b, 0), Slice(raw, 4, offset), 4)]

-----------------------------------------------------------------------------
(* Feedback packets.  Each starts with the SSRCs of its sender and of the  *)
(* media it is about.                                                      *)

SSRCs(p) == U32(p.sender_ssrc) \o U32(p.media_ssrc)

MarshalPictureLossIndication(p) ==
    Packed(FORMAT_PLI, PacketType.PayloadSpecificFeedback, 12, SSRCs(p))

PictureLossIndication(raw) ==
    IF Len(raw) < 12 \/ ~IsFeedback(raw, PacketType.PayloadSpecificFeedback, FORMAT_PLI) THEN Fail
    ELSE [kind |-> "PictureLossIndication", sender_ssrc |-> Get32(raw, 4), media_ssrc |-> Get32(raw, 8)]

MarshalRapidResynchronizationRequest(p) ==
    Packed(FORMAT_RRR, PacketType.TransportSpecificFeedback, 12, SSRCs(p))

RapidResynchronizationRequest(raw) ==
    IF Len(raw) < 12 \/ ~IsFeedback(raw, PacketType.TransportSpecificFeedback, FORMAT_RRR) THEN Fail
    ELSE [kind |-> "RapidResynchronizationRequest",
          sender_ssrc |-> Get32(raw, 4), media_ssrc |-> Get32(raw, 8)]

\* The bytes the header's length covers are there.
LengthFits(raw) == 4 + 4 * Header(raw).length <= Len(raw)

MarshalFullIntraRequest(p) ==
    LET Entry(e) == U32(e.ssrc) \o <<e.sequence_number>> \o Zeros(3)
    IN Packed(FORMAT_FIR, PacketType.PayloadSpecificFeedback, 12 + 8 * Len(p.fir),
            SSRCs(p) \o Each(Entry, p.fir))

FullIntraRequest(raw) ==
    LET end == 4 + 4 * Header(raw).length
        Entry(b) == [ssrc |-> Get32(b, 0), sequence_number |-> b[5]]
    IN IF Len(raw) < 20 \/ ~IsFeedback(raw, PacketType.PayloadSpecificFeedback, FORMAT_FIR) THEN Fail
       ELSE IF end < 20 \/ ~LengthFits(raw) \/ (end - 12) % 8 # 0 THEN Fail
       ELSE [kind |-> "FullIntraRequest", sender_ssrc |-> Get32(raw, 4), media_ssrc |-> Get32(raw, 8),
             fir |-> Items(Entry, Slice(raw, 12, end), 8)]

\* Written and read as a transport feedback although unmarshaller looks for
\* it among the payload feedbacks.
MarshalSliceLossIndication(p) ==
    LET Entry(e) == U32(e.first * 2^19 + e.number * 2^6 + e.picture)
    IN Packed(FORMAT_SLI, PacketType.TransportSpecificFeedback, 12 + 4 * Len(p.sli_entries),
            SSRCs(p) \o Each(Entry, p.sli_entries))

SliceLossIndication(raw) ==
    LET Entry(b) == [first |-> (Get32(b, 0) \div 2^19) % 2^13, number |-> (Get32(b, 0) \div 2^6) % 2^13,
                     picture |-> Get32(b, 0) % 2^6]
    IN IF Len(raw) < 12 \/ ~IsFeedback(raw, PacketType.TransportSpecificFeedback, FORMAT_SLI) THEN Fail
       ELSE IF ~LengthFits(raw) THEN Fail
       ELSE [kind |-> "SliceLossIndication", sender_ssrc |-> Get32(raw, 4), media_ssrc |-> Get32(raw, 8),
             sli_entries |-> Items(Entry, Slice(raw, 12, 4 + 4 * Header(raw).length), 4)]

\* The estimate keeps the 18 leading bits of the bitrate.
RECURSIVE MantissaExp(_, _)
MantissaExp(bitrate, exp) ==
    IF bitrate >= 2^18 THEN MantissaExp(bitrate \div 2, exp + 1) ELSE <<bitrate, exp>>

UNIQUE_IDENTIFIER == <<82, 69, 77, 66>>

MarshalReceiverEstimatedMaximumBitrate(p) ==
    LET Rate(me) == U24(me[2] * 2^18 + me[1])
    IN Packed(FORMAT_REMB, PacketType.PayloadSpecificFeedback, 20 + 4 * Len(p.ssrcs),
            U32(p.sender_ssrc) \o U32(0) \o UNIQUE_IDENTIFIER \o <<Len(p.ssrcs) % 256>>
            \o Rate(MantissaExp(p.bitrate, 0)) \o Each(U32, p.ssrcs))

\* The bits of the mantissa are put below an implicit leading one; there is
\* none to find in a mantissa of zero, which is read as 2^23.
ReceiverEstimatedMaximumBitrate(raw) ==
    LET mantissa == Get24(raw, 17) % 2^18
        exp == raw[18] \div 4
    IN IF Len(raw) < 20 \/ ~IsFeedback(raw, PacketType.PayloadSpecificFeedback, FORMAT_REMB) THEN Fail
       ELSE IF Get32(raw, 8) # 0 \/ Slice(raw, 12, 16) # UNIQUE_IDENTIFIER THEN Fail
       ELSE IF Len(raw) < 20 + 4 * raw[17] THEN Fail
       ELSE [kind |-> "ReceiverEstimatedMaximumBitrate", sender_ssrc |-> Get32(raw, 4),
             bitrate |-> (IF mantissa = 0 THEN 2^23 ELSE mantissa) * 2^exp,
             ssrcs |-> Items(LAMBDA b : Get32(b, 0), Slice(raw, 20, 20 + 4 * raw[17]), 4)]

-----------------------------------------------------------------------------
(* Negative acknowledgements. *)

MarshalTransportLayerNack(p) ==
    LET Pair(n) == U16(n.packet_id) \o U16(n.lost_packets)
    IN IF Len(p.nacks) + 2 > 255 THEN Refused
       ELSE Packed(FORMAT_TLN, PacketType.TransportSpecificFeedback, 12 + 4 * Len(p.nacks),
                SSRCs(p) \o Each(Pair, p.nacks))

TransportLayerNack(raw) ==
    LET Pair(b) == [packet_id |-> Get16(b, 0), lost_packets |-> Get16(b, 2)]
    IN IF Len(raw) < 16 \/ ~IsFeedback(raw, PacketType.TransportSpecificFeedback, FORMAT_TLN) THEN Fail
       ELSE IF ~LengthFits(raw) THEN Fail
       ELSE [kind |-> "TransportLayerNack", sender_ssrc |-> Get32(raw, 4), media_ssrc |-> Get32(raw, 8),
             nacks |-> Items(Pair, Slice(raw, 12, 12 + 4 * (Header(raw).length - 2)), 4)]

\* NackPair::packet_list: the packet and those whose bit is set, in order.
packet_list(pair) ==
    <<pair.packet_id>> \o
    [i \in 1 .. Len(SelectSeq([j \in 1 .. 16 |-> j], LAMBDA j : Bit(pair.lost_packets, j - 1))) |->
        (pair.packet_id + SelectSeq([j \in 1 .. 16 |-> j], LAMBDA j : Bit(pair.lost_packets, j - 1))[i])
            % 65536]

\* Sequence numbers grouped into pairs: a number joins the current pair when
\* it follows it by at most 16, without wrapping.
nack_pairs_from_sequence_numbers(seqs) ==
    LET New(seq) == [packet_id |-> seq, lost_packets |-> 0]
        Joins(pair, seq) == seq > pair.packet_id /\ seq <= pair.packet_id + 16
        Bitmap(pair, seq) == IF Bit(pair.lost_packets, seq - pair.packet_id - 1) THEN pair.lost_packets
                             ELSE pair.lost_packets + 2^(seq - pair.packet_id - 1)
        Put1(pairs, seq) ==
            IF seq = Last(pairs).packet_id THEN pairs
            ELSE IF Joins(Last(pairs), seq)
            THEN [pairs EXCEPT ![Len(pairs)].lost_packets = Bitmap(Last(pairs), seq)]
            ELSE Append(pairs, New(seq))
        acc[i \in 1 .. Len(seqs)] == IF i = 1 THEN <<New(seqs[1])>> ELSE Put1(acc[i - 1], seqs[i])
    IN IF seqs = <<>> THEN <<>> ELSE acc[Len(seqs)]

-----------------------------------------------------------------------------
(* Transport-wide congestion control feedback. *)

NotReceived == 0
SmallDelta == 1
LargeDelta == 2
TYPE_TCC_DELTA_SCALE_FACTOR == 250

\* A status chunk is sixteen bits: a run of one symbol, or fourteen symbols
\* of one bit, or seven of two bits.
MarshalStatusChunk(c) ==
    LET bits == IF c.symbol_size = 0 THEN 1 ELSE 2
        Placed(i) == c.symbol_list[i] * 2^(14 - bits * i)
    IN IF c.type_tcc = "RunLength" THEN U16(c.packet_status_symbol * 2^13 + c.run_length)
       ELSE U16(2^15 + c.symbol_size * 2^14 + Total([i \in 1 .. Len(c.symbol_list) |-> Placed(i)]))

RunLengthChunk(v) ==
    [type_tcc |-> "RunLength", packet_status_symbol |-> (v \div 2^13) % 4, run_length |-> v % 2^13]

StatusVectorChunk(v) ==
    IF Bit(v, 14)
    THEN [type_tcc |-> "StatusVector", symbol_size |-> 1,
          symbol_list |-> [i \in 1 .. 7 |-> (v \div 2^(14 - 2 * i)) % 4]]
    ELSE [type_tcc |-> "StatusVector", symbol_size |-> 0,
          symbol_list |-> [i \in 1 .. 14 |-> (v \div 2^(14 - i)) % 2]]

PacketStatusChunk(v) == IF Bit(v, 15) THEN StatusVectorChunk(v) ELSE RunLengthChunk(v)

\* How many packets a chunk accounts for when left of them are missing.
Processed(c, left) ==
    IF c.type_tcc = "StatusVector" THEN Len(c.symbol_list)
    ELSE IF left < c.run_length THEN left ELSE c.run_length

\* The kinds of the deltas that a chunk announces.
Announced(c, left) ==
    SelectSeq(IF c.type_tcc = "StatusVector" THEN c.symbol_list
              ELSE [i \in 1 .. Processed(c, left) |-> c.packet_status_symbol],
              LAMBDA sym : sym \in {SmallDelta, LargeDelta})

\* A chunk is only read when bytes follow it.
RECURSIVE StatusChunks(_, _, _)
StatusChunks(raw, pos, left) ==
    LET Before(c, rest) ==
            IF rest = Fail THEN Fail
            ELSE [chunks |-> <<c>> \o rest.chunks, deltas |-> Announced(c, left) \o rest.deltas,
                  end |-> rest.end]
        Read(c) == Before(c, StatusChunks(raw, pos + 2, left - Processed(c, left)))
    IN IF left <= 0 THEN [chunks |-> <<>>, deltas |-> <<>>, end |-> pos]
       ELSE IF pos + 2 >= 4 + 4 * Header(raw).length THEN Fail
       ELSE Read(PacketStatusChunk(Get16(raw, pos)))

RecvDeltaSize(d) == IF d.type_tcc_packet = SmallDelta THEN 1 ELSE 2

DeltaTicks(d) == IF d.delta >= 0 THEN d.delta \div TYPE_TCC_DELTA_SCALE_FACTOR
                 ELSE -((-d.delta) \div TYPE_TCC_DELTA_SCALE_FACTOR)

RecvDeltaFits(d) == \/ d.type_tcc_packet = SmallDelta /\ DeltaTicks(d) \in 0 .. 255
                    \/ d.type_tcc_packet = LargeDelta /\ DeltaTicks(d) \in -32768 .. 32767

MarshalRecvDelta(d) ==
    IF d.type_tcc_packet = SmallDelta THEN <<DeltaTicks(d)>> ELSE U16(DeltaTicks(d) % 65536)

\* RecvDelta::unmarshal goes by the number of bytes it is given.
RecvDelta(b) ==
    IF Len(b) = 1 THEN [type_tcc_packet |-> SmallDelta, delta |-> b[1] * TYPE_TCC_DELTA_SCALE_FACTOR]
    ELSE [type_tcc_packet |-> LargeDelta,
          delta |-> (IF b[1] > 127 THEN Get16(b, 0) - 65536 ELSE Get16(b, 0)) * TYPE_TCC_DELTA_SCALE_FACTOR]

RECURSIVE RecvDeltas(_, _)
RecvDeltas(b, kinds) ==
    LET n == IF Head(kinds) = SmallDelta \/ Len(b) = 1 THEN 1 ELSE 2
        Before(rest) == IF rest = Fail THEN Fail ELSE [deltas |-> <<RecvDelta(Slice(b, 0, n))>> \o rest.deltas]
    IN IF kinds = <<>> THEN [deltas |-> <<>>]
       ELSE IF b = <<>> THEN Fail
       ELSE Before(RecvDeltas(From(b, n), Tail(kinds)))

TransportLayerCcSize(p) ==
    20 + 2 * Len(p.packet_chunks)
    + Total([i \in 1 .. Len(p.recv_deltas) |-> RecvDeltaSize(p.recv_deltas[i])])

MarshalTransportLayerCc(p) ==
    IF \E i \in 1 .. Len(p.recv_deltas) : ~RecvDeltaFits(p.recv_deltas[i]) THEN Refused
    ELSE Packed(FORMAT_TCC, PacketType.TransportSpecificFeedback, TransportLayerCcSize(p),
            SSRCs(p) \o U16(p.base_sequence_number) \o U16(p.packet_status_count)
            \o U24(p.reference_time) \o <<p.fb_pkt_count>>
            \o Each(MarshalStatusChunk, p.packet_chunks) \o Each(MarshalRecvDelta, p.recv_deltas))

TransportLayerCc(raw) ==
    LET total == 4 + 4 * Header(raw).length
        Build(status, list) ==
            IF list = Fail THEN Fail
            ELSE Take(<< <<"sender_ssrc", 4>>, <<"media_ssrc", 4>>, <<"base_sequence_number", 2>>,
                         <<"packet_status_count", 2>>, <<"reference_time", 3>>, <<"fb_pkt_count", 1>> >>,
                      From(raw, 4))
                 @@ [kind |-> "TransportLayerCc", packet_chunks |-> status.chunks,
                     recv_deltas |-> list.deltas]
        Deltas(status) == IF status = Fail THEN Fail
                          ELSE Build(status, RecvDeltas(Slice(raw, status.end, total), status.deltas))
    IN IF Len(raw) < 8 \/ ~IsFeedback(raw, PacketType.TransportSpecificFeedback, FORMAT_TCC) THEN Fail
       ELSE IF total < 20 \/ Len(raw) < total THEN Fail
       ELSE Deltas(StatusChunks(raw, 20, Get16(raw, 14)))

-----------------------------------------------------------------------------
(* Extended reports: a list of blocks, each with a header of its own. *)

BlockType == [LossRLE |-> 1, DuplicateRLE |-> 2, PacketReceiptTimes |-> 3,
    ReceiverReferenceTime |-> 4, DLRR |-> 5, StatisticsSummary |-> 6, VoIPMetrics |-> 7]

\* XRHeader: every block's raw size is a multiple of four.
MarshalXRHeader(block_type, type_specific, body) ==
    <<block_type, type_specific>> \o U16((4 + Len(body)) \div 4 - 1)

MarshalRLEReportBlock(r) ==
    LET body == Put(<< <<"ssrc", 4>>, <<"begin_seq", 2>>, <<"end_seq", 2>> >>, r) \o Each(U16, r.chunks)
    IN MarshalXRHeader(IF r.is_loss_rle THEN BlockType.LossRLE ELSE BlockType.DuplicateRLE, r.t % 16, body)
       \o body

RLEReportBlock(typ, specific, body) ==
    IF Len(body) < 8 \/ (Len(body) - 8) % 2 # 0 THEN Fail
    ELSE Take(<< <<"ssrc", 4>>, <<"begin_seq", 2>>, <<"end_seq", 2>> >>, body)
         @@ [block |-> "RLE", is_loss_rle |-> typ = BlockType.LossRLE, t |-> specific % 16,
             chunks |-> Items(LAMBDA b : Get16(b, 0), From(body, 8), 2)]

MarshalPacketReceiptTimesReportBlock(r) ==
    LET body == Put(<< <<"ssrc", 4>>, <<"begin_seq", 2>>, <<"end_seq", 2>> >>, r) \o Each(U32, r.receipt_time)
    IN MarshalXRHeader(BlockType.PacketReceiptTimes, r.t % 16, body) \o body

PacketReceiptTimesReportBlock(specific, body) ==
    IF Len(body) < 8 \/ (Len(body) - 8) % 4 # 0 THEN Fail
    ELSE Take(<< <<"ssrc", 4>>, <<"begin_seq", 2>>, <<"end_seq", 2>> >>, body)
         @@ [block |-> "PacketReceiptTimes", t |-> specific % 16,
             receipt_time |-> Items(LAMBDA b : Get32(b, 0), From(body, 8), 4)]

MarshalReceiverReferenceTimeReportBlock(r) ==
    MarshalXRHeader(BlockType.ReceiverReferenceTime, 0, r.ntp_timestamp) \o r.ntp_timestamp

ReceiverReferenceTimeReportBlock(body) ==
    IF Len(body) # 8 THEN Fail ELSE [block |-> "ReceiverReferenceTime", ntp_timestamp |-> body]

MarshalDLRRReportBlock(r) ==
    LET Report(d) == Put(<< <<"ssrc", 4>>, <<"last_rr", 4>>, <<"dlrr", 4>> >>, d)
        body == Each(Report, r.reports)
    IN MarshalXRHeader(BlockType.DLRR, 0, body) \o body

DLRRReportBlock(body) ==
    LET Report(b) == Take(<< <<"ssrc", 4>>, <<"last_rr", 4>>, <<"dlrr", 4>> >>, b)
    IN IF Len(body) % 12 # 0 THEN Fail ELSE [block |-> "DLRR", reports |-> Items(Report, body, 12)]

MarshalStatisticsSummaryReportBlock(r) ==
    LET body == Put(<< <<"ssrc", 4>>, <<"begin_seq", 2>>, <<"end_seq", 2>>, <<"lost_packets", 4>>,
                       <<"dup_packets", 4>>, <<"min_jitter", 4>>, <<"max_jitter", 4>>,
                       <<"mean_jitter", 4>>, <<"dev_jitter", 4>>, <<"min_ttl_or_hl", 1>>,
                       <<"max_ttl_or_hl", 1>>, <<"mean_ttl_or_hl", 1>>, <<"dev_ttl_or_hl", 1>> >>, r)
    IN MarshalXRHeader(BlockType.StatisticsSummary,
            Flag(r.loss_reports, 7) + Flag(r.duplicate_reports, 6) + Flag(r.jitter_reports, 5)
            + r.ttl_or_hop_limit * 8, body) \o body

\* A TTL type that is neither IPv4 (1) nor IPv6 (2) is Missing, 0.
StatisticsSummaryReportBlock(specific, body) ==
    IF Len(body) # 36 THEN Fail
    ELSE Take(<< <<"ssrc", 4>>, <<"begin_seq", 2>>, <<"end_seq", 2>>, <<"lost_packets", 4>>,
                 <<"dup_packets", 4>>, <<"min_jitter", 4>>, <<"max_jitter", 4>>,
                 <<"mean_jitter", 4>>, <<"dev_jitter", 4>>, <<"min_ttl_or_hl", 1>>,
                 <<"max_ttl_or_hl", 1>>, <<"mean_ttl_or_hl", 1>>, <<"dev_ttl_or_hl", 1>> >>, body)
         @@ [block |-> "StatisticsSummary", loss_reports |-> Bit(specific, 7),
             duplicate_reports |-> Bit(specific, 6), jitter_reports |-> Bit(specific, 5),
             ttl_or_hop_limit |-> ((specific \div 8) % 4) % 3]

MarshalVoIPMetricsReportBlock(r) ==
    LET body == Put(<< <<"ssrc", 4>>, <<"loss_rate", 1>>, <<"discard_rate", 1>>, <<"burst_density", 1>>,
                       <<"gap_density", 1>>, <<"burst_duration", 2>>, <<"gap_duration", 2>>,
                       <<"round_trip_delay", 2>>, <<"end_system_delay", 2>>, <<"signal_level", 1>>,
                       <<"noise_level", 1>>, <<"rerl", 1>>, <<"gmin", 1>>, <<"rfactor", 1>>,
                       <<"ext_rfactor", 1>>, <<"mos_lq", 1>>, <<"mos_cq", 1>>, <<"rx_config", 1>>,
                       <<"reserved", 1>>, <<"jb_nominal", 2>>, <<"jb_maximum", 2>>, <<"jb_abs_max", 2>> >>, r)
    IN MarshalXRHeader(BlockType.VoIPMetrics, 0, body) \o body

VoIPMetricsReportBlock(body) ==
    IF Len(body) # 32 THEN Fail
    ELSE Take(<< <<"ssrc", 4>>, <<"loss_rate", 1>>, <<"discard_rate", 1>>, <<"burst_density", 1>>,
                 <<"gap_density", 1>>, <<"burst_duration", 2>>, <<"gap_duration", 2>>,
                 <<"round_trip_delay", 2>>, <<"end_system_delay", 2>>, <<"signal_level", 1>>,
                 <<"noise_level", 1>>, <<"rerl", 1>>, <<"gmin", 1>>, <<"rfactor", 1>>,
                 <<"ext_rfactor", 1>>, <<"mos_lq", 1>>, <<"mos_cq", 1>>, <<"rx_config", 1>>,
                 <<"reserved", 1>>, <<"jb_nominal", 2>>, <<"jb_maximum", 2>>, <<"jb_abs_max", 2>> >>, body)
         @@ [block |-> "VoIPMetrics"]

\* An unknown block loses its type: it is written as type 0.
MarshalUnknownReportBlock(r) == MarshalXRHeader(0, 0, r.bytes) \o r.bytes

UnknownReportBlock(body) == [block |-> "Unknown", bytes |-> body]

MarshalReportBlock(r) ==
    CASE r.block = "RLE" -> MarshalRLEReportBlock(r)
      [] r.block = "PacketReceiptTimes" -> MarshalPacketReceiptTimesReportBlock(r)
      [] r.block = "ReceiverReferenceTime" -> MarshalReceiverReferenceTimeReportBlock(r)
      [] r.block = "DLRR" -> MarshalDLRRReportBlock(r)
      [] r.block = "StatisticsSummary" -> MarshalStatisticsSummaryReportBlock(r)
      [] r.block = "VoIPMetrics" -> MarshalVoIPMetricsReportBlock(r)
      [] OTHER -> MarshalUnknownReportBlock(r)

\* The length of a block, times four, is computed in sixteen bits.
ReportBlock(raw) ==
    LET length == 4 * Get16(raw, 2)
        body == Slice(raw, 4, 4 + length)
    IN IF Len(raw) < 4 THEN Fail
       ELSE IF length > 65535 \/ Len(raw) < 4 + length THEN Fail
       ELSE CASE raw[1] \in {1, 2} -> RLEReportBlock(raw[1], raw[2], body)
              [] raw[1] = 3 -> PacketReceiptTimesReportBlock(raw[2], body)
              [] raw[1] = 4 -> ReceiverReferenceTimeReportBlock(body)
              [] raw[1] = 5 -> DLRRReportBlock(body)
              [] raw[1] = 6 -> StatisticsSummaryReportBlock(raw[2], body)
              [] raw[1] = 7 -> VoIPMetricsReportBlock(body)
              [] OTHER -> UnknownReportBlock(body)

RECURSIVE ReportBlocks(_)
ReportBlocks(raw) ==
    LET Before(r, rest) == IF rest = Fail THEN Fail ELSE [reports |-> <<r>> \o rest.reports]
        Read(r) == IF r = Fail THEN Fail ELSE Before(r, ReportBlocks(From(raw, 4 + 4 * Get16(raw, 2))))
    IN IF raw = <<>> THEN [reports |-> <<>>] ELSE Read(ReportBlock(raw))

MarshalExtendedReport(p) ==
    LET blocks == Each(MarshalReportBlock, p.reports)
    IN Packed(0, PacketType.ExtendedReport, 8 + Len(blocks), U32(p.sender_ssrc) \o blocks)

ExtendedReport(raw) ==
    LET Build(list) == IF list = Fail THEN Fail
                       ELSE [kind |-> "ExtendedReport", sender_ssrc |-> Get32(raw, 4), reports |-> list.reports]
    IN IF Len(raw) < 8 \/ ~Is(raw, PacketType.ExtendedReport) THEN Fail ELSE Build(ReportBlocks(From(raw, 8)))

-----------------------------------------------------------------------------
(* Datagrams. *)

\* A packet of a type the library does not know is kept as its bytes.
RawPacket(raw) == IF Header(raw) = Fail THEN Fail ELSE [kind |-> "RawPacket", bytes |-> raw]

MarshalRawPacket(p) ==
    IF Header(p.bytes) = Fail THEN Refused
    ELSE p.bytes \o (IF Header(p.bytes).padding THEN put_padding(Len(p.bytes)) ELSE <<>>)

MarshalPacket(p) ==
    CASE p.kind = "SenderReport" -> MarshalSenderReport(p)
      [] p.kind = "ReceiverReport" -> MarshalReceiverReport(p)
      [] p.kind = "SourceDescription" -> MarshalSourceDescription(p)
      [] p.kind = "Goodbye" -> MarshalGoodbye(p)
      [] p.kind = "PictureLossIndication" -> MarshalPictureLossIndication(p)
      [] p.kind = "RapidResynchronizationRequest" -> MarshalRapidResynchronizationRequest(p)
      [] p.kind = "FullIntraRequest" -> MarshalFullIntraRequest(p)
      [] p.kind = "SliceLossIndication" -> MarshalSliceLossIndication(p)
      [] p.kind = "ReceiverEstimatedMaximumBitrate" -> MarshalReceiverEstimatedMaximumBitrate(p)
      [] p.kind = "TransportLayerNack" -> MarshalTransportLayerNack(p)
      [] p.kind = "TransportLayerCc" -> MarshalTransportLayerCc(p)
      [] p.kind = "ExtendedReport" -> MarshalExtendedReport(p)
      [] OTHER -> MarshalRawPacket(p)

\* unmarshaller: the first packet of the bytes, by the type and the count of
\* its header.
unmarshaller(raw) ==
    LET h == Header(raw)
        packet == Slice(raw, 0, 4 + 4 * h.length)
        transport == h.packet_type = PacketType.TransportSpecificFeedback
        payload == h.packet_type = PacketType.PayloadSpecificFeedback
    IN IF h = Fail THEN Fail
       ELSE IF ~LengthFits(raw) THEN Fail
       ELSE CASE h.packet_type = PacketType.SenderReport -> SenderReport(packet)
              [] h.packet_type = PacketType.ReceiverReport -> ReceiverReport(packet)
              [] h.packet_type = PacketType.SourceDescription -> SourceDescription(packet)
              [] h.packet_type = PacketType.Goodbye -> Goodbye(packet)
              [] h.packet_type = PacketType.ExtendedReport -> ExtendedReport(packet)
              [] transport /\ h.count = FORMAT_TLN -> TransportLayerNack(packet)
              [] transport /\ h.count = FORMAT_RRR -> RapidResynchronizationRequest(packet)
              [] transport /\ h.count = FORMAT_TCC -> TransportLayerCc(packet)
              [] payload /\ h.count = FORMAT_PLI -> PictureLossIndication(packet)
              [] payload /\ h.count = FORMAT_SLI -> SliceLossIndication(packet)
              [] payload /\ h.count = FORMAT_REMB -> ReceiverEstimatedMaximumBitrate(packet)
              [] payload /\ h.count = FORMAT_FIR -> FullIntraRequest(packet)
              [] OTHER -> RawPacket(packet)

\* packet::marshal and packet::unmarshal.
MarshalRtcp(packets) ==
    LET raw == [i \in 1 .. Len(packets) |-> MarshalPacket(packets[i])]
    IN IF \E i \in 1 .. Len(raw) : raw[i] = Refused THEN Fail ELSE [raw |-> FlattenSeq(raw)]

RECURSIVE RtcpPackets(_)
RtcpPackets(raw) ==
    LET Before(p, rest) == IF rest = Fail THEN Fail ELSE [packets |-> <<p>> \o rest.packets]
        Read(p) == IF p = Fail THEN Fail ELSE Before(p, RtcpPackets(From(raw, 4 + 4 * Get16(raw, 2))))
    IN IF raw = <<>> THEN [packets |-> <<>>] ELSE Read(unmarshaller(raw))

UnmarshalRtcp(raw) == IF raw = <<>> THEN Fail ELSE RtcpPackets(raw)

\* The SSRCs a packet is about.
destination_ssrc(p) ==
    LET Each1(s, f) == [i \in 1 .. Len(s) |-> s[i][f]]
    IN CASE p.kind = "SenderReport" -> Each1(p.reports, "ssrc") \o <<p.ssrc>>
         [] p.kind = "ReceiverReport" -> Each1(p.reports, "ssrc")
         [] p.kind = "SourceDescription" -> Each1(p.chunks, "source")
         [] p.kind = "Goodbye" -> p.sources
         [] p.kind = "FullIntraRequest" -> Each1(p.fir, "ssrc")
         [] p.kind = "ReceiverEstimatedMaximumBitrate" -> p.ssrcs
         [] p.kind = "RawPacket" -> <<>>
         [] p.kind = "ExtendedReport" ->
                FlattenSeq([i \in 1 .. Len(p.reports) |->
                    CASE p.reports[i].block \in {"Unknown", "ReceiverReferenceTime"} -> <<>>
                      [] p.reports[i].block = "DLRR" -> Each1(p.reports[i].reports, "ssrc")
                      [] OTHER -> <<p.reports[i].ssrc>>])
         [] OTHER -> <<p.media_ssrc>>

\* CompoundPacket::validate: a report, more receiver reports, then a source
\* description with a CNAME; what follows is not looked at.
HasCname(p) ==
    \E i \in 1 .. Len(p.chunks) : \E j \in 1 .. Len(p.chunks[i].items) :
        p.chunks[i].items[j].sdes_type = SdesCname

ValidCompound(packets) ==
    /\ packets # <<>>
    /\ packets[1].kind \in {"SenderReport", "ReceiverReport"}
    /\ \E i \in 2 .. Len(packets) :
          /\ packets[i].kind = "SourceDescription" /\ HasCname(packets[i])
          /\ \A j \in 2 .. i - 1 : packets[j].kind = "ReceiverReport"
=============================================================================
