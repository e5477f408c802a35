------------------------------ MODULE Payloads ------------------------------
(***************************************************************************)
(* How a frame is cut into RTP payloads and put together again:            *)
(* rtc-rtp/src/codec and packetizer.  A payloader maps its state, the MTU  *)
(* and a frame to [s, out], its new state and a sequence of payloads; a    *)
(* depacketizer maps its state and a payload to [s, out], or to Fail.      *)
(***************************************************************************)
EXTENDS Bytes, Integers

Least(x, y) == IF x < y THEN x ELSE y

\* The pieces of b, each of size bytes but the last.
Chunks(b, size) ==
    [i \in 1 .. (Len(b) + size - 1) \div size |-> Slice(b, (i - 1) * size, Least(i * size, Len(b)))]

\* The pieces of b that fit a packet of mtu bytes behind their header: none if
\* nothing fits.
Fragments(b, mtu, header) == IF b = << >> \/ mtu <= header THEN << >> ELSE Chunks(b, mtu - header)

-----------------------------------------------------------------------------
(* G.711, G.722 and Opus.                                                  *)

G7xx(s, mtu, b) == [s |-> s, out |-> Fragments(b, mtu, 0)]

Opus(s, mtu, b) == [s |-> s, out |-> IF b = << >> \/ mtu = 0 THEN << >> ELSE <<b>>]

OpusPacket(s, p) == IF p = << >> THEN Fail ELSE [s |-> s, out |-> p]

-----------------------------------------------------------------------------
(* VP8.                                                                    *)

VP8_HEADER_SIZE == 1

\* The descriptor has a picture number of 7 bits or of 15 when it is enabled.
Vp8(s, mtu, b) ==
    LET id == IF ~s.enable_picture_id THEN << >>
              ELSE IF s.picture_id < 128 THEN <<128, s.picture_id>>
              ELSE <<128, 128 + (s.picture_id \div 256), s.picture_id % 256>>
        parts == Fragments(b, mtu, VP8_HEADER_SIZE + Len(id))
        First(i) == Flag(i = 1, 4) + Flag(s.enable_picture_id, 7)
    IN [s |-> IF parts = << >> THEN s ELSE [s EXCEPT !.picture_id = (@ + 1) % 2^15],
        out |-> [i \in 1 .. Len(parts) |-> <<First(i)>> \o id \o parts[i]]]

\* The flags of the extension octet stay as they were when a packet has none.
Vp8Flags(s, p) ==
    IF Bit(p[1], 7)
      THEN [s EXCEPT !.i = Bit(p[2], 7), !.l = Bit(p[2], 6), !.t = Bit(p[2], 5), !.k = Bit(p[2], 4)]
      ELSE s

Vp8Packet(s, p) ==
    LET f == Vp8Flags(s, p)
        afterX == IF Bit(p[1], 7) THEN 2 ELSE 1
        afterI == IF ~f.i THEN afterX ELSE IF Bit(p[afterX + 1], 7) THEN afterX + 2 ELSE afterX + 1
        afterL == IF f.l THEN afterI + 1 ELSE afterI
        afterT == IF f.t \/ f.k THEN afterL + 1 ELSE afterL
    IN IF Len(p) < 4 \/ afterT >= Len(p) THEN Fail
       ELSE [s |-> f, out |-> From(p, afterT)]

Vp8Head(p) == p # << >> /\ Bit(p[1], 4)

-----------------------------------------------------------------------------
(* VP9.                                                                    *)

VP9HEADER_SIZE == 3
MAX_SPATIAL_LAYERS == 5
MAX_VP9REF_PICS == 3

Vp9(s, mtu, b) ==
    LET parts == Fragments(b, mtu, VP9HEADER_SIZE)
        Descriptor(i) == <<144 + Flag(i = 1, 3) + Flag(i = Len(parts), 2),
                           128 + (s.picture_id \div 256), s.picture_id % 256>>
    IN [s |-> IF parts = << >> THEN s ELSE [s EXCEPT !.picture_id = (@ + 1) % 2^15],
        out |-> [i \in 1 .. Len(parts) |-> Descriptor(i) \o parts[i]]]

\* Each parse returns the offset after the field, or -1.
parse_picture_id(p, off) ==
    IF off >= Len(p) THEN -1
    ELSE IF ~Bit(p[off + 1], 7) THEN off + 1
    ELSE IF off + 1 >= Len(p) THEN -1 ELSE off + 2

\* A layer octet, and in the non-flexible mode the index of the base layer.
parse_layer_info(p, off) ==
    IF off >= Len(p) \/ (p[off + 1] \div 2) % 8 >= MAX_SPATIAL_LAYERS THEN -1
    ELSE IF Bit(p[1], 4) THEN off + 1
    ELSE IF off + 1 >= Len(p) THEN -1 ELSE off + 2

\* seen references were read by this depacketizer before.
RECURSIVE parse_ref_indices(_, _, _)
parse_ref_indices(p, off, seen) ==
    IF off >= Len(p) \/ seen + 1 >= MAX_VP9REF_PICS THEN [off |-> -1, seen |-> seen + 1]
    ELSE IF Bit(p[off + 1], 0) THEN parse_ref_indices(p, off + 1, seen + 1)
    ELSE [off |-> off + 1, seen |-> seen + 1]

\* The n picture-group entries of the scalability structure.
RECURSIVE PictureGroup(_, _, _)
PictureGroup(p, off, n) ==
    IF n = 0 THEN off
    ELSE IF off >= Len(p) THEN -1
    ELSE LET r == (p[off + 1] \div 4) % 4
         IN IF off + 1 + r > Len(p) THEN -1 ELSE PictureGroup(p, off + 1 + r, n - 1)

parse_ssdata(p, off) ==
    LET b == p[off + 1]
        sizes == IF Bit(b, 4) THEN 4 * ((b \div 32) + 1) ELSE 0
        g == (b \div 2) % 8 # 0
        after == off + 1 + sizes
    IN IF off >= Len(p) THEN -1
       ELSE IF after > Len(p) THEN -1
       ELSE IF ~g THEN after
       ELSE IF after >= Len(p) THEN -1
       ELSE PictureGroup(p, after + 1, p[after + 1])

Vp9Packet(s, p) ==
    LET If(cond, off, Parse(_, _)) ==
            IF ~cond \/ off = -1 THEN [off |-> off, seen |-> s.pdiff]
            ELSE [off |-> Parse(p, off), seen |-> s.pdiff]
        afterI == If(Bit(p[1], 7), 1, parse_picture_id).off
        afterL == If(Bit(p[1], 5), afterI, parse_layer_info).off
        refs == IF afterL # -1 /\ Bit(p[1], 4) /\ Bit(p[1], 6)
                  THEN parse_ref_indices(p, afterL, s.pdiff)
                  ELSE [off |-> afterL, seen |-> s.pdiff]
        after == If(Bit(p[1], 1), refs.off, parse_ssdata).off
    IN IF p = << >> THEN Fail
       ELSE IF after = -1 THEN Fail
       ELSE [s |-> [s EXCEPT !.pdiff = refs.seen], out |-> From(p, after)]

Vp9Head(p) == p # << >> /\ Bit(p[1], 3)

-----------------------------------------------------------------------------
(* H.264.                                                                  *)

STAPA_NALU_TYPE == 24
FUA_NALU_TYPE == 28
FUB_NALU_TYPE == 29
SPS_NALU_TYPE == 7
PPS_NALU_TYPE == 8
AUD_NALU_TYPE == 9
FILLER_NALU_TYPE == 12
FUA_HEADER_SIZE == 2
STAPA_HEADER_SIZE == 1
OUTPUT_STAP_AHEADER == 120
ANNEXB_NALUSTART_CODE == <<0, 0, 0, 1>>

NaluType(b) == b % 32
RefIdc(b) == ((b \div 32) % 4) * 32

\* The next start code at or after start: two or more zeros and a one.  Its
\* offset and its length, or << >>.
next_ind(b, start) ==
    LET zeros[i \in start .. Len(b)] ==
            IF i = start THEN 0 ELSE IF b[i] # 0 THEN 0 ELSE zeros[i - 1] + 1
        at == {i \in start .. Len(b) - 1 : b[i + 1] = 1 /\ zeros[i] >= 2}
        i == CHOOSE x \in at : \A y \in at : x <= y
    IN IF at = {} THEN << >> ELSE <<i - zeros[i], zeros[i] + 1>>

\* What is between the start codes, from the end of one of them on.
RECURSIVE Between(_, _)
Between(b, start) ==
    LET ind == next_ind(b, start)
    IN IF ind = << >> THEN <<From(b, start)>>
       ELSE <<Slice(b, start, ind[1])>> \o Between(b, ind[1] + ind[2])

Nalus(b) ==
    LET ind == next_ind(b, 0)
    IN IF ind = << >> THEN <<b>> ELSE Between(b, ind[1] + ind[2])

\* Mutant: no fragment is marked as the last.
FuANoEnd(nalu, mtu) ==
    LET parts == Fragments(Tail(nalu), mtu, FUA_HEADER_SIZE)
        Header(i) == <<FUA_NALU_TYPE + RefIdc(nalu[1]), NaluType(nalu[1]) + Flag(i = 1, 7)>>
    IN [i \in 1 .. Len(parts) |-> Header(i) \o parts[i]]

FuA(nalu, mtu) ==
    LET parts == Fragments(Tail(nalu), mtu, FUA_HEADER_SIZE)
        Header(i) == <<FUA_NALU_TYPE + RefIdc(nalu[1]),
                       NaluType(nalu[1]) + (IF i = 1 THEN 128 ELSE Flag(i = Len(parts), 6))>>
    IN [i \in 1 .. Len(parts) |-> Header(i) \o parts[i]]

\* The parameter sets wait for the next unit of another type and go before it
\* in one packet, if they fit.
Emit264(r, nalu, mtu) ==
    LET s == r.s
        stap == <<OUTPUT_STAP_AHEADER>> \o Counted(2, s.sps) \o Counted(2, s.pps)
        both == s.sps # << >> /\ s.pps # << >>
        Other == [s |-> IF both THEN [sps |-> << >>, pps |-> << >>] ELSE s,
                  out |-> r.out \o (IF both /\ Len(stap) <= mtu THEN <<stap>> ELSE << >>)
                          \o (IF Len(nalu) <= mtu THEN <<nalu>> ELSE FuA(nalu, mtu))]
    IN IF nalu = << >> THEN r
       ELSE CASE NaluType(nalu[1]) \in {AUD_NALU_TYPE, FILLER_NALU_TYPE} -> r
              [] NaluType(nalu[1]) = SPS_NALU_TYPE -> [r EXCEPT !.s.sps = nalu]
              [] NaluType(nalu[1]) = PPS_NALU_TYPE -> [r EXCEPT !.s.pps = nalu]
              [] OTHER -> Other

H264(s, mtu, b) ==
    LET nalus == Nalus(b)
        done[i \in 0 .. Len(nalus)] ==
            IF i = 0 THEN [s |-> s, out |-> << >>] ELSE Emit264(done[i - 1], nalus[i], mtu)
    IN IF b = << >> \/ mtu = 0 THEN [s |-> s, out |-> << >>] ELSE done[Len(nalus)]

RECURSIVE StapA(_, _)
StapA(p, off) ==
    IF off >= Len(p) THEN << >>
    ELSE IF CountedAt(2, p, off) = Fail THEN Refused
    ELSE LET unit == CountedAt(2, p, off)
             more == StapA(p, unit.end)
         IN IF more = Refused THEN Refused ELSE ANNEXB_NALUSTART_CODE \o unit.body \o more

\* s.fua is the unit that is being put together, without its first byte.
H264Packet(s, p) ==
    LET whole == s.fua \o From(p, FUA_HEADER_SIZE)
        FuAPart ==
            IF Bit(p[2], 6)
              THEN [s |-> [s EXCEPT !.fua = << >>],
                    out |-> ANNEXB_NALUSTART_CODE \o <<RefIdc(p[1]) + NaluType(p[2])>> \o whole]
              ELSE [s |-> [s EXCEPT !.fua = whole], out |-> << >>]
    IN IF Len(p) <= 1 THEN Fail
       ELSE IF Len(p) <= 2 /\ NaluType(p[1]) # AUD_NALU_TYPE THEN Fail
       ELSE CASE NaluType(p[1]) \in 1 .. 23 -> [s |-> s, out |-> ANNEXB_NALUSTART_CODE \o p]
              [] NaluType(p[1]) = STAPA_NALU_TYPE ->
                    IF StapA(p, STAPA_HEADER_SIZE) = Refused THEN Fail
                    ELSE [s |-> s, out |-> StapA(p, STAPA_HEADER_SIZE)]
              [] NaluType(p[1]) = FUA_NALU_TYPE -> FuAPart
              [] OTHER -> Fail

H264Head(p) ==
    Len(p) >= 2 /\ (NaluType(p[1]) \in {FUA_NALU_TYPE, FUB_NALU_TYPE} => Bit(p[2], 7))

-----------------------------------------------------------------------------
(* H.265.  The payloader has no state; the depacketizer gives a payload    *)
(* back as it is and keeps what it read in it, a record whose field kind   *)
(* names the type of the packet.                                           *)

NAL_HEADER_SIZE == 2
H265FRAGMENTATION_UNIT_HEADER_SIZE == 1
H265NALU_AGGREGATION_PACKET_TYPE == 48
H265NALU_FRAGMENTATION_UNIT_TYPE == 49
H265NALU_PACI_PACKET_TYPE == 50
ANNEXB_3_NALUSTART_CODE == <<0, 0, 1>>

\* The fields of a unit's header, two bytes.
F(nalu) == Bit(nalu[1], 7)
nalu_type(nalu) == (nalu[1] \div 2) % 64
layer_id(nalu) == (nalu[1] % 2) * 32 + nalu[2] \div 8
tid(nalu) == nalu[2] % 8

PayloadHeader(f, type, layer, t) == <<Flag(f, 7) + type * 2 + layer \div 32, (layer % 32) * 8 + t>>

\* A header of another type with the rest of this one.
Retyped(nalu, type) == PayloadHeader(F(nalu), type, layer_id(nalu), tid(nalu))

\* The header of an aggregate has the lowest layer and temporal identifier.
aggregation_payload_header(nalus) ==
    LET Lowest(S) == CHOOSE x \in S : \A y \in S : x <= y
        each == {nalus[i] : i \in 1 .. Len(nalus)}
    IN PayloadHeader(\E n \in each : F(n), H265NALU_AGGREGATION_PACKET_TYPE,
           Lowest({layer_id(n) : n \in each}), Lowest({tid(n) : n \in each}))

fu_header(type, first, last) == type + (IF first THEN 128 ELSE Flag(last, 6))

\* The offsets of a start code, and those of the short one if there is none.
Offsets(b, code) ==
    SetToSortSeq({i \in 0 .. Len(b) - Len(code) : Slice(b, i, i + Len(code)) = code}, <)

parse(b) ==
    IF Offsets(b, ANNEXB_NALUSTART_CODE) # << >>
      THEN [at |-> Offsets(b, ANNEXB_NALUSTART_CODE), offset |-> 4]
      ELSE [at |-> Offsets(b, ANNEXB_3_NALUSTART_CODE), offset |-> 3]

\* What an aggregate of these units takes.
Aggregated(nalus) == NAL_HEADER_SIZE + Total([i \in 1 .. Len(nalus) |-> 2 + Len(nalus[i])])

flush_aggregation_buffer(r, mtu) ==
    LET packet == aggregation_payload_header(r.buffer)
                  \o Each(LAMBDA n : Counted(2, n), r.buffer)
    IN [buffer |-> << >>,
        out |-> r.out \o CASE Len(r.buffer) = 0 -> << >>
                           [] Len(r.buffer) = 1 -> r.buffer
                           [] OTHER -> IF Len(packet) <= mtu THEN <<packet>> ELSE << >>]

emit(nalu, mtu) ==
    LET parts == Fragments(From(nalu, 2), mtu, NAL_HEADER_SIZE + H265FRAGMENTATION_UNIT_HEADER_SIZE)
    IN IF nalu = << >> THEN << >>
       ELSE IF nalu_type(nalu) >= H265NALU_AGGREGATION_PACKET_TYPE THEN << >>
       ELSE IF Len(nalu) <= mtu THEN <<nalu>>
       ELSE [i \in 1 .. Len(parts) |->
                Retyped(nalu, H265NALU_FRAGMENTATION_UNIT_TYPE)
                \o <<fu_header(nalu_type(nalu), i = 1, i = Len(parts))>> \o parts[i]]

\* One unit of the frame: r has the units that wait to be sent together.
Place(r, nalu, mtu) ==
    CASE Len(nalu) < NAL_HEADER_SIZE -> r
      [] Len(nalu) >= NAL_HEADER_SIZE /\ nalu_type(nalu) \in 48 .. 50 -> r
      [] OTHER ->
           IF Len(nalu) > mtu
             THEN [buffer |-> << >>,
                   out |-> flush_aggregation_buffer(r, mtu).out \o emit(nalu, mtu)]
             ELSE LET room == IF r.buffer # << >> /\ Aggregated(Append(r.buffer, nalu)) > mtu
                                THEN flush_aggregation_buffer(r, mtu) ELSE r
                  IN [room EXCEPT !.buffer = Append(@, nalu)]

Hevc(s, mtu, b) ==
    LET at == parse(b).at
        Unit(i) == Slice(b, at[i] + parse(b).offset, IF i < Len(at) THEN at[i + 1] ELSE Len(b))
        done[i \in 0 .. Len(at)] ==
            IF i = 0 THEN [buffer |-> << >>, out |-> << >>] ELSE Place(done[i - 1], Unit(i), mtu)
    IN [s |-> s,
        out |-> IF b = << >> \/ mtu = 0 THEN << >>
                ELSE IF at = << >> THEN emit(b, mtu)
                ELSE flush_aggregation_buffer(done[Len(at)], mtu).out]

-----------------------------------------------------------------------------
(* Reading.  donl: packets carry decoding order numbers.                   *)

SingleNALUnit(donl, p) ==
    IF Len(p) <= IF donl THEN 4 ELSE 2 THEN Fail
    ELSE [kind |-> "single", header |-> Slice(p, 0, 2), payload |-> From(p, IF donl THEN 4 ELSE 2)]

\* The units after the first, as far as they are whole.
RECURSIVE AggregationUnits(_, _, _)
AggregationUnits(donl, p, off) ==
    LET unit == CountedAt(2, p, IF donl THEN off + 1 ELSE off)
    IN IF unit = Fail THEN << >> ELSE <<unit.body>> \o AggregationUnits(donl, p, unit.end)

Aggregation(donl, p) ==
    LET first == CountedAt(2, p, IF donl THEN 4 ELSE 2)
    IN IF first = Fail THEN Fail
       ELSE IF AggregationUnits(donl, p, first.end) = << >> THEN Fail
       ELSE [kind |-> "aggregation", units |-> <<first.body>> \o AggregationUnits(donl, p, first.end)]

FragmentationUnit(donl, p) ==
    LET size == IF donl /\ Bit(p[3], 7) THEN 5 ELSE 3
    IN IF Len(p) <= 3 THEN Fail
       ELSE IF Len(p) <= size THEN Fail
       ELSE [kind |-> "fragment", header |-> Slice(p, 0, 2), s |-> Bit(p[3], 7), e |-> Bit(p[3], 6),
             fu_type |-> p[3] % 64, payload |-> From(p, size)]

\* An extension of phs_size bytes goes before the payload.
PACI(p) ==
    LET phs_size == (p[3] % 2) * 16 + p[4] \div 16
    IN IF Len(p) <= 4 THEN Fail
       ELSE IF Len(p) < 4 + phs_size + 1 THEN Fail
       ELSE [kind |-> "paci", header |-> Slice(p, 0, 2), phes |-> Slice(p, 4, 4 + phs_size),
             payload |-> From(p, 4 + phs_size)]

H265Decode(donl, p) ==
    IF Len(p) <= 2 THEN Fail
    ELSE IF F(p) THEN Fail
    ELSE CASE nalu_type(p) = H265NALU_PACI_PACKET_TYPE -> PACI(p)
           [] nalu_type(p) = H265NALU_FRAGMENTATION_UNIT_TYPE -> FragmentationUnit(donl, p)
           [] nalu_type(p) = H265NALU_AGGREGATION_PACKET_TYPE -> Aggregation(donl, p)
           [] OTHER -> SingleNALUnit(donl, p)

\* s has the decoded packet; a packet in error leaves the one before.
H265Packet(s, p) ==
    IF H265Decode(s.donl, p) = Fail THEN Fail
    ELSE [s |-> [s EXCEPT !.payload = H265Decode(s.donl, p)], out |-> p]

-----------------------------------------------------------------------------
(* AV1.  A temporal unit is a sequence of OBUs; they share packets and are  *)
(* cut where a packet ends.                                                *)

OBU_HAS_EXTENSION_BIT == 2
OBU_HAS_SIZE_BIT == 1
OBU_TYPE_SEQUENCE_HEADER == 1
OBU_TYPE_TEMPORAL_DELIMITER == 2
OBU_TYPE_TILE_LIST == 8
OBU_TYPE_PADDING == 15
MAX_NUM_OBUS_TO_OMIT_SIZE == 3
AGGREGATION_HEADER_SIZE == 1

\* Numbers in base 128, the lowest digit first.
RECURSIVE put_leb128(_)
put_leb128(n) == IF n < 128 THEN <<n>> ELSE <<128 + (n % 128)>> \o put_leb128(n \div 128)

leb128_size(n) == Len(put_leb128(n))

\* The number at an offset and the bytes it takes; <<0, 0>> if it does not end.
read_leb128(b, off) ==
    LET ends == {i \in off + 1 .. Len(b) : b[i] < 128}
        end == CHOOSE i \in ends : \A j \in ends : i <= j
        value[i \in off + 1 .. end] ==
            (b[i] % 128) + (IF i = end THEN 0 ELSE 128 * value[i + 1])
    IN IF ends = {} THEN <<0, 0>> ELSE <<value[off + 1], end - off>>

obu_type(header) == (header \div 8) % 16
has_extension(header) == Bit(header, OBU_HAS_EXTENSION_BIT)
has_size(header) == Bit(header, OBU_HAS_SIZE_BIT)
header_size(header) == IF has_extension(header) THEN 2 ELSE 1
Sized(header) == IF has_size(header) THEN header ELSE header + 2
Unsized(header) == IF has_size(header) THEN header - 2 ELSE header

\* An OBU without its size field, and its size.
Obu(header, ext, payload) ==
    [header |-> header, extension_header |-> ext, payload |-> payload,
     size |-> header_size(header) + Len(payload)]

Ignored(type) ==
    type \in {OBU_TYPE_TEMPORAL_DELIMITER, OBU_TYPE_TILE_LIST, OBU_TYPE_PADDING}

\* A payload that runs past the end of the unit is out of the code's range.
RECURSIVE parse_obus(_, _)
parse_obus(b, off) ==
    LET header == b[off + 1]
        start == off + header_size(header)
        size == read_leb128(b, start)
        body == IF has_size(header) THEN start + size[2] ELSE start
        end == IF has_size(header) THEN body + size[1] ELSE Len(b)
        obu == Obu(header, IF has_extension(header) THEN b[off + 2] ELSE 0, Slice(b, body, end))
        With(more) ==
            IF more = Fail \/ Ignored(obu_type(header)) THEN more
            ELSE [obus |-> <<obu>> \o more.obus]
    IN IF off >= Len(b) THEN [obus |-> << >>]
       ELSE IF start > Len(b) \/ (has_size(header) /\ start = Len(b)) THEN Fail
       ELSE With(parse_obus(b, end))

-----------------------------------------------------------------------------
(* The plan of the packets.                                                *)

NewPacket(i, elements, off, size) ==
    [first_obu_index |-> i, num_obu_elements |-> elements, first_obu_offset |-> off,
     last_obu_size |-> size, packet_size |-> size]

\* The element before the next one gets a size field, once it is not the last.
additional_bytes_for_previous_obu_element(p) ==
    IF p.packet_size = 0 \/ p.num_obu_elements > MAX_NUM_OBUS_TO_OMIT_SIZE THEN 0
    ELSE leb128_size(p.last_obu_size)

max_fragment_size(left) ==
    LET i == CHOOSE i \in 1 .. 4 : left < 2^(7 * i) + i /\ \A j \in 1 .. i - 1 : left >= 2^(7 * j) + j
    IN IF left <= 1 THEN 0 ELSE left - i

\* The packets of an OBU that does not fit the open packet p, of which left
\* bytes are free: a first part in p if there is room, full packets, the rest.
Cut(done, p, before, extra, left, i, size, max) ==
    LET counted == p.num_obu_elements > MAX_NUM_OBUS_TO_OMIT_SIZE
        first == Least(size - 1, IF counted THEN max_fragment_size(left) ELSE left)
        open == IF first = 0 THEN [before EXCEPT !.packet_size = p.packet_size - extra]
                ELSE [p EXCEPT !.packet_size = @ + first + (IF counted THEN leb128_size(first) ELSE 0),
                               !.last_obu_size = first]
        full == (size - first - 1) \div max
        rest == size - first - full * max
    IN [packets |-> done \o <<open>>
                    \o [k \in 1 .. full |-> NewPacket(i, 1, first + (k - 1) * max, max)]
                    \o <<NewPacket(i, 1, first + full * max, rest)>>,
        left |-> max - rest]

\* OBU i joins the open packet, the last one, or starts another.
PlaceObu(r, i, size, max) ==
    LET last == r.packets[Len(r.packets)]
        least == IF last.num_obu_elements >= MAX_NUM_OBUS_TO_OMIT_SIZE THEN 2 ELSE 1
        full == r.left < additional_bytes_for_previous_obu_element(last) + least
        extra == IF full THEN 0 ELSE additional_bytes_for_previous_obu_element(last)
        before == IF full THEN NewPacket(i, 0, 0, 0) ELSE last
        done == IF full THEN r.packets ELSE Front(r.packets)
        left == (IF full THEN max ELSE r.left) - extra
        p == [before EXCEPT !.packet_size = @ + extra, !.num_obu_elements = @ + 1]
        need == size + (IF p.num_obu_elements > MAX_NUM_OBUS_TO_OMIT_SIZE
                          THEN leb128_size(size) ELSE 0)
    IN IF need < left
         THEN [packets |-> Append(done, [p EXCEPT !.last_obu_size = size,
                                                   !.packet_size = @ + need]),
               left |-> left - need]
         ELSE Cut(done, p, before, extra, left, i, size, max)

packetize(obus, mtu) ==
    LET max == mtu - AGGREGATION_HEADER_SIZE
        plan[i \in 0 .. Len(obus)] ==
            IF i = 0 THEN [packets |-> <<NewPacket(1, 0, 0, 0)>>, left |-> max]
            ELSE PlaceObu(plan[i - 1], i, obus[i].size, max)
    IN IF obus = << >> \/ mtu < 3 THEN << >> ELSE plan[Len(obus)].packets

get_aggregation_header(obus, packets, k) ==
    LET p == packets[k]
        offset == IF p.num_obu_elements = 1 THEN p.first_obu_offset ELSE 0
        cut == offset + p.last_obu_size < obus[p.first_obu_index + p.num_obu_elements - 1].size
    IN Flag(p.first_obu_offset > 0, 7) + Flag(cut, 6)
       + (IF p.num_obu_elements <= MAX_NUM_OBUS_TO_OMIT_SIZE THEN p.num_obu_elements * 16 ELSE 0)
       + Flag(k = 1 /\ obu_type(obus[1].header) = OBU_TYPE_SEQUENCE_HEADER, 3)

\* The bytes of an OBU as it is sent, without a size field.
Sent(obu) ==
    <<Unsized(obu.header)>>
    \o (IF has_extension(obu.header) THEN <<obu.extension_header>> ELSE << >>) \o obu.payload

Av1Packet(obus, packets, k) ==
    LET p == packets[k]
        n == p.num_obu_elements
        Offset(j) == IF j = 1 THEN p.first_obu_offset ELSE 0
        Element(j) == From(Sent(obus[p.first_obu_index + j - 1]), Offset(j))
        last == Slice(Element(n), 0, p.last_obu_size)
    IN <<get_aggregation_header(obus, packets, k)>>
       \o FlattenSeq([j \in 1 .. n - 1 |-> put_leb128(Len(Element(j))) \o Element(j)])
       \o (IF n > MAX_NUM_OBUS_TO_OMIT_SIZE THEN put_leb128(p.last_obu_size) ELSE << >>) \o last

Av1(s, mtu, b) ==
    LET Packets(obus, packets) == [k \in 1 .. Len(packets) |-> Av1Packet(obus, packets, k)]
        unit == parse_obus(b, 0)
    IN IF unit = Fail THEN Fail
       ELSE [s |-> s, out |-> Packets(unit.obus, packetize(unit.obus, mtu))]

-----------------------------------------------------------------------------
(* Reading.  s.buffer has the part of an OBU that the next packet goes on  *)
(* with.                                                                   *)

\* An OBU gets its size field back; one that has a size must have the right one.
Restored(obu) ==
    LET n == header_size(obu[1])
        size == read_leb128(obu, n)
    IN IF ~has_size(obu[1])
         THEN <<Sized(obu[1])>> \o Slice(obu, 1, n) \o put_leb128(Len(obu) - n) \o From(obu, n)
       ELSE IF size[2] = 0 \/ Len(obu) # n + size[2] + size[1] THEN Refused
       ELSE obu

\* The elements of a packet from an offset on; count is zero when all have a
\* size field.
RECURSIVE Elements(_, _, _, _, _)
Elements(s, p, off, k, out) ==
    LET z == Bit(p[1], 7)
        y == Bit(p[1], 6)
        count == (p[1] \div 16) % 4
        final == count # 0 /\ k = count
        size == read_leb128(p, off)
        start == IF final THEN off ELSE off + size[2]
        len == IF final THEN Len(p) - off ELSE size[1]
        last == final \/ (count = 0 /\ start + len = Len(p))
        joined == (IF k = 1 /\ z THEN s.buffer ELSE << >>) \o Slice(p, start, start + len)
        After(buffer, more) ==
            IF last THEN [s |-> [buffer |-> buffer], out |-> out \o more, k |-> k]
            ELSE Elements([buffer |-> buffer], p, start + len, k + 1, out \o more)
        rest == IF k = 1 /\ z THEN << >> ELSE s.buffer
    IN IF off >= Len(p) THEN [s |-> s, out |-> out, k |-> k]
       ELSE IF (~final /\ size[2] = 0) \/ start + len > Len(p) THEN Fail
       ELSE IF k = 1 /\ z /\ s.buffer = << >> THEN After(s.buffer, << >>)
       ELSE IF last /\ y THEN [s |-> [buffer |-> joined], out |-> out, k |-> k]
       ELSE IF joined = << >> THEN After(rest, << >>)
       ELSE IF obu_type(joined[1]) \in {OBU_TYPE_TEMPORAL_DELIMITER, OBU_TYPE_TILE_LIST}
         THEN After(rest, << >>)
       ELSE IF Restored(joined) = Refused THEN Fail
       ELSE After(rest, Restored(joined))

\* A new coded sequence, and a packet that does not go on with an OBU, drop
\* what was kept.
Av1Depacketizer(s, p) ==
    LET kept == IF Bit(p[1], 3) \/ ~Bit(p[1], 7) THEN [buffer |-> << >>] ELSE s
        r == Elements(kept, p, 1, 1, << >>)
        count == (p[1] \div 16) % 4
    IN IF Len(p) <= 1 THEN Fail
       ELSE IF r = Fail THEN Fail
       ELSE IF count # 0 /\ r.k # count /\ ~Bit(p[1], 6) THEN Fail
       ELSE [s |-> r.s, out |-> r.out]

Av1Head(p) == p # << >> /\ ~Bit(p[1], 7)
=============================================================================
