----------------------------- MODULE Containers -----------------------------
(***************************************************************************)
(* The files media is recorded in and played from: rtc-media/src/io.  A    *)
(* writer is a record whose field file has the bytes written so far; its   *)
(* operations take an RTP packet, a record with its payload, its marker    *)
(* and its timestamp, and are Fail where the code returns an error.  A     *)
(* reader gives back what is in a file.                                    *)
(***************************************************************************)
EXTENDS Payloads, Bitwise, FiniteSets


-----------------------------------------------------------------------------
(* IVF: VP8, VP9 and AV1.                                                  *)

IVF_FILE_HEADER_SIGNATURE == <<68, 75, 73, 70>>
IVF_FILE_HEADER_SIZE == 32
IVF_FRAME_HEADER_SIZE == 12

fourcc == [vp8 |-> <<86, 80, 56, 48>>, vp9 |-> <<86, 80, 57, 48>>, av1 |-> <<65, 86, 48, 49>>]

\* A code that is not known counts as VP8.
from_fourcc(code) ==
    IF \E c \in DOMAIN fourcc : fourcc[c] = code
      THEN CHOOSE c \in DOMAIN fourcc : fourcc[c] = code ELSE "vp8"

IvfFileHeader(h) ==
    h.signature \o LE16(h.version) \o LE16(h.header_size) \o h.four_cc \o LE16(h.width)
    \o LE16(h.height) \o LE32(h.timebase_denominator) \o LE32(h.timebase_numerator)
    \o LE32(h.num_frames) \o LE32(h.unused)

\* The file of each writer is its header and its frames; frame is the one that
\* is being put together, "none" before its first packet.
NewIvf(header) ==
    [file |-> IvfFileHeader(header), count |-> 0, seen |-> FALSE, open |-> FALSE, frame |-> << >>,
     codec |-> from_fourcc(header.four_cc), av1 |-> [buffer |-> << >>]]

write_frame(w, frame) ==
    [w EXCEPT !.file = @ \o LE32(Len(frame)) \o LE32(w.count) \o LE32(0) \o frame,
              !.count = @ + 1, !.open = FALSE, !.frame = << >>]

append_to_frame(w, payload) ==
    [w EXCEPT !.seen = TRUE, !.open = TRUE, !.frame = @ \o payload]

write_current_frame(w) == IF w.frame = << >> THEN w ELSE write_frame(w, w.frame)

\* Nothing is kept before a key frame, and a frame starts at its first packet.
WriteVp(w, packet, payload, key, head) ==
    IF (~w.seen /\ ~key) \/ (~w.open /\ ~head) THEN w
    ELSE IF packet.marker THEN write_current_frame(append_to_frame(w, payload))
    ELSE append_to_frame(w, payload)

write_vp8(w, packet) ==
    LET d == Vp8Packet([i |-> FALSE, l |-> FALSE, t |-> FALSE, k |-> FALSE], packet.payload)
    IN IF d = Fail THEN Fail
       ELSE WriteVp(w, packet, d.out, ~Bit(d.out[1], 0), Vp8Head(packet.payload))

write_vp9(w, packet) ==
    LET d == Vp9Packet([pdiff |-> 0], packet.payload)
    IN IF d = Fail THEN Fail
       ELSE WriteVp(w, packet, d.out, ~Bit(packet.payload[1], 6), Vp9Head(packet.payload))

\* The frames of AV1 start with a temporal delimiter, which packets leave out.
WriteAv1(w, packet, d) ==
    LET key == Bit(packet.payload[1], 3)
               \/ (d.out # << >> /\ obu_type(d.out[1]) = OBU_TYPE_SEQUENCE_HEADER)
        kept == append_to_frame([w EXCEPT !.av1 = d.s], d.out)
    IN IF ~w.seen /\ ~key THEN [w EXCEPT !.av1 = d.s]
       ELSE IF packet.marker THEN write_frame(kept, <<18, 0>> \o kept.frame)
       ELSE kept

write_av1(w, packet) ==
    LET d == Av1Depacketizer(w.av1, packet.payload)
    IN IF d = Fail THEN Fail ELSE WriteAv1(w, packet, d)

IvfWriteRtp(w, packet) ==
    CASE packet.payload = << >> -> w
      [] packet.payload # << >> /\ w.codec = "vp8" -> write_vp8(w, packet)
      [] packet.payload # << >> /\ w.codec = "vp9" -> write_vp9(w, packet)
      [] packet.payload # << >> /\ w.codec = "av1" -> write_av1(w, packet)

\* The number of frames goes in the header.
IvfClose(w) == [w EXCEPT !.file = Slice(@, 0, 24) \o LE32(w.count) \o From(@, 28)]

parse_file_header(b) ==
    IF Len(b) < IVF_FILE_HEADER_SIZE \/ Slice(b, 0, 4) # IVF_FILE_HEADER_SIGNATURE THEN Fail
    ELSE IF GetLE16(b, 4) # 0 THEN Fail
    ELSE [four_cc |-> Slice(b, 8, 12), width |-> GetLE16(b, 12), height |-> GetLE16(b, 14),
          timebase_denominator |-> GetLE32(b, 16), timebase_numerator |-> GetLE32(b, 20),
          num_frames |-> GetLE32(b, 24)]

\* The frames from an offset on, as far as they are whole.
RECURSIVE IvfFrames(_, _)
IvfFrames(b, off) ==
    LET body == off + IVF_FRAME_HEADER_SIZE
        end == body + GetLE32(b, off)
        Next == <<[timestamp |-> GetLE32(b, off + 4), data |-> Slice(b, body, end)]>>
                \o IvfFrames(b, end)
    IN IF body > Len(b) THEN << >> ELSE IF end > Len(b) THEN << >> ELSE Next

IvfReader(b) ==
    IF parse_file_header(b) = Fail THEN Fail
    ELSE [header |-> parse_file_header(b), frames |-> IvfFrames(b, IVF_FILE_HEADER_SIZE)]

-----------------------------------------------------------------------------
(* Ogg: Opus.                                                              *)

PAGE_HEADER_TYPE_CONTINUATION_OF_STREAM == 0
PAGE_HEADER_TYPE_BEGINNING_OF_STREAM == 2
PAGE_HEADER_TYPE_END_OF_STREAM == 4
DEFAULT_PRE_SKIP == 3840
PAGE_HEADER_SIGNATURE == <<79, 103, 103, 83>>
ID_PAGE_SIGNATURE == <<79, 112, 117, 115, 72, 101, 97, 100>>
COMMENT_PAGE_SIGNATURE == <<79, 112, 117, 115, 84, 97, 103, 115>>
PAGE_HEADER_SIZE == 27
ID_PAGE_PAYLOAD_SIZE == 19

\* A sum is four bytes, the highest first.
Xor4(a, b) == <<a[1] ^^ b[1], a[2] ^^ b[2], a[3] ^^ b[3], a[4] ^^ b[4]>>
Doubled(r) ==
    <<((r[1] * 2) % 256) + (r[2] \div 128), ((r[2] * 2) % 256) + (r[3] \div 128),
      ((r[3] * 2) % 256) + (r[4] \div 128), ((r[4] * 2) % 256)>>

generate_checksum_table ==
    LET poly == <<4, 193, 29, 183>>
        r[i \in 0 .. 255, k \in 0 .. 8] ==
            IF k = 0 THEN <<i, 0, 0, 0>>
            ELSE LET before == r[i, k - 1]
                 IN IF before[1] >= 128 THEN Xor4(Doubled(before), poly) ELSE Doubled(before)
    IN [i \in 0 .. 255 |-> r[i, 8]]

update_checksum(v, sum) ==
    Xor4(<<sum[2], sum[3], sum[4], 0>>, generate_checksum_table[sum[1] ^^ v])

\* The sum of a page, as it is written: the lowest byte first.
Checksum(page) ==
    LET last == FoldRange(LAMBDA sum, v : update_checksum(v, sum), <<0, 0, 0, 0>>, page, 1, Len(page))
    IN <<last[4], last[3], last[2], last[1]>>

\* A payload takes segments of 255 bytes and a last one of the rest.
Page(w, payload, type, granule, index) ==
    LET segments == (Len(payload) + 254) \div 255
        table == [i \in 1 .. segments |->
                     IF i < segments THEN 255 ELSE Len(payload) - (segments * 255 - 255)]
        before == PAGE_HEADER_SIGNATURE \o <<0, type>> \o LE32(granule) \o LE32(0)
                  \o LE32(w.serial) \o LE32(index)
        after == <<segments>> \o table \o payload
    IN before \o Checksum(before \o LE32(0) \o after) \o after

write_page(w, payload, type, granule, index) ==
    [w EXCEPT !.file = @ \o Page(w, payload, type, granule, index), !.last_payload = payload]

OpusHead(rate, channels) ==
    ID_PAGE_SIGNATURE \o <<1, channels>> \o LE16(DEFAULT_PRE_SKIP) \o LE32(rate) \o LE16(0) \o <<0>>

\* The length is one more than that of the name.
OpusTags == COMMENT_PAGE_SIGNATURE \o LE32(10) \o <<87, 101, 98, 82, 84, 67, 46, 114, 115>> \o LE32(0)

NewOgg(rate, channels, serial) ==
    LET w == [file |-> << >>, serial |-> serial, page_index |-> 2, granule |-> 1, timestamp |-> 1,
              last_payload |-> << >>]
        head == write_page(w, OpusHead(rate, channels), PAGE_HEADER_TYPE_BEGINNING_OF_STREAM, 0, 0)
    IN write_page(head, OpusTags, PAGE_HEADER_TYPE_CONTINUATION_OF_STREAM, 0, 1)

\* The first packet sets the timestamp, those after it move the position on; a
\* timestamp below the one before is out of the code's range.
OggWriteRtp(w, packet) ==
    LET granule == w.granule + (IF w.timestamp # 1 THEN packet.timestamp - w.timestamp ELSE 0)
        moved == [w EXCEPT !.granule = granule, !.timestamp = packet.timestamp,
                           !.page_index = @ + 1]
    IN IF packet.payload = << >> THEN w
       ELSE write_page(moved, packet.payload, PAGE_HEADER_TYPE_CONTINUATION_OF_STREAM, granule,
                       w.page_index)

\* The last payload is written again, as the end of the stream.
OggClose(w) ==
    write_page(w, w.last_payload, PAGE_HEADER_TYPE_END_OF_STREAM, w.granule, w.page_index - 1)

\* The page at an offset; the sum is checked when do_checksum says so.
parse_next_page(b, off, do_checksum) ==
    LET count == b[off + PAGE_HEADER_SIZE]
        body == off + PAGE_HEADER_SIZE + count
        end == body + Total(Slice(b, off + PAGE_HEADER_SIZE, body))
        Whole == Slice(b, off, off + 22) \o LE32(0) \o Slice(b, off + 26, end)
    IN IF off + PAGE_HEADER_SIZE > Len(b) THEN Fail
       ELSE IF body > Len(b) THEN Fail
       ELSE IF end > Len(b) THEN Fail
       ELSE IF do_checksum /\ Checksum(Whole) # Slice(b, off + 22, off + 26) THEN Fail
       ELSE [sig |-> Slice(b, off, off + 4), header_type |-> b[off + 6],
             granule_position |-> GetLE32(b, off + 6), serial |-> GetLE32(b, off + 14),
             index |-> GetLE32(b, off + 18), payload |-> Slice(b, body, end), end |-> end]

parse_opus_head(p) ==
    LET channel_map == p[19]
        Header(streams, coupled, mapping) ==
            [version |-> p[9], channels |-> p[10], pre_skip |-> GetLE16(p, 10),
             sample_rate |-> GetLE32(p, 12), output_gain |-> GetLE16(p, 16),
             channel_map |-> channel_map, stream_count |-> streams, coupled_count |-> coupled,
             channel_mapping |-> mapping]
    IN IF Len(p) < ID_PAGE_PAYLOAD_SIZE THEN Fail
       ELSE IF Slice(p, 0, 8) # ID_PAGE_SIGNATURE THEN Fail
       ELSE CASE channel_map = 0 ->
                   IF Len(p) = ID_PAGE_PAYLOAD_SIZE THEN Header(0, 0, << >>) ELSE Fail
              [] channel_map \in {1, 2, 255} ->
                   IF Len(p) < 21 + p[10] THEN Fail ELSE Header(p[20], p[21], Slice(p, 21, 21 + p[10]))
              [] OTHER -> Fail

\* The comments from an offset on: those without '=' are left out.
RECURSIVE user_comments(_, _, _)
user_comments(p, off, n) ==
    LET end == off + 4 + GetLE32(p, off)
        text == Slice(p, off + 4, end)
        eq == {i \in 1 .. Len(text) : text[i] = 61}
        at == CHOOSE i \in eq : \A j \in eq : i <= j
        With(more) ==
            IF more = Fail \/ eq = {} THEN more
            ELSE [all |-> <<[comment |-> Slice(text, 0, at - 1), value |-> From(text, at)]>>
                          \o more.all]
    IN IF n = 0 THEN [all |-> << >>]
       ELSE IF off + 4 > Len(p) THEN Fail
       ELSE IF end > Len(p) THEN Fail
       ELSE With(user_comments(p, end, n - 1))

parse_opus_tags(p) ==
    LET vendor_end == 12 + GetLE32(p, 8)
        comments == user_comments(p, vendor_end + 4, GetLE32(p, vendor_end))
    IN IF Len(p) < 16 THEN Fail
       ELSE IF Slice(p, 0, 8) # COMMENT_PAGE_SIGNATURE \/ vendor_end + 4 > Len(p) THEN Fail
       ELSE IF comments = Fail THEN Fail
       ELSE [vendor |-> Slice(p, 12, vendor_end), user_comments |-> comments.all]

\* Which header a page is.
opus_header_type(page) ==
    CASE Len(page.payload) < 8 -> "none"
      [] Slice(page.payload, 0, 8) = ID_PAGE_SIGNATURE ->
           IF page.header_type = PAGE_HEADER_TYPE_BEGINNING_OF_STREAM THEN "OpusHead" ELSE "none"
      [] Slice(page.payload, 0, 8) = COMMENT_PAGE_SIGNATURE -> "OpusTags"
      [] OTHER -> "none"

RECURSIVE Pages(_, _, _)
Pages(b, off, do_checksum) ==
    LET page == parse_next_page(b, off, do_checksum)
    IN IF page = Fail THEN << >> ELSE <<page>> \o Pages(b, page.end, do_checksum)

\* The head is read first; the pages after it include the tags.
OggReader(b, do_checksum) ==
    LET first == parse_next_page(b, 0, do_checksum)
    IN IF first = Fail THEN Fail
       ELSE IF first.sig # PAGE_HEADER_SIGNATURE
               \/ first.header_type # PAGE_HEADER_TYPE_BEGINNING_OF_STREAM THEN Fail
       ELSE IF parse_opus_head(first.payload) = Fail THEN Fail
       ELSE [header |-> parse_opus_head(first.payload), pages |-> Pages(b, first.end, do_checksum)]

-----------------------------------------------------------------------------
(* Annex B: H.264 and H.265.                                               *)

NALU_TTYPE_STAP_A == 24
NALU_TTYPE_SPS == 7

is_key_frame(b) ==
    /\ Len(b) >= 4
    /\ \/ b[1] % 32 = NALU_TTYPE_STAP_A /\ b[4] % 32 = NALU_TTYPE_SPS
       \/ b[1] % 32 = NALU_TTYPE_SPS

NewH26x(is_hevc) ==
    [file |-> << >>, is_hevc |-> is_hevc, has_key_frame |-> FALSE, buffer |-> << >>,
     h264 |-> [fua |-> << >>]]

write_h264(w, packet) ==
    LET d == H264Packet(w.h264, packet.payload)
    IN IF ~w.has_key_frame /\ ~is_key_frame(packet.payload) THEN w
       ELSE IF d = Fail THEN Fail
       ELSE [w EXCEPT !.has_key_frame = TRUE, !.h264 = d.s, !.file = @ \o d.out]

\* A fragment is kept until the last one of its unit.
WriteFragment(w, p) ==
    LET kept == (IF p.s THEN ANNEXB_NALUSTART_CODE \o Retyped(p.header, p.fu_type) ELSE w.buffer)
                \o p.payload
    IN IF p.e THEN [w EXCEPT !.file = @ \o kept, !.buffer = << >>] ELSE [w EXCEPT !.buffer = kept]

write_h265(w, packet) ==
    LET p == H265Decode(FALSE, packet.payload)
        Written(units) == [w EXCEPT !.file = @ \o Each(LAMBDA n : ANNEXB_NALUSTART_CODE \o n, units)]
    IN IF p = Fail THEN Fail
       ELSE CASE p.kind = "paci" -> w
              [] p.kind = "single" -> Written(<<p.header \o p.payload>>)
              [] p.kind = "aggregation" -> Written(p.units)
              [] p.kind = "fragment" -> WriteFragment(w, p)

H26xWriteRtp(w, packet) ==
    IF packet.payload = << >> THEN w
    ELSE IF w.is_hevc THEN write_h265(w, packet) ELSE write_h264(w, packet)

H26xClose(w) == [w EXCEPT !.file = @ \o w.buffer, !.buffer = << >>]

\* The length of the start code a stream starts with, or Fail.
bit_stream_starts_with_prefix(b) ==
    IF Len(b) < 4 THEN 0
    ELSE IF Slice(b, 0, 3) = <<0, 0, 1>> THEN 3
    ELSE IF Slice(b, 0, 4) = <<0, 0, 0, 1>> THEN 4 ELSE 0

H264SEI == 6
H265SEI == {39, 40}

IsSei(is_hevc, nal) ==
    IF is_hevc THEN (nal[1] \div 2) % 64 \in H265SEI ELSE nal[1] % 32 = H264SEI

\* A byte of the stream: r has the bytes of the unit, the zeros seen last and
\* the units found.
process_byte(r, byte, is_hevc) ==
    LET length == Len(r.nal) - (IF r.zeros > 2 THEN 3 ELSE 2)
        found == byte = 1 /\ r.zeros >= 2 /\ length > 0
        unit == Slice(r.nal, 0, length)
    IN [nal |-> IF found THEN << >> ELSE Append(r.nal, byte),
        zeros |-> IF byte = 0 THEN r.zeros + 1 ELSE 0,
        units |-> IF found /\ ~IsSei(is_hevc, unit) THEN Append(r.units, unit) ELSE r.units]

\* The units of a stream, supplemental ones dropped unless they are the last.
H26xReader(b, is_hevc) ==
    LET prefix == bit_stream_starts_with_prefix(b)
        last == FoldRange(LAMBDA r, byte : process_byte(r, byte, is_hevc),
                    [nal |-> << >>, zeros |-> 0, units |-> << >>], b, prefix + 1, Len(b))
    IN IF prefix = 0 THEN Fail
       ELSE [units |-> IF last.nal = << >> THEN last.units ELSE Append(last.units, last.nal)]

should_skip_timing(is_hevc, nal) ==
    IF is_hevc THEN (nal[1] \div 2) % 64 \in {32, 33, 34, 35, 39, 40}
    ELSE nal[1] % 32 \in {7, 8, 6, 9}

\* The parameter sets of H.265 go with the unit after them.
build_hevc_access_unit(nals) == Each(LAMBDA n : ANNEXB_NALUSTART_CODE \o n, nals)

RECURSIVE Samples(_, _, _)
Samples(units, is_hevc, pending) ==
    LET nal == Head(units)
        data == IF pending = << >> THEN nal ELSE build_hevc_access_unit(Append(pending, nal))
    IN IF units = << >>
         THEN IF pending = << >> THEN << >>
              ELSE <<[data |-> build_hevc_access_unit(pending), timed |-> FALSE]>>
       ELSE IF is_hevc /\ should_skip_timing(TRUE, nal)
         THEN Samples(Tail(units), is_hevc, Append(pending, nal))
       ELSE <<[data |-> data, timed |-> ~should_skip_timing(is_hevc, nal)]>>
            \o Samples(Tail(units), is_hevc, << >>)

H26xSampleReader(b, is_hevc) ==
    IF H26xReader(b, is_hevc) = Fail THEN Fail
    ELSE [samples |-> Samples(H26xReader(b, is_hevc).units, is_hevc, << >>)]

-----------------------------------------------------------------------------
(* The readers of the Java library: IvfReader, OggReader, WavReader,       *)
(* Mp3Reader and H26xReader.  A read past the end is an exception, Fail;   *)
(* the frames of a file are those up to the first one.                     *)

-----------------------------------------------------------------------------
(* IvfReader.                                                              *)

FILE_HEADER_SIZE == 32

\* A longer header is skipped.
JavaIvfFileHeader(b) ==
    IF Len(b) < FILE_HEADER_SIZE \/ Slice(b, 0, 4) # <<68, 75, 73, 70>> THEN Fail
    ELSE IF GetLE16(b, 4) # 0 \/ GetLE16(b, 6) > Len(b) THEN Fail
    ELSE [width |-> GetLE16(b, 12), height |-> GetLE16(b, 14),
          timebaseDenominator |-> GetLE32(b, 16), timebaseNumerator |-> GetLE32(b, 20),
          numFrames |-> GetLE32(b, 24)]

NextIvfFrame(b, off) ==
    IF off + 12 > Len(b) THEN Fail
    ELSE IF off + 12 + GetLE32(b, off) > Len(b) THEN Fail
    ELSE [data |-> Slice(b, off + 12, off + 12 + GetLE32(b, off)), timestamp |-> GetLE32(b, off + 4),
          end |-> off + 12 + GetLE32(b, off)]

-----------------------------------------------------------------------------
(* OggReader.                                                              *)

CAPTURE_PATTERN == <<79, 103, 103, 83>>
OPUS_HEAD_MAGIC == <<79, 112, 117, 115, 72, 101, 97, 100>>

\* Type, number and sum of a page are not looked at.
RawPage(b, off) ==
    LET body == off + 27 + b[off + 27]
        end == body + Total(Slice(b, off + 27, body))
    IN IF off + 27 > Len(b) THEN Fail
       ELSE IF Slice(b, off, off + 4) # CAPTURE_PATTERN \/ b[off + 5] # 0 \/ body > Len(b) THEN Fail
       ELSE IF end > Len(b) THEN Fail
       ELSE [data |-> Slice(b, body, end), granulePosition |-> GetLE32(b, off + 6),
             serial |-> GetLE32(b, off + 14), end |-> end]

OpusHeader(b) ==
    LET first == RawPage(b, 0)
    IN IF first = Fail THEN Fail
       ELSE IF Len(first.data) < 19 THEN Fail
       ELSE IF Slice(first.data, 0, 8) # OPUS_HEAD_MAGIC \/ first.data[9] > 1 THEN Fail
       ELSE [channels |-> first.data[10], preSkip |-> GetLE16(first.data, 10),
             sampleRate |-> GetLE32(first.data, 12), end |-> first.end]

\* The head is parsed by the constructor, so no page is skipped here: the first
\* page this gives is that of the tags.
NextPage(b, off) == RawPage(b, off)

-----------------------------------------------------------------------------
(* WavReader.                                                              *)

\* The header ends at the data chunk; other chunks are skipped.
RECURSIVE WavChunks(_, _, _)
WavChunks(b, off, header) ==
    LET id == Slice(b, off, off + 4)
        size == GetLE32(b, off + 4)
        fmt == [channels |-> GetLE16(b, off + 10), sampleRate |-> GetLE32(b, off + 12),
                bitsPerSample |-> GetLE16(b, off + 22)]
    IN IF off + 8 > Len(b) THEN Fail
       ELSE IF id = <<100, 97, 116, 97>>
         THEN IF header = Fail THEN Fail
              ELSE [header |-> header, off |-> off + 8, dataRemaining |-> size]
       ELSE IF off + 8 + size > Len(b) THEN Fail
       ELSE IF id = <<102, 109, 116, 32>>
         THEN IF GetLE16(b, off + 8) # 1 THEN Fail ELSE WavChunks(b, off + 8 + size, fmt)
       ELSE WavChunks(b, off + 8 + size, header)

WavHeader(b) ==
    IF Len(b) < 12 \/ Slice(b, 0, 4) # <<82, 73, 70, 70>> \/ Slice(b, 8, 12) # <<87, 65, 86, 69>>
      THEN Fail
    ELSE WavChunks(b, 12, Fail)

\* r is where the reader is, as WavHeader gives it.
NextSamples(b, r, numBytes) ==
    LET toRead == IF numBytes < r.dataRemaining THEN numBytes ELSE r.dataRemaining
    IN IF r.dataRemaining <= 0 THEN [r |-> r, data |-> << >>]
       ELSE IF r.off + toRead > Len(b) THEN Fail
       ELSE [r |-> [r EXCEPT !.off = @ + toRead, !.dataRemaining = @ - toRead],
             data |-> Slice(b, r.off, r.off + toRead)]

-----------------------------------------------------------------------------
(* Mp3Reader.                                                              *)

\* In kilobits a second: the columns that a frame of layer 1 can take.
BITRATE_TABLE ==
    << <<32, 32>>, <<40, 48>>, <<48, 56>>, <<56, 64>>, <<64, 80>>, <<80, 96>>, <<96, 112>>,
       <<112, 128>>, <<128, 160>>, <<160, 192>>, <<192, 224>>, <<224, 256>>, <<256, 320>>,
       <<320, 384>> >>

SAMPLE_RATE_TABLE == <<11025, 12000, 8000>>

\* The row of the version, whatever the index in the header is.
VersionColumn(version) == CASE version = 3 -> 1 [] version = 2 -> 2 [] OTHER -> 3

\* The header after the two bytes of the sync word at off; Fail if the frame
\* is not one the reader takes.
Mp3Header(b, off) ==
    LET version == (b[off + 2] \div 8) % 4
        layer == (b[off + 2] \div 2) % 4
        bitrateIndex == b[off + 3] \div 16
        kbps == BITRATE_TABLE[bitrateIndex][IF version = 3 THEN 2 ELSE 1]
        rate == SAMPLE_RATE_TABLE[VersionColumn(version)]
    IN IF layer # 1 \/ version = 1 \/ bitrateIndex \in {0, 15} \/ (b[off + 3] \div 4) % 4 = 3
         THEN Fail
       ELSE [sampleRate |-> rate, channels |-> IF b[off + 4] \div 64 = 3 THEN 1 ELSE 2, kbps |-> kbps,
             size |-> (144000 * kbps) \div rate + ((b[off + 3] \div 2) % 2)]

\* The frame is what follows the header: size bytes.
RECURSIVE NextMp3Frame(_, _)
NextMp3Frame(b, off) ==
    LET Frame(h) ==
            IF off + 4 + h.size > Len(b) THEN Fail
            ELSE [data |-> Slice(b, off + 4, off + 4 + h.size), sampleRate |-> h.sampleRate,
                  channels |-> h.channels, durationMicros |-> (h.size * 8000) \div h.kbps,
                  end |-> off + 4 + h.size]
    IN IF off >= Len(b) THEN Fail
       ELSE IF b[off + 1] # 255 THEN NextMp3Frame(b, off + 1)
       ELSE IF off + 2 > Len(b) THEN Fail
       ELSE IF b[off + 2] < 224 THEN NextMp3Frame(b, off + 2)
       ELSE IF off + 4 > Len(b) THEN Fail
       ELSE IF Mp3Header(b, off) = Fail THEN NextMp3Frame(b, off + 4)
       ELSE Frame(Mp3Header(b, off))

-----------------------------------------------------------------------------
(* H26xReader.  r has the place in the stream, whether its end was seen,   *)
(* and the unit put back.                                                  *)

\* Zeros are looked for one after the other: a third zero takes a fourth byte.
RECURSIVE skipToStartCode(_, _)
skipToStartCode(b, off) ==
    LET At(i) == IF off + i <= Len(b) THEN b[off + i] ELSE -1
        End == [off |-> Len(b), eos |-> TRUE]
        Found(n) == [off |-> off + n, eos |-> FALSE]
    IN IF At(1) = -1 THEN End
       ELSE IF At(1) # 0 THEN skipToStartCode(b, off + 1)
       ELSE IF At(2) = -1 THEN End
       ELSE IF At(2) # 0 THEN skipToStartCode(b, off + 2)
       ELSE IF At(3) = -1 THEN End
       ELSE IF At(3) = 1 THEN Found(3)
       ELSE IF At(3) # 0 THEN skipToStartCode(b, off + 3)
       ELSE IF At(4) = -1 THEN End
       ELSE IF At(4) = 1 THEN Found(4)
       ELSE skipToStartCode(b, off + 4)

\* The bytes are taken three at a time; the unit ends at three that start a
\* start code, which are put back as a unit of their own.
RECURSIVE NalBytes(_, _, _)
NalBytes(b, off, nal) ==
    LET three == Slice(b, off, off + 3)
    IN IF off + 3 > Len(b)
         THEN [r |-> [off |-> Len(b), eos |-> TRUE, pending |-> << >>], nal |-> nal \o From(b, off)]
       ELSE IF three[1] = 0 /\ three[2] = 0 /\ three[3] \in {0, 1}
         THEN [r |-> [off |-> off + 3, eos |-> FALSE, pending |-> three], nal |-> nal]
       ELSE NalBytes(b, off + 3, nal \o three)

readNextNal(b, r) ==
    LET skipped == skipToStartCode(b, r.off)
    IN IF r.pending # << >> THEN [r |-> [r EXCEPT !.pending = << >>], nal |-> r.pending]
       ELSE IF r.eos THEN [r |-> r, nal |-> << >>]
       ELSE IF skipped.eos
         THEN [r |-> [r EXCEPT !.off = skipped.off, !.eos = TRUE], nal |-> << >>]
       ELSE NalBytes(b, skipped.off, <<0, 0, 1>>)

isVclNal(isHevc, nal) ==
    /\ Len(nal) >= 4
    /\ IF isHevc THEN (nal[4] \div 2) % 64 \in 0 .. 9 \cup 16 .. 21 ELSE nal[4] % 32 \in {1, 5}

\* Units up to the first that follows a picture and is not one.
RECURSIVE Accumulate(_, _, _, _, _)
Accumulate(b, isHevc, r, acc, hasVcl) ==
    LET next == readNextNal(b, r)
        vcl == isVclNal(isHevc, next.nal)
        Sample(after) == [r |-> after, data |-> acc, timed |-> hasVcl]
    IN IF next.nal = << >> THEN Sample([next.r EXCEPT !.eos = TRUE])
       ELSE IF hasVcl /\ ~vcl THEN Sample([next.r EXCEPT !.pending = next.nal])
       ELSE Accumulate(b, isHevc, next.r, acc \o next.nal, hasVcl \/ vcl)

\* No sample, empty data, at the end.
nextSample(b, isHevc, r) ==
    IF r.eos THEN [r |-> r, data |-> << >>, timed |-> FALSE]
    ELSE Accumulate(b, isHevc, r, << >>, FALSE)
=============================================================================
