------------------------------ MODULE RtpWire ------------------------------
(***************************************************************************)
(* The bytes of an RTP packet and of its header extensions:                *)
(* rtc-rtp/src/header.rs, packet/mod.rs and extension/.  A header is a     *)
(* record; its extensions are a sequence of [id, payload].                 *)
(***************************************************************************)
EXTENDS Bytes, Integers

HEADER_LENGTH == 4
CSRC_OFFSET == 12
CSRC_LENGTH == 4
EXTENSION_PROFILE_ONE_BYTE == 48862
EXTENSION_PROFILE_TWO_BYTE == 4096
EXTENSION_ID_RESERVED == 15

\* Bytes that an extension takes beside its payload.
ProfileLen(profile) ==
    CASE profile = EXTENSION_PROFILE_ONE_BYTE -> 1
      [] profile = EXTENSION_PROFILE_TWO_BYTE -> 2
      [] OTHER -> 0

get_extension_payload_len(h) ==
    Total([i \in 1 .. Len(h.extensions) |->
              Len(h.extensions[i].payload) + ProfileLen(h.extension_profile)])

MarshalSize(h) ==
    12 + Len(h.csrc) * CSRC_LENGTH
    + (IF h.extension
         THEN 4 + ((get_extension_payload_len(h) + h.extensions_padding + 3) \div 4) * 4
         ELSE 0)

MarshalExtension(profile, e) ==
    CASE profile = EXTENSION_PROFILE_ONE_BYTE -> <<e.id * 16 + Len(e.payload) - 1>> \o e.payload
      [] profile = EXTENSION_PROFILE_TWO_BYTE -> <<e.id, Len(e.payload)>> \o e.payload
      [] OTHER -> e.payload

\* Outside the two profiles of RFC 8285 there is one extension, of whole words.
ExtensionsFit(h) ==
    h.extension /\ ProfileLen(h.extension_profile) = 0 =>
        Len(h.extensions) = 1 /\ Len(h.extensions[1].payload) % 4 = 0

MarshalHeader(h) ==
    LET len == get_extension_payload_len(h)
    IN IF ~ExtensionsFit(h) THEN Refused
       ELSE <<h.version * 64 + Flag(h.padding, 5) + Flag(h.extension, 4) + Len(h.csrc),
              h.payload_type + Flag(h.marker, 7)>>
            \o U16(h.sequence_number) \o U32(h.timestamp) \o U32(h.ssrc) \o Each(U32, h.csrc)
            \o IF h.extension
                 THEN U16(h.extension_profile) \o U16((len + 3) \div 4)
                      \o Each(LAMBDA e : MarshalExtension(h.extension_profile, e), h.extensions)
                      \o Zeros(PadTo4(len))
                 ELSE << >>

\* The extension loop: bytes from off to end, the extensions and the zero
\* bytes met so far.  The length of an element is compared with what is left
\* of the packet; the loop ends at the reserved identifier.
RECURSIVE Elements(_, _, _, _, _, _)
Elements(profile, raw, off, end, got, zeros) ==
    LET size == ProfileLen(profile)
        Element(id, len) ==
            IF off + size + len > Len(raw) THEN Fail
            ELSE Elements(profile, raw, off + size + len, end,
                     Append(got, [id |-> id, payload |-> Slice(raw, off + size, off + size + len)]),
                     zeros)
    IN CASE off >= end -> [extensions |-> got, zeros |-> zeros, off |-> off]
         [] off < end /\ raw[off + 1] = 0 -> Elements(profile, raw, off + 1, end, got, zeros + 1)
         [] off < end /\ raw[off + 1] # 0 /\ size = 1 ->
              IF raw[off + 1] \div 16 = EXTENSION_ID_RESERVED
                THEN [extensions |-> got, zeros |-> zeros, off |-> off + 1]
                ELSE Element(raw[off + 1] \div 16, (raw[off + 1] % 16) + 1)
         [] off < end /\ raw[off + 1] # 0 /\ size = 2 ->
              IF off + 1 >= end THEN Fail ELSE Element(raw[off + 1], raw[off + 2])

\* What follows the CSRC list, from offset off.
Extensions(raw, off) ==
    IF Len(raw) < off + 4 \/ Len(raw) < off + 4 + Get16(raw, off + 2) * 4 THEN Fail
    ELSE LET end == off + 4 + Get16(raw, off + 2) * 4
         IN IF ProfileLen(Get16(raw, off)) > 0
              THEN Elements(Get16(raw, off), raw, off + 4, end, << >>, 0)
              ELSE [extensions |-> << [id |-> 0, payload |-> Slice(raw, off + 4, end)] >>,
                    zeros |-> 0, off |-> end]

\* The header and the offset of the payload.
Header(raw) ==
    LET cc == raw[1] % 16
        off == CSRC_OFFSET + cc * CSRC_LENGTH
        extension == Bit(raw[1], 4)
        With(e) ==
            [version |-> raw[1] \div 64, padding |-> Bit(raw[1], 5), extension |-> extension,
             marker |-> Bit(raw[2], 7), payload_type |-> raw[2] % 128,
             sequence_number |-> Get16(raw, 2), timestamp |-> Get32(raw, 4),
             ssrc |-> Get32(raw, 8),
             csrc |-> [i \in 1 .. cc |-> Get32(raw, CSRC_OFFSET + (i - 1) * CSRC_LENGTH)],
             extension_profile |-> IF extension THEN Get16(raw, off) ELSE 0,
             extensions |-> e.extensions, extensions_padding |-> e.zeros, off |-> e.off]
    IN IF Len(raw) < HEADER_LENGTH \/ Len(raw) < off THEN Fail
       ELSE IF ~extension THEN With([extensions |-> << >>, zeros |-> 0, off |-> off])
       ELSE IF Extensions(raw, off) = Fail THEN Fail
       ELSE With(Extensions(raw, off))

-----------------------------------------------------------------------------
(* Extensions of a header that is being built.                             *)

Find(h, id) == {i \in 1 .. Len(h.extensions) : h.extensions[i].id = id}

get_extension(h, id) ==
    IF ~h.extension \/ Find(h, id) = {} THEN Fail
    ELSE [payload |-> h.extensions[CHOOSE i \in Find(h, id) : \A j \in Find(h, id) : i <= j].payload]

SetFits(h, id, payload) ==
    ~h.extension \/ CASE h.extension_profile = EXTENSION_PROFILE_ONE_BYTE ->
                            id \in 1 .. 14 /\ Len(payload) <= 16
                      [] h.extension_profile = EXTENSION_PROFILE_TWO_BYTE ->
                            id >= 1 /\ Len(payload) <= 255
                      [] OTHER -> id = 0

\* extensions_padding after delta more bytes of extensions.
Repad(padding, delta) ==
    CASE delta < 0 -> (padding - delta) % 4
      [] delta > 0 -> IF padding < delta % 4 THEN padding + 4 - (delta % 4)
                      ELSE padding - (delta % 4)
      [] OTHER -> padding

\* The first extension decides the profile.
SetFirst(h, id, payload) ==
    LET profile == CASE Len(payload) \in 0 .. 16 -> EXTENSION_PROFILE_ONE_BYTE
                     [] Len(payload) \in 17 .. 255 -> EXTENSION_PROFILE_TWO_BYTE
                     [] OTHER -> h.extension_profile
        len == Len(payload) + (IF Len(payload) <= 255 THEN ProfileLen(profile) ELSE 0)
    IN [h EXCEPT !.extension = TRUE, !.extension_profile = profile,
                 !.extensions_padding = Repad(@, len),
                 !.extensions = Append(@, [id |-> id, payload |-> payload])]

SetAnother(h, id, payload) ==
    IF Find(h, id) # {}
      THEN LET i == CHOOSE i \in Find(h, id) : \A j \in Find(h, id) : i <= j
           IN [h EXCEPT !.extensions[i].payload = payload,
                        !.extensions_padding =
                            Repad(@, Len(payload) - Len(h.extensions[i].payload))]
      ELSE [h EXCEPT !.extensions = Append(@, [id |-> id, payload |-> payload]),
                     !.extensions_padding =
                         Repad(@, Len(payload) + ProfileLen(h.extension_profile))]

set_extension(h, id, payload) ==
    CASE ~SetFits(h, id, payload) -> h
      [] SetFits(h, id, payload) /\ h.extension -> SetAnother(h, id, payload)
      [] OTHER -> SetFirst(h, id, payload)

del_extension(h, id) ==
    IF ~h.extension \/ Find(h, id) = {} THEN h
    ELSE LET i == CHOOSE i \in Find(h, id) : \A j \in Find(h, id) : i <= j
             len == Len(h.extensions[i].payload) + ProfileLen(h.extension_profile)
         IN [h EXCEPT !.extensions = RemoveAt(@, i), !.extensions_padding = (@ + (len % 4)) % 4]

-----------------------------------------------------------------------------
(* Packets.                                                                *)

get_padding(len) == PadTo4(len)

\* A packet with the padding flag has one to four bytes of padding.
PaddingLen(p) ==
    IF ~p.header.padding THEN 0
    ELSE IF get_padding(Len(p.payload)) = 0 THEN 4 ELSE get_padding(Len(p.payload))

PacketSize(p) == MarshalSize(p.header) + Len(p.payload) + PaddingLen(p)

MarshalPacket(p) ==
    LET n == PaddingLen(p)
    IN IF MarshalHeader(p.header) = Refused THEN Refused
       ELSE MarshalHeader(p.header) \o p.payload
            \o [i \in 1 .. n |-> IF i = n THEN n ELSE 0]

UnmarshalPacket(raw) ==
    LET From0(h) ==
            IF ~h.padding THEN [header |-> h, payload |-> From(raw, h.off)]
            ELSE IF Len(raw) = h.off \/ raw[Len(raw)] > Len(raw) - h.off THEN Fail
            ELSE [header |-> h, payload |-> Slice(raw, h.off, Len(raw) - raw[Len(raw)])]
    IN IF Header(raw) = Fail THEN Fail ELSE From0(Header(raw))

-----------------------------------------------------------------------------
(* The payloads of the five extensions that have a type.                   *)

ABS_SEND_TIME_EXTENSION_SIZE == 3
AUDIO_LEVEL_EXTENSION_SIZE == 1
PLAYOUT_DELAY_EXTENSION_SIZE == 3
PLAYOUT_DELAY_MAX_VALUE == 4095
TRANSPORT_CC_EXTENSION_SIZE == 2
VIDEO_ORIENTATION_EXTENSION_SIZE == 1

MarshalAbsSendTime(e) == U24(e.timestamp % 2^24)

AbsSendTime(raw) ==
    IF Len(raw) < ABS_SEND_TIME_EXTENSION_SIZE THEN Fail
    ELSE [kind |-> "AbsSendTime", timestamp |-> Get24(raw, 0)]

MarshalAudioLevel(e) == IF e.level > 127 THEN Refused ELSE <<Flag(e.voice, 7) + e.level>>

AudioLevel(raw) ==
    IF Len(raw) < AUDIO_LEVEL_EXTENSION_SIZE THEN Fail
    ELSE [kind |-> "AudioLevel", level |-> raw[1] % 128, voice |-> Bit(raw[1], 7)]

MarshalPlayoutDelay(e) ==
    IF e.min_delay > PLAYOUT_DELAY_MAX_VALUE \/ e.max_delay > PLAYOUT_DELAY_MAX_VALUE THEN Refused
    ELSE <<e.min_delay \div 16, ((e.min_delay * 16) % 256) + e.max_delay \div 256, e.max_delay % 256>>

PlayoutDelay(raw) ==
    IF Len(raw) < PLAYOUT_DELAY_EXTENSION_SIZE THEN Fail
    ELSE [kind |-> "PlayoutDelay", min_delay |-> Get16(raw, 0) \div 16,
          max_delay |-> Get16(raw, 1) % 4096]

MarshalTransportCc(e) == U16(e.transport_sequence)

TransportCc(raw) ==
    IF Len(raw) < TRANSPORT_CC_EXTENSION_SIZE THEN Fail
    ELSE [kind |-> "TransportCc", transport_sequence |-> Get16(raw, 0)]

MarshalVideoOrientation(e) == <<e.direction * 8 + Flag(e.flip, 2) + e.rotation>>

VideoOrientation(raw) ==
    IF Len(raw) < VIDEO_ORIENTATION_EXTENSION_SIZE THEN Fail
    ELSE [kind |-> "VideoOrientation", direction |-> (raw[1] \div 8) % 2, flip |-> Bit(raw[1], 2),
          rotation |-> raw[1] % 4]

MarshalHeaderExtension(e) ==
    CASE e.kind = "AbsSendTime" -> MarshalAbsSendTime(e)
      [] e.kind = "AudioLevel" -> MarshalAudioLevel(e)
      [] e.kind = "PlayoutDelay" -> MarshalPlayoutDelay(e)
      [] e.kind = "TransportCc" -> MarshalTransportCc(e)
      [] e.kind = "VideoOrientation" -> MarshalVideoOrientation(e)

\* The reader that the extension's URI selects.
HeaderExtension(kind, raw) ==
    CASE kind = "AbsSendTime" -> AbsSendTime(raw)
      [] kind = "AudioLevel" -> AudioLevel(raw)
      [] kind = "PlayoutDelay" -> PlayoutDelay(raw)
      [] kind = "TransportCc" -> TransportCc(raw)
      [] kind = "VideoOrientation" -> VideoOrientation(raw)
=============================================================================
