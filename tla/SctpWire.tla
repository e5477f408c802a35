------------------------------ MODULE SctpWire ------------------------------
(***************************************************************************)
(* The bytes of an SCTP packet: rtc-sctp/src/packet.rs with its chunks     *)
(* (chunk/) and parameters (param/).  A packet is a record of ports, tag   *)
(* and chunks; a chunk and a parameter are records whose field typ is the  *)
(* number on the wire.                                                     *)
(***************************************************************************)
EXTENDS Bytes

\* chunk_type.rs
CT_PAYLOAD_DATA == 0
CT_INIT == 1
CT_INIT_ACK == 2
CT_SACK == 3
CT_HEARTBEAT == 4
CT_HEARTBEAT_ACK == 5
CT_ABORT == 6
CT_SHUTDOWN == 7
CT_SHUTDOWN_ACK == 8
CT_ERROR == 9
CT_COOKIE_ECHO == 10
CT_COOKIE_ACK == 11
CT_SHUTDOWN_COMPLETE == 14
CT_RECONFIG == 130
CT_FORWARD_TSN == 192

\* The parameter types build_param knows.
ParamType == [HeartbeatInfo |-> 1, StateCookie |-> 7, OutSsnResetReq |-> 13,
    ReconfigResp |-> 16, Random |-> 32770, ChunkList |-> 32771, ReqHmacAlgo |-> 32772,
    SupportedExt |-> 32776, ForwardTsnSupp |-> 49152]

-----------------------------------------------------------------------------
(* Parameters. *)

\* ParamHeader::unmarshal: the length covers the header and fits the bytes.
ParamHeader(raw) ==
    IF Len(raw) < 4 \/ Get16(raw, 2) < 4 \/ Len(raw) < Get16(raw, 2) THEN Fail
    ELSE [typ |-> Get16(raw, 0), value |-> Slice(raw, 4, Get16(raw, 2))]

MarshalParamHeader(typ, value_length) == U16(typ) \o U16(value_length + 4)

\* A parameter whose value is kept as it is.
OpaqueLength(p) == Len(p.value)

ParamStateCookie(raw) == ParamHeader(raw)
ParamRandom(raw) == ParamHeader(raw)
ParamHeartbeatInfo(raw) == ParamHeader(raw)
ParamSupportedExtensions(raw) == ParamHeader(raw)
ParamChunkList(raw) == ParamHeader(raw)
ParamUnknown(raw) == ParamHeader(raw)

ParamForwardTsnSupported(raw) ==
    IF ParamHeader(raw) = Fail THEN Fail ELSE [typ |-> ParamType.ForwardTsnSupp]

\* Algorithms other than SHA-128 (1) and SHA-256 (3) are refused.
ParamRequestedHmacAlgorithm(raw) ==
    LET Algorithms(v) == Items(LAMBDA b : Get16(b, 0), v, 2)
        Build(h) == IF h = Fail THEN Fail
                    ELSE IF \E i \in 1 .. Len(Algorithms(h.value)) : Algorithms(h.value)[i] \notin {1, 3}
                    THEN Fail
                    ELSE [typ |-> h.typ, available_algorithms |-> Algorithms(h.value)]
    IN Build(ParamHeader(raw))

MarshalParamRequestedHmacAlgorithm(p) == Each(U16, p.available_algorithms)

ParamOutgoingResetRequest(raw) ==
    LET Build(h) ==
          IF h = Fail THEN Fail
          ELSE IF Len(h.value) < 12 \/ Len(h.value) % 2 # 0 THEN Fail
          ELSE [typ |-> h.typ,
                reconfig_request_sequence_number |-> Get32(h.value, 0),
                reconfig_response_sequence_number |-> Get32(h.value, 4),
                sender_last_tsn |-> Get32(h.value, 8),
                stream_identifiers |-> Items(LAMBDA b : Get16(b, 0), From(h.value, 12), 2)]
    IN Build(ParamHeader(raw))

MarshalParamOutgoingResetRequest(p) ==
    U32(p.reconfig_request_sequence_number) \o U32(p.reconfig_response_sequence_number)
    \o U32(p.sender_last_tsn) \o Each(U16, p.stream_identifiers)

\* ReconfigResult::from: 0..6 are known, everything else is Unknown, which is
\* written as 7.
ReconfigResult(n) == IF n \in 0 .. 6 THEN n ELSE 7

ParamReconfigResponse(raw) ==
    LET Build(h) == IF h = Fail THEN Fail
                    ELSE IF Len(h.value) \notin {8, 16} THEN Fail
                    ELSE [typ |-> h.typ, reconfig_response_sequence_number |-> Get32(h.value, 0),
                          result |-> ReconfigResult(Get32(h.value, 4))]
    IN Build(ParamHeader(raw))

MarshalParamReconfigResponse(p) ==
    U32(p.reconfig_response_sequence_number) \o U32(p.result)

ParamValueLength(p) ==
    CASE p.typ = ParamType.ForwardTsnSupp -> 0
      [] p.typ = ParamType.ReconfigResp -> 8
      [] p.typ = ParamType.OutSsnResetReq -> 12 + Len(p.stream_identifiers) * 2
      [] p.typ = ParamType.ReqHmacAlgo -> 2 * Len(p.available_algorithms)
      [] OTHER -> OpaqueLength(p)

MarshalParam(p) ==
    MarshalParamHeader(p.typ, ParamValueLength(p))
    \o CASE p.typ = ParamType.ForwardTsnSupp -> <<>>
         [] p.typ = ParamType.ReconfigResp -> MarshalParamReconfigResponse(p)
         [] p.typ = ParamType.OutSsnResetReq -> MarshalParamOutgoingResetRequest(p)
         [] p.typ = ParamType.ReqHmacAlgo -> MarshalParamRequestedHmacAlgorithm(p)
         [] OTHER -> p.value

\* An unknown type is kept when its top bit is set and refused otherwise.
build_param(raw) ==
    IF Len(raw) < 4 THEN Fail
    ELSE CASE Get16(raw, 0) = ParamType.ForwardTsnSupp -> ParamForwardTsnSupported(raw)
           [] Get16(raw, 0) = ParamType.SupportedExt -> ParamSupportedExtensions(raw)
           [] Get16(raw, 0) = ParamType.Random -> ParamRandom(raw)
           [] Get16(raw, 0) = ParamType.ReqHmacAlgo -> ParamRequestedHmacAlgorithm(raw)
           [] Get16(raw, 0) = ParamType.ChunkList -> ParamChunkList(raw)
           [] Get16(raw, 0) = ParamType.StateCookie -> ParamStateCookie(raw)
           [] Get16(raw, 0) = ParamType.HeartbeatInfo -> ParamHeartbeatInfo(raw)
           [] Get16(raw, 0) = ParamType.OutSsnResetReq -> ParamOutgoingResetRequest(raw)
           [] Get16(raw, 0) = ParamType.ReconfigResp -> ParamReconfigResponse(raw)
           [] OTHER -> IF Bit(Get16(raw, 0), 15) THEN ParamUnknown(raw) ELSE Fail

\* Parameters one after the other, each but the last padded to four bytes.
MarshalParams(ps) ==
    FlattenSeq([i \in 1 .. Len(ps) |->
        MarshalParam(ps[i]) \o IF i = Len(ps) THEN <<>> ELSE Zeros(PadTo4(4 + ParamValueLength(ps[i])))])

ParamsLength(ps) ==
    Total([i \in 1 .. Len(ps) |->
        4 + ParamValueLength(ps[i])
        + IF i = Len(ps) THEN 0 ELSE PadTo4(4 + ParamValueLength(ps[i]))])

-----------------------------------------------------------------------------
(* Chunks. *)

\* ChunkHeader::unmarshal: the length covers the header and fits the bytes; up
\* to three bytes behind it are padding and must be zero.
ChunkHeader(raw) ==
    IF Len(raw) < 4 THEN Fail
    ELSE LET length == Get16(raw, 2) IN
         IF length < 4 \/ Len(raw) < length THEN Fail
         ELSE IF Len(raw) - length < 4 /\ From(raw, length) # Zeros(Len(raw) - length) THEN Fail
         ELSE [typ |-> raw[1], flags |-> raw[2], value |-> Slice(raw, 4, length)]

MarshalChunkHeader(typ, flags, value_length) == <<typ, flags>> \o U16(value_length + 4)

\* ErrorCause: a code and what follows it, without padding.
ErrorCauseLength(e) == Len(e.raw) + 4

MarshalErrorCause(e) == U16(e.code) \o U16(ErrorCauseLength(e)) \o e.raw

\* The code slices the value without comparing its length with what is left;
\* a cause that claims more than there is counts as refused here.
ErrorCause(raw) ==
    IF Len(raw) < 4 \/ Get16(raw, 2) < 4 \/ Len(raw) < Get16(raw, 2) THEN Fail
    ELSE [code |-> Get16(raw, 0), raw |-> Slice(raw, 4, Get16(raw, 2))]

RECURSIVE ErrorCauses(_, _)
ErrorCauses(raw, causes) ==
    IF Len(raw) < 4 THEN [error_causes |-> causes]
    ELSE LET e == ErrorCause(raw) IN
         IF e = Fail THEN Fail ELSE ErrorCauses(From(raw, ErrorCauseLength(e)), Append(causes, e))

ChunkAbort(h) ==
    LET causes == ErrorCauses(h.value, <<>>)
    IN IF causes = Fail THEN Fail ELSE [typ |-> CT_ABORT] @@ causes

ChunkError(h) ==
    LET causes == ErrorCauses(h.value, <<>>)
    IN IF causes = Fail THEN Fail ELSE [typ |-> CT_ERROR] @@ causes

MarshalChunkAbort(c) == Each(MarshalErrorCause, c.error_causes)
MarshalChunkError(c) == Each(MarshalErrorCause, c.error_causes)

ErrorCausesLength(c) == Total([i \in 1 .. Len(c.error_causes) |-> ErrorCauseLength(c.error_causes[i])])

\* INIT and INIT ACK.  The loop over the parameters goes on while more than a
\* parameter's header is left.
PaddedParamLength(p) == 4 + ParamValueLength(p) + PadTo4(4 + ParamValueLength(p))

RECURSIVE InitParams(_, _), InitParamsFrom(_, _, _)
InitParamsFrom(p, raw, ps) ==
    IF p = Fail THEN Fail ELSE InitParams(From(raw, PaddedParamLength(p)), Append(ps, p))
InitParams(raw, ps) ==
    IF Len(raw) <= 4 THEN [params |-> ps] ELSE InitParamsFrom(build_param(raw), raw, ps)

InitWith(h, ps) ==
    IF ps = Fail THEN Fail
    ELSE [typ |-> h.typ, initiate_tag |-> Get32(h.value, 0),
          advertised_receiver_window_credit |-> Get32(h.value, 4),
          num_outbound_streams |-> Get16(h.value, 8),
          num_inbound_streams |-> Get16(h.value, 10),
          initial_tsn |-> Get32(h.value, 12)] @@ ps
ChunkInit(h) ==
    IF Len(h.value) < 16 \/ h.flags # 0 THEN Fail ELSE InitWith(h, InitParams(From(h.value, 16), <<>>))

MarshalChunkInit(c) ==
    U32(c.initiate_tag) \o U32(c.advertised_receiver_window_credit)
    \o U16(c.num_outbound_streams) \o U16(c.num_inbound_streams)
    \o U32(c.initial_tsn) \o MarshalParams(c.params)

ChunkInitLength(c) == 16 + ParamsLength(c.params)

\* ChunkInit::check
ChunkInitCheck(c) ==
    /\ c.initiate_tag # 0
    /\ c.num_inbound_streams # 0
    /\ c.num_outbound_streams # 0
    /\ c.advertised_receiver_window_credit >= 1500

set_supported_extensions == [typ |-> ParamType.SupportedExt, value |-> <<CT_RECONFIG, CT_FORWARD_TSN>>]

\* DATA.  PayloadProtocolIdentifier::from keeps the five known identifiers; the
\* variant Unknown follows BinaryEmpty (57) and is written as 58.
PayloadProtocolIdentifier(n) == IF n \in {50, 51, 53, 56, 57} THEN n ELSE 58

ChunkPayloadData(h) ==
    IF Len(h.value) < 12 THEN Fail
    ELSE [typ |-> CT_PAYLOAD_DATA,
          ending_fragment |-> Bit(h.flags, 0), beginning_fragment |-> Bit(h.flags, 1),
          unordered |-> Bit(h.flags, 2), immediate_sack |-> Bit(h.flags, 3),
          tsn |-> Get32(h.value, 0), stream_identifier |-> Get16(h.value, 4),
          stream_sequence_number |-> Get16(h.value, 6),
          payload_type |-> PayloadProtocolIdentifier(Get32(h.value, 8)),
          user_data |-> From(h.value, 12)]

PayloadDataFlags(c) ==
    Flag(c.ending_fragment, 0) + Flag(c.beginning_fragment, 1)
    + Flag(c.unordered, 2) + Flag(c.immediate_sack, 3)

MarshalChunkPayloadData(c) ==
    U32(c.tsn) \o U16(c.stream_identifier) \o U16(c.stream_sequence_number)
    \o U32(c.payload_type) \o c.user_data

\* SACK
ChunkSelectiveAck(h) ==
    IF Len(h.value) < 12 THEN Fail
    ELSE LET gaps == Get16(h.value, 8)
             dups == Get16(h.value, 10)
         IN IF Len(h.value) < 12 + 4 * gaps + 4 * dups THEN Fail
            ELSE [typ |-> CT_SACK, cumulative_tsn_ack |-> Get32(h.value, 0),
                  advertised_receiver_window_credit |-> Get32(h.value, 4),
                  gap_ack_blocks |-> Items(LAMBDA b : [start |-> Get16(b, 0), end |-> Get16(b, 2)],
                                           Slice(h.value, 12, 12 + 4 * gaps), 4),
                  duplicate_tsn |-> Items(LAMBDA b : Get32(b, 0),
                                          Slice(h.value, 12 + 4 * gaps, 12 + 4 * gaps + 4 * dups), 4)]

MarshalChunkSelectiveAck(c) ==
    U32(c.cumulative_tsn_ack) \o U32(c.advertised_receiver_window_credit)
    \o U16(Len(c.gap_ack_blocks)) \o U16(Len(c.duplicate_tsn))
    \o Each(LAMBDA g : U16(g.start) \o U16(g.end), c.gap_ack_blocks)
    \o Each(U32, c.duplicate_tsn)

ChunkSelectiveAckLength(c) == 12 + Len(c.gap_ack_blocks) * 4 + Len(c.duplicate_tsn) * 4

\* FORWARD TSN: every four bytes behind the number are a stream; a rest shorter
\* than that is refused.
ChunkForwardTsnStream(b) == [identifier |-> Get16(b, 0), sequence |-> Get16(b, 2)]

ChunkForwardTsn(h) ==
    IF Len(h.value) < 4 \/ Len(h.value) % 4 # 0 THEN Fail
    ELSE [typ |-> CT_FORWARD_TSN, new_cumulative_tsn |-> Get32(h.value, 0),
          streams |-> Items(ChunkForwardTsnStream, From(h.value, 4), 4)]

MarshalChunkForwardTsn(c) ==
    U32(c.new_cumulative_tsn) \o Each(LAMBDA s : U16(s.identifier) \o U16(s.sequence), c.streams)

ChunkForwardTsnLength(c) == 4 + 4 * Len(c.streams)

\* RECONFIG carries one parameter or two, as the sequence params.
Reconfig(params) == IF Fail \in ToSet(params) THEN Fail ELSE [typ |-> CT_RECONFIG, params |-> params]

ReconfigAfter(value, a, offset) ==
    Reconfig(IF Len(value) <= offset THEN <<a>> ELSE <<a, build_param(From(value, offset))>>)

ReconfigFirst(value, a) == IF a = Fail THEN Fail ELSE ReconfigAfter(value, a, PaddedParamLength(a))
ChunkReconfig(h) == ReconfigFirst(h.value, build_param(h.value))

\* A chunk without its first parameter cannot be written.
MarshalChunkReconfig(c) ==
    IF c.params = <<>> THEN <<>>
    ELSE IF Len(c.params) = 1 THEN MarshalParam(c.params[1])
    ELSE MarshalParam(c.params[1]) \o Zeros(PadTo4(4 + ParamValueLength(c.params[1])))
         \o MarshalParam(c.params[2])

ChunkReconfigLength(c) ==
    LET a_len == 4 + ParamValueLength(c.params[1])
    IN IF Len(c.params) = 1 THEN a_len ELSE a_len + 4 + ParamValueLength(c.params[2]) + PadTo4(a_len)

\* HEARTBEAT and HEARTBEAT ACK carry one heartbeat parameter.
HeartbeatWith(h, p) ==
    IF h.value = <<>> THEN Fail
    ELSE IF p = Fail THEN Fail
    ELSE IF p.typ # ParamType.HeartbeatInfo THEN Fail
    ELSE [typ |-> h.typ, params |-> <<p>>]
HeartbeatOf(h) == HeartbeatWith(h, build_param(h.value))

ChunkHeartbeat(h) == HeartbeatOf(h)
ChunkHeartbeatAck(h) == HeartbeatOf(h)

MarshalChunkHeartbeat(c) == Each(MarshalParam, c.params)
ChunkHeartbeatLength(c) == Total([i \in 1 .. Len(c.params) |-> 4 + ParamValueLength(c.params[i])])

MarshalChunkHeartbeatAck(c) == MarshalParams(c.params)
ChunkHeartbeatAckLength(c) == ParamsLength(c.params)

ChunkCookieEcho(h) == [typ |-> CT_COOKIE_ECHO, cookie |-> h.value]
ChunkCookieAck(h) == [typ |-> CT_COOKIE_ACK]
ChunkShutdownAck(h) == [typ |-> CT_SHUTDOWN_ACK]
ChunkShutdownComplete(h) == [typ |-> CT_SHUTDOWN_COMPLETE]

ChunkShutdown(h) ==
    IF Len(h.value) # 4 THEN Fail
    ELSE [typ |-> CT_SHUTDOWN, cumulative_tsn_ack |-> Get32(h.value, 0)]

-----------------------------------------------------------------------------
(* Packets. *)

\* The value_length of each kind of chunk.
ChunkValueLength(c) ==
    CASE c.typ = CT_PAYLOAD_DATA -> 12 + Len(c.user_data)
      [] c.typ \in {CT_INIT, CT_INIT_ACK} -> ChunkInitLength(c)
      [] c.typ = CT_SACK -> ChunkSelectiveAckLength(c)
      [] c.typ = CT_HEARTBEAT -> ChunkHeartbeatLength(c)
      [] c.typ = CT_HEARTBEAT_ACK -> ChunkHeartbeatAckLength(c)
      [] c.typ \in {CT_ABORT, CT_ERROR} -> ErrorCausesLength(c)
      [] c.typ = CT_SHUTDOWN -> 4
      [] c.typ = CT_COOKIE_ECHO -> Len(c.cookie)
      [] c.typ = CT_RECONFIG -> ChunkReconfigLength(c)
      [] c.typ = CT_FORWARD_TSN -> ChunkForwardTsnLength(c)
      [] OTHER -> 0

ChunkFlags(c) == IF c.typ = CT_PAYLOAD_DATA THEN PayloadDataFlags(c) ELSE 0

MarshalChunk(c) ==
    MarshalChunkHeader(c.typ, ChunkFlags(c), ChunkValueLength(c))
    \o CASE c.typ = CT_PAYLOAD_DATA -> MarshalChunkPayloadData(c)
         [] c.typ \in {CT_INIT, CT_INIT_ACK} -> MarshalChunkInit(c)
         [] c.typ = CT_SACK -> MarshalChunkSelectiveAck(c)
         [] c.typ = CT_HEARTBEAT -> MarshalChunkHeartbeat(c)
         [] c.typ = CT_HEARTBEAT_ACK -> MarshalChunkHeartbeatAck(c)
         [] c.typ = CT_ABORT -> MarshalChunkAbort(c)
         [] c.typ = CT_ERROR -> MarshalChunkError(c)
         [] c.typ = CT_SHUTDOWN -> U32(c.cumulative_tsn_ack)
         [] c.typ = CT_COOKIE_ECHO -> c.cookie
         [] c.typ = CT_RECONFIG -> MarshalChunkReconfig(c)
         [] c.typ = CT_FORWARD_TSN -> MarshalChunkForwardTsn(c)
         [] OTHER -> <<>>

\* The match of Packet::unmarshal; HEARTBEAT ACK is not among its arms.
ChunkBody(h) ==
    CASE h.typ \in {CT_INIT, CT_INIT_ACK} -> ChunkInit(h)
      [] h.typ = CT_ABORT -> ChunkAbort(h)
      [] h.typ = CT_COOKIE_ECHO -> ChunkCookieEcho(h)
      [] h.typ = CT_COOKIE_ACK -> ChunkCookieAck(h)
      [] h.typ = CT_HEARTBEAT -> ChunkHeartbeat(h)
      [] h.typ = CT_PAYLOAD_DATA -> ChunkPayloadData(h)
      [] h.typ = CT_SACK -> ChunkSelectiveAck(h)
      [] h.typ = CT_RECONFIG -> ChunkReconfig(h)
      [] h.typ = CT_FORWARD_TSN -> ChunkForwardTsn(h)
      [] h.typ = CT_ERROR -> ChunkError(h)
      [] h.typ = CT_SHUTDOWN -> ChunkShutdown(h)
      [] h.typ = CT_SHUTDOWN_ACK -> ChunkShutdownAck(h)
      [] h.typ = CT_SHUTDOWN_COMPLETE -> ChunkShutdownComplete(h)
      [] OTHER -> Fail

\* Stands for the CRC-32C of the packet with zeroes in its checksum field.
generate_packet_checksum(raw) == Mix(Slice(raw, 0, 8) \o Zeros(4) \o From(raw, 12))

\* slice_chunk: the bytes of the chunk at the front, without its padding.
slice_chunk(raw) ==
    IF Get16(raw, 2) < 4 \/ Get16(raw, 2) > Len(raw) THEN Fail
    ELSE ChunkHeader(Slice(raw, 0, Get16(raw, 2)))

ChunkOf(h) == IF h = Fail THEN Fail ELSE ChunkBody(h)
FirstChunk(raw) == IF Len(raw) < 4 THEN Fail ELSE ChunkOf(slice_chunk(raw))

ChunkSize(c) == 4 + ChunkValueLength(c) + PadTo4(ChunkValueLength(c))

RECURSIVE Chunks(_, _), ChunksFrom(_, _, _)
ChunksFrom(c, raw, chunks) ==
    IF c = Fail THEN Fail
    ELSE IF ChunkSize(c) > Len(raw) THEN Fail
    ELSE Chunks(From(raw, ChunkSize(c)), Append(chunks, c))
Chunks(raw, chunks) ==
    IF raw = <<>> THEN [chunks |-> chunks] ELSE ChunksFrom(FirstChunk(raw), raw, chunks)

PacketOf(raw, cs) ==
    IF cs = Fail THEN Fail
    ELSE [source_port |-> Get16(raw, 0), destination_port |-> Get16(raw, 2),
          verification_tag |-> Get32(raw, 4)] @@ cs

UnmarshalPacket(raw) ==
    IF Len(raw) < 12 THEN Fail
    ELSE IF GetLE32(raw, 8) # generate_packet_checksum(raw) THEN Fail
    ELSE PacketOf(raw, Chunks(From(raw, 12), <<>>))

marshaled_len(p) ==
    12 + Total([i \in 1 .. Len(p.chunks) |->
                  4 + ChunkValueLength(p.chunks[i]) + PadTo4(4 + ChunkValueLength(p.chunks[i]))])

\* write_framed: header with an empty checksum, the chunks, each padded, and
\* then the checksum in its place, least significant byte first.
write_framed(p) ==
    LET header == U16(p.source_port) \o U16(p.destination_port) \o U32(p.verification_tag)
        Padded(c) == c \o Zeros(PadTo4(Len(c)))
        chunks == Each(LAMBDA c : Padded(MarshalChunk(c)), p.chunks)
    IN header \o LE32(generate_packet_checksum(header \o U32(0) \o chunks)) \o chunks

\* check_packet: an INIT stands alone and carries no tag; no port is zero.
check_packet(p) ==
    /\ p.source_port # 0
    /\ p.destination_port # 0
    /\ \A i \in 1 .. Len(p.chunks) :
         p.chunks[i].typ = CT_INIT => Len(p.chunks) = 1 /\ p.verification_tag = 0
=============================================================================
