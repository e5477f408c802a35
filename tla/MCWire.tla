------------------------------- MODULE MCWire -------------------------------
(***************************************************************************)
(* What goes over the wire.  A behaviour follows one of two parts: a task  *)
(* of Wire, or mDNS endpoints on a group (Mdns).                           *)
(***************************************************************************)
EXTENDS Wire

-----------------------------------------------------------------------------
(* Wire: one message of each kind the code sends.                          *)

Bs(n) == [i \in 1 .. n |-> (7 * i) % 256]
M(kind, value) == [kind |-> kind, value |-> value]

\* STUN and TURN.
Id == Bs(12)
V4 == [ip |-> <<10, 0, 0, 7>>, port |-> 50000]
V6 == [ip |-> Bs(16), port |-> 3478]
New(method, class) == <<[set |-> "transaction_id", id |-> Id], [set |-> "type", typ |-> U!MessageType(method, class)]>>
Text(a, t) == [set |-> "text", attr |-> a, text |-> t]
Signed == <<[set |-> "integrity", key |-> <<1, 2, 3>>], [set |-> "fingerprint"]>>
Stun == {
    New(1, 0) \o <<Text(6, <<117, 58, 118>>), [set |-> "use_candidate"],
        [set |-> "control", role |-> "controlling", tie_breaker |-> Bs(8)],
        [set |-> "priority", priority |-> 2130706431]>> \o Signed,
    New(1, 2) \o <<[set |-> "xor", attr |-> U!Attr.XORMAPPED_ADDRESS, addr |-> V4]>> \o Signed,
    New(1, 3) \o <<[set |-> "code", code |-> 487]>> \o Signed,
    New(3, 0) \o <<[set |-> "transport", protocol |-> 17], Text(6, <<1>>), Text(20, <<2, 3>>), Text(21, <<4, 5, 6>>)>> \o Signed,
    New(9, 0) \o <<[set |-> "xor", attr |-> U!Attr.XOR_PEER_ADDRESS, addr |-> V6], [set |-> "channel", number |-> 16384]>> \o Signed,
    New(6, 1) \o <<[set |-> "data", data |-> <<9, 9, 9>>], [set |-> "xor", attr |-> U!Attr.XOR_PEER_ADDRESS, addr |-> V4]>> }

\* DTLS before the epoch changes.
Random == [gmt_unix_time |-> 123456789, random_bytes |-> Bs(28)]
Algorithms == <<[hash |-> 4, signature |-> 3], [hash |-> 8, signature |-> 7]>>
Extensions == <<
    [kind |-> "SupportedEllipticCurves", elliptic_curves |-> <<29, 23, 24>>],
    [kind |-> "SupportedPointFormats", point_formats |-> <<0>>],
    [kind |-> "SupportedSignatureAlgorithms", signature_hash_algorithms |-> Algorithms],
    [kind |-> "UseSrtp", protection_profiles |-> <<7, 1>>],
    [kind |-> "UseExtendedMasterSecret", supported |-> TRUE],
    [kind |-> "RenegotiationInfo", renegotiated_connection |-> 0]>>
Hello(cookie) ==
    [kind |-> "ClientHello", version |-> D!VERSION_DTLS12, random |-> Random, cookie |-> cookie,
     cipher_suites |-> <<49195, 49199>>, compression_methods |-> <<0>>, extensions |-> Extensions]
Handshakes == {
    Hello(<< >>), Hello(Bs(20)),
    [kind |-> "HelloVerifyRequest", version |-> D!VERSION_DTLS12, cookie |-> Bs(20)],
    [kind |-> "ServerHello", version |-> D!VERSION_DTLS12, random |-> Random, cipher_suite |-> 49195,
     compression_method |-> 0, extensions |-> SubSeq(Extensions, 3, 6)],
    [kind |-> "Certificate", certificate |-> <<Bs(40), Bs(5)>>],
    [kind |-> "CertificateRequest", certificate_types |-> <<1, 64>>, signature_hash_algorithms |-> Algorithms],
    [kind |-> "ServerHelloDone"],
    [kind |-> "ServerKeyExchange", identity_hint |-> << >>, elliptic_curve_type |-> 3, named_curve |-> 29,
     public_key |-> Bs(32), algorithm |-> Algorithms[1], signature |-> Bs(20)],
    [kind |-> "ClientKeyExchange", identity_hint |-> << >>, public_key |-> Bs(33)],
    [kind |-> "CertificateVerify", algorithm |-> Algorithms[2], signature |-> Bs(20)],
    [kind |-> "Finished", verify_data |-> Bs(12)] }
Records0 == {D!NewRecordLayer(D!VERSION_DTLS12, 0, c) :
    c \in {D!NewHandshake(h) : h \in Handshakes} \cup {[kind |-> "ChangeCipherSpec"],
             [kind |-> "Alert", alert_level |-> 1, alert_description |-> 0]}}

\* SCTP.
Packet(tag, cs) == [source_port |-> 5000, destination_port |-> 5000, verification_tag |-> tag, chunks |-> cs]
InitChunk(typ, ps) ==
    [typ |-> typ, initiate_tag |-> 99999, advertised_receiver_window_credit |-> 1500000,
     num_outbound_streams |-> 65535, num_inbound_streams |-> 65535, initial_tsn |-> 77, params |-> ps]
DataChunk(b, n) ==
    [typ |-> S!CT_PAYLOAD_DATA, ending_fragment |-> TRUE, beginning_fragment |-> b, unordered |-> ~b,
     immediate_sack |-> FALSE, tsn |-> 77, stream_identifier |-> 1, stream_sequence_number |-> 3,
     payload_type |-> 51, user_data |-> Bs(n)]
Sack(g, d) ==
    [typ |-> S!CT_SACK, cumulative_tsn_ack |-> 76, advertised_receiver_window_credit |-> 65536,
     gap_ack_blocks |-> g, duplicate_tsn |-> d]
Reset == [typ |-> S!ParamType.OutSsnResetReq, reconfig_request_sequence_number |-> 5,
          reconfig_response_sequence_number |-> 6, sender_last_tsn |-> 80, stream_identifiers |-> <<1, 2, 3>>]
Response == [typ |-> S!ParamType.ReconfigResp, reconfig_response_sequence_number |-> 5, result |-> 1]
Sctp == {
    Packet(0, <<InitChunk(S!CT_INIT, <<S!set_supported_extensions>>)>>),
    Packet(9, <<InitChunk(S!CT_INIT_ACK,
                  <<[typ |-> S!ParamType.StateCookie, value |-> Bs(3)], S!set_supported_extensions>>)>>),
    Packet(9, <<[typ |-> S!CT_COOKIE_ECHO, cookie |-> Bs(3)], DataChunk(TRUE, 5)>>),
    Packet(9, <<[typ |-> S!CT_COOKIE_ACK], DataChunk(FALSE, 4), DataChunk(TRUE, 1)>>),
    Packet(9, <<Sack(<<[start |-> 2, end |-> 3], [start |-> 5, end |-> 5]>>, <<70, 71>>)>>),
    Packet(9, <<[typ |-> S!CT_FORWARD_TSN, new_cumulative_tsn |-> 80, streams |-> <<[identifier |-> 1, sequence |-> 2]>>]>>),
    Packet(9, <<[typ |-> S!CT_RECONFIG, params |-> <<Reset, Response>>], Sack(<< >>, << >>)>>),
    Packet(9, <<[typ |-> S!CT_SHUTDOWN, cumulative_tsn_ack |-> 9]>>),
    Packet(9, <<[typ |-> S!CT_ABORT, error_causes |-> <<[code |-> 12, raw |-> Bs(4)]>>]>>) }

\* RTCP and RTP.
Report == [ssrc |-> 11, fraction_lost |-> 3, total_lost |-> 70000, last_sequence_number |-> 99999, jitter |-> 5,
           last_sender_report |-> 77, delay |-> 123456]
Rtcp == {
    <<[kind |-> "SenderReport", ssrc |-> 42, ntp_time |-> Bs(8), rtp_time |-> 160, packet_count |-> 3,
       octet_count |-> 300, reports |-> <<Report>>, profile_extensions |-> << >>],
      [kind |-> "SourceDescription", chunks |-> <<[source |-> 7, items |-> <<[sdes_type |-> 1, text |-> Bs(3)]>>]>>]>>,
    <<[kind |-> "ReceiverReport", ssrc |-> 42, reports |-> <<Report>>, profile_extensions |-> << >>],
      [kind |-> "Goodbye", sources |-> <<1, 2>>, reason |-> <<70, 71>>]>>,
    <<[kind |-> "PictureLossIndication", sender_ssrc |-> 1, media_ssrc |-> 2],
      [kind |-> "FullIntraRequest", sender_ssrc |-> 1, media_ssrc |-> 2, fir |-> <<[ssrc |-> 5, sequence_number |-> 9]>>]>>,
    <<[kind |-> "TransportLayerNack", sender_ssrc |-> 1, media_ssrc |-> 2,
       nacks |-> R!nack_pairs_from_sequence_numbers(<<5, 6, 21, 22, 65535>>)],
      [kind |-> "ReceiverEstimatedMaximumBitrate", sender_ssrc |-> 1, bitrate |-> 8927168, ssrcs |-> <<5, 6>>]>>,
    <<[kind |-> "TransportLayerCc", sender_ssrc |-> 1, media_ssrc |-> 2, base_sequence_number |-> 65530,
       packet_status_count |-> 9, reference_time |-> 70000, fb_pkt_count |-> 255,
       packet_chunks |-> <<[type_tcc |-> "RunLength", packet_status_symbol |-> 1, run_length |-> 2],
                           [type_tcc |-> "StatusVector", symbol_size |-> 1, symbol_list |-> <<0, 1, 2, 0, 0, 0, 2>>]>>,
       recv_deltas |-> <<[type_tcc_packet |-> 1, delta |-> 250], [type_tcc_packet |-> 1, delta |-> 63750],
                         [type_tcc_packet |-> 1, delta |-> 0], [type_tcc_packet |-> 2, delta |-> -250],
                         [type_tcc_packet |-> 2, delta |-> 64000]>>]>> }
Header == [version |-> 2, padding |-> FALSE, extension |-> FALSE, marker |-> TRUE, payload_type |-> 96,
           sequence_number |-> 65535, timestamp |-> 123456, ssrc |-> 99999, csrc |-> <<7, 8>>,
           extension_profile |-> 0, extensions |-> << >>, extensions_padding |-> 0]
Rtp == {[header |-> [Header EXCEPT !.padding = pad], payload |-> Bs(4)] : pad \in BOOLEAN}
MCEdits == {[op |-> "set", id |-> 1, payload |-> Bs(3)], [op |-> "set", id |-> 1, payload |-> Bs(1)],
            [op |-> "set", id |-> 2, payload |-> Bs(2)], [op |-> "set", id |-> 200, payload |-> Bs(20)],
            [op |-> "delete", id |-> 1, payload |-> << >>]}

\* mDNS.
Host == <<<<97, 98>>, <<108, 111>>, << >>>>
Resource(name, body) == [header |-> [name |-> name, typ |-> 0, class |-> 1, ttl |-> 120, length |-> 0], body |-> body]
Dns == {[header |-> [id |-> 7, op_code |-> 0, rcode |-> 0, response |-> TRUE, authoritative |-> TRUE, truncated |-> FALSE,
                     recursion_desired |-> FALSE, recursion_available |-> FALSE],
         questions |-> <<[name |-> Host, typ |-> 1, class |-> 1]>>,
         answers |-> <<Resource(Host, b)>>, authorities |-> << >>, additionals |-> <<Resource(Host, c)>>] :
         b \in {[typ |-> 1, addr |-> <<10, 0, 0, 7>>], [typ |-> 2, name |-> Host]},
         c \in {[typ |-> 16, txt |-> <<<<1, 2>>, << >>>>],
                [typ |-> 33, priority |-> 1, weight |-> 2, port |-> 5353, target |-> Host]}}

Messages ==
    {M("stun", v) : v \in Stun} \cup {M("dtls", v) : v \in Records0} \cup {M("sctp", v) : v \in Sctp}
    \cup {M("rtcp", [packets |-> v]) : v \in Rtcp} \cup {M("rtp", v) : v \in Rtp}
Datagrams ==
    {[what |-> "datagram", message |-> m, channel |-> c] : m \in Messages, c \in {0, 16384}}
    \cup {[what |-> "datagram", message |-> M("dns", v), channel |-> 0] : v \in Dns}

\* Two flights of the handshake, in fragments.
Numbered(h, n) == [D!NewHandshake(h) EXCEPT !.handshake_header.message_sequence = n]
Flights == {
    [what |-> "handshake", mtu |-> 16, arrivals |-> 5,
     messages |-> <<Numbered([kind |-> "Certificate", certificate |-> <<Bs(38)>>], 0),
                    Numbered([kind |-> "Finished", verify_data |-> Bs(12)], 1)>>],
    [what |-> "handshake", mtu |-> 30, arrivals |-> 6,
     messages |-> <<Numbered([kind |-> "ServerHelloDone"], 0),
                    Numbered([kind |-> "CertificateVerify", algorithm |-> Algorithms[1], signature |-> Bs(40)], 1)>>] }

\* Recordings: frames of one packet and of several.
Ivf(cc) == C!NewIvf([signature |-> C!IVF_FILE_HEADER_SIGNATURE, version |-> 0, header_size |-> 32, four_cc |-> cc,
              width |-> 640, height |-> 480, timebase_denominator |-> 30, timebase_numerator |-> 1,
              num_frames |-> 0, unused |-> 0])
Recording(codec, mtu, id, writer, frames, expect) ==
    [what |-> "recording", codec |-> codec, mtu |-> mtu, picture_id |-> id, writer |-> writer, frames |-> frames,
     expect |-> expect]
Even(n) == [i \in 1 .. n |-> 2 * i]
Obu(h, n) == <<h>> \o C!put_leb128(n) \o Even(n)
Frames == <<Even(10), Even(20), Even(13)>>
Units == <<<<18, 0>> \o Obu(10, 3) \o Obu(50, 40), <<18, 0>> \o Obu(50, 10)>>
Avc == <<<<103, 1, 2, 3>>, <<104, 5, 6, 7>>, <<101>> \o Even(50), <<65, 9, 9, 9>>>>
Hevcs == <<<<64, 1, 2, 3>>, <<66, 1, 6, 7>>, <<68, 1, 6, 7>>, <<38, 1>> \o Even(50), <<2, 1, 9, 9>>>>
Stream4(us) == FlattenSeq([i \in 1 .. Len(us) |-> <<0, 0, 0, 1>> \o us[i]])
Recordings ==
    {Recording("vp8", mtu, id, Ivf(C!fourcc.vp8), Frames, Frames) : mtu \in {9, 30}, id \in {5, 300}}
    \cup {Recording("vp9", mtu, 32767, Ivf(C!fourcc.vp9), Frames, Frames) : mtu \in {9, 30}}
    \cup {Recording("av1", mtu, 0, Ivf(C!fourcc.av1), Units, Units) : mtu \in {8, 30}}
    \cup {Recording("opus", 1200, 0, C!NewOgg(48000, 2, 1234), Frames, Frames)}
    \cup {Recording("h264", mtu, 0, C!NewH26x(FALSE), <<Stream4(Avc)>>, Avc) : mtu \in {20, 100}}
    \cup {Recording("h265", mtu, 0, C!NewH26x(TRUE), <<Stream4(Hevcs)>>, Hevcs) : mtu \in {20, 100}}

MCTasks == Datagrams \cup Flights \cup Recordings

\* The two ends of a connection.
Side(is_client) ==
    LET mine == [gmt_unix_time |-> 3, random_bytes |-> Bs(28)]
        theirs == [gmt_unix_time |-> 5, random_bytes |-> Bs(28)]
    IN [is_client |-> is_client, local_epoch |-> 1, remote_epoch |-> 1, local_sequence_number |-> <<5, 9>>,
        local_random |-> IF is_client THEN mine ELSE theirs, remote_random |-> IF is_client THEN theirs ELSE mine,
        cipher_suite_id |-> 49195, srtp_protection_profile |-> 7,
        master_secret |-> D!prf_master_secret(<<1, 2, 3>>, D!MarshalRandom(mine), D!MarshalRandom(theirs))]
MCClient == D!init_cipher_suite(Side(TRUE))
MCServer == D!init_cipher_suite(Side(FALSE))
MCRandom == Bs(16)

-----------------------------------------------------------------------------
(* Mdns: "b" has the name host; "a" asks for it, and for one that only     *)
(* another responder on the group knows.  That one answers with an IPv6    *)
(* address and a record of another kind.                                   *)

CONSTANTS query_interval, query_timeout, MaxQueries, MaxOut
VARIABLES part, mdns, datagrams, asked, told
mdnsVars == <<mdns, datagrams, asked, told>>
host == <<<<98>>, <<108>>>>
other == <<<<120>>, <<108>>>>
Node == {"a", "b"}
local_names == [n \in Node |-> IF n = "b" THEN {host} ELSE {}]
local_ip == [n \in Node |-> IF n = "b" THEN <<10, 0, 0, 2>> ELSE << >>]
src_ip == [n \in Node |-> IF n = "b" THEN <<10, 0, 0, 2>> ELSE <<10, 0, 0, 1>>]
Wanted == [n \in Node |-> IF n = "a" THEN {host, other} ELSE {}]
Foreign ==
    {[src |-> <<10, 0, 0, 9>>, bytes |-> N!Pack(
        [header |-> (CHOOSE d \in Dns : TRUE).header, questions |-> << >>,
         answers |-> <<Resource(Append(other, << >>), [typ |-> 28, addr |-> Bs(16)]),
                       Resource(Append(host, << >>), [typ |-> 12, name |-> Append(host, << >>)])>>,
         authorities |-> << >>, additionals |-> << >>])]}
G == INSTANCE Mdns WITH net <- datagrams

-----------------------------------------------------------------------------
all == <<part, vars, mdnsVars>>

\* A part that is not followed starts in one way only.
MCInit ==
    /\ part \in {"wire", "mdns"} /\ Init /\ G!Init
    /\ part # "wire" => task = CHOOSE t \in Tasks : TRUE

WireStep(A) == part = "wire" /\ A /\ UNCHANGED <<part, mdnsVars>>
MdnsStep(A) == part = "mdns" /\ A /\ UNCHANGED <<part, vars>>

MCNext == WireStep(Next) \/ MdnsStep(G!Next)

\* The fairness of Mdns.
MCSpec ==
    /\ MCInit /\ [][MCNext]_all
    /\ WF_all(MdnsStep(G!Tick))
    /\ \A n \in Node : []<>(part # "mdns" \/ mdns[n].closed \/ mdns[n].next_timeout > 0)
                       \/ []<><<MdnsStep(G!handle_timeout(n))>>_all

\* mDNS: a query ends once, with an address the name really has
\* (process_message, handle_timeout).
AnswersTrue == G!AnswersTrue

\* mDNS: with a timeout configured no query stays pending.
Resolved == G!Resolved
=============================================================================
