------------------------------ MODULE DtlsWire ------------------------------
(***************************************************************************)
(* The bytes of a DTLS datagram: the records, the handshake messages and   *)
(* their extensions of rtc-dtls/src.  A record is a header and a content;  *)
(* contents, messages and extensions are records whose field kind names    *)
(* their type.  A sequence number is a pair, its upper 16 and its lower    *)
(* 32 bits.                                                                *)
(***************************************************************************)
EXTENDS Bytes

RECORD_LAYER_HEADER_SIZE == 13
VERSION_DTLS12 == <<254, 253>>
VERSION_DTLS10 == <<254, 255>>
ContentTypes == [ChangeCipherSpec |-> 20, Alert |-> 21, Handshake |-> 22, ApplicationData |-> 23]
HandshakeTypes == [ClientHello |-> 1, ServerHello |-> 2, HelloVerifyRequest |-> 3,
    Certificate |-> 11, ServerKeyExchange |-> 12, CertificateRequest |-> 13,
    ServerHelloDone |-> 14, CertificateVerify |-> 15, ClientKeyExchange |-> 16, Finished |-> 20]
ExtensionValues == [ServerName |-> 0, SupportedEllipticCurves |-> 10,
    SupportedPointFormats |-> 11, SupportedSignatureAlgorithms |-> 13, UseSrtp |-> 14,
    UseExtendedMasterSecret |-> 23, RenegotiationInfo |-> 65281]

\* Enumerations read from the wire: an unknown number becomes Unsupported,
\* which is written as the number after the last one.
AlertLevels == {1, 2}
AlertDescriptions == {0, 10, 20, 21, 22, 30} \cup 40 .. 51 \cup {60, 70, 71, 80, 90, 100, 110, 115}
AlertLevel(n) == IF n \in AlertLevels THEN n ELSE 3
AlertDescription(n) == IF n \in AlertDescriptions THEN n ELSE 116
CipherSuiteIds == {168, 49162, 49172, 49195, 49199, 49316, 49320, 49324, 49326, 52392, 52393}
CipherSuiteId(n) == IF n \in CipherSuiteIds THEN n ELSE 52394
NamedCurve(n) == IF n \in {23, 24, 29} THEN n ELSE 0
EllipticCurveType(n) == IF n = 3 THEN n ELSE 4
HashAlgorithm(n) == IF n \in 0 .. 6 \cup {8} THEN n ELSE 9
SignatureAlgorithm(n) == IF n \in {1, 3, 7} THEN n ELSE 8
SrtpProtectionProfile(n) == IF n \in {1, 2, 7, 8} THEN n ELSE 9
ClientCertificateType(n) == IF n \in {1, 64} THEN n ELSE 65
CompressionMethodId(n) == IF n = 0 THEN 0 ELSE 1

SignatureHashAlgorithm(b) == [hash |-> HashAlgorithm(b[1]), signature |-> SignatureAlgorithm(b[2])]
MarshalAlgorithm(a) == <<a.hash, a.signature>>

\* A list of two-byte items after its length in bytes, of which the readers
\* take half, and the offset after it.
PairsAt(b, off) ==
    IF Len(b) < off + 2 THEN Fail
    ELSE LET end == off + 2 + 2 * (Get16(b, off) \div 2)
         IN IF Len(b) < end THEN Fail ELSE [body |-> Slice(b, off + 2, end), end |-> end]

-----------------------------------------------------------------------------
(* Extensions.  Each is written with its own length; none of the readers   *)
(* uses that length, the hello that holds the extension does.              *)

ServerNameSize(e) == 7 + Len(e.server_name)
MarshalServerName(e) ==
    U16(5 + Len(e.server_name)) \o U16(3 + Len(e.server_name)) \o <<0>> \o Counted(2, e.server_name)
ServerName(b) ==
    LET name == CountedAt(2, b, 5)
    IN IF Len(b) < 5 \/ b[5] # 0 THEN Fail
       ELSE IF name = Fail THEN Fail ELSE [kind |-> "ServerName", server_name |-> name.body]

SupportedEllipticCurvesSize(e) == 4 + 2 * Len(e.elliptic_curves)
MarshalSupportedEllipticCurves(e) ==
    U16(2 + 2 * Len(e.elliptic_curves)) \o U16(2 * Len(e.elliptic_curves)) \o Each(U16, e.elliptic_curves)
SupportedEllipticCurves(b) ==
    LET Curve(c) == NamedCurve(Get16(c, 0))
        list == PairsAt(b, 2)
    IN IF list = Fail THEN Fail
       ELSE [kind |-> "SupportedEllipticCurves", elliptic_curves |-> Items(Curve, list.body, 2)]

SupportedPointFormatsSize(e) == 3 + Len(e.point_formats)
MarshalSupportedPointFormats(e) == U16(1 + Len(e.point_formats)) \o Counted(1, e.point_formats)
SupportedPointFormats(b) ==
    LET list == CountedAt(1, b, 2)
    IN IF list = Fail THEN Fail ELSE [kind |-> "SupportedPointFormats", point_formats |-> list.body]

SupportedSignatureAlgorithmsSize(e) == 4 + 2 * Len(e.signature_hash_algorithms)
MarshalSupportedSignatureAlgorithms(e) ==
    U16(2 + 2 * Len(e.signature_hash_algorithms)) \o U16(2 * Len(e.signature_hash_algorithms))
    \o Each(MarshalAlgorithm, e.signature_hash_algorithms)
SupportedSignatureAlgorithms(b) ==
    LET list == PairsAt(b, 2)
    IN IF list = Fail THEN Fail
       ELSE [kind |-> "SupportedSignatureAlgorithms",
             signature_hash_algorithms |-> Items(SignatureHashAlgorithm, list.body, 2)]

\* The byte after the profiles is the length of an MKI that is never sent.
UseSrtpSize(e) == 5 + 2 * Len(e.protection_profiles)
MarshalUseSrtp(e) ==
    U16(3 + 2 * Len(e.protection_profiles)) \o U16(2 * Len(e.protection_profiles))
    \o Each(U16, e.protection_profiles) \o <<0>>
UseSrtp(b) ==
    LET Profile(p) == SrtpProtectionProfile(Get16(p, 0))
        list == PairsAt(b, 2)
    IN IF list = Fail THEN Fail
       ELSE IF Len(b) < list.end + 1 THEN Fail
       ELSE [kind |-> "UseSrtp", protection_profiles |-> Items(Profile, list.body, 2)]

UseExtendedMasterSecretSize == 2
MarshalUseExtendedMasterSecret(e) == U16(0)
UseExtendedMasterSecret(b) ==
    IF Len(b) < 2 THEN Fail ELSE [kind |-> "UseExtendedMasterSecret", supported |-> TRUE]

RenegotiationInfoSize == 3
MarshalRenegotiationInfo(e) == U16(1) \o <<e.renegotiated_connection>>
RenegotiationInfo(b) ==
    IF Len(b) < 3 \/ Get16(b, 0) # 1 THEN Fail
    ELSE [kind |-> "RenegotiationInfo", renegotiated_connection |-> b[3]]

ExtensionSize(e) ==
    2 + CASE e.kind = "ServerName" -> ServerNameSize(e)
          [] e.kind = "SupportedEllipticCurves" -> SupportedEllipticCurvesSize(e)
          [] e.kind = "SupportedPointFormats" -> SupportedPointFormatsSize(e)
          [] e.kind = "SupportedSignatureAlgorithms" -> SupportedSignatureAlgorithmsSize(e)
          [] e.kind = "UseSrtp" -> UseSrtpSize(e)
          [] e.kind = "UseExtendedMasterSecret" -> UseExtendedMasterSecretSize
          [] e.kind = "RenegotiationInfo" -> RenegotiationInfoSize

MarshalExtension(e) ==
    U16(ExtensionValues[e.kind])
    \o CASE e.kind = "ServerName" -> MarshalServerName(e)
         [] e.kind = "SupportedEllipticCurves" -> MarshalSupportedEllipticCurves(e)
         [] e.kind = "SupportedPointFormats" -> MarshalSupportedPointFormats(e)
         [] e.kind = "SupportedSignatureAlgorithms" -> MarshalSupportedSignatureAlgorithms(e)
         [] e.kind = "UseSrtp" -> MarshalUseSrtp(e)
         [] e.kind = "UseExtendedMasterSecret" -> MarshalUseExtendedMasterSecret(e)
         [] e.kind = "RenegotiationInfo" -> MarshalRenegotiationInfo(e)

Extension(b) ==
    LET value == Get16(b, 0)
        rest == From(b, 2)
    IN CASE value = ExtensionValues.ServerName -> ServerName(rest)
         [] value = ExtensionValues.SupportedEllipticCurves -> SupportedEllipticCurves(rest)
         [] value = ExtensionValues.SupportedPointFormats -> SupportedPointFormats(rest)
         [] value = ExtensionValues.SupportedSignatureAlgorithms -> SupportedSignatureAlgorithms(rest)
         [] value = ExtensionValues.UseSrtp -> UseSrtp(rest)
         [] value = ExtensionValues.UseExtendedMasterSecret -> UseExtendedMasterSecret(rest)
         [] value = ExtensionValues.RenegotiationInfo -> RenegotiationInfo(rest)
         [] OTHER -> Fail

\* The list of a hello: an extension that cannot be read is skipped by the
\* length it announces, which must leave room for a header or for nothing.
RECURSIVE Extensions(_, _)
Extensions(b, offset) ==
    LET Before(e, rest) ==
            IF rest = Fail THEN Fail
            ELSE [list |-> (IF e = Fail THEN <<>> ELSE <<e>>) \o rest.list]
    IN IF offset >= Len(b) THEN [list |-> <<>>]
       ELSE IF offset + 4 > Len(b) THEN Fail
       ELSE Before(Extension(From(b, offset)),
                   Extensions(b, offset + 4 + Get16(b, offset + 2)))

ExtensionsSize(es) == Total([i \in 1 .. Len(es) |-> ExtensionSize(es[i])])
-----------------------------------------------------------------------------
(* Handshake messages.  The random of a hello is its four bytes of time    *)
(* and 28 more; the session id is always written empty.                    *)

HELLO_SIZE == 2 + 32
MarshalRandom(r) == U32(r.gmt_unix_time) \o r.random_bytes
HandshakeRandom(b) == [gmt_unix_time |-> Get32(b, 0), random_bytes |-> Slice(b, 4, 32)]

CompressionMethodsSize(ids) == 1 + Len(ids)
MarshalCompressionMethods(ids) == Counted(1, ids)
CompressionMethods(b) == SelectSeq(b, LAMBDA n : CompressionMethodId(n) = 0)

ClientHelloSize(m) ==
    HELLO_SIZE + 1 + 1 + Len(m.cookie) + 2 + 2 * Len(m.cipher_suites)
    + CompressionMethodsSize(m.compression_methods) + 2 + ExtensionsSize(m.extensions)

MarshalClientHello(m) ==
    IF Len(m.cookie) > 255 THEN Refused
    ELSE m.version \o MarshalRandom(m.random) \o <<0>> \o Counted(1, m.cookie)
         \o U16(2 * Len(m.cipher_suites)) \o Each(U16, m.cipher_suites)
         \o MarshalCompressionMethods(m.compression_methods)
         \o Counted(2, Each(MarshalExtension, m.extensions))

ClientHello(b) ==
    LET Suite(c) == CipherSuiteId(Get16(c, 0))
        Hello(cookie, suites, methods, exts) ==
            IF exts = Fail THEN Fail
            ELSE [kind |-> "ClientHello", version |-> Slice(b, 0, 2),
                  random |-> HandshakeRandom(From(b, 2)), cookie |-> cookie.body,
                  cipher_suites |-> Items(Suite, suites.body, 2),
                  compression_methods |-> CompressionMethods(methods.body),
                  extensions |-> exts.list]
        Extended(cookie, suites, methods, buffer) ==
            IF buffer = Fail THEN Fail
            ELSE Hello(cookie, suites, methods, Extensions(buffer.body, 0))
        Compressed(cookie, suites, methods) ==
            IF methods = Fail THEN Fail
            ELSE Extended(cookie, suites, methods, CountedAt(2, b, methods.end))
        Offered(cookie, suites) ==
            IF suites = Fail THEN Fail ELSE Compressed(cookie, suites, CountedAt(1, b, suites.end))
        Cookie(cookie) == IF cookie = Fail THEN Fail ELSE Offered(cookie, PairsAt(b, cookie.end))
    IN IF Len(b) < HELLO_SIZE + 1 THEN Fail ELSE Cookie(CountedAt(1, b, HELLO_SIZE + 1))

HelloVerifyRequestSize(m) == 2 + 1 + Len(m.cookie)

MarshalHelloVerifyRequest(m) ==
    IF Len(m.cookie) > 255 THEN Refused ELSE m.version \o Counted(1, m.cookie)

\* The cookie is all that follows, which may be more than announced.
HelloVerifyRequest(b) ==
    IF Len(b) < 3 \/ Len(b) - 3 < b[3] THEN Fail
    ELSE [kind |-> "HelloVerifyRequest", version |-> Slice(b, 0, 2), cookie |-> From(b, 3)]

ServerHelloSize(m) == HELLO_SIZE + 1 + 2 + 1 + 2 + ExtensionsSize(m.extensions)

MarshalServerHello(m) ==
    m.version \o MarshalRandom(m.random) \o <<0>> \o U16(m.cipher_suite)
    \o <<m.compression_method>> \o Counted(2, Each(MarshalExtension, m.extensions))

ServerHello(b) ==
    LET Hello(id, exts) ==
            IF exts = Fail THEN Fail
            ELSE [kind |-> "ServerHello", version |-> Slice(b, 0, 2),
                  random |-> HandshakeRandom(From(b, 2)),
                  cipher_suite |-> CipherSuiteId(Get16(b, id.end)),
                  compression_method |-> CompressionMethodId(b[id.end + 3]),
                  extensions |-> exts.list]
        Extended(id, buffer) == IF buffer = Fail THEN Fail ELSE Hello(id, Extensions(buffer.body, 0))
        Session(id) == IF id = Fail THEN Fail ELSE Extended(id, CountedAt(2, b, id.end + 3))
    IN Session(CountedAt(1, b, HELLO_SIZE))

CertificateSize(m) == 3 + Total([i \in 1 .. Len(m.certificate) |-> 3 + Len(m.certificate[i])])

MarshalCertificate(m) ==
    LET One(c) == Counted(3, c) IN Counted(3, Each(One, m.certificate))

\* Certificates are read until they fill the announced length; the last
\* one may go beyond it.
RECURSIVE Certificates(_, _, _)
Certificates(b, offset, end) ==
    LET Before(c, rest) == IF rest = Fail THEN Fail ELSE [list |-> <<c.body>> \o rest.list]
        Read(c) == IF c = Fail THEN Fail ELSE Before(c, Certificates(b, c.end, end))
    IN IF offset >= end THEN [list |-> <<>>] ELSE Read(CountedAt(3, b, offset))

Certificate(b) ==
    LET Whole(list) ==
            IF list = Fail THEN Fail ELSE [kind |-> "Certificate", certificate |-> list.list]
    IN IF Len(b) < 3 THEN Fail ELSE Whole(Certificates(b, 3, 3 + Get24(b, 0)))

CertificateRequestSize(m) ==
    1 + Len(m.certificate_types) + 2 + 2 * Len(m.signature_hash_algorithms) + 2

MarshalCertificateRequest(m) ==
    Counted(1, m.certificate_types) \o U16(2 * Len(m.signature_hash_algorithms))
    \o Each(MarshalAlgorithm, m.signature_hash_algorithms) \o <<0, 0>>

\* The distinguished names after the algorithms are not read.
CertificateRequest(b) ==
    LET Algorithms(off) == 2 * ((Get16(b, off) + 1) \div 2)
        Request(types) ==
            IF Len(b) < types.end + 2 THEN Fail
            ELSE IF Len(b) < types.end + 2 + Algorithms(types.end) THEN Fail
            ELSE [kind |-> "CertificateRequest",
                  certificate_types |->
                      [i \in 1 .. Len(types.body) |-> ClientCertificateType(types.body[i])],
                  signature_hash_algorithms |-> Items(SignatureHashAlgorithm,
                      Slice(b, types.end + 2, types.end + 2 + Algorithms(types.end)), 2)]
        Typed(types) == IF types = Fail THEN Fail ELSE Request(types)
    IN Typed(CountedAt(1, b, 0))

\* A key exchange is that of a pre-shared key exactly when the first two
\* bytes count all the others.
ServerKeyExchangeSize(m) ==
    IF m.identity_hint # <<>> THEN 2 + Len(m.identity_hint)
    ELSE 1 + 2 + 1 + Len(m.public_key) + 2 + 2 + Len(m.signature)

MarshalServerKeyExchange(m) ==
    IF m.identity_hint # <<>> THEN Counted(2, m.identity_hint)
    ELSE <<m.elliptic_curve_type>> \o U16(m.named_curve) \o Counted(1, m.public_key)
         \o MarshalAlgorithm(m.algorithm) \o Counted(2, m.signature)

IsPsk(b) == Len(b) = Get16(b, 0) + 2

ServerKeyExchange(b) ==
    LET Exchange(hint, type, curve, key, algorithm, signature) ==
            [kind |-> "ServerKeyExchange", identity_hint |-> hint, elliptic_curve_type |-> type,
             named_curve |-> curve, public_key |-> key, algorithm |-> algorithm,
             signature |-> signature]
        Signed(key, signature) ==
            IF signature = Fail THEN Fail
            ELSE Exchange(<<>>, EllipticCurveType(b[1]), NamedCurve(Get16(b, 1)), key.body,
                    SignatureHashAlgorithm(From(b, key.end)), signature.body)
        Keyed(key) == IF key = Fail THEN Fail ELSE Signed(key, CountedAt(2, b, key.end + 2))
    IN IF Len(b) < 2 THEN Fail
       ELSE IF IsPsk(b) THEN Exchange(From(b, 2), EllipticCurveType(0), NamedCurve(0), <<>>,
                                [hash |-> HashAlgorithm(9), signature |-> SignatureAlgorithm(8)], <<>>)
       ELSE Keyed(CountedAt(1, b, 3))

ClientKeyExchangeSize(m) ==
    IF m.public_key # <<>> THEN 1 + Len(m.public_key) ELSE 2 + Len(m.identity_hint)

MarshalClientKeyExchange(m) ==
    IF (m.identity_hint # <<>>) = (m.public_key # <<>>) THEN Refused
    ELSE IF m.public_key # <<>> THEN Counted(1, m.public_key)
    ELSE Counted(2, m.identity_hint)

ClientKeyExchange(b) ==
    LET Exchange(hint, key) ==
            [kind |-> "ClientKeyExchange", identity_hint |-> hint, public_key |-> key]
    IN IF Len(b) < 2 THEN Fail
       ELSE IF IsPsk(b) THEN Exchange(From(b, 2), <<>>)
       ELSE IF Len(b) # b[1] + 1 THEN Fail
       ELSE Exchange(<<>>, From(b, 1))

CertificateVerifySize(m) == 1 + 1 + 2 + Len(m.signature)

MarshalCertificateVerify(m) == MarshalAlgorithm(m.algorithm) \o Counted(2, m.signature)

CertificateVerify(b) ==
    LET Verify(signature) ==
            IF signature = Fail THEN Fail
            ELSE [kind |-> "CertificateVerify", algorithm |-> SignatureHashAlgorithm(b),
                  signature |-> signature.body]
    IN Verify(CountedAt(2, b, 2))

FinishedSize(m) == Len(m.verify_data)
MarshalFinished(m) == m.verify_data
Finished(b) == [kind |-> "Finished", verify_data |-> b]

HandshakeMessageSize(m) ==
    CASE m.kind = "ClientHello" -> ClientHelloSize(m)
      [] m.kind = "ServerHello" -> ServerHelloSize(m)
      [] m.kind = "HelloVerifyRequest" -> HelloVerifyRequestSize(m)
      [] m.kind = "Certificate" -> CertificateSize(m)
      [] m.kind = "ServerKeyExchange" -> ServerKeyExchangeSize(m)
      [] m.kind = "CertificateRequest" -> CertificateRequestSize(m)
      [] m.kind = "ServerHelloDone" -> 0
      [] m.kind = "CertificateVerify" -> CertificateVerifySize(m)
      [] m.kind = "ClientKeyExchange" -> ClientKeyExchangeSize(m)
      [] m.kind = "Finished" -> FinishedSize(m)

MarshalHandshakeMessage(m) ==
    CASE m.kind = "ClientHello" -> MarshalClientHello(m)
      [] m.kind = "ServerHello" -> MarshalServerHello(m)
      [] m.kind = "HelloVerifyRequest" -> MarshalHelloVerifyRequest(m)
      [] m.kind = "Certificate" -> MarshalCertificate(m)
      [] m.kind = "ServerKeyExchange" -> MarshalServerKeyExchange(m)
      [] m.kind = "CertificateRequest" -> MarshalCertificateRequest(m)
      [] m.kind = "ServerHelloDone" -> <<>>
      [] m.kind = "CertificateVerify" -> MarshalCertificateVerify(m)
      [] m.kind = "ClientKeyExchange" -> MarshalClientKeyExchange(m)
      [] m.kind = "Finished" -> MarshalFinished(m)

HandshakeMessage(type, b) ==
    CASE type = HandshakeTypes.ClientHello -> ClientHello(b)
      [] type = HandshakeTypes.ServerHello -> ServerHello(b)
      [] type = HandshakeTypes.HelloVerifyRequest -> HelloVerifyRequest(b)
      [] type = HandshakeTypes.Certificate -> Certificate(b)
      [] type = HandshakeTypes.ServerKeyExchange -> ServerKeyExchange(b)
      [] type = HandshakeTypes.CertificateRequest -> CertificateRequest(b)
      [] type = HandshakeTypes.ServerHelloDone -> [kind |-> "ServerHelloDone"]
      [] type = HandshakeTypes.CertificateVerify -> CertificateVerify(b)
      [] type = HandshakeTypes.ClientKeyExchange -> ClientKeyExchange(b)
      [] type = HandshakeTypes.Finished -> Finished(b)
      [] OTHER -> Fail

HANDSHAKE_HEADER_LENGTH == 12

MarshalHandshakeHeader(h) ==
    Put(<< <<"handshake_type", 1>>, <<"length", 3>>, <<"message_sequence", 2>>,
           <<"fragment_offset", 3>>, <<"fragment_length", 3>> >>, h)

HandshakeHeader(b) ==
    IF Len(b) < HANDSHAKE_HEADER_LENGTH THEN Fail
    ELSE Take(<< <<"handshake_type", 1>>, <<"length", 3>>, <<"message_sequence", 2>>,
                 <<"fragment_offset", 3>>, <<"fragment_length", 3>> >>, b)

\* Handshake::new, before the handshaker numbers the message.
NewHandshake(m) ==
    [kind |-> "Handshake",
     handshake_header |-> [handshake_type |-> HandshakeTypes[m.kind],
         length |-> HandshakeMessageSize(m), message_sequence |-> 0, fragment_offset |-> 0,
         fragment_length |-> HandshakeMessageSize(m)],
     handshake_message |-> m]

HandshakeSize(h) == HANDSHAKE_HEADER_LENGTH + HandshakeMessageSize(h.handshake_message)

MarshalHandshake(h) ==
    LET body == MarshalHandshakeMessage(h.handshake_message)
    IN IF body = Refused THEN Refused ELSE MarshalHandshakeHeader(h.handshake_header) \o body

Handshake(b) ==
    LET Whole(header, m) ==
            IF m = Fail THEN Fail
            ELSE [kind |-> "Handshake", handshake_header |-> header, handshake_message |-> m]
        Headed(header) ==
            IF header = Fail THEN Fail
            ELSE Whole(header, HandshakeMessage(header.handshake_type, From(b, HANDSHAKE_HEADER_LENGTH)))
    IN Headed(HandshakeHeader(b))

-----------------------------------------------------------------------------
(* Records. *)

ContentSize(c) ==
    CASE c.kind = "ChangeCipherSpec" -> 1
      [] c.kind = "Alert" -> 2
      [] c.kind = "Handshake" -> HandshakeSize(c)
      [] c.kind = "ApplicationData" -> Len(c.data)

MarshalContent(c) ==
    CASE c.kind = "ChangeCipherSpec" -> <<1>>
      [] c.kind = "Alert" -> <<c.alert_level, c.alert_description>>
      [] c.kind = "Handshake" -> MarshalHandshake(c)
      [] c.kind = "ApplicationData" -> c.data

ChangeCipherSpec(b) == IF Len(b) < 1 \/ b[1] # 1 THEN Fail ELSE [kind |-> "ChangeCipherSpec"]

Alert(b) ==
    IF Len(b) < 2 THEN Fail
    ELSE [kind |-> "Alert", alert_level |-> AlertLevel(b[1]),
          alert_description |-> AlertDescription(b[2])]

Content(type, b) ==
    CASE type = ContentTypes.ChangeCipherSpec -> ChangeCipherSpec(b)
      [] type = ContentTypes.Alert -> Alert(b)
      [] type = ContentTypes.Handshake -> Handshake(b)
      [] type = ContentTypes.ApplicationData -> [kind |-> "ApplicationData", data |-> b]
      [] OTHER -> Fail

\* RecordLayer::new, in an epoch.
NewRecordLayer(version, epoch, content) ==
    [record_layer_header |-> [content_type |-> ContentTypes[content.kind],
         protocol_version |-> version, epoch |-> epoch, sequence_number |-> <<0, 0>>,
         content_len |-> ContentSize(content)],
     content |-> content]

MarshalRecordLayerHeader(h) ==
    IF h.sequence_number[1] > 65535 THEN Refused
    ELSE <<h.content_type>> \o h.protocol_version \o U16(h.epoch)
         \o U16(h.sequence_number[1]) \o U32(h.sequence_number[2]) \o U16(h.content_len)

RecordLayerHeader(b) ==
    IF Len(b) < RECORD_LAYER_HEADER_SIZE THEN Fail
    ELSE IF Slice(b, 1, 3) \notin {VERSION_DTLS10, VERSION_DTLS12} THEN Fail
    ELSE [content_type |-> b[1], protocol_version |-> Slice(b, 1, 3), epoch |-> Get16(b, 3),
          sequence_number |-> <<Get16(b, 5), Get32(b, 7)>>, content_len |-> Get16(b, 11)]

MarshalRecordLayer(r) ==
    LET header == MarshalRecordLayerHeader(r.record_layer_header)
        content == MarshalContent(r.content)
    IN IF Refused \in {header, content} THEN Refused ELSE header \o content

RecordLayer(b) ==
    LET Whole(header, content) ==
            IF content = Fail THEN Fail
            ELSE [record_layer_header |-> header, content |-> content]
        Headed(header) ==
            IF header = Fail THEN Fail
            ELSE Whole(header, Content(header.content_type, From(b, RECORD_LAYER_HEADER_SIZE)))
    IN Headed(RecordLayerHeader(b))

\* The records of a datagram.  A record without content is refused.
RECURSIVE unpack_datagram(_)
unpack_datagram(b) ==
    LET len == RECORD_LAYER_HEADER_SIZE + Get16(b, RECORD_LAYER_HEADER_SIZE - 2)
        Before(rest) == IF rest = Fail THEN Fail ELSE [records |-> <<Slice(b, 0, len)>> \o rest.records]
    IN IF Len(b) = 0 THEN [records |-> <<>>]
       ELSE IF Len(b) <= RECORD_LAYER_HEADER_SIZE \/ len > Len(b) THEN Fail
       ELSE Before(unpack_datagram(From(b, len)))
=============================================================================
