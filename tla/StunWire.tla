------------------------------ MODULE StunWire ------------------------------
(***************************************************************************)
(* STUN messages as rtc-stun builds, reads and checks them, with the       *)
(* attributes rtc-ice and rtc-turn add, and the ChannelData framing of     *)
(* rtc-turn.  A message is built by applying setters one after the other   *)
(* to its raw bytes, exactly as Message::build does: MESSAGE-INTEGRITY and *)
(* FINGERPRINT cover what was written before them under a length that      *)
(* already counts them.                                                    *)
(***************************************************************************)
EXTENDS Bytes, Bitwise

MAGIC_COOKIE == <<33, 18, 164, 66>>
ATTRIBUTE_HEADER_SIZE == 4
MESSAGE_HEADER_SIZE == 20
TRANSACTION_ID_SIZE == 12

CLASS_REQUEST == 0
CLASS_INDICATION == 1
CLASS_SUCCESS_RESPONSE == 2
CLASS_ERROR_RESPONSE == 3

METHOD_BINDING == 1
METHOD_ALLOCATE == 3
METHOD_REFRESH == 4
METHOD_SEND == 6
METHOD_DATA == 7
METHOD_CREATE_PERMISSION == 8
METHOD_CHANNEL_BIND == 9

Attr == [MAPPED_ADDRESS |-> 1, USERNAME |-> 6, MESSAGE_INTEGRITY |-> 8, ERROR_CODE |-> 9,
    UNKNOWN_ATTRIBUTES |-> 10, CHANNEL_NUMBER |-> 12, LIFETIME |-> 13, XOR_PEER_ADDRESS |-> 18,
    DATA |-> 19, REALM |-> 20, NONCE |-> 21, XOR_RELAYED_ADDRESS |-> 22,
    REQUESTED_ADDRESS_FAMILY |-> 23, EVEN_PORT |-> 24, REQUESTED_TRANSPORT |-> 25,
    DONT_FRAGMENT |-> 26, XORMAPPED_ADDRESS |-> 32, RESERVATION_TOKEN |-> 34, PRIORITY |-> 36,
    USE_CANDIDATE |-> 37, SOFTWARE |-> 32802, ALTERNATE_SERVER |-> 32803, FINGERPRINT |-> 32808,
    ICE_CONTROLLED |-> 32809, ICE_CONTROLLING |-> 32810]

\* A method is split around the two class bits of the type.
MessageType(method, class) == [method |-> method, class |-> class]

TypeValue(t) ==
    (t.method % 16) + ((t.method \div 16) % 8) * 32 + ((t.method \div 128) % 32) * 512
        + (t.class % 2) * 16 + (t.class \div 2) * 256

ReadType(v) ==
    MessageType((v % 16) + ((v \div 32) % 8) * 16 + ((v \div 512) % 32) * 128,
                ((v \div 16) % 2) + ((v \div 256) % 2) * 2)

nearest_padded_value_length(l) == l + PadTo4(l)

\* The attribute number an old draft used is read as the assigned one.
compat_attr_type(v) == IF v = 32800 THEN Attr.XORMAPPED_ADDRESS ELSE v

-----------------------------------------------------------------------------
(* A message under construction: its raw bytes, the length it has counted  *)
(* and the attributes it holds.                                            *)

NewMessage ==
    [typ |-> MessageType(0, 0), length |-> 0, transaction_id |-> Zeros(TRANSACTION_ID_SIZE),
     attributes |-> << >>, raw |-> Zeros(MESSAGE_HEADER_SIZE)]

write_length(m) == [m EXCEPT !.raw = Slice(@, 0, 2) \o U16(m.length % 65536) \o From(@, 4)]

set_type(m, t) == [m EXCEPT !.typ = t, !.raw = U16(TypeValue(t)) \o From(@, 2)]

write_transaction_id(m, id) ==
    [m EXCEPT !.transaction_id = id, !.raw = Slice(@, 0, 8) \o id \o From(@, MESSAGE_HEADER_SIZE)]

\* build starts from reset and write_header: what was built before is gone.
WriteHeader(m) ==
    [m EXCEPT !.length = 0, !.attributes = << >>,
              !.raw = U16(TypeValue(m.typ)) \o U16(0) \o MAGIC_COOKIE \o m.transaction_id]

add(m, t, v) ==
    LET body == U16(t) \o U16(Len(v)) \o v \o Zeros(PadTo4(Len(v)))
    IN write_length([m EXCEPT
            !.length = @ + Len(body),
            !.attributes = Append(@, [typ |-> t, length |-> Len(v), value |-> v]),
            !.raw = Slice(@, 0, MESSAGE_HEADER_SIZE + m.length) \o body])

contains(m, t) == \E i \in 1 .. Len(m.attributes) : m.attributes[i].typ = t

\* The first attribute of a type.
Get(m, t) ==
    IF ~contains(m, t) THEN Fail
    ELSE m.attributes[CHOOSE i \in 1 .. Len(m.attributes) :
            /\ m.attributes[i].typ = t
            /\ \A j \in 1 .. i - 1 : m.attributes[j].typ /= t]

GetSized(m, t, n) ==
    LET a == Get(m, t) IN IF a = Fail THEN Fail ELSE IF Len(a.value) /= n THEN Fail ELSE a

-----------------------------------------------------------------------------
(* Integrity and fingerprint.                                              *)

MESSAGE_INTEGRITY_SIZE == 20
FINGERPRINT_SIZE == 4

\* External: HMAC-SHA1, MD5 and CRC-32.
new_hmac(key, message) == Stream(Mix(key \o <<0>> \o message), MESSAGE_INTEGRITY_SIZE)
Md5(b) == Stream(Mix(b), 16)
Crc32(b) == Stream(Mix(b), 4)

new_long_term_integrity(username, realm, password) ==
    Md5(username \o <<58>> \o realm \o <<58>> \o password)
new_short_term_integrity(password) == password

fingerprint_value(b) ==
    LET crc == Crc32(b) x == <<83, 84, 85, 78>> IN [i \in 1 .. 4 |-> crc[i] ^^ x[i]]

\* The raw bytes under a length that counts an attribute of n bytes more.
LengthAhead(m, n) == write_length([m EXCEPT !.length = @ + n + ATTRIBUTE_HEADER_SIZE]).raw

AddIntegrity(m, key) ==
    add(m, Attr.MESSAGE_INTEGRITY, new_hmac(key, LengthAhead(m, MESSAGE_INTEGRITY_SIZE)))

AddFingerprint(m) ==
    add(m, Attr.FINGERPRINT, fingerprint_value(LengthAhead(m, FINGERPRINT_SIZE)))

\* check_integrity: the attributes after MESSAGE-INTEGRITY are discounted from
\* the length that the HMAC is computed under.
IntegrityHolds(m, key) ==
    LET v == Get(m, Attr.MESSAGE_INTEGRITY)
        first == CHOOSE i \in 1 .. Len(m.attributes) :
                    /\ m.attributes[i].typ = Attr.MESSAGE_INTEGRITY
                    /\ \A j \in 1 .. i - 1 : m.attributes[j].typ /= Attr.MESSAGE_INTEGRITY
        Room(a) == ATTRIBUTE_HEADER_SIZE + nearest_padded_value_length(a.length)
        after == Total([i \in 1 .. Len(m.attributes) - first |-> Room(m.attributes[first + i])])
        shorter == write_length([m EXCEPT !.length = @ - after])
        start == MESSAGE_HEADER_SIZE + shorter.length - ATTRIBUTE_HEADER_SIZE - MESSAGE_INTEGRITY_SIZE
    IN /\ v /= Fail
       /\ v.value = new_hmac(key, Slice(shorter.raw, 0, start))

\* The FINGERPRINT is taken to be the last attribute of the message.
FingerprintHolds(m) ==
    LET v == GetSized(m, Attr.FINGERPRINT, FINGERPRINT_SIZE)
    IN /\ v /= Fail
       /\ v.value = fingerprint_value(
              Slice(m.raw, 0, Len(m.raw) - FINGERPRINT_SIZE - ATTRIBUTE_HEADER_SIZE))

-----------------------------------------------------------------------------
(* Attributes.  A getter returns a record, or Fail.                        *)

FAMILY_IPV4 == 1
FAMILY_IPV6 == 2
IPV4LEN == 4
IPV6LEN == 16

Family(ip) == IF Len(ip) = IPV4LEN THEN FAMILY_IPV4 ELSE FAMILY_IPV6
FamilyLen(family) == IF family = FAMILY_IPV4 THEN IPV4LEN ELSE IPV6LEN

\* The common bytes of two strings, xored.
xor_bytes(a, b) ==
    [i \in 1 .. (IF Len(a) < Len(b) THEN Len(a) ELSE Len(b)) |-> a[i] ^^ b[i]]

\* A short address is completed with zeros.
Filled(b, n) == b \o Zeros(n - Len(b))

AddMapped(m, t, addr) == add(m, t, U16(Family(addr.ip)) \o U16(addr.port) \o addr.ip)

GetMapped(m, t) ==
    LET a == Get(m, t)
        family == Get16(a.value, 0)
        l == FamilyLen(family)
    IN IF a = Fail THEN Fail
       ELSE IF Len(a.value) <= 4 \/ Get16(a.value, 0) \notin {FAMILY_IPV4, FAMILY_IPV6} THEN Fail
       ELSE [ip |-> Filled(SubSeq(a.value, 5, IF Len(a.value) < 4 + l THEN Len(a.value) ELSE 4 + l), l),
             port |-> Get16(a.value, 2)]

\* Port and address are xored with the magic cookie and the transaction id.
XorPort(port) == port ^^ Get16(MAGIC_COOKIE, 0)

AddXorMapped(m, t, addr) ==
    add(m, t, U16(Family(addr.ip)) \o U16(XorPort(addr.port))
                \o xor_bytes(addr.ip, MAGIC_COOKIE \o m.transaction_id))

GetXorMapped(m, t) ==
    LET a == Get(m, t)
        family == Get16(a.value, 0)
    IN IF a = Fail THEN Fail
       ELSE IF Len(a.value) <= 4 \/ Get16(a.value, 0) \notin {FAMILY_IPV4, FAMILY_IPV6} THEN Fail
       ELSE IF Len(a.value) - 4 > FamilyLen(family) THEN Fail
       ELSE [ip |-> Filled(xor_bytes(From(a.value, 4), MAGIC_COOKIE \o m.transaction_id),
                           FamilyLen(family)),
             port |-> XorPort(Get16(a.value, 2))]

\* USERNAME, REALM, SOFTWARE and NONCE, each no longer than its limit.
TextLimit == (Attr.USERNAME :> 513) @@ (Attr.REALM :> 763) @@ (Attr.SOFTWARE :> 763) @@ (Attr.NONCE :> 763)

TextFits(t, text) == t \in DOMAIN TextLimit /\ Len(text) <= TextLimit[t]

GetText(m, t) == IF t \in DOMAIN TextLimit THEN Get(m, t) ELSE Fail

\* ERROR-CODE: the hundreds, the rest, and a reason.  Codes with a default
\* reason, by the length of its text.
ERROR_CODE_REASON_START == 4
ERROR_CODE_REASON_MAX_B == 763
CODE_ROLE_CONFLICT == 487
CODE_STALE_NONCE == 438
CODE_UNAUTHORIZED == 401

ERROR_REASONS ==
    (300 :> 13) @@ (400 :> 11) @@ (401 :> 12) @@ (420 :> 17) @@ (438 :> 11) @@ (500 :> 12)
        @@ (487 :> 13) @@ (403 :> 9) @@ (437 :> 19) @@ (441 :> 17) @@ (442 :> 30) @@ (486 :> 24)
        @@ (508 :> 21) @@ (446 :> 25) @@ (447 :> 29) @@ (440 :> 28) @@ (443 :> 28)

AddErrorCode(m, code, reason) ==
    add(m, Attr.ERROR_CODE, <<0, 0, code \div 100, code % 100>> \o reason)

GetErrorCode(m) ==
    LET a == Get(m, Attr.ERROR_CODE)
    IN IF a = Fail THEN Fail
       ELSE IF Len(a.value) < ERROR_CODE_REASON_START THEN Fail
       ELSE [code |-> a.value[3] * 100 + a.value[4], reason |-> From(a.value, ERROR_CODE_REASON_START)]

GetUnknownAttributes(m) ==
    LET a == Get(m, Attr.UNKNOWN_ATTRIBUTES)
        Type(b) == Get16(b, 0)
    IN IF a = Fail THEN Fail
       ELSE IF Len(a.value) % 2 /= 0 THEN Fail ELSE [types |-> Items(Type, a.value, 2)]

\* A number in the first bytes of an attribute of fixed size.
AddNumber(m, t, w, n, size) == add(m, t, UN(w, n) \o Zeros(size - w))

GetNumber(m, t, w, size) ==
    LET a == GetSized(m, t, size) IN IF a = Fail THEN Fail ELSE [value |-> GetN(w, a.value, 0)]

CHANNEL_NUMBER_SIZE == 4
LIFETIME_SIZE == 4
PRIORITY_SIZE == 4
REQUESTED_TRANSPORT_SIZE == 4
REQUESTED_FAMILY_SIZE == 4
RESERVATION_TOKEN_SIZE == 8
TIE_BREAKER_SIZE == 8

GetPriority(m) == GetNumber(m, Attr.PRIORITY, 4, PRIORITY_SIZE)
GetLifetime(m) == GetNumber(m, Attr.LIFETIME, 4, LIFETIME_SIZE)
GetChannelNumber(m) == GetNumber(m, Attr.CHANNEL_NUMBER, 2, CHANNEL_NUMBER_SIZE)
GetRequestedTransport(m) == GetNumber(m, Attr.REQUESTED_TRANSPORT, 1, REQUESTED_TRANSPORT_SIZE)
GetRequestedFamily(m) ==
    LET n == GetNumber(m, Attr.REQUESTED_ADDRESS_FAMILY, 1, REQUESTED_FAMILY_SIZE)
    IN IF n = Fail THEN Fail ELSE IF n.value \in {FAMILY_IPV4, FAMILY_IPV6} THEN n ELSE Fail
GetEvenPort(m) ==
    LET a == GetSized(m, Attr.EVEN_PORT, 1)
    IN IF a = Fail THEN Fail ELSE [reserve_port |-> a.value[1] >= 128]
GetReservationToken(m) == GetSized(m, Attr.RESERVATION_TOKEN, RESERVATION_TOKEN_SIZE)

\* The role of the sender of a check, and its tie-breaker.
GetControl(m) ==
    LET Role(t, role) ==
            LET a == GetSized(m, t, TIE_BREAKER_SIZE)
            IN IF a = Fail THEN Fail ELSE [role |-> role, tie_breaker |-> a.value]
    IN IF contains(m, Attr.ICE_CONTROLLING) THEN Role(Attr.ICE_CONTROLLING, "controlling")
       ELSE IF contains(m, Attr.ICE_CONTROLLED) THEN Role(Attr.ICE_CONTROLLED, "controlled")
       ELSE Fail

-----------------------------------------------------------------------------
(* Building: every setter in turn, until one refuses.                      *)

AddTo(m, s) ==
    CASE s.set = "type" -> set_type(m, s.typ)
      [] s.set = "transaction_id" -> write_transaction_id(m, s.id)
      [] s.set = "message" -> write_transaction_id(m, s.message.transaction_id)
      [] s.set = "raw" -> add(m, s.typ, s.value)
      [] s.set = "text" -> IF TextFits(s.attr, s.text) THEN add(m, s.attr, s.text) ELSE Fail
      [] s.set = "mapped" -> AddMapped(m, s.attr, s.addr)
      [] s.set = "xor" -> AddXorMapped(m, s.attr, s.addr)
      [] s.set = "code" ->
            IF s.code \in DOMAIN ERROR_REASONS
            THEN AddErrorCode(m, s.code, [i \in 1 .. ERROR_REASONS[s.code] |-> 116]) ELSE Fail
      [] s.set = "error" ->
            IF Len(s.reason) <= ERROR_CODE_REASON_MAX_B THEN AddErrorCode(m, s.code, s.reason) ELSE Fail
      [] s.set = "unknown" -> add(m, Attr.UNKNOWN_ATTRIBUTES, Each(U16, s.types))
      [] s.set = "priority" -> AddNumber(m, Attr.PRIORITY, 4, s.priority, PRIORITY_SIZE)
      [] s.set = "use_candidate" -> add(m, Attr.USE_CANDIDATE, << >>)
      [] s.set = "control" ->
            add(m, IF s.role = "controlling" THEN Attr.ICE_CONTROLLING ELSE Attr.ICE_CONTROLLED,
                s.tie_breaker)
      [] s.set = "data" -> add(m, Attr.DATA, s.data)
      [] s.set = "lifetime" -> AddNumber(m, Attr.LIFETIME, 4, s.seconds, LIFETIME_SIZE)
      [] s.set = "channel" -> AddNumber(m, Attr.CHANNEL_NUMBER, 2, s.number, CHANNEL_NUMBER_SIZE)
      [] s.set = "transport" ->
            AddNumber(m, Attr.REQUESTED_TRANSPORT, 1, s.protocol, REQUESTED_TRANSPORT_SIZE)
      [] s.set = "family" ->
            AddNumber(m, Attr.REQUESTED_ADDRESS_FAMILY, 1, s.family, REQUESTED_FAMILY_SIZE)
      [] s.set = "even_port" -> add(m, Attr.EVEN_PORT, <<Flag(s.reserve_port, 7)>>)
      [] s.set = "dont_fragment" -> add(m, Attr.DONT_FRAGMENT, << >>)
      [] s.set = "token" ->
            IF Len(s.token) = RESERVATION_TOKEN_SIZE THEN add(m, Attr.RESERVATION_TOKEN, s.token) ELSE Fail
      [] s.set = "integrity" ->
            IF contains(m, Attr.FINGERPRINT) THEN Fail ELSE AddIntegrity(m, s.key)
      [] s.set = "fingerprint" -> AddFingerprint(m)

RECURSIVE BuildFrom(_, _, _)
BuildFrom(m, setters, i) ==
    IF i > Len(setters) THEN m
    ELSE LET next == AddTo(m, setters[i]) IN IF next = Fail THEN Fail ELSE BuildFrom(next, setters, i + 1)

Build(setters) == BuildFrom(WriteHeader(NewMessage), setters, 1)

\* encode writes again a message that was decoded or changed by hand.
RECURSIVE AddAll(_, _, _)
AddAll(m, attributes, i) ==
    IF i > Len(attributes) THEN m ELSE AddAll(add(m, attributes[i].typ, attributes[i].value), attributes, i + 1)
Encode(m) == AddAll(WriteHeader(m), m.attributes, 1)

-----------------------------------------------------------------------------
(* Decoding.                                                               *)

is_stun_message(b) == Len(b) >= MESSAGE_HEADER_SIZE /\ Slice(b, 4, 8) = MAGIC_COOKIE

RECURSIVE Attributes(_)
Attributes(b) ==
    IF b = << >> THEN [list |-> << >>]
    ELSE IF Len(b) < ATTRIBUTE_HEADER_SIZE THEN Fail
    ELSE LET length == Get16(b, 2)
             padded == nearest_padded_value_length(length)
         IN IF Len(b) - ATTRIBUTE_HEADER_SIZE < padded THEN Fail
            ELSE LET rest == Attributes(From(b, ATTRIBUTE_HEADER_SIZE + padded))
                 IN IF rest = Fail THEN Fail
                    ELSE [list |-> <<[typ |-> compat_attr_type(Get16(b, 0)), length |-> length,
                                      value |-> Slice(b, ATTRIBUTE_HEADER_SIZE,
                                                      ATTRIBUTE_HEADER_SIZE + length)]>> \o rest.list]

Decode(b) ==
    LET size == Get16(b, 2)
        full_size == MESSAGE_HEADER_SIZE + size
        Read(attributes) ==
            IF attributes = Fail THEN Fail
            ELSE [typ |-> ReadType(Get16(b, 0)), length |-> size,
                  transaction_id |-> Slice(b, 8, MESSAGE_HEADER_SIZE),
                  attributes |-> attributes.list, raw |-> b]
    IN IF Len(b) < MESSAGE_HEADER_SIZE THEN Fail
       ELSE IF Slice(b, 4, 8) /= MAGIC_COOKIE \/ Len(b) < full_size THEN Fail
       ELSE Read(Attributes(Slice(b, MESSAGE_HEADER_SIZE, full_size)))

-----------------------------------------------------------------------------
(* ChannelData: the frames of a bound channel, beside STUN on one socket.  *)

MIN_CHANNEL_NUMBER == 16384
MAX_CHANNEL_NUMBER == 32767
CHANNEL_DATA_HEADER_SIZE == 4

ChannelValid(n) == n \in MIN_CHANNEL_NUMBER .. MAX_CHANNEL_NUMBER

EncodeChannelData(c) ==
    LET raw == U16(c.number) \o U16(Len(c.data) % 65536) \o c.data IN raw \o Zeros(PadTo4(Len(raw)))

DecodeChannelData(b) ==
    IF Len(b) < CHANNEL_DATA_HEADER_SIZE THEN Fail
    ELSE IF ~ChannelValid(Get16(b, 0)) \/ Get16(b, 2) > Len(b) - CHANNEL_DATA_HEADER_SIZE THEN Fail
    ELSE [number |-> Get16(b, 0),
          data |-> Slice(b, CHANNEL_DATA_HEADER_SIZE, CHANNEL_DATA_HEADER_SIZE + Get16(b, 2))]

\* The room after the header is compared as a u16.
is_channel_data(b) ==
    /\ Len(b) >= CHANNEL_DATA_HEADER_SIZE
    /\ Get16(b, 2) <= (Len(b) - CHANNEL_DATA_HEADER_SIZE) % 65536
    /\ ChannelValid(Get16(b, 0))
=============================================================================
