----------------------------- MODULE DtlsCipher -----------------------------
(***************************************************************************)
(* What rtc-dtls does with a record between its handshake and the socket:  *)
(* the cipher suites, the keys both sides derive, the protection of a      *)
(* record, the cutting of a handshake message into fragments, the packing  *)
(* of records into datagrams, and the export of a finished connection.     *)
(* The ciphers and hashes are libraries: each is stood in for by a         *)
(* function of the same inputs and the same lengths.                       *)
(***************************************************************************)
EXTENDS DtlsWire, Bitwise

\* External: the keyed functions the suites use.
hmac_sha(key, data) == Stream(Mix(key \o <<0>> \o data), 32)
HmacSha1(key, data) == Stream(Mix(key \o <<1>> \o data), 20)
Sha256(data) == Stream(Mix(data), 32)
Encrypted(key, nonce, data) ==
    LET pad == Stream(Mix(key \o nonce), Len(data)) IN [i \in 1 .. Len(data) |-> (data[i] + pad[i]) % 256]
Decrypted(key, nonce, data) ==
    LET pad == Stream(Mix(key \o nonce), Len(data))
    IN [i \in 1 .. Len(data) |-> (data[i] + 256 - pad[i]) % 256]
Tag(key, nonce, aad, data, n) == Stream(Mix(key \o nonce \o aad \o data), n)

-----------------------------------------------------------------------------
(* Cipher suites.  Each is known by its id; a suite has the lengths it     *)
(* derives, the cipher it uses and the certificates it is for.             *)

EcdsaSign == 64
RsaSign == 1
NoSign == 65

CipherSuite(cipher, mac_len, key_len, iv_len, tag_len, certificate_type, psk) ==
    [cipher |-> cipher, mac_len |-> mac_len, key_len |-> key_len, iv_len |-> iv_len,
     tag_len |-> tag_len, certificate_type |-> certificate_type, psk |-> psk]
Ccm(tag_len, certificate_type, psk) == CipherSuite("ccm", 0, 16, 4, tag_len, certificate_type, psk)
Gcm(certificate_type) == CipherSuite("gcm", 0, 16, 4, 16, certificate_type, FALSE)
PskGcm == CipherSuite("gcm", 0, 16, 4, 16, NoSign, TRUE)
Cbc(certificate_type) == CipherSuite("cbc", 20, 32, 16, 0, certificate_type, FALSE)
ChaCha(certificate_type) == CipherSuite("chacha20", 0, 32, 12, 16, certificate_type, FALSE)

cipher_suite_for_id(id) ==
    CASE id = 49324 -> Ccm(16, EcdsaSign, FALSE)
      [] id = 49326 -> Ccm(8, EcdsaSign, FALSE)
      [] id = 49195 -> Gcm(EcdsaSign)
      [] id = 49199 -> Gcm(RsaSign)
      [] id = 49172 -> Cbc(RsaSign)
      [] id = 49162 -> Cbc(EcdsaSign)
      [] id = 49316 -> Ccm(16, NoSign, TRUE)
      [] id = 49320 -> Ccm(8, NoSign, TRUE)
      [] id = 168 -> PskGcm
      [] id = 52392 -> ChaCha(RsaSign)
      [] id = 52393 -> ChaCha(EcdsaSign)
      [] OTHER -> Fail

default_cipher_suites == <<49195, 49162, 49199, 49172, 52393>>

\* The suites a configuration offers: the chosen ones or the defaults, of
\* the kind, pre-shared key or certificate, that is not excluded.
parse_cipher_suites(selected, exclude_psk, exclude_non_psk) ==
    LET suites == IF selected # <<>> THEN selected ELSE default_cipher_suites
        Kept(id) == ~(exclude_psk /\ cipher_suite_for_id(id).psk)
                    /\ ~(exclude_non_psk /\ ~cipher_suite_for_id(id).psk)
    IN IF \E i \in 1 .. Len(suites) : cipher_suite_for_id(suites[i]) = Fail THEN Fail
       ELSE IF SelectSeq(suites, Kept) = <<>> THEN Fail
       ELSE [suites |-> SelectSeq(suites, Kept)]

insecure(hash) == hash \in {0, 1, 2}

default_signature_schemes ==
    [i \in 1 .. 6 |-> [hash |-> 4 + ((i - 1) % 3), signature |-> IF i <= 3 THEN 3 ELSE 1]]
    \o << [hash |-> 8, signature |-> 7] >>

parse_signature_schemes(sigs, insecure_hashes) ==
    LET algorithms == [i \in 1 .. Len(sigs) |-> SignatureHashAlgorithm(U16(sigs[i]))]
        Kept(a) == ~insecure(a.hash) \/ insecure_hashes
    IN IF sigs = <<>> THEN [schemes |-> default_signature_schemes]
       ELSE IF \E i \in 1 .. Len(sigs) : algorithms[i].signature = 8 \/ algorithms[i].hash \in {0, 9}
            THEN Fail
       ELSE IF SelectSeq(algorithms, Kept) = <<>> THEN Fail
       ELSE [schemes |-> SelectSeq(algorithms, Kept)]

\* The first scheme that suits the private key, whose kind is named by the
\* signature algorithm it makes.
select_signature_scheme(sigs, key_kind) ==
    LET fit == SelectSeq(sigs, LAMBDA a : a.signature = key_kind)
    IN IF fit = <<>> THEN Fail ELSE Head(fit)

\* The algorithms a signature can be verified with.
verify_signature_supported(a) ==
    \/ a.signature = 7
    \/ a.signature = 3 /\ a.hash \in {4, 5}
    \/ a.signature = 1 /\ a.hash \in {2, 4, 5, 6}

\* What the server signs for its key exchange.
value_key_message(client_random, server_random, public_key, named_curve) ==
    client_random \o server_random \o <<3>> \o U16(named_curve) \o Counted(1, public_key)

\* ConfigBuilder::validate and the lists that build makes.  The fields that
\* are options are <<>> when they are not given.
ConfigValid(c, is_client) ==
    /\ ~(is_client /\ c.psk # <<>> /\ c.psk_identity_hint = <<>>)
    /\ ~(~is_client /\ c.psk = <<>> /\ c.certificates = <<>>)
    /\ ~(c.certificates # <<>> /\ c.psk # <<>>)
    /\ ~(c.psk_identity_hint # <<>> /\ c.psk = <<>>)
    /\ \A i \in 1 .. Len(c.certificates) : c.certificates[i] \in {7, 3}
    /\ parse_cipher_suites(c.cipher_suites, c.psk = <<>>, c.psk # <<>>) # Fail

DEFAULT_MTU == 1200
DEFAULT_REPLAY_PROTECTION_WINDOW == 64

build(c, is_client) ==
    LET schemes == parse_signature_schemes(c.signature_schemes, c.insecure_hashes)
    IN IF ~ConfigValid(c, is_client) \/ schemes = Fail THEN Fail
       ELSE [local_cipher_suites |->
                 parse_cipher_suites(c.cipher_suites, c.psk = <<>>, c.psk # <<>>).suites,
             local_signature_schemes |-> schemes.schemes,
             maximum_transmission_unit |-> IF c.mtu = 0 THEN DEFAULT_MTU ELSE c.mtu,
             replay_protection_window |->
                 IF c.replay_protection_window = 0 THEN DEFAULT_REPLAY_PROTECTION_WINDOW
                 ELSE c.replay_protection_window]
\* The certificate for a server name, given as its labels in lower case:
\* the one with that name, or with the name whose first labels are
\* wildcards, fewest first, or the first one.
get_certificate(certificates, names, labels) ==
    LET Masked(i) == [k \in 1 .. Len(labels) |-> IF k <= i THEN "*" ELSE labels[k]]
        known == {i \in 0 .. Len(labels) : Masked(i) \in DOMAIN names}
    IN IF certificates = <<>> THEN Fail
       ELSE IF Len(certificates) = 1 \/ labels = <<>> \/ known = {} THEN certificates[1]
       ELSE names[Masked(CHOOSE i \in known : \A k \in known : i <= k)]

-----------------------------------------------------------------------------
(* Keys.  A side holds both randoms, the master secret and its suite.      *)

MasterSecretLabel == <<109, 115>>
ExtendedMasterSecretLabel == <<101, 109, 115>>
KeyExpansionLabel == <<107, 101>>
ClientFinishedLabel == <<99, 102>>
ServerFinishedLabel == <<115, 102>>
INVALID_KEYING_LABELS == {ClientFinishedLabel, ServerFinishedLabel, MasterSecretLabel, KeyExpansionLabel}

\* P_hash of RFC 5246: each round hashes the previous one, with the seed.
prf_p_hash(secret, seed, length) ==
    LET rounds == (length + 31) \div 32
        A[i \in 0 .. rounds] == IF i = 0 THEN seed ELSE hmac_sha(secret, A[i - 1])
    IN SubSeq(FlattenSeq([i \in 1 .. rounds |-> hmac_sha(secret, A[i] \o seed)]), 1, length)

prf_psk_pre_master_secret(psk) == U16(Len(psk)) \o Zeros(Len(psk)) \o U16(Len(psk)) \o psk

prf_extended_master_secret(pre_master_secret, session_hash) ==
    prf_p_hash(pre_master_secret, ExtendedMasterSecretLabel \o session_hash, 48)

prf_master_secret(pre_master_secret, client_random, server_random) ==
    prf_p_hash(pre_master_secret, MasterSecretLabel \o client_random \o server_random, 48)

prf_encryption_keys(master_secret, client_random, server_random, suite) ==
    LET mac == suite.mac_len
        key == suite.key_len
        iv == suite.iv_len
        material == prf_p_hash(master_secret, KeyExpansionLabel \o server_random \o client_random,
                        2 * mac + 2 * key + 2 * iv)
        Cut(first, n) == Slice(material, first, first + n)
    IN [client_mac_key |-> Cut(0, mac), server_mac_key |-> Cut(mac, mac),
        client_write_key |-> Cut(2 * mac, key), server_write_key |-> Cut(2 * mac + key, key),
        client_write_iv |-> Cut(2 * mac + 2 * key, iv),
        server_write_iv |-> Cut(2 * mac + 2 * key + iv, iv)]

prf_verify_data(master_secret, handshake_bodies, label) ==
    prf_p_hash(master_secret, label \o Sha256(handshake_bodies), 12)
prf_verify_data_client(master_secret, bodies) == prf_verify_data(master_secret, bodies, ClientFinishedLabel)
prf_verify_data_server(master_secret, bodies) == prf_verify_data(master_secret, bodies, ServerFinishedLabel)

\* CipherSuite::init: what a side writes with and reads with.
InitCipher(suite, keys, is_client) ==
    LET Keys(mac, key, iv) == [mac |-> mac, key |-> key, iv |-> iv]
        client == Keys(keys.client_mac_key, keys.client_write_key, keys.client_write_iv)
        server == Keys(keys.server_mac_key, keys.server_write_key, keys.server_write_iv)
    IN [suite |-> suite,
        local |-> IF is_client THEN client ELSE server,
        remote |-> IF is_client THEN server ELSE client]

\* State::init_cipher_suite.
init_cipher_suite(st) ==
    LET suite == cipher_suite_for_id(st.cipher_suite_id)
        keys == IF st.is_client
                THEN prf_encryption_keys(st.master_secret, MarshalRandom(st.local_random),
                         MarshalRandom(st.remote_random), suite)
                ELSE prf_encryption_keys(st.master_secret, MarshalRandom(st.remote_random),
                         MarshalRandom(st.local_random), suite)
    IN IF suite = Fail THEN Fail ELSE InitCipher(suite, keys, st.is_client)

\* State::serialize and deserialize, which keep the sequence number of the
\* current epoch only.
SerializedState(st) ==
    [local_epoch |-> st.local_epoch, remote_epoch |-> st.remote_epoch,
     local_random |-> MarshalRandom(st.local_random), remote_random |-> MarshalRandom(st.remote_random),
     cipher_suite_id |-> st.cipher_suite_id, master_secret |-> st.master_secret,
     sequence_number |-> st.local_sequence_number[st.local_epoch + 1],
     srtp_protection_profile |-> st.srtp_protection_profile, is_client |-> st.is_client]

DeserializedState(z) ==
    [local_epoch |-> z.local_epoch, remote_epoch |-> z.remote_epoch,
     local_sequence_number |-> Zeros(z.local_epoch) \o <<z.sequence_number>>,
     local_random |-> HandshakeRandom(z.local_random), remote_random |-> HandshakeRandom(z.remote_random),
     cipher_suite_id |-> CipherSuiteId(z.cipher_suite_id), master_secret |-> z.master_secret,
     srtp_protection_profile |-> SrtpProtectionProfile(z.srtp_protection_profile),
     is_client |-> z.is_client]

export_keying_material(st, label, context, length) ==
    LET local == MarshalRandom(st.local_random)
        remote == MarshalRandom(st.remote_random)
    IN IF st.local_epoch = 0 \/ context # <<>> \/ label \in INVALID_KEYING_LABELS THEN Refused
       ELSE prf_p_hash(st.master_secret,
                label \o (IF st.is_client THEN local \o remote ELSE remote \o local), length)

-----------------------------------------------------------------------------
(* The protection of a record.  random is what the generator gave; a       *)
(* record of ChangeCipherSpec is handed back as it came.                   *)

generate_aead_additional_data(h, payload_len) ==
    U16(h.epoch) \o U16(h.sequence_number[1]) \o U32(h.sequence_number[2])
    \o <<h.content_type>> \o h.protocol_version \o U16(payload_len)

prf_mac(h, payload, key) == HmacSha1(key, generate_aead_additional_data(h, Len(payload)) \o payload)

\* The header of the plain record with the length of the protected one.
Protected(raw, body) == Slice(raw, 0, RECORD_LAYER_HEADER_SIZE - 2) \o U16(Len(body)) \o body

Payload(raw) == From(raw, RECORD_LAYER_HEADER_SIZE)

\* GCM and CCM: four bytes of the derived IV and eight random bytes, which
\* travel before the ciphertext.
AeadEncrypt(c, h, raw, random) ==
    LET nonce == Slice(c.local.iv, 0, 4) \o Slice(random, 0, 8)
        text == Encrypted(c.local.key, nonce, Payload(raw))
        aad == generate_aead_additional_data(h, Len(Payload(raw)))
    IN Protected(raw, Slice(random, 0, 8) \o text
                      \o Tag(c.local.key, nonce, aad, Payload(raw), c.suite.tag_len))

AeadDecrypt(c, h, r) ==
    LET nonce == Slice(c.remote.iv, 0, 4) \o Slice(r, RECORD_LAYER_HEADER_SIZE, RECORD_LAYER_HEADER_SIZE + 8)
        out == From(r, RECORD_LAYER_HEADER_SIZE + 8)
        len == Len(out) - c.suite.tag_len
        plain == Decrypted(c.remote.key, nonce, Slice(out, 0, len))
        aad == generate_aead_additional_data(h, len)
    IN IF Len(r) <= RECORD_LAYER_HEADER_SIZE + 8 \/ Len(out) < c.suite.tag_len THEN Refused
       ELSE IF From(out, len) # Tag(c.remote.key, nonce, aad, plain, c.suite.tag_len) THEN Refused
       ELSE Slice(r, 0, RECORD_LAYER_HEADER_SIZE) \o plain

\* ChaCha20: the nonce is the derived IV and the record's number.
noncegen(iv, h) ==
    LET number == U16(h.epoch) \o U16(h.sequence_number[1]) \o U32(h.sequence_number[2])
    IN [i \in 1 .. 12 |-> IF i <= 4 THEN iv[i] ELSE iv[i] ^^ number[i - 4]]

ChaChaEncrypt(c, h, raw) ==
    LET nonce == noncegen(c.local.iv, h)
        aad == generate_aead_additional_data(h, Len(Payload(raw)))
    IN Protected(raw, Encrypted(c.local.key, nonce, Payload(raw))
                      \o Tag(c.local.key, nonce, aad, Payload(raw), c.suite.tag_len))

\* A record shorter than the tag makes the subtraction of the code fail.
ChaChaDecrypt(c, h, r) ==
    LET nonce == noncegen(c.remote.iv, h)
        out == Payload(r)
        len == Len(out) - c.suite.tag_len
        plain == Decrypted(c.remote.key, nonce, Slice(out, 0, len))
    IN IF Len(out) < c.suite.tag_len THEN Refused
       ELSE IF From(out, len) # Tag(c.remote.key, nonce, generate_aead_additional_data(h, len), plain, c.suite.tag_len)
            THEN Refused
       ELSE Slice(r, 0, RECORD_LAYER_HEADER_SIZE) \o plain

\* CBC: the MAC is inside, then padding of its own length to a whole block.
BLOCK_SIZE == 16
MAC_SIZE == 20

raw_pad(data) ==
    LET n == BLOCK_SIZE - 1 - (Len(data) % BLOCK_SIZE) IN data \o [i \in 1 .. n + 1 |-> n]

raw_unpad(data) ==
    LET n == Last(data)
        begin == Len(data) - n - 1
    IN IF n + 1 > Len(data) THEN Refused
       ELSE IF \E i \in begin + 1 .. Len(data) : data[i] # n THEN Refused
       ELSE Slice(data, 0, begin)

CbcEncrypt(c, h, raw, random) ==
    LET payload == Payload(raw) \o prf_mac(h, Payload(raw), c.local.mac)
    IN Protected(raw, random \o Encrypted(c.local.key, random, raw_pad(payload)))

CbcDecrypt(c, h, r) ==
    LET iv == Slice(r, RECORD_LAYER_HEADER_SIZE, RECORD_LAYER_HEADER_SIZE + BLOCK_SIZE)
        body == From(r, RECORD_LAYER_HEADER_SIZE + BLOCK_SIZE)
        Checked(plain, mac) ==
            IF mac # prf_mac(h, plain, c.remote.mac) THEN Refused
            ELSE Slice(r, 0, RECORD_LAYER_HEADER_SIZE) \o plain
        Unpadded(data) ==
            IF data = Refused \/ Len(data) < MAC_SIZE THEN Refused
            ELSE Checked(Slice(data, 0, Len(data) - MAC_SIZE), From(data, Len(data) - MAC_SIZE))
    IN IF Len(r) < RECORD_LAYER_HEADER_SIZE + BLOCK_SIZE \/ body = <<>> \/ Len(body) % BLOCK_SIZE # 0
       THEN Refused
       ELSE Unpadded(raw_unpad(Decrypted(c.remote.key, iv, body)))

encrypt(c, h, raw, random) ==
    CASE c.suite.cipher \in {"gcm", "ccm"} -> AeadEncrypt(c, h, raw, random)
      [] c.suite.cipher = "cbc" -> CbcEncrypt(c, h, raw, random)
      [] c.suite.cipher = "chacha20" -> ChaChaEncrypt(c, h, raw)

decrypt(c, r) ==
    LET Open(h) == CASE h = Fail -> Refused
                     [] h.content_type = ContentTypes.ChangeCipherSpec -> r
                     [] c.suite.cipher \in {"gcm", "ccm"} -> AeadDecrypt(c, h, r)
                     [] c.suite.cipher = "cbc" -> CbcDecrypt(c, h, r)
                     [] c.suite.cipher = "chacha20" -> ChaChaDecrypt(c, h, r)
    IN Open(RecordLayerHeader(r))

-----------------------------------------------------------------------------
(* Fragments and datagrams. *)

split_bytes(bytes, split_len) ==
    [i \in 1 .. (Len(bytes) + split_len - 1) \div split_len |->
        SubSeq(bytes, (i - 1) * split_len + 1, IF i * split_len > Len(bytes) THEN Len(bytes) ELSE i * split_len)]

fragment_handshake(mtu, h) ==
    LET content == MarshalHandshakeMessage(h.handshake_message)
        split == IF content = <<>> THEN << <<>> >> ELSE split_bytes(content, mtu)
        Header(i) == [h.handshake_header EXCEPT !.fragment_offset = (i - 1) * mtu,
                                                !.fragment_length = Len(split[i])]
    IN [i \in 1 .. Len(split) |-> MarshalHandshakeHeader(Header(i)) \o split[i]]

\* Records share a datagram as long as it stays below the limit.
compact_raw_packets(raw_packets, mtu) ==
    LET fill[i \in 0 .. Len(raw_packets)] ==
            IF i = 0 THEN [done |-> <<>>, current |-> <<>>]
            ELSE IF fill[i - 1].current # <<>> /\ Len(fill[i - 1].current) + Len(raw_packets[i]) >= mtu
                 THEN [done |-> Append(fill[i - 1].done, fill[i - 1].current), current |-> raw_packets[i]]
            ELSE [fill[i - 1] EXCEPT !.current = @ \o raw_packets[i]]
        last == fill[Len(raw_packets)]
    IN IF last.current = <<>> THEN last.done ELSE Append(last.done, last.current)

\* FragmentBuffer: the fragments of each message, in the order they came.
\* A fragment keeps what its record has up to the length of the message.
FRAGMENT_BUFFER_MAX_SIZE == 2000000

FragmentBufferSize(cache) ==
    Total([i \in 1 .. Len(cache) |-> Len(cache[i].data)])

RECURSIVE Fragments(_, _)
Fragments(header, b) ==
    LET end(h) == IF HANDSHAKE_HEADER_LENGTH + h.length > Len(b) THEN Len(b) ELSE HANDSHAKE_HEADER_LENGTH + h.length
        Before(f, rest) == IF rest = Fail THEN Fail ELSE [list |-> <<f>> \o rest.list]
        Read(h) == IF h = Fail THEN Fail
                   ELSE Before([epoch |-> header.epoch, handshake_header |-> h,
                                data |-> Slice(b, HANDSHAKE_HEADER_LENGTH, end(h))],
                               Fragments(header, From(b, end(h))))
    IN IF b = <<>> THEN [list |-> <<>>] ELSE Read(HandshakeHeader(b))

\* The handshake record whose fragments are added, or Fail.
push_fragments(cache, raw) ==
    LET header == RecordLayerHeader(raw)
        Pushed(list) == IF list = Fail THEN Fail ELSE [cache |-> cache \o list.list]
    IN IF FragmentBufferSize(cache) + Len(raw) >= FRAGMENT_BUFFER_MAX_SIZE \/ header = Fail THEN Fail
       ELSE IF header.content_type # ContentTypes.Handshake THEN Fail
       ELSE Pushed(Fragments(header, Payload(raw)))

\* The message from an offset on: the first fragment that starts there and
\* what follows its end.
RECURSIVE append_message(_, _)
append_message(frags, offset) ==
    LET here == SelectSeq(frags, LAMBDA f : f.handshake_header.fragment_offset = offset)
        f == Head(here)
        fragment_end == offset + f.handshake_header.fragment_length
        Joined(rest) == IF rest = Refused THEN Refused ELSE f.data \o rest
    IN IF here = <<>> THEN Refused
       ELSE IF fragment_end = f.handshake_header.length \/ f.handshake_header.fragment_length = 0
            THEN f.data
       ELSE Joined(append_message(frags, fragment_end))

\* Mutant: the message keeps the header of its first fragment.
pop_messageAsFragment(cache, seq) ==
    LET frags == SelectSeq(cache, LAMBDA f : f.handshake_header.message_sequence = seq)
        Whole(raw) ==
            IF raw = Refused THEN Fail
            ELSE [message |-> MarshalHandshakeHeader(Head(frags).handshake_header) \o raw,
                  epoch |-> Head(frags).epoch,
                  cache |-> SelectSeq(cache, LAMBDA f : f.handshake_header.message_sequence # seq)]
    IN IF frags = <<>> THEN Fail ELSE Whole(append_message(frags, 0))

pop_message(cache, seq) ==
    LET frags == SelectSeq(cache, LAMBDA f : f.handshake_header.message_sequence = seq)
        Whole(raw) ==
            IF raw = Refused THEN Fail
            ELSE [message |-> MarshalHandshakeHeader(
                      [Head(frags).handshake_header EXCEPT !.fragment_offset = 0,
                           !.fragment_length = Head(frags).handshake_header.length]) \o raw,
                  epoch |-> Head(frags).epoch,
                  cache |-> SelectSeq(cache, LAMBDA f : f.handshake_header.message_sequence # seq)]
    IN IF frags = <<>> THEN Fail ELSE Whole(append_message(frags, 0))
=============================================================================
