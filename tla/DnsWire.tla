------------------------------ MODULE DnsWire ------------------------------
(***************************************************************************)
(* DNS messages as rtc-mdns writes and reads them: names compressed by     *)
(* pointers to suffixes written before, the resource bodies, the           *)
(* incremental parser and the incremental builder.  A name is the sequence *)
(* of what stands between its dots, so a name that ends in a dot ends in   *)
(* an empty segment; texts are ASCII.  What is being written is a record   *)
(* of the bytes so far and the compression table, a set of suffixes with   *)
(* their offsets, or None where compression is off.                        *)
(***************************************************************************)
EXTENDS Bytes, Integers, TLC

HEADER_LEN == 12
NAME_LEN == 255
DNSCLASS_INET == 1

Type == [A |-> 1, Ns |-> 2, Cname |-> 5, Soa |-> 6, Ptr |-> 12, Mx |-> 15, Txt |-> 16, Aaaa |-> 28,
         Srv |-> 33, Opt |-> 41]
QuestionTypes == {11, 13, 14, 252, 255}

\* A type or a response code the library does not know.
DnsType(v) == IF v \in QuestionTypes \cup {Type[t] : t \in DOMAIN Type} THEN v ELSE 0
RCode(v) == IF v <= 5 THEN v ELSE 6

None == {<< <<0>>, 0 >>}

Write(w, bytes) == [w EXCEPT !.msg = @ \o bytes]

-----------------------------------------------------------------------------
(* Names.                                                                  *)

root == << <<>>, <<>> >>

NameLen(name) == Total([i \in DOMAIN name |-> Len(name[i]) + 1]) - 1

\* Segments one after the other, up to a suffix that was written before.
RECURSIVE Segments(_, _)
Segments(w, name) ==
    LET hits == {e \in w.table : e[1] = name}
        at == (CHOOSE e \in hits : TRUE)[2]
        noted == IF w.table # None /\ Len(w.msg) <= 16383
                   THEN [w EXCEPT !.table = @ \cup {<<name, Len(w.msg)>>}] ELSE w
    IN IF Len(name) = 1 THEN Write(w, <<0>>)
       ELSE IF Len(name[1]) \notin 1 .. 63 THEN Fail
       ELSE IF w.table # None /\ hits # {} THEN Write(w, <<(at \div 256) + 192, at % 256>>)
       ELSE Segments(Write(noted, Counted(1, name[1])), Tail(name))

PackName(w, name) ==
    IF Len(name) < 2 \/ name[Len(name)] # <<>> THEN Fail
    ELSE IF name = root THEN Write(w, <<0>>)
    ELSE Segments(w, name)

\* The segments found at offset at, with the offset after the name: behind the
\* first pointer, if there is one.  At most ten pointers are followed.
RECURSIVE Follow(_, _, _, _, _, _)
Follow(msg, at, name, pointers, after, allow) ==
    LET c == msg[at + 1]
        end == at + 1 + c
        next == IF pointers = 0 THEN at + 2 ELSE after
    IN IF at >= Len(msg) THEN Fail
       ELSE IF c = 0 THEN [name |-> name, end |-> IF pointers = 0 THEN at + 1 ELSE after]
       ELSE IF c < 64
         THEN IF end > Len(msg) THEN Fail
              ELSE Follow(msg, end, Append(name, Slice(msg, at + 1, end)), pointers, after, allow)
       ELSE IF c >= 192
         THEN IF ~allow \/ at + 1 >= Len(msg) \/ pointers = 10 THEN Fail
              ELSE Follow(msg, (c - 192) * 256 + msg[at + 2], name, pointers + 1, next, allow)
       ELSE Fail

Ended(name) == IF name = << >> THEN root ELSE Append(name, <<>>)
Bounded(found) ==
    IF found = Fail THEN Fail
    ELSE IF NameLen(Ended(found.name)) > NAME_LEN THEN Fail
    ELSE [name |-> Ended(found.name), end |-> found.end]
unpack_compressed(msg, off, allow) == Bounded(Follow(msg, off, << >>, 0, off, allow))

UnpackName(msg, off) == unpack_compressed(msg, off, TRUE)

\* The offset after a name, as [end]; a pointer ends it.
RECURSIVE SkipName(_, _)
SkipName(msg, off) ==
    LET c == msg[off + 1]
    IN IF off >= Len(msg) THEN Fail
       ELSE IF c = 0 THEN [end |-> off + 1]
       ELSE IF c < 64
         THEN IF off + 1 + c > Len(msg) THEN Fail ELSE SkipName(msg, off + 1 + c)
       ELSE IF c >= 192 THEN [end |-> off + 2]
       ELSE Fail

-----------------------------------------------------------------------------
(* Resource bodies.                                                        *)

SoaNumbers == << <<"serial", 4>>, <<"refresh", 4>>, <<"retry", 4>>, <<"expire", 4>>, <<"min_ttl", 4>> >>
SrvNumbers == << <<"priority", 2>>, <<"weight", 2>>, <<"port", 2>> >>

PackAddr(w, body) == Write(w, body.addr)
PackOneName(w, body) == PackName(w, body.name)
PackMx(w, body) == PackName(Write(w, U16(body.pref)), body.mx)

PackSoa(w, body) ==
    LET first == PackName(w, body.ns)
        both == IF first = Fail THEN Fail ELSE PackName(first, body.mbox)
    IN IF both = Fail THEN Fail ELSE Write(both, Put(SoaNumbers, body))

\* The target of a SRV record is not compressed.
PackSrv(w, body) ==
    LET plain == PackName([Write(w, Put(SrvNumbers, body)) EXCEPT !.table = None], body.target)
    IN IF plain = Fail THEN Fail ELSE [plain EXCEPT !.table = w.table]

PackTxt(w, body) ==
    LET pack_str(s) == Counted(1, s)
    IN IF \E i \in DOMAIN body.txt : Len(body.txt[i]) > 255 THEN Fail ELSE Write(w, Each(pack_str, body.txt))

PackOpt(w, body) ==
    LET Option(o) == U16(o.code) \o Counted(2, o.data)
    IN Write(w, Each(Option, body.options))

PackBody(w, body) ==
    LET t == body.typ
    IN CASE t \in {Type.A, Type.Aaaa} -> PackAddr(w, body)
         [] t \in {Type.Ns, Type.Cname, Type.Ptr} -> PackOneName(w, body)
         [] t = Type.Mx -> PackMx(w, body)
         [] t = Type.Soa -> PackSoa(w, body)
         [] t = Type.Srv -> PackSrv(w, body)
         [] t = Type.Txt -> PackTxt(w, body)
         [] t = Type.Opt -> PackOpt(w, body)

\* The strings, and the options, from off up to end.
RECURSIVE Texts(_, _, _)
Texts(msg, off, end) ==
    LET first == CountedAt(1, msg, off)
        rest == Texts(msg, first.end, end)
    IN IF off >= end THEN [txt |-> << >>, end |-> off]
       ELSE IF first = Fail \/ first.end > end THEN Fail
       ELSE IF rest = Fail THEN Fail
       ELSE [txt |-> <<first.body>> \o rest.txt, end |-> rest.end]

RECURSIVE Options(_, _, _)
Options(msg, off, end) ==
    LET data == CountedAt(2, msg, off + 2)
        rest == Options(msg, data.end, end)
    IN IF off >= end THEN [options |-> << >>, end |-> off]
       ELSE IF off + 2 > Len(msg) \/ data = Fail THEN Fail
       ELSE IF rest = Fail THEN Fail
       ELSE [options |-> <<[code |-> Get16(msg, off), data |-> data.body]>> \o rest.options,
             end |-> rest.end]

\* A body of fixed size n made by Of from its bytes, and one with a name after
\* such a part.
Fixed(msg, off, n, Of(_)) ==
    IF off + n > Len(msg) THEN Fail ELSE [body |-> Of(Slice(msg, off, off + n)), end |-> off + n]

Named(msg, off, n, allow, Of(_, _)) ==
    LET With(found) == IF found = Fail THEN Fail
                       ELSE [body |-> Of(Slice(msg, off, off + n), found.name), end |-> found.end]
    IN IF off + n > Len(msg) THEN Fail ELSE With(unpack_compressed(msg, off + n, allow))

AResource(msg, off) == Fixed(msg, off, 4, LAMBDA b : [typ |-> Type.A, addr |-> b])
AaaaResource(msg, off) == Fixed(msg, off, 16, LAMBDA b : [typ |-> Type.Aaaa, addr |-> b])
NsResource(msg, off) == Named(msg, off, 0, TRUE, LAMBDA b, n : [typ |-> Type.Ns, name |-> n])
CnameResource(msg, off) == Named(msg, off, 0, TRUE, LAMBDA b, n : [typ |-> Type.Cname, name |-> n])
PtrResource(msg, off) == Named(msg, off, 0, TRUE, LAMBDA b, n : [typ |-> Type.Ptr, name |-> n])

MxResource(msg, off) ==
    Named(msg, off, 2, TRUE, LAMBDA b, n : [typ |-> Type.Mx, pref |-> Get16(b, 0), mx |-> n])

SrvResource(msg, off) ==
    Named(msg, off, 6, FALSE, LAMBDA b, n : [typ |-> Type.Srv, target |-> n] @@ Take(SrvNumbers, b))

SoaResource(msg, off) ==
    LET Both(ns, mbox) ==
            IF mbox = Fail THEN Fail
            ELSE Fixed(msg, mbox.end, 20, LAMBDA b :
                   [typ |-> Type.Soa, ns |-> ns.name, mbox |-> mbox.name] @@ Take(SoaNumbers, b))
        First(ns) == IF ns = Fail THEN Fail ELSE Both(ns, UnpackName(msg, ns.end))
    IN First(UnpackName(msg, off))

TxtResource(msg, off, length) ==
    LET read == Texts(msg, off, off + length)
    IN IF read = Fail THEN Fail ELSE [body |-> [typ |-> Type.Txt, txt |-> read.txt], end |-> read.end]

OptResource(msg, off, length) ==
    LET read == Options(msg, off, off + length)
    IN IF read = Fail THEN Fail ELSE [body |-> [typ |-> Type.Opt, options |-> read.options], end |-> read.end]

unpack_resource_body(t, msg, off, length) ==
    CASE t = Type.A -> AResource(msg, off)
      [] t = Type.Aaaa -> AaaaResource(msg, off)
      [] t = Type.Ns -> NsResource(msg, off)
      [] t = Type.Cname -> CnameResource(msg, off)
      [] t = Type.Ptr -> PtrResource(msg, off)
      [] t = Type.Mx -> MxResource(msg, off)
      [] t = Type.Srv -> SrvResource(msg, off)
      [] t = Type.Soa -> SoaResource(msg, off)
      [] t = Type.Txt -> TxtResource(msg, off, length)
      [] t = Type.Opt -> OptResource(msg, off, length)
      [] OTHER -> Fail

-----------------------------------------------------------------------------
(* Questions and resources.                                                *)

PackQuestion(w, q) ==
    LET named == PackName(w, q.name)
    IN IF named = Fail THEN Fail ELSE Write(named, U16(q.typ) \o U16(q.class))

ResourceNumbers == << <<"typ", 2>>, <<"class", 2>>, <<"ttl", 4>>, <<"length", 2>> >>

\* The header, the body, and then the body's length written back.
fix_len(bodied, pre_len) ==
    LET con_len == Len(bodied.msg) - pre_len
    IN IF bodied = Fail THEN Fail
       ELSE IF con_len > 65535 THEN Fail
       ELSE [bodied EXCEPT !.msg[pre_len - 1] = con_len \div 256, !.msg[pre_len] = con_len % 256]

PackResource(w, r) ==
    LET Bodied(headed) == fix_len(PackBody(headed, r.body), Len(headed.msg))
        Headed(named) ==
            IF named = Fail THEN Fail
            ELSE Bodied(Write(named, Put(ResourceNumbers, [r.header EXCEPT !.typ = r.body.typ])))
    IN Headed(PackName(w, r.header.name))

UnpackHeader(msg, off) ==
    LET Read(named, numbers) ==
            IF named = Fail THEN Fail
            ELSE IF named.end + 10 > Len(msg) THEN Fail
            ELSE [header |-> [name |-> named.name, typ |-> DnsType(numbers.typ), class |-> numbers.class,
                              ttl |-> numbers.ttl, length |-> numbers.length],
                  end |-> named.end + 10]
        After(named) == Read(named, Take(ResourceNumbers, Slice(msg, named.end, named.end + 10)))
    IN After(UnpackName(msg, off))

SkipResource(msg, off) ==
    LET named == SkipName(msg, off)
    IN IF named = Fail THEN Fail
       ELSE IF named.end + 10 > Len(msg) THEN Fail
       ELSE IF named.end + 10 + Get16(msg, named.end + 8) > Len(msg) THEN Fail
       ELSE [end |-> named.end + 10 + Get16(msg, named.end + 8)]

\* EDNS0: the extended response code and the DNSSEC flag live in the ttl.
set_edns0(h, udp_payload_len, ext_rcode, dnssec_ok) ==
    [h EXCEPT !.name = root, !.typ = Type.Opt, !.class = udp_payload_len,
              !.ttl = (ext_rcode \div 16) * 2^24 + Flag(dnssec_ok, 15)]

dnssec_allowed(h) == (h.ttl % 2^24) \div 2^15 = 1

extended_rcode(h, rcode) ==
    IF (h.ttl \div 2^16) % 256 = 0 THEN RCode((((h.ttl \div 2^24) * 16) % 256) + rcode) ELSE rcode

-----------------------------------------------------------------------------
(* Messages.                                                               *)

HeaderFlags == << <<"response", 15>>, <<"authoritative", 10>>, <<"truncated", 9>>,
                  <<"recursion_desired", 8>>, <<"recursion_available", 7>> >>

HeaderBits(h) ==
    h.op_code * 2^11 + h.rcode + Total([i \in DOMAIN HeaderFlags |-> Flag(h[HeaderFlags[i][1]], HeaderFlags[i][2])])

ReadHeader(id, bits) ==
    [id |-> id, op_code |-> (bits \div 2^11) % 16, rcode |-> RCode(bits % 16)]
        @@ [f \in {HeaderFlags[i][1] : i \in DOMAIN HeaderFlags} |->
               \E i \in DOMAIN HeaderFlags : HeaderFlags[i][1] = f /\ Bit(bits, HeaderFlags[i][2])]

Sections == <<"questions", "answers", "authorities", "additionals">>

PackInternal(h, counts) == U16(h.id) \o U16(HeaderBits(h)) \o Each(U16, counts)

\* Everything of a section, unless something before it failed.
RECURSIVE PackAll(_, _, _)
PackAll(w, items, question) ==
    IF w = Fail \/ items = << >> THEN w
    ELSE PackAll(IF question THEN PackQuestion(w, items[1]) ELSE PackResource(w, items[1]),
                 Tail(items), question)

Pack(m) ==
    LET counts == [i \in 1 .. 4 |-> Len(m[Sections[i]])]
        w == [msg |-> PackInternal(m.header, counts), table |-> {}]
        Packed(r) == IF r = Fail THEN Refused ELSE r.msg
        items == m.answers \o m.authorities \o m.additionals
    IN IF \E i \in 1 .. 4 : counts[i] > 65535 THEN Refused
       ELSE Packed(PackAll(PackAll(w, m.questions, TRUE), items, FALSE))

-----------------------------------------------------------------------------
(* The incremental parser: sections 1 to 4 are the four of Sections, 5 is  *)
(* the end.  Every operation returns the parser and "Ok" with a value,     *)
(* "Done" at the end of a section, or "Bad".                               *)

Outcome(p, result, value) == [p |-> p, result |-> result, value |-> value]

Start(msg) ==
    IF Len(msg) < HEADER_LEN THEN Fail
    ELSE [msg |-> msg, header |-> ReadHeader(Get16(msg, 0), Get16(msg, 2)),
          counts |-> [i \in 1 .. 4 |-> Get16(msg, 2 + 2 * i)],
          section |-> 1, off |-> HEADER_LEN, index |-> 0, res_header_valid |-> FALSE, res_header |-> << >>]

check_advance(p, sec) ==
    LET q == [p EXCEPT !.res_header_valid = FALSE]
    IN IF p.section < sec THEN Outcome(p, "Bad", << >>)
       ELSE IF p.section > sec THEN Outcome(p, "Done", << >>)
       ELSE IF p.index = p.counts[sec]
         THEN Outcome([q EXCEPT !.index = 0, !.section = @ + 1], "Done", << >>)
       ELSE Outcome(q, "Ok", << >>)

question(p0) ==
    LET Read(p, named) ==
            IF named = Fail THEN Outcome(p, "Bad", << >>)
            ELSE IF named.end + 4 > Len(p.msg) THEN Outcome(p, "Bad", << >>)
            ELSE Outcome([p EXCEPT !.off = named.end + 4, !.index = @ + 1], "Ok",
                         [name |-> named.name, typ |-> DnsType(Get16(p.msg, named.end)),
                          class |-> Get16(p.msg, named.end + 2)])
        After(a) == IF a.result # "Ok" THEN a ELSE Read(a.p, UnpackName(a.p.msg, a.p.off))
    IN After(check_advance(p0, 1))

skip_question(p0) ==
    LET a == check_advance(p0, 1)
        p == a.p
        named == SkipName(p.msg, p.off)
    IN IF a.result # "Ok" THEN a
       ELSE IF named = Fail THEN Outcome(p, "Bad", << >>)
       ELSE IF named.end + 4 > Len(p.msg) THEN Outcome(p, "Bad", << >>)
       ELSE Outcome([p EXCEPT !.off = named.end + 4, !.index = @ + 1], "Ok", << >>)

\* The header read last is given again until its body is read or skipped.
resource_header(p0, sec) ==
    LET Read(p, read) ==
            IF read = Fail THEN Outcome(p, "Bad", << >>)
            ELSE Outcome([p EXCEPT !.res_header_valid = TRUE, !.res_header = read.header, !.off = read.end],
                         "Ok", read.header)
        After(a) == IF a.result # "Ok" THEN a ELSE Read(a.p, UnpackHeader(a.p.msg, a.p.off))
    IN IF p0.res_header_valid THEN Outcome(p0, "Ok", p0.res_header) ELSE After(check_advance(p0, sec))

resource(p0, sec) ==
    LET Read(p, header, read) ==
            IF read = Fail THEN Outcome(p, "Bad", << >>)
            ELSE Outcome([p EXCEPT !.off = read.end, !.index = @ + 1], "Ok", [header |-> header, body |-> read.body])
        After(h) ==
            IF h.result # "Ok" THEN h
            ELSE Read([h.p EXCEPT !.res_header_valid = FALSE], h.value,
                      unpack_resource_body(h.value.typ, h.p.msg, h.p.off, h.value.length))
    IN After(resource_header(p0, sec))

skip_resource(p0, sec) ==
    LET a == check_advance(p0, sec)
        p == a.p
        body == p0.off + p0.res_header.length
        skipped == SkipResource(p.msg, p.off)
    IN IF p0.res_header_valid
         THEN IF body > Len(p0.msg) THEN Outcome(p0, "Bad", << >>)
              ELSE Outcome([p0 EXCEPT !.off = body, !.res_header_valid = FALSE, !.index = @ + 1], "Ok", << >>)
       ELSE IF a.result # "Ok" THEN a
       ELSE IF skipped = Fail THEN Outcome(p, "Bad", << >>)
       ELSE Outcome([p EXCEPT !.off = skipped.end, !.index = @ + 1], "Ok", << >>)

\* A body alone moves on by the length its header gives.
resource_body(p) ==
    LET read == unpack_resource_body(p.res_header.typ, p.msg, p.off, p.res_header.length)
    IN IF ~p.res_header_valid THEN Outcome(p, "Bad", << >>)
       ELSE IF read = Fail THEN Outcome(p, "Bad", << >>)
       ELSE Outcome([p EXCEPT !.off = @ + p.res_header.length, !.res_header_valid = FALSE, !.index = @ + 1],
                    "Ok", read.body)

\* Everything of a section, parsed or skipped.
RECURSIVE AllOf(_, _, _, _), AllAfter(_, _, _, _)
AllAfter(o, sec, skip, done) ==
    IF o.result = "Ok" THEN AllOf(o.p, sec, skip, Append(done, o.value))
    ELSE Outcome(o.p, IF o.result = "Done" THEN "Ok" ELSE "Bad", done)
AllOf(p, sec, skip, done) ==
    AllAfter(IF sec = 1 THEN IF skip THEN skip_question(p) ELSE question(p)
             ELSE IF skip THEN skip_resource(p, sec) ELSE resource(p, sec), sec, skip, done)

all_questions(p) == AllOf(p, 1, FALSE, << >>)
skip_all_questions(p) == AllOf(p, 1, TRUE, << >>)
all_resources(p, sec) == AllOf(p, sec, FALSE, << >>)
skip_all_resources(p, sec) == AllOf(p, sec, TRUE, << >>)

\* The sections one after the other; done has what was read of those before.
RECURSIVE AllSections(_, _, _)
AllSections(o, sec, done) ==
    IF o.result # "Ok" THEN Fail
    ELSE IF sec = 4 THEN [sections |-> Append(done, o.value)]
    ELSE AllSections(all_resources(o.p, sec + 1), sec + 1, Append(done, o.value))

Unpack(msg) ==
    LET p == Start(msg)
        Read(r) == IF r = Fail THEN Fail
                   ELSE [f \in {"header"} |-> p.header] @@ [f \in ToSet(Sections) |->
                            r.sections[CHOOSE i \in 1 .. 4 : Sections[i] = f]]
    IN IF p = Fail THEN Fail ELSE Read(AllSections(all_questions(p), 1, << >>))

-----------------------------------------------------------------------------
(* The incremental builder.  Section 0 is the header's; a question or      *)
(* resource that cannot be packed takes the message with it, which only    *)
(* finish reports.                                                         *)

NewBuilder(h) ==
    [w |-> [msg |-> Zeros(HEADER_LEN), table |-> None], section |-> 0, header |-> h, counts |-> <<0, 0, 0, 0>>]

enable_compression(b) == [b EXCEPT !.w.table = {}]

StartSection(b, sec) == IF b.section > sec THEN Fail ELSE [b EXCEPT !.section = sec]

\* What a call leaves: the builder, and whether it returned an error.
Added(b, w) ==
    IF w = Fail THEN [b |-> [b EXCEPT !.w = Fail], ok |-> FALSE]
    ELSE IF b.counts[b.section] = 65535 THEN [b |-> [b EXCEPT !.w = Fail], ok |-> FALSE]
    ELSE [b |-> [b EXCEPT !.w = w, !.counts[b.section] = @ + 1], ok |-> TRUE]

add_question(b, q) ==
    IF b.section # 1 THEN [b |-> b, ok |-> FALSE]
    ELSE IF b.w = Fail THEN [b |-> b, ok |-> TRUE]
    ELSE Added(b, PackQuestion(b.w, q))

add_resource(b, r) ==
    IF b.section \notin 2 .. 4 THEN [b |-> b, ok |-> FALSE]
    ELSE IF b.w = Fail THEN [b |-> b, ok |-> TRUE]
    ELSE Added(b, PackResource(b.w, r))

finish(b) ==
    IF b.w = Fail THEN Refused ELSE PackInternal(b.header, b.counts) \o From(b.w.msg, HEADER_LEN)

=============================================================================
