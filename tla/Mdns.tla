-------------------------------- MODULE Mdns --------------------------------
(***************************************************************************)
(* The mDNS endpoints of rtc-mdns on one multicast group: queries, their   *)
(* retries and timeouts, answers to questions about local names.  The      *)
(* messages are the bytes DnsWire writes.  A datagram that was sent stays  *)
(* in net: it may reach each endpoint late, twice or never.  Instants are  *)
(* kept as distances from now: age for start_time, next_retry and          *)
(* next_timeout as the time left.                                          *)
(***************************************************************************)
EXTENDS DnsWire, FiniteSets

CONSTANTS
    Node,
    local_names,     \* the names an endpoint answers for
    local_ip,        \* its address, as 4 or 16 bytes, or <<>> for none
    src_ip,          \* the address its datagrams come from
    Foreign,         \* datagrams of other responders, with their source
    Wanted,          \* what the application of each endpoint asks for
    query_interval, query_timeout,   \* query_timeout 0: none
    MaxQueries,
    MaxOut           \* a datagram is read when less than this waits to be sent

MAX_MESSAGE_RECORDS == 3
RESPONSE_TTL == 120
Never == query_interval + 1

VARIABLES mdns, net, asked, told
vars == <<mdns, net, asked, told>>

Dotted(name) == IF name[Len(name)] = <<>> THEN name ELSE Append(name, <<>>)

New(n) ==
    [local_names |-> {Dotted(name) : name \in local_names[n]}, queries |-> << >>, next_query_id |-> 1,
     write_outs |-> << >>, event_outs |-> << >>, next_timeout |-> Never, closed |-> FALSE]

Retain(s, id) == [s EXCEPT !.queries = SelectSeq(@, LAMBDA q : q.id # id)]

update_next_timeout(s) ==
    LET times == {s.queries[i].next_retry : i \in DOMAIN s.queries}
    IN [s EXCEPT !.next_timeout = IF times = {} THEN Never ELSE CHOOSE t \in times : \A u \in times : t <= u]

-----------------------------------------------------------------------------
(* Sending.                                                                *)

PlainHeader == [f \in {"id", "op_code", "rcode"} |-> 0] @@ [f \in {HeaderFlags[i][1] : i \in 1 .. 5} |-> FALSE]
EmptyMessage ==
    [header |-> PlainHeader, questions |-> << >>, answers |-> << >>, authorities |-> << >>, additionals |-> << >>]

\* A message that cannot be packed is not sent.
Queue(s, m) == IF Pack(m) = Refused THEN s ELSE [s EXCEPT !.write_outs = Append(@, Pack(m))]

send_question(s, name) ==
    IF NameLen(name) > NAME_LEN THEN s
    ELSE Queue(s, [EmptyMessage EXCEPT
             !.questions = <<[name |-> name, typ |-> Type.A, class |-> DNSCLASS_INET]>>])

send_answer(s, ip, name) ==
    IF NameLen(name) > NAME_LEN \/ Len(ip) # 4 THEN s
    ELSE Queue(s, [EmptyMessage EXCEPT
             !.header.response = TRUE, !.header.authoritative = TRUE,
             !.answers = <<[header |-> [name |-> name, typ |-> Type.A, class |-> DNSCLASS_INET,
                                        ttl |-> RESPONSE_TTL, length |-> 0],
                            body |-> [typ |-> Type.A, addr |-> ip]]>>])

-----------------------------------------------------------------------------
(* Receiving.                                                              *)

RECURSIVE AnswerAll(_, _, _)
AnswerAll(s, ip, names) ==
    IF names = << >> THEN s ELSE AnswerAll(send_answer(s, ip, names[1]), ip, Tail(names))

\* Up to MAX_MESSAGE_RECORDS + 1 questions are looked at; one that cannot be
\* read ends the handling of the questions, and none is answered.
RECURSIVE Questions(_, _, _, _)
Questions(s, p, k, names) ==
    LET q == question(p)
    IN IF k > MAX_MESSAGE_RECORDS \/ q.result = "Done"
         THEN [p |-> skip_all_questions(IF k > MAX_MESSAGE_RECORDS THEN p ELSE q.p).p, names |-> names]
       ELSE IF q.result = "Bad" THEN [p |-> q.p, names |-> << >>]
       ELSE Questions(s, q.p, k + 1,
                      IF q.value.name \in s.local_names THEN Append(names, q.value.name) ELSE names)

process_questions(s, p, ip) ==
    LET read == Questions(s, p, 0, << >>)
    IN [s |-> IF ip = << >> THEN s ELSE AnswerAll(s, ip, read.names), p |-> read.p]

\* Mutant: an answered query is reported and stays.
RECURSIVE ReportOnly(_, _, _)
ReportOnly(s, ids, ip) ==
    IF ids = << >> THEN s
    ELSE ReportOnly([s EXCEPT !.event_outs = Append(@, [id |-> ids[1], answered |-> TRUE, ip |-> ip])], Tail(ids), ip)

\* The queries an answer is for are over, and reported in any order.
RECURSIVE Report(_, _, _)
Report(s, ids, ip) ==
    IF ids = << >> THEN s
    ELSE Report(Retain([s EXCEPT !.event_outs = Append(@, [id |-> ids[1], answered |-> TRUE, ip |-> ip])], ids[1]),
                Tail(ids), ip)

\* Mutant: an answer is taken for every query.
AnyQuery(s, name) == {s.queries[i].id : i \in DOMAIN s.queries}

Matching(s, name) == {s.queries[i].id : i \in {j \in DOMAIN s.queries : s.queries[j].name_with_suffix = name}}

\* The endpoints that may result.  A record that is no address is not skipped:
\* its header is read again until the limit.
RECURSIVE process_answers(_, _, _, _)
process_answers(s, p, src, k) ==
    LET h == resource_header(p, 2)
        a == resource(h.p, 2)
        ip == IF a.value.body.typ = Type.A THEN a.value.body.addr ELSE src
    IN IF k > MAX_MESSAGE_RECORDS \/ h.result # "Ok" THEN {s}
       ELSE IF h.value.typ \notin {Type.A, Type.Aaaa} THEN process_answers(s, h.p, src, k + 1)
       ELSE IF a.result # "Ok" THEN {s}
       ELSE UNION {process_answers(Report(s, ids, ip), a.p, src, k + 1) :
                       ids \in SetToSeqs(Matching(s, h.value.name))}

process_message(s, ip, src, bytes) ==
    LET p == Start(bytes)
        q == process_questions(s, p, ip)
    IN IF p = Fail THEN {s} ELSE process_answers(q.s, q.p, src, 0)

-----------------------------------------------------------------------------

Init ==
    /\ mdns = [n \in Node |-> New(n)]
    /\ net = Foreign
    /\ asked = [n \in Node |-> << >>]
    /\ told = [n \in Node |-> << >>]

\* query: the question goes out at once, the first retry is an interval away.
query(n, name) ==
    LET s == mdns[n]
        full == Dotted(name)
        q == [id |-> s.next_query_id, name_with_suffix |-> full, age |-> 0, next_retry |-> query_interval]
        with == [s EXCEPT !.next_query_id = @ + 1, !.queries = Append(@, q)]
    IN /\ s.next_query_id <= MaxQueries
       /\ mdns' = [mdns EXCEPT ![n] = update_next_timeout(send_question(with, full))]
       /\ asked' = [asked EXCEPT ![n] = Append(@, full)]
       /\ UNCHANGED <<net, told>>

cancel_query(n, id) ==
    /\ \E i \in DOMAIN mdns[n].queries : mdns[n].queries[i].id = id
    /\ mdns' = [mdns EXCEPT ![n] = update_next_timeout(Retain(@, id))]
    /\ UNCHANGED <<net, asked, told>>

\* A closed endpoint returns an error and stays as it is.
handle_read(n, d) ==
    /\ d \in net
    /\ ~mdns[n].closed
    /\ Len(mdns[n].write_outs) < MaxOut
    /\ \E s \in process_message(mdns[n], local_ip[n], d.src, d.bytes) :
           mdns' = [mdns EXCEPT ![n] = update_next_timeout(s)]
    /\ UNCHANGED <<net, asked, told>>

poll_write(n) ==
    /\ mdns[n].write_outs # << >>
    /\ net' = net \cup {[src |-> src_ip[n], bytes |-> Head(mdns[n].write_outs)]}
    /\ mdns' = [mdns EXCEPT ![n].write_outs = Tail(@)]
    /\ UNCHANGED <<asked, told>>

poll_event(n) ==
    /\ mdns[n].event_outs # << >>
    /\ told' = [told EXCEPT ![n] = Append(@, Head(mdns[n].event_outs))]
    /\ mdns' = [mdns EXCEPT ![n].event_outs = Tail(@)]
    /\ UNCHANGED <<net, asked>>

RECURSIVE TimeOut(_, _)
TimeOut(s, ids) ==
    IF ids = << >> THEN s
    ELSE TimeOut(Retain([s EXCEPT !.event_outs = Append(@, [id |-> ids[1], answered |-> FALSE])], ids[1]), Tail(ids))

RECURSIVE AskAgain(_, _)
AskAgain(s, names) == IF names = << >> THEN s ELSE AskAgain(send_question(s, names[1]), Tail(names))

\* Mutant: the timer is not set again.
DueOnce(s0) ==
    LET old == SelectSeq(s0.queries, LAMBDA q : query_timeout # 0 /\ q.age >= query_timeout)
        s == TimeOut(s0, [i \in DOMAIN old |-> old[i].id])
        due == SelectSeq(s.queries, LAMBDA q : q.next_retry <= 0)
    IN [AskAgain(s, [i \in DOMAIN due |-> due[i].name_with_suffix]) EXCEPT !.next_timeout = Never]

\* Queries that are too old are given up, the others that are due asked again.
Due(s0) ==
    LET old == SelectSeq(s0.queries, LAMBDA q : query_timeout # 0 /\ q.age >= query_timeout)
        s == TimeOut(s0, [i \in DOMAIN old |-> old[i].id])
        due == SelectSeq(s.queries, LAMBDA q : q.next_retry <= 0)
        again == [s EXCEPT !.queries = [i \in DOMAIN @ |->
                     IF @[i].next_retry <= 0 THEN [@[i] EXCEPT !.next_retry = query_interval] ELSE @[i]]]
    IN update_next_timeout(AskAgain(again, [i \in DOMAIN due |-> due[i].name_with_suffix]))

handle_timeout(n) ==
    /\ ~mdns[n].closed
    /\ mdns[n].next_timeout <= 0
    /\ mdns' = [mdns EXCEPT ![n] = Due(@)]
    /\ UNCHANGED <<net, asked, told>>

close(n) ==
    /\ ~mdns[n].closed
    /\ mdns' = [mdns EXCEPT ![n].closed = TRUE, ![n].queries = << >>, ![n].write_outs = << >>,
                            ![n].event_outs = << >>, ![n].next_timeout = Never]
    /\ UNCHANGED <<net, asked, told>>

\* Time passes; the caller serves a timeout before the next one.
Tick ==
    /\ \A n \in Node : mdns[n].next_timeout > 0
    /\ \E n \in Node : mdns[n].queries # << >>
    /\ mdns' = [n \in Node |->
           [mdns[n] EXCEPT
               !.next_timeout = IF @ = Never THEN Never ELSE @ - 1,
               !.queries = [i \in DOMAIN @ |-> [@[i] EXCEPT !.age = @ + 1, !.next_retry = @ - 1]]]]
    /\ UNCHANGED <<net, asked, told>>

Next ==
    \/ \E n \in Node :
        \/ \E name \in Wanted[n] : query(n, name)
        \/ \E id \in 1 .. MaxQueries : cancel_query(n, id)
        \/ \E d \in net : handle_read(n, d)
        \/ poll_write(n)
        \/ poll_event(n)
        \/ handle_timeout(n)
        \/ close(n)
    \/ Tick

Spec == Init /\ [][Next]_vars

\* The caller serves the timeouts, and time passes.
FairSpec ==
    /\ Spec /\ WF_vars(Tick)
    /\ \A n \in Node : []<>(mdns[n].closed \/ mdns[n].next_timeout > 0) \/ []<><<handle_timeout(n)>>_vars

-----------------------------------------------------------------------------

Pending(n) == {mdns[n].queries[i].id : i \in DOMAIN mdns[n].queries}
Events(n) == told[n] \o mdns[n].event_outs

\* A query ends once: after its answer or its timeout there is no other event
\* for it, and it is no longer pending.
EndsOnce ==
    \A n \in Node : \A i, j \in DOMAIN Events(n) :
        /\ Events(n)[i].id \notin Pending(n)
        /\ i # j => Events(n)[i].id # Events(n)[j].id

\* An answered query has an address some endpoint or other responder really
\* gives for the name that was asked, however late the answer was.
AnswersTrue ==
    EndsOnce /\ \A n \in Node : \A i \in DOMAIN Events(n) :
        LET e == Events(n)[i]
            name == asked[n][e.id]
        IN e.answered =>
             \/ \E m \in Node : name \in New(m).local_names /\ e.ip = local_ip[m]
             \/ \E d \in Foreign : \E r \in ToSet(Unpack(d.bytes).answers) :
                    r.header.name = name /\ e.ip = IF r.body.typ = Type.A THEN r.body.addr ELSE d.src

Waiting(n) == Pending(n) # {} /\ ~mdns[n].closed

\* With a timeout configured every query is answered, given up or canceled: a
\* lost question or answer leaves none pending for good, once no more are made.
\* (A query made after close is never served.)
Resolved == (\E n \in Node : Waiting(n)) ~> (\A n \in Node : ~Waiting(n))
=============================================================================
