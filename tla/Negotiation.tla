---------------------------- MODULE Negotiation ----------------------------
(***************************************************************************)
(* Offer and answer in the core: signalling states, transceivers and their *)
(* mids, the negotiation-needed flag, and the start of the transports.     *)
(* Two peers run the perfect-negotiation application of the repository:    *)
(* either may offer at any time, the polite one yields.  Descriptions      *)
(* reach the other peer in order.                                          *)
(*                                                                         *)
(* A description keeps its sections (mid, kind, direction, track), its ICE *)
(* credentials (a generation), its DTLS setup role and its session version.*)
(* Codecs are supported on both sides; encodings are left out.  An error   *)
(* ends the application's loop, as its `?` does.  negotiation_needed_state *)
(* is Empty between calls and left out: no call re-enters another.         *)
(***************************************************************************)
EXTENDS Integers, Sequences, FiniteSets, SequencesExt

CONSTANTS
    Plans,      \* what the users do: peer -> sequence of commands
    MaxChannels \* bound on channel ids

VARIABLES
    plan,       \* commands still to come
    pc,         \* the peers: connection and application
    wire,       \* descriptions under way to each peer
    rolled,     \* the polite peer took back an offer
    missed      \* the peer's connection changed while it was not stable

vars == <<plan, pc, wire, rolled, missed>>

Peers == {"polite", "impolite"}
Other(x) == IF x = "polite" THEN "impolite" ELSE "polite"

NoMid == -1
NoTrack == 0
NoReceiver == -1
NoDesc == [typ |-> "none", ver |-> 0, media |-> <<>>, ufrag |-> 0, setup |-> "none"]
Application == "application"

NewPeer ==
    [sig |-> "Stable", trs |-> <<>>, chans |-> {}, greater |-> -1, ver |-> 0,
     pl |-> NoDesc, cl |-> NoDesc, pr |-> NoDesc, cr |-> NoDesc,
     last_offer |-> 0, last_answer |-> 0, ongoing |-> FALSE, need |-> FALSE,
     restart |-> FALSE, ufrag |-> 1, remote |-> 0, ice |-> "New", dtls |-> "auto",
     sctp |-> FALSE, pending |-> FALSE, err |-> FALSE]

(***************************************************************************)
(* Directions.                                                             *)
(***************************************************************************)
has_send(d) == d \in {"sendrecv", "sendonly"}
has_recv(d) == d \in {"sendrecv", "recvonly"}

from_send_recv(s, r) ==
    CASE s /\ r -> "sendrecv" [] s /\ ~r -> "sendonly"
      [] ~s /\ r -> "recvonly" [] OTHER -> "inactive"

reverse(d) ==
    CASE d = "sendonly" -> "recvonly" [] d = "recvonly" -> "sendonly" [] OTHER -> d

(***************************************************************************)
(* Transceivers.  recv is NoReceiver, or the remote track the receiver     *)
(* was given (NoTrack before).                                             *)
(***************************************************************************)
NewTransceiver(kind, track, dir) ==
    [mid |-> NoMid, kind |-> kind, sender |-> track, dir |-> dir, cur |-> "none",
     recv |-> IF has_recv(dir) THEN NoTrack ELSE NoReceiver,
     stopped |-> FALSE, negotiated |-> FALSE, sent |-> FALSE]

stop(t) ==
    IF t.stopped THEN t
    ELSE [t EXCEPT !.stopped = TRUE, !.negotiated = FALSE, !.sent = FALSE,
                   !.dir = "inactive", !.cur = "inactive"]

set_negotiated(t) == [t EXCEPT !.negotiated = @ \/ t.sender # NoTrack]

\* The first element that satisfies P, 0 if there is none.
First(s, P(_)) == SelectInSeq(s, P)
find_by_mid(p, mid) == First(p.trs, LAMBDA t : t.mid = mid)
get_by_mid(d, mid) == First(d.media, LAMBDA m : m.mid = mid)
get_application_media(d) == First(d.media, LAMBDA m : m.kind = Application)

preferred_directions(remote) ==
    CASE remote = "sendrecv" -> <<"recvonly", "sendrecv">>
      [] remote = "sendonly" -> <<"recvonly">>
      [] remote = "recvonly" -> <<"sendonly", "sendrecv">>
      [] OTHER -> <<>>

satisfy_type_and_direction(p, kind, remote) ==
    LET fits(d) == First(p.trs, LAMBDA t : t.mid = NoMid /\ t.kind = kind /\ t.dir = d)
        found == SelectSeq([k \in DOMAIN preferred_directions(remote) |->
                              fits(preferred_directions(remote)[k])], LAMBDA i : i # 0)
    IN IF found = <<>> THEN 0 ELSE Head(found)

remote_description(p) == IF p.pr # NoDesc THEN p.pr ELSE p.cr

(***************************************************************************)
(* The negotiation-needed flag.                                            *)
(***************************************************************************)
NeedsSection(p, t) ==
    LET i == get_by_mid(p.cl, t.mid)
        j == get_by_mid(p.cr, t.mid)
    IN \/ i = 0
       \/ has_send(t.dir) /\ (t.sender = NoTrack \/ p.cl.media[i].track # t.sender)
       \/ /\ p.cl.typ = "offer"
          /\ p.cr # NoDesc
          /\ \/ j = 0
             \/ p.cl.media[i].dir # t.dir /\ p.cr.media[j].dir # reverse(t.dir)
       \/ p.cl.typ = "answer" /\ p.cl.media[i].dir # t.dir

check_negotiation_needed(p) ==
    \/ p.cl = NoDesc
    \/ p.chans # {} /\ get_application_media(p.cl) = 0
    \/ \E k \in DOMAIN p.trs : NeedsSection(p, p.trs[k])

trigger_negotiation_needed(p) ==
    IF p.sig # "Stable" THEN p
    ELSE IF ~check_negotiation_needed(p) THEN [p EXCEPT !.ongoing = FALSE]
    ELSE IF p.ongoing THEN p
    ELSE [p EXCEPT !.ongoing = TRUE, !.need = TRUE]

add_rtp_transceiver(p, t) ==
    trigger_negotiation_needed([p EXCEPT !.trs = Append(@, t)])

(***************************************************************************)
(* What the application does to its connection.                            *)
(***************************************************************************)
add_track(p, kind, track) ==
    LET i == First(p.trs, LAMBDA t : ~t.stopped /\ t.kind = kind /\ t.sender = NoTrack)
    IN IF i = 0 THEN add_rtp_transceiver(p, NewTransceiver(kind, track, "sendrecv"))
       ELSE trigger_negotiation_needed(
              [p EXCEPT !.trs[i] = [@ EXCEPT !.sender = track, !.negotiated = FALSE,
                                             !.sent = FALSE,
                                             !.dir = from_send_recv(TRUE, has_recv(@))]])

remove_track(p, i) ==
    LET q == [p EXCEPT !.trs[i] = [@ EXCEPT !.dir = from_send_recv(FALSE, has_recv(@)),
                                            !.negotiated = FALSE, !.sent = FALSE]]
        r == IF q.trs[i].sender = NoTrack THEN q ELSE trigger_negotiation_needed(q)
    IN [r EXCEPT !.trs[i].sender = NoTrack]

add_transceiver_from_kind(p, kind) ==
    add_rtp_transceiver(p, NewTransceiver(kind, NoTrack, "recvonly"))

set_direction(p, i, d) ==
    LET q == [p EXCEPT !.trs[i].dir = d]
    IN IF p.trs[i].dir = d THEN p ELSE trigger_negotiation_needed(q)

generate_data_channel_id(p) ==
    LET free == {id \in 0 .. MaxChannels - 2 : /\ id % 2 = (IF p.dtls = "client" THEN 0 ELSE 1)
                                               /\ id \notin p.chans}
    IN IF free = {} THEN NoMid ELSE CHOOSE id \in free : \A o \in free : id <= o

create_data_channel(p) ==
    LET id == generate_data_channel_id(p)
    IN IF id = NoMid THEN [p EXCEPT !.err = TRUE]
       ELSE trigger_negotiation_needed([p EXCEPT !.chans = @ \cup {id}])

restart_ice(p) == [p EXCEPT !.restart = TRUE]

\* New local credentials; the remote ones are forgotten.
ice_restart(p) == [p EXCEPT !.ufrag = @ + 1, !.remote = 0]

(***************************************************************************)
(* Descriptions.  A section of a transceiver states its kind, direction    *)
(* and track; the data section's mid is the number of sections before it.  *)
(***************************************************************************)
Section(t, mid) == [mid |-> mid, kind |-> t.kind, dir |-> t.dir, track |-> t.sender]
DataSection(mid) == [mid |-> mid, kind |-> Application, dir |-> "none", track |-> NoTrack]

populate_sdp(p, typ, media, setup) ==
    [typ |-> typ, ver |-> p.ver + 1, media |-> media, ufrag |-> p.ufrag, setup |-> setup]

\* Adds sections for the transceivers in ks, in order, and for data.
WithLocal(p, matched, ks) ==
    LET more == [k \in DOMAIN ks |-> Section(p.trs[ks[k]], p.trs[ks[k]].mid)]
        all == matched \o more
    IN IF p.chans # {} /\ ~\E k \in DOMAIN all : all[k].kind = Application
       THEN Append(all, DataSection(Len(all))) ELSE all

Indices(p) == [k \in DOMAIN p.trs |-> k]

generate_unmatched_sdp(p) == WithLocal(p, <<>>, Indices(p))

MatchedSections(p) ==
    LET media == remote_description(p).media
    IN [k \in DOMAIN media |->
          IF media[k].kind = Application THEN DataSection(media[k].mid)
          ELSE Section(p.trs[find_by_mid(p, media[k].mid)], media[k].mid)]

\* A media section of the remote description without a transceiver.
Unmatched(p) ==
    \E k \in DOMAIN remote_description(p).media :
        LET m == remote_description(p).media[k]
        IN m.kind # Application /\ find_by_mid(p, m.mid) = 0

\* Mutant: new sections come before the negotiated ones.
generate_matched_sdpNewFirst(p, include_unmatched) ==
    LET matched == MatchedSections(p)
        already == {matched[k].mid : k \in DOMAIN matched}
        rest == SelectSeq(Indices(p), LAMBDA k : p.trs[k].mid \notin already)
    IN IF include_unmatched THEN WithLocal(p, <<>>, rest) \o matched ELSE matched

generate_matched_sdp(p, include_unmatched) ==
    LET matched == MatchedSections(p)
        already == {matched[k].mid : k \in DOMAIN matched}
        rest == SelectSeq(Indices(p), LAMBDA k : p.trs[k].mid \notin already)
    IN IF include_unmatched THEN WithLocal(p, matched, rest) ELSE matched

\* The senders of the sections in media become negotiated.
Negotiating(p, media) ==
    [p EXCEPT !.trs = [k \in DOMAIN @ |->
        IF \E m \in DOMAIN media : media[m].mid = @[k].mid /\ media[m].kind # Application
        THEN set_negotiated(@[k]) ELSE @[k]]]

\* greater_mid is taken past every mid in use; then every transceiver gets one.
AssignMids(p) ==
    LET seen(q) == {q.cr.media[m].mid : m \in DOMAIN q.cr.media} \cup {q.greater}
        start == [p EXCEPT !.greater = CHOOSE n \in seen(p) : \A o \in seen(p) : o <= n]
        one(q, k) ==
            IF q.trs[k].mid = NoMid
            THEN [q EXCEPT !.greater = @ + 1, !.trs[k].mid = q.greater + 1]
            ELSE [q EXCEPT !.greater = IF q.trs[k].mid > @ THEN q.trs[k].mid ELSE @]
    IN FoldLeft(one, start, Indices(p))

\* The offer d and the connection p after it.
create_offer(p) ==
    LET q == AssignMids(IF p.restart THEN ice_restart([p EXCEPT !.restart = FALSE]) ELSE p)
        media == IF q.cr = NoDesc THEN generate_unmatched_sdp(q) ELSE generate_matched_sdp(q, TRUE)
    IN IF q.cr # NoDesc /\ Unmatched(q) THEN [d |-> NoDesc, p |-> [q EXCEPT !.err = TRUE]]
       ELSE [d |-> populate_sdp(q, "offer", media, "actpass"),
             p |-> [Negotiating(q, media) EXCEPT !.ver = @ + 1, !.last_offer = q.ver + 1]]

create_answer(p) ==
    LET media == generate_matched_sdp(p, FALSE)
    IN IF \/ remote_description(p) = NoDesc
          \/ p.sig \notin {"HaveRemoteOffer", "HaveLocalPranswer"}
          \/ Unmatched(p)
       THEN [d |-> NoDesc, p |-> [p EXCEPT !.err = TRUE]]
       ELSE [d |-> populate_sdp(p, "answer", media, "active"),
             p |-> [Negotiating(p, media) EXCEPT !.ver = @ + 1, !.last_answer = p.ver + 1]]

(***************************************************************************)
(* Setting descriptions.                                                   *)
(***************************************************************************)
check_next_signaling_state ==
    {<<"Stable", "SetLocal", "offer", "HaveLocalOffer">>,
     <<"Stable", "SetRemote", "offer", "HaveRemoteOffer">>,
     <<"HaveLocalOffer", "SetRemote", "answer", "Stable">>,
     <<"HaveLocalOffer", "SetRemote", "pranswer", "HaveRemotePranswer">>,
     <<"HaveLocalOffer", "SetLocal", "offer", "HaveLocalOffer">>,
     <<"HaveLocalOffer", "SetLocal", "rollback", "Stable">>,
     <<"HaveRemotePranswer", "SetRemote", "answer", "Stable">>,
     <<"HaveRemoteOffer", "SetLocal", "answer", "Stable">>,
     <<"HaveRemoteOffer", "SetLocal", "pranswer", "HaveLocalPranswer">>,
     <<"HaveRemoteOffer", "SetRemote", "rollback", "Stable">>,
     <<"HaveLocalPranswer", "SetLocal", "answer", "Stable">>}

\* Where the descriptions go, the state apart.
Placed(p, op, d) ==
    CASE d.typ \in {"offer", "pranswer"} /\ op = "SetLocal" -> [p EXCEPT !.pl = d]
      [] d.typ \in {"offer", "pranswer"} /\ op = "SetRemote" -> [p EXCEPT !.pr = d]
      [] d.typ = "answer" /\ op = "SetLocal" ->
            [p EXCEPT !.cl = d, !.cr = p.pr, !.pl = NoDesc, !.pr = NoDesc]
      [] d.typ = "answer" /\ op = "SetRemote" ->
            [p EXCEPT !.cr = d, !.cl = p.pl, !.pl = NoDesc, !.pr = NoDesc]
      [] d.typ = "rollback" /\ op = "SetLocal" -> [p EXCEPT !.pl = NoDesc]
      [] d.typ = "rollback" /\ op = "SetRemote" -> [p EXCEPT !.pr = NoDesc]

\* Mutant: the flag of a negotiation under way survives its end.
set_descriptionOngoing(p, op, d) ==
    LET steps == {s \in check_next_signaling_state : s[1] = p.sig /\ s[2] = op /\ s[3] = d.typ}
    IN IF steps = {} THEN [p EXCEPT !.err = TRUE]
       ELSE [Placed(p, op, d) EXCEPT !.sig = (CHOOSE s \in steps : TRUE)[4]]

set_description(p, op, d) ==
    LET steps == {s \in check_next_signaling_state : s[1] = p.sig /\ s[2] = op /\ s[3] = d.typ}
        known == CASE op = "SetLocal" /\ d.typ = "offer" -> d.ver = p.last_offer
                   [] op = "SetLocal" /\ d.typ \in {"answer", "pranswer"} -> d.ver = p.last_answer
                   [] OTHER -> TRUE
        next == (CHOOSE s \in steps : TRUE)[4]
    IN IF steps = {} \/ ~known THEN [p EXCEPT !.err = TRUE]
       ELSE [Placed(p, op, d) EXCEPT !.sig = next,
                                     !.ongoing = IF next = "Stable" THEN FALSE ELSE @]

\* Senders that are negotiated start; receivers get the tracks announced to them.
start_rtp(p, d) ==
    LET told(t) == {m \in DOMAIN d.media : /\ d.media[m].mid = t.mid
                                           /\ d.media[m].kind = t.kind
                                           /\ has_send(d.media[m].dir)
                                           /\ d.media[m].track # NoTrack}
        one(t) == [t EXCEPT
            !.sent = @ \/ (t.sender # NoTrack /\ t.negotiated),
            !.recv = IF has_recv(t.dir) /\ @ # NoReceiver /\ told(t) # {}
                     THEN d.media[CHOOSE m \in told(t) : TRUE].track ELSE @]
    IN [p EXCEPT !.trs = [k \in DOMAIN @ |-> one(@[k])]]

\* With application media on both sides SCTP starts; then RTP does.
StartMedia(p, d) ==
    start_rtp([p EXCEPT !.sctp = @ \/ (/\ get_application_media(p.cl) # 0
                                       /\ get_application_media(d) # 0)], d)

derive_role(controlling, setup) ==
    CASE setup = "active" -> "server" [] setup = "passive" -> "client"
      [] OTHER -> IF controlling THEN "server" ELSE "client"

start_transports(p, controlling, d) ==
    IF p.ice # "New" THEN [p EXCEPT !.err = TRUE]
    ELSE [p EXCEPT !.ice = IF controlling THEN "Controlling" ELSE "Controlled",
                   !.remote = d.ufrag, !.dtls = derive_role(controlling, d.setup)]

\* The current direction of the transceiver of section m of our answer.
answered(p, m) ==
    LET i == find_by_mid(p, m.mid)
    IN [p EXCEPT !.trs[i].cur = IF m.dir = "sendonly" /\ p.trs[i].sender = NoTrack
                                THEN "inactive" ELSE m.dir]

MediaOf(d) == SelectSeq(d.media, LAMBDA m : m.kind # Application)

set_local_description(p, d) ==
    LET q == set_description(p, "SetLocal", d)
        lost == \E k \in DOMAIN MediaOf(d) : find_by_mid(q, MediaOf(d)[k].mid) = 0
    IN IF q.err \/ d.typ # "answer" THEN q
       ELSE IF lost THEN [q EXCEPT !.err = TRUE]
       ELSE StartMedia(FoldLeft(answered, q, MediaOf(d)), remote_description(q))

\* What we do next, given what the peer offers to do and what we do now.
OfferedDirection(remote, ours) ==
    CASE remote = "recvonly" /\ ours = "sendrecv" -> "sendonly"
      [] remote = "recvonly" /\ ours = "recvonly" -> "inactive"
      [] remote = "sendrecv" /\ ours = "sendonly" -> "sendrecv"
      [] remote = "sendrecv" /\ ours = "inactive" -> "recvonly"
      [] remote = "sendonly" /\ ours = "inactive" -> "recvonly"
      [] OTHER -> ours

\* Section m of an offer: its transceiver is found by mid, taken over or made.
offered(p, m) ==
    LET i == find_by_mid(p, m.mid)
        j == IF i = 0 THEN satisfy_type_and_direction(p, m.kind, m.dir) ELSE i
        t == IF i # 0 /\ m.dir = "inactive" THEN stop(p.trs[j]) ELSE p.trs[j]
        ours == IF m.dir = "recvonly" THEN "sendonly" ELSE "recvonly"
    IN IF j = 0
       THEN add_rtp_transceiver(p, [NewTransceiver(m.kind, NoTrack, ours) EXCEPT !.mid = m.mid])
       ELSE [p EXCEPT !.trs[j] = [t EXCEPT !.dir = OfferedDirection(m.dir, @), !.mid = m.mid]]

\* Mutant: the direction of the answer is taken for our own.
acceptedAsIs(p, m) ==
    LET i == find_by_mid(p, m.mid)
    IN IF i = 0 THEN [p EXCEPT !.err = TRUE] ELSE [p EXCEPT !.trs[i].cur = m.dir]

\* Section m of an answer to our offer.
accepted(p, m) ==
    LET i == find_by_mid(p, m.mid)
    IN IF i = 0 THEN [p EXCEPT !.err = TRUE] ELSE [p EXCEPT !.trs[i].cur = reverse(m.dir)]

\* New remote credentials; those of an offer restart our side as well.
Credentials(p, d) ==
    IF p.remote = d.ufrag THEN p
    ELSE [(IF d.typ = "answer" THEN p ELSE ice_restart(p)) EXCEPT !.remote = d.ufrag]

set_remote_description(p, d) ==
    LET q == set_description(p, "SetRemote", d)
        we_offer == d.typ = "answer"
        r == FoldLeft(LAMBDA s, m : IF s.err THEN s ELSE IF we_offer THEN accepted(s, m) ELSE offered(s, m),
                      q, MediaOf(d))
        s == IF p.cr # NoDesc THEN Credentials(r, d) ELSE start_transports(r, we_offer, d)
    IN IF q.err \/ d.typ = "rollback" THEN q
       ELSE IF r.err \/ d.media = <<>> THEN [r EXCEPT !.err = TRUE]
       ELSE IF s.err \/ ~we_offer THEN s
       ELSE StartMedia(s, d)

(***************************************************************************)
(* The application.  Its copy of the signalling state equals the core's    *)
(* whenever it waits, and is_making_offer is false then.                   *)
(***************************************************************************)
rollback == [NoDesc EXCEPT !.typ = "rollback"]

\* The connection and the description to send, if any, once it is set here.
SetOwn(o) == [d |-> o.d, p |-> IF o.p.err THEN o.p ELSE set_local_description(o.p, o.d)]

MakeOffer(p) == SetOwn(create_offer(p))

Answer(p) == SetOwn(create_answer(p))

Collision(p, d) == d.typ = "offer" /\ p.sig # "Stable"

\* An offer that was set is answered.
Reply(r, failed, d) ==
    IF failed \/ r.err THEN [d |-> NoDesc, p |-> [r EXCEPT !.err = TRUE]]
    ELSE IF d.typ = "offer" THEN Answer(r)
    ELSE [d |-> NoDesc, p |-> r]

handle_remote_description(x, p, d) ==
    LET q == IF Collision(p, d) THEN set_local_description(p, rollback) ELSE p
    IN IF Collision(p, d) /\ x = "impolite" THEN [d |-> NoDesc, p |-> p]
       ELSE Reply(set_remote_description(q, d), q.err, d)

Send(x, r) == IF r.p.err \/ r.d = NoDesc THEN wire[Other(x)] ELSE Append(wire[Other(x)], r.d)

Init ==
    /\ plan \in Plans
    /\ pc = [x \in Peers |-> NewPeer]
    /\ wire = [x \in Peers |-> <<>>]
    /\ rolled = FALSE
    /\ missed = [x \in Peers |-> FALSE]

Doing(x, op) == ~pc[x].err /\ plan[x] # <<>> /\ Head(plan[x]).op = op

\* The connection of x becomes p; a change while it is not stable is missed.
Done(x, p) ==
    /\ plan' = [plan EXCEPT ![x] = Tail(@)]
    /\ pc' = [pc EXCEPT ![x] = p]
    /\ missed' = [missed EXCEPT ![x] = @ \/ pc[x].sig # "Stable"]
    /\ UNCHANGED <<wire, rolled>>

AddTrack(x) ==
    /\ Doing(x, "track")
    /\ LET c == Head(plan[x]) IN Done(x, add_track(pc[x], c.kind, c.id))

RemoveTrack(x) ==
    /\ Doing(x, "untrack")
    /\ \E i \in DOMAIN pc[x].trs :
          /\ pc[x].trs[i].sender = Head(plan[x]).id
          /\ Done(x, remove_track(pc[x], i))

AddTransceiver(x) ==
    /\ Doing(x, "listen")
    /\ Done(x, add_transceiver_from_kind(pc[x], Head(plan[x]).kind))

SetDirection(x) ==
    /\ Doing(x, "direction")
    /\ \E i \in DOMAIN pc[x].trs : Done(x, set_direction(pc[x], i, Head(plan[x]).kind))

Connect(x) == Doing(x, "connect") /\ Done(x, create_data_channel(pc[x]))

Restart(x) == Doing(x, "restart") /\ Done(x, restart_ice(pc[x]))

Renegotiate(x) == Doing(x, "renegotiate") /\ Done(x, [pc[x] EXCEPT !.pending = TRUE])

\* Peer x is left as r.p, and r.d, if any, is on its way.
Become(x, r, others) ==
    /\ pc' = [pc EXCEPT ![x] = r.p]
    /\ wire' = [others EXCEPT ![Other(x)] = Send(x, r)]

\* The timer arm: events first, then the offer they ask for.
CanTimer(x) == ~pc[x].err /\ (pc[x].need \/ pc[x].pending)

Timer(x) ==
    /\ CanTimer(x)
    /\ LET p == [pc[x] EXCEPT !.need = FALSE, !.pending = FALSE]
       IN Become(x, IF p.sig = "Stable" THEN MakeOffer(p) ELSE [d |-> NoDesc, p |-> p], wire)
    /\ UNCHANGED <<plan, rolled, missed>>

CanReceive(x) == ~pc[x].err /\ wire[x] # <<>>

Receive(x) ==
    /\ CanReceive(x)
    /\ LET d == Head(wire[x])
       IN /\ Become(x, handle_remote_description(x, pc[x], d), [wire EXCEPT ![x] = Tail(@)])
          /\ rolled' = (rolled \/ (x = "polite" /\ Collision(pc[x], d)))
    /\ UNCHANGED <<plan, missed>>

Next ==
    \E x \in Peers :
        \/ AddTrack(x) \/ RemoveTrack(x) \/ AddTransceiver(x) \/ SetDirection(x)
        \/ Connect(x) \/ Restart(x) \/ Renegotiate(x)
        \/ Timer(x) \/ Receive(x)

\* The timer fires every 100 ms and the relay delivers.
Fairness ==
    \A x \in Peers :
        /\ []<>~CanTimer(x) \/ []<><<Timer(x)>>_vars
        /\ []<>~CanReceive(x) \/ []<><<Receive(x)>>_vars

Spec == Init /\ [][Next]_vars /\ Fairness

(***************************************************************************)
(* Properties.                                                             *)
(***************************************************************************)
\* Nothing is under way and neither peer waits for an answer.
Quiet == \A x \in Peers : wire[x] = <<>> /\ pc[x].sig = "Stable"

\* No call the application makes fails: whatever the users do and whenever
\* the offers cross, set_local_description, set_remote_description,
\* create_offer and create_answer return Ok and the loop goes on.
NoFailure == \A x \in Peers : ~pc[x].err

\* When nothing is under way, what a peer takes for its negotiated local
\* description is what the other takes for its remote one, rolled back offers
\* and ignored ones included, and the transports of the two fit together:
\* one ICE agent controls, one DTLS side is the client, both or neither run
\* SCTP, and each uses the ICE credentials the other has now, restarts included.
PeersAgree ==
    Quiet => \A x, y \in Peers : x # y =>
        /\ pc[x].cl = pc[y].cr
        /\ pc[x].ice = "New" <=> pc[y].ice = "New"
        /\ pc[x].ice = "Controlling" <=> pc[y].ice = "Controlled"
        /\ pc[x].dtls = "client" <=> pc[y].dtls = "server"
        /\ pc[x].sctp = pc[y].sctp
        /\ pc[x].ice # "New" => pc[x].remote = pc[y].ufrag

Mids(d) == [k \in DOMAIN d.media |-> d.media[k].mid]

\* No description has two sections with one mid, and no connection two
\* transceivers with one mid.
MidsUnique ==
    \A x \in Peers :
        /\ \A d \in {pc[x].pl, pc[x].cl, pc[x].pr, pc[x].cr} :
              Cardinality(Range(Mids(d))) = Len(d.media)
        /\ \A i, j \in DOMAIN pc[x].trs :
              pc[x].trs[i].mid = pc[x].trs[j].mid /\ pc[x].trs[i].mid # NoMid => i = j

\* The sections a peer has negotiated stay where they are: a later local
\* description only adds sections behind them.
SectionsKept == [][\A x \in Peers : IsPrefix(Mids(pc[x].cl), Mids(pc'[x].cl))]_vars

\* The transceivers of x for section m of its local description.
Carries(x, m) == {i \in DOMAIN pc[x].trs : pc[x].trs[i].mid = m.mid}

\* Unless an offer was taken back, the two peers mean the same by a section:
\* a mid stands for one kind of media on both sides, in the descriptions and
\* in the transceivers, and when nothing is under way the current directions
\* of its two transceivers are opposite (a side that may send but has no track
\* counts as inactive).
SectionsMatch ==
    ~rolled =>
        \A x \in Peers : \A k \in DOMAIN pc[x].cl.media :
            LET m == pc[x].cl.media[k]
            IN m.kind # Application =>
                /\ \A i \in Carries(x, m) : pc[x].trs[i].kind = m.kind
                /\ Quiet => \A i \in Carries(x, m), j \in Carries(Other(x), m) :
                      LET a == pc[x].trs[i]
                          b == pc[Other(x)].trs[j]
                      IN /\ a.kind = b.kind
                         /\ \/ a.cur = reverse(b.cur)
                            \/ "inactive" \in {a.cur, b.cur} /\ {a.cur, b.cur} \subseteq {"inactive", "recvonly"}

\* Unless an offer was taken back, a sender that runs is in the negotiated
\* local description with its own track, or was removed from it since.
SendersNegotiated ==
    ~rolled => \A x \in Peers : \A i \in DOMAIN pc[x].trs :
        LET t == pc[x].trs[i]
            k == get_by_mid(pc[x].cl, t.mid)
        IN t.sender # NoTrack /\ t.sent => k # 0 /\ pc[x].cl.media[k].track = t.sender

\* Unless an offer was taken back, when nothing is under way and a section
\* says that one peer sends a track and the other receives, the receiver has
\* been given that track.  (A transceiver made for an offer that only receives
\* never has a receiver.)
Heard ==
    ~rolled /\ Quiet => \A x \in Peers : \A k \in DOMAIN pc[x].cl.media :
        LET there == pc[x].cr.media[k]
        IN has_recv(pc[x].cl.media[k].dir) /\ has_send(there.dir) /\ there.track # NoTrack =>
              \A i \in Carries(x, there) : pc[x].trs[i].recv \in {NoReceiver, there.track}

\* The three above: what the peers say about media, what their transceivers
\* say, and what runs, agree unless an offer was taken back.
MediaAgrees == SectionsMatch /\ SendersNegotiated /\ Heard

\* Transports, mids and media: the two peers mean the same session, and no call
\* failed on the way to it.
SessionAgrees == NoFailure /\ PeersAgree /\ MidsUnique /\ MediaAgrees

Negotiated(x, t) ==
    t.sender # NoTrack =>
        LET k == get_by_mid(pc[x].cl, t.mid)
        IN k # 0 /\ pc[x].cl.media[k].track = t.sender

\* Offers end, and every track added while the connection was stable is
\* negotiated in the end, unless an offer was taken back.
EveryTrackNegotiated ==
    /\ <>[]Quiet
    /\ [](~rolled /\ \A x \in Peers : ~missed[x]) =>
          <>[](\A x \in Peers : \A i \in DOMAIN pc[x].trs : Negotiated(x, pc[x].trs[i]))
=============================================================================
