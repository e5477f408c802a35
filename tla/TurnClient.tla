----------------------------- MODULE TurnClient -----------------------------
(***************************************************************************)
(* The TURN client of rtc-turn against a server over a network that loses, *)
(* repeats and reorders datagrams.                                         *)
(*                                                                         *)
(*   rtc-turn/src/client/{mod,relay,transaction,binding,permission,proto}  *)
(*   the TURN server, external, as far as the client depends on it         *)
(*                                                                         *)
(* A message is a record of the attributes the client looks at; StunWire   *)
(* has their bytes.  The caller is the relayer of rust-webrtc: one         *)
(* allocation per client, no second create_permission for a peer whose first is not   *)
(* answered, and a driver that polls every message and every event out of  *)
(* the client after each input.  Time is left out: a transaction's timer,  *)
(* the refresh timers and the age of a channel may be due whenever the     *)
(* code looks at them.                                                     *)
(***************************************************************************)
EXTENDS Naturals, Sequences, FiniteSets, TLC

CONSTANTS
    Peer,                \* addresses of peers
    MAX_RTX_COUNT,       \* requests sent before a transaction is given up, 7 in the code
    MIN_CHANNEL_NUMBER,  \* 0x4000 in the code
    MAX_CHANNEL_NUMBER,  \* 0x7fff in the code
    MaxIds,              \* bound: transactions
    Workloads            \* bounds: payloads sent by the client and by the peers,
                         \* nonces the server goes through: [sent, offered, nonces]

VARIABLES
    work,                   \* the workload, fixed
    realm, integrity,       \* learned from the first answer to an Allocate
    tr_map,                 \* outstanding transactions by id
    relay,                  \* the set of RelayStates, one at most
    addr_map, chan_map,     \* BindingManager: by peer, and by channel number
    next,                   \* the next channel number
    up, down,               \* datagrams sent to and by the server: each may arrive
                            \* late, more than once, or never
    nonce, allocated, granted, channels,    \* the server
    ids,                    \* history: how many random ids were drawn
    asked,                  \* history: ids create_permission returned, unanswered
    sent, relayed,          \* history: payloads to each peer, sent and relayed
    offered, given          \* history: payloads of each peer, offered and given

learned == <<realm, integrity>>
bindings == <<addr_map, chan_map, next>>
server == <<nonce, allocated, granted, channels>>
data == <<sent, relayed, offered, given>>
vars == <<work, learned, tr_map, relay, bindings, up, down, server, ids, asked, data>>

Without(f, k) == [x \in DOMAIN f \ {k} |-> f[x]]

\* A message: its type, its id and the attributes it carries; 0, "" and {}
\* stand for an attribute it does not have.
Message(method, class, id) ==
    [method |-> method, class |-> class, id |-> id, code |-> 0, realm |-> "", nonce |-> 0,
     key |-> "", peers |-> {}, number |-> 0, data |-> 0]
Request(method, id) == Message(method, "request", id)

\* USERNAME, REALM, NONCE and MESSAGE-INTEGRITY.
Signed(m, n, key) == [m EXCEPT !.realm = realm, !.nonce = n, !.key = key]

Init ==
    /\ work \in Workloads
    /\ realm = "" /\ integrity = ""
    /\ tr_map = << >> /\ relay = {}
    /\ addr_map = << >> /\ chan_map = << >> /\ next = MIN_CHANNEL_NUMBER
    /\ up = {} /\ down = {}
    /\ nonce = 1 /\ allocated = FALSE /\ granted = {} /\ channels = << >>
    /\ ids = 0 /\ asked = {}
    /\ sent = [p \in Peer |-> {}] /\ relayed = [p \in Peer |-> {}]
    /\ offered = [p \in Peer |-> {}] /\ given = [p \in Peer |-> {}]

-----------------------------------------------------------------------------
(* perform_transaction: remembered until it is answered or given up.  A    *)
(* transaction keeps the peers it is about.                                *)

Transaction(kind, m, about) == [kind |-> kind, message |-> m, n_rtx |-> 0, about |-> about]

Perform(tr, written) ==
    /\ tr_map' = (tr.message.id :> tr) @@ tr_map
    /\ up' = up \cup {tr.message} \cup written

Draw(n) == ids + n <= MaxIds /\ ids' = ids + n
NewId == 2 * (ids + 1)

\* allocate: the first request carries no credentials.
Allocate ==
    /\ ids = 0 /\ Draw(1)
    /\ Perform(Transaction("attempt", Request("allocate", NewId), {}), {})
    /\ UNCHANGED <<work, learned, relay, bindings, down, server, asked, data>>

PermissionMessage(r, peers) ==
    [Signed(Request("permission", NewId), r.nonce, r.integrity) EXCEPT !.peers = peers]

\* create_permission: a request for a peer that is not permitted yet.
CreatePermission(p) ==
    \E r \in relay :
       /\ \A a \in asked : a.peer /= p
       /\ p \in DOMAIN r.perm_map => r.perm_map[p] = "idle"
       /\ Draw(1)
       /\ relay' = {[r EXCEPT !.perm_map = (p :> "idle") @@ @]}
       /\ Perform(Transaction("permission", PermissionMessage(r, {p}), {p}), {})
       /\ asked' = asked \cup {[id |-> NewId, peer |-> p]}
       /\ UNCHANGED <<work, learned, bindings, down, server, data>>

-----------------------------------------------------------------------------
(* send_to.                                                                *)

Bind(r, p, number) ==
    Transaction("bind", [Signed(Request("bind", NewId), r.nonce, r.integrity)
                            EXCEPT !.peers = {p}, !.number = number], {p})

Indication(p, d) == [Message("send", "indication", 0) EXCEPT !.peers = {p}, !.data = d]
ChannelData(number, d) == [Message("channel", "indication", 0) EXCEPT !.number = number, !.data = d]

\* Channel numbers go round.
assign_channel_number == IF next = MAX_CHANNEL_NUMBER THEN MIN_CHANNEL_NUMBER ELSE next + 1

\* A peer without a binding is given one; an idle binding is requested; until
\* it is ready the payload travels in a Send indication.
SendIndirect(r, p, d) ==
    LET bound == p \in DOMAIN addr_map
        number == IF bound THEN addr_map[p].number ELSE next
    IN /\ bound => addr_map[p].st = "request"
       /\ next' = IF bound THEN next ELSE assign_channel_number
       /\ chan_map' = IF bound THEN chan_map ELSE (number :> p) @@ chan_map
       /\ addr_map' = (p :> [number |-> number, st |-> "request"]) @@ addr_map
       /\ IF bound THEN up' = up \cup {Indication(p, d)} /\ UNCHANGED <<ids, tr_map>>
                   ELSE Draw(1) /\ Perform(Bind(r, p, number), {Indication(p, d)})

\* As SendOnChannel, but on the channel of whichever peer has one.
SendOnAnyChannel(r, p, d, old) ==
    \E q \in DOMAIN addr_map :
       /\ addr_map[q].st = "ready"
       /\ up' = up \cup {ChannelData(addr_map[q].number, d)}
       /\ UNCHANGED <<ids, tr_map, bindings>>

\* A ready binding carries the payload in ChannelData; one older than the
\* lifetime of a permission is requested again first.
SendOnChannel(r, p, d, old) ==
    /\ p \in DOMAIN addr_map
    /\ addr_map[p].st \in {"ready", "refresh"}
    /\ IF old /\ addr_map[p].st = "ready"
         THEN /\ Draw(1)
              /\ addr_map' = [addr_map EXCEPT ![p].st = "refresh"]
              /\ Perform(Bind(r, p, addr_map[p].number), {ChannelData(addr_map[p].number, d)})
         ELSE /\ up' = up \cup {ChannelData(addr_map[p].number, d)}
              /\ UNCHANGED <<ids, addr_map, tr_map>>
    /\ UNCHANGED <<chan_map, next>>

All(h) == UNION {h[p] : p \in Peer}
NextPayload(h) == Cardinality(All(h)) + 1

SendTo(p, old) ==
    \E r \in relay :
       /\ p \in DOMAIN r.perm_map /\ r.perm_map[p] = "permitted"
       /\ NextPayload(sent) <= work.sent
       /\ sent' = [sent EXCEPT ![p] = @ \cup {NextPayload(sent)}]
       /\ SendIndirect(r, p, NextPayload(sent)) \/ SendOnChannel(r, p, NextPayload(sent), old)
       /\ UNCHANGED <<work, learned, relay, down, server, asked, relayed, offered, given>>

-----------------------------------------------------------------------------
(* handle_read.  A response ends the transaction whose id it has; a second *)
(* one finds none and is ignored.  What the client raises as an event is   *)
(* answered: an id the caller was given leaves asked.                      *)

Ends(m, method, kind) ==
    /\ m.class \in {"success", "error"} /\ m.method = method
    /\ m.id \in DOMAIN tr_map /\ tr_map[m.id].kind = kind

\* The transaction leaves the map; later answers to it would be ignored, so
\* they leave the network with it.
Finish(id, followed) ==
    /\ tr_map' = followed @@ Without(tr_map, id)
    /\ down' = {m \in down : m.class = "indication" \/ m.id /= id}

Event(id) == asked' = {a \in asked : a.id /= id}

\* The answer to the first Allocate names the realm and a nonce; the second
\* one, under the next id, is signed with them.  An answer without them is an
\* AllocateError.
HandleAttempt(m) ==
    LET request == [Request("allocate", m.id + 1) EXCEPT !.realm = m.realm, !.nonce = m.nonce, !.key = m.realm]
    IN /\ Ends(m, "allocate", "attempt")
       /\ m.nonce /= 0 /\ m.realm /= ""
       /\ realm' = m.realm /\ integrity' = m.realm
       /\ Finish(m.id, request.id :> Transaction("request", request, {}))
       /\ up' = up \cup {request}
       /\ UNCHANGED <<relay, bindings, asked>>

HandleAllocated(m) ==
    /\ Ends(m, "allocate", "request")
    /\ Finish(m.id, << >>)
    /\ Event(m.id)
    /\ relay' = IF m.class = "error" THEN relay
                ELSE {[integrity |-> integrity, nonce |-> tr_map[m.id].message.nonce, perm_map |-> << >>]}
    /\ UNCHANGED <<learned, bindings, up>>

\* Error 438 brings a new nonce; the caller is to try again.
set_nonce_from_msg(m, r) == IF m.code = 438 THEN [r EXCEPT !.nonce = m.nonce] ELSE r

\* As HandlePermission, but any answer permits.
PermitAlways(m) ==
    \E r \in relay :
       /\ Ends(m, "permission", "permission")
       /\ Finish(m.id, << >>)
       /\ relay' = {[r EXCEPT !.perm_map = [p \in DOMAIN @ |-> IF p \in tr_map[m.id].about THEN "permitted" ELSE @[p]]]}
       /\ Event(m.id)
       /\ UNCHANGED <<learned, bindings, up>>

\* A refresh of all permissions is about no peer: its failure changes none.
HandlePermission(m) ==
    LET about == tr_map[m.id].about
    IN \E r \in relay :
       /\ Ends(m, "permission", "permission")
       /\ Finish(m.id, << >>)
       /\ relay' = IF m.class = "error"
                   THEN {[set_nonce_from_msg(m, r) EXCEPT !.perm_map = [p \in DOMAIN @ \ about |-> @[p]]]}
                   ELSE {[r EXCEPT !.perm_map = [p \in DOMAIN @ |-> IF p \in about THEN "permitted" ELSE @[p]]]}
       /\ IF m.class = "error" \/ about \subseteq DOMAIN r.perm_map THEN Event(m.id) ELSE UNCHANGED asked
       /\ UNCHANGED <<learned, bindings, up>>

HandleRefreshed(m) ==
    /\ Ends(m, "refresh", "refresh")
    /\ Finish(m.id, << >>)
    /\ relay' = IF m.class = "error" THEN {set_nonce_from_msg(m, r) : r \in relay} ELSE relay
    /\ UNCHANGED <<learned, bindings, up, asked>>

\* delete_by_addr, both ways.
Unbind(p) ==
    /\ addr_map' = Without(addr_map, p)
    /\ chan_map' = IF p \in DOMAIN addr_map THEN Without(chan_map, addr_map[p].number) ELSE chan_map

\* A refused binding is deleted; the next send makes another.
HandleBound(m) ==
    LET p == CHOOSE q \in tr_map[m.id].about : TRUE
    IN /\ Ends(m, "bind", "bind")
       /\ Finish(m.id, << >>)
       /\ IF m.class = "error"
            THEN Unbind(p) /\ relay' = {set_nonce_from_msg(m, r) : r \in relay}
            ELSE /\ addr_map' = IF p \in DOMAIN addr_map THEN [addr_map EXCEPT ![p].st = "ready"] ELSE addr_map
                 /\ UNCHANGED <<relay, chan_map>>
       /\ UNCHANGED <<learned, next, up, asked>>

Give(p, d) ==
    /\ given' = [given EXCEPT ![p] = @ \cup {d}]
    /\ UNCHANGED <<learned, tr_map, relay, bindings, up, down, asked>>

HandleData(m) == m.method = "data" /\ \E p \in m.peers : Give(p, m.data)
HandleChannelData(m) == m.method = "channel" /\ m.number \in DOMAIN chan_map /\ Give(chan_map[m.number], m.data)

Receive(m) ==
    /\ \/ /\ \/ HandleAttempt(m) \/ HandleAllocated(m)
             \/ HandlePermission(m) \/ HandleRefreshed(m) \/ HandleBound(m)
          /\ UNCHANGED given
       \/ HandleData(m) \/ HandleChannelData(m)
    /\ UNCHANGED <<work, server, ids, sent, relayed, offered>>

-----------------------------------------------------------------------------
(* Timers.                                                                 *)

\* As HandleTimeout, but a transaction that is given up is not reported.
HandleTimeoutSilently(id) ==
    /\ IF tr_map[id].n_rtx + 1 >= MAX_RTX_COUNT
         THEN Finish(id, << >>) /\ UNCHANGED <<up, asked>>
         ELSE /\ tr_map' = [tr_map EXCEPT ![id].n_rtx = @ + 1]
              /\ up' = up \cup {tr_map[id].message}
              /\ UNCHANGED <<down, asked>>
    /\ UNCHANGED <<work, learned, relay, bindings, server, ids, data>>

\* A transaction is sent again until it has been sent MAX_RTX_COUNT times.
HandleTimeout(id) ==
    /\ IF tr_map[id].n_rtx + 1 >= MAX_RTX_COUNT
         THEN Finish(id, << >>) /\ Event(id) /\ UNCHANGED up
         ELSE /\ tr_map' = [tr_map EXCEPT ![id].n_rtx = @ + 1]
              /\ up' = up \cup {tr_map[id].message}
              /\ UNCHANGED <<down, asked>>
    /\ UNCHANGED <<work, learned, relay, bindings, server, ids, data>>

\* refresh_allocation, every half lifetime.
RefreshAllocation ==
    \E r \in relay :
       /\ \A t \in DOMAIN tr_map : tr_map[t].kind /= "refresh"
       /\ Draw(1)
       /\ Perform(Transaction("refresh", Signed(Request("refresh", NewId), r.nonce, r.integrity), {}), {})
       /\ UNCHANGED <<work, learned, relay, bindings, down, server, asked, data>>

\* refresh_permissions, every two minutes: all of them in one request.
RefreshPermissions ==
    \E r \in relay :
       /\ DOMAIN r.perm_map /= {}
       /\ \A t \in DOMAIN tr_map : tr_map[t].kind = "permission" => tr_map[t].about /= {}
       /\ Draw(1)
       /\ Perform(Transaction("permission", PermissionMessage(r, DOMAIN r.perm_map), {}), {})
       /\ UNCHANGED <<work, learned, relay, bindings, down, server, asked, data>>

-----------------------------------------------------------------------------
(* The server, external: it asks for credentials, renews its nonce, grants *)
(* permissions, binds a channel to one peer and a peer to one channel, and *)
(* relays.                                                                 *)

Answer(m, class) == [Message(m.method, class, m.id) EXCEPT !.key = m.key]
Challenge(m, code) == [Answer(m, "error") EXCEPT !.code = code, !.realm = "realm", !.nonce = nonce]

Authentic(m) == m.key = "realm" /\ m.nonce = nonce

MayBind(m) ==
    \A p \in m.peers : /\ m.number \in DOMAIN channels => channels[m.number] = p
                       /\ \A n \in DOMAIN channels : channels[n] = p => n = m.number

Send(m) == down' = IF m.id \in DOMAIN tr_map THEN down \cup {m} ELSE down

Accept(m) ==
    /\ Send(Answer(m, "success"))
    /\ allocated' = (allocated \/ m.method = "allocate")
    /\ granted' = IF m.method = "permission" THEN granted \cup m.peers ELSE granted
    /\ channels' = IF m.method = "bind" THEN [n \in {m.number} |-> CHOOSE p \in m.peers : TRUE] @@ channels
                   ELSE channels

Refuse(m, code) == Send(Challenge(m, code)) /\ UNCHANGED <<allocated, granted, channels>>

ServerAnswers(m) ==
    /\ m.class = "request"
    /\ IF m.key = "" THEN Refuse(m, 401)
       ELSE IF ~Authentic(m) THEN Refuse(m, 438)
       ELSE IF m.method = "bind" /\ ~MayBind(m) THEN Refuse(m, 400)
       ELSE Accept(m) \/ (m.method = "permission" /\ Refuse(m, 403))
    /\ UNCHANGED relayed

ServerRelays(m) ==
    /\ \/ m.method = "send" /\ \E p \in m.peers \cap granted : relayed' = [relayed EXCEPT ![p] = @ \cup {m.data}]
       \/ m.method = "channel" /\ m.number \in DOMAIN channels
          /\ relayed' = [relayed EXCEPT ![channels[m.number]] = @ \cup {m.data}]
    /\ UNCHANGED <<down, allocated, granted, channels>>

ServerReads(m) ==
    /\ ServerAnswers(m) \/ ServerRelays(m)
    /\ UNCHANGED <<work, learned, tr_map, relay, bindings, up, nonce, ids, asked, sent, offered, given>>

RenewNonce ==
    /\ nonce < work.nonces /\ nonce' = nonce + 1
    /\ UNCHANGED <<work, learned, tr_map, relay, bindings, up, down, allocated, granted, channels, ids, asked, data>>

PeerSends(p) ==
    LET d == NextPayload(offered)
        bound == {n \in DOMAIN channels : channels[n] = p}
    IN /\ p \in granted /\ d <= work.offered
       /\ offered' = [offered EXCEPT ![p] = @ \cup {d}]
       /\ down' = down \cup (IF bound = {} THEN {[Message("data", "indication", 0) EXCEPT !.peers = {p}, !.data = d]}
                             ELSE {ChannelData(n, d) : n \in bound})
       /\ UNCHANGED <<work, learned, tr_map, relay, bindings, up, server, ids, asked, sent, relayed, given>>

-----------------------------------------------------------------------------
Next ==
    \/ Allocate
    \/ \E p \in Peer : CreatePermission(p)
    \/ \E p \in Peer, old \in BOOLEAN : SendTo(p, old)
    \/ \E m \in down : Receive(m)
    \/ \E id \in DOMAIN tr_map : HandleTimeout(id)
    \/ RefreshAllocation
    \/ RefreshPermissions
    \/ \E m \in up : ServerReads(m)
    \/ RenewNonce
    \/ \E p \in Peer : PeerSends(p)

Spec == Init /\ [][Next]_vars

\* The driver sleeps until the deadline poll_timeout reports and then calls
\* handle_timeout.  Nothing is assumed of the network or of the server.
FairSpec == Spec /\ WF_vars(\E id \in DOMAIN tr_map : HandleTimeout(id))

-----------------------------------------------------------------------------
(* Properties.                                                             *)

\* A payload reaches the peer it was sent to and no other, by indication or
\* by channel, and one from a peer is given under that peer's address.
RoutedRight == \A p \in Peer : relayed[p] \subseteq sent[p] /\ given[p] \subseteq offered[p]

\* What the client believes the server did: a permitted peer is permitted
\* there, and a channel the client sends on is bound there to that peer,
\* whatever was lost, repeated or refused on the way; the two maps of the
\* BindingManager name each other.  (Otherwise payloads sent with send_to
\* would be dropped by the server, or reach another peer.)
ViewsAgree ==
    /\ RoutedRight
    /\ \A r \in relay : \A p \in DOMAIN r.perm_map : r.perm_map[p] = "permitted" => p \in granted
    /\ \A p \in DOMAIN addr_map :
          /\ addr_map[p].number \in DOMAIN chan_map /\ chan_map[addr_map[p].number] = p
          /\ addr_map[p].st \in {"ready", "refresh"}
                => addr_map[p].number \in DOMAIN channels /\ channels[addr_map[p].number] = p

\* Every id create_permission returned is reported once more: answered,
\* refused or timed out.  (The relayer holds the peer's packets until then.)
Concluded == asked /= {} ~> asked = {}
=============================================================================
