----------------------------- MODULE SamplePath -----------------------------
(***************************************************************************)
(* From frames to packets and back: the packetizer and sequencer of        *)
(* rtc-rtp, a network that loses, delays and repeats packets, and the      *)
(* sample builder of rtc-media.  A payload is the frame and the part of it *)
(* that it is; the first part is a partition's head, a marked packet its   *)
(* tail, as with VP8.                                                      *)
(***************************************************************************)
EXTENDS Integers, Sequences, FiniteSets

CONSTANTS
    Parts,       \* for each frame in turn, the number of packets it takes
    SEQ,         \* sequence numbers are 0 .. SEQ - 1; 65536 in the code
    First,       \* the number the sequencer starts with
    MAX_LATE,    \* max_late, a number of packets
    MAX_LATE_TS, \* max_late_timestamp, zero for none
    Window,      \* a packet is at most this much behind the newest sent
    MaxCopies    \* how many packets may arrive again

VARIABLES
    sequence_number,  \* the sequencer's
    timestamp,        \* the packetizer's: one step a frame
    sent,             \* packets on their way
    copies,           \* arrivals that left the packet on its way
    newest,           \* packets sent so far
    b,                \* the sample builder
    popped,           \* the samples the application took
    arrived,          \* the places of the packets that arrived in time
    best              \* the place of the newest packet that arrived

vars == <<sequence_number, timestamp, sent, copies, newest, b, popped, arrived, best>>

None == [none |-> TRUE]

\* Sequence numbers wrap.
Add(n, k) == (n + k) % SEQ
Sub(n, k) == (n - k) % SEQ

-----------------------------------------------------------------------------
(* Sending.                                                                *)

\* All the packets of a frame have its timestamp; the last one is marked.
packetize(frame) ==
    {[sequence_number |-> Add(sequence_number, i), timestamp |-> timestamp, marker |-> i = Parts[frame],
      frame |-> frame, part |-> i, place |-> newest + i] : i \in 1 .. Parts[frame]}

-----------------------------------------------------------------------------
(* Locations: the numbers from head up to tail.                            *)

\* Mutant: the distance of numbers that wrap is taken the long way round.
LongWayRound(x, y) == Sub(x, y)

seqnum_distance(x, y) == LET diff == Sub(x, y) IN IF diff > (SEQ - 1) \div 2 THEN SEQ - diff ELSE diff

empty(l) == l.head = l.tail
has_data(l) == l.head # l.tail
count(l) == seqnum_distance(l.head, l.tail)

Holds(l, pos) == IF l.head < l.tail THEN l.head <= pos /\ pos < l.tail ELSE l.head <= pos \/ pos < l.tail

compare(l, pos) ==
    CASE empty(l) -> "Void"
      [] has_data(l) /\ Holds(l, pos) -> "Inside"
      [] OTHER -> IF Sub(l.head, pos) <= Sub(pos, l.tail) THEN "Before" ELSE "After"

-----------------------------------------------------------------------------
(* The sample builder.                                                     *)

NewBuilder ==
    [buffer |-> [i \in 0 .. SEQ - 1 |-> None], filled |-> [head |-> 0, tail |-> 0],
     active |-> [head |-> 0, tail |-> 0], prepared |-> << >>, dropped |-> 0]

\* The timestamps of the first and the last packet of a location are too far
\* apart; the last one is not looked for at the head itself.
too_old(s, l) ==
    LET n == Sub(l.tail, l.head)
        heads == {k \in 0 .. n - 1 : s.buffer[Add(l.head, k)] # None}
        tails == heads \ {0}
        At(k) == s.buffer[Add(l.head, k)].timestamp
        first == CHOOSE k \in heads : \A j \in heads : k <= j
        last == CHOOSE k \in tails : \A j \in tails : k >= j
    IN /\ MAX_LATE_TS # 0 /\ heads # {} /\ tails # {}
       /\ At(last) - At(first) > MAX_LATE_TS

release_packet(s) ==
    [s EXCEPT !.buffer[s.filled.head] = None, !.filled.head = Add(s.filled.head, 1)]

purge_consumed_location(s, consume, force) ==
    LET place == compare(consume, s.filled.head)
    IN IF has_data(s.filled) /\ (place = "Before" \/ (place = "Inside" /\ force))
         THEN release_packet(s) ELSE s

purge_consumed_buffers(s) == purge_consumed_location(s, s.active, FALSE)

\* What the loop over the packets from the active head on consumes: up to a
\* tail of the same timestamp, or up to a packet of another one.
RECURSIVE Consume(_, _)
Consume(s, i) ==
    LET p == s.buffer[i]
        head == s.buffer[s.active.head]
        same == head = None \/ p.timestamp = head.timestamp
        Upto(tail) == [head |-> s.active.head, tail |-> tail]
    IN IF p = None THEN Upto(s.active.head)
       ELSE IF compare(s.active, i) = "After" THEN Upto(s.active.head)
       ELSE IF p.marker /\ same THEN Upto(Add(i, 1))
       ELSE IF ~same THEN Upto(i)
       ELSE Consume(s, Add(i, 1))

Range(s, l) == [k \in 1 .. Sub(l.tail, l.head) |-> s.buffer[Add(l.head, k - 1)]]

\* The timestamp of the next packet there is; a range that wraps is empty.
after_timestamp(s, consume) ==
    LET there == {i \in consume.tail .. s.active.tail - 1 : s.buffer[i] # None}
        next == CHOOSE i \in there : \A j \in there : i <= j
    IN IF there = {} THEN s.buffer[consume.head].timestamp ELSE s.buffer[next].timestamp

\* Mutant: what precedes a partition's head goes into the sample.
KeepPartition(s, consume) ==
    LET segment == Range(s, consume)
        at == segment[1].timestamp
        sample == [data |-> [k \in 1 .. Len(segment) |-> <<segment[k].frame, segment[k].part>>],
                   packet_timestamp |-> at, duration |-> after_timestamp(s, consume) - at,
                   prev_dropped_packets |-> s.dropped]
    IN [s |-> [s EXCEPT !.active.head = consume.tail, !.prepared = Append(@, sample)], result |-> "Ok"]

\* A segment that does not start a partition is dropped.
DropPartition(s, consume) ==
    LET kept == [s EXCEPT !.dropped = @ + count(consume)]
    IN [s |-> [purge_consumed_buffers(purge_consumed_location(kept, consume, TRUE))
                 EXCEPT !.active.head = consume.tail],
        result |-> "InvalidPartition"]

\* Mutant: one sample is kept ready, not a queue of them.
MakeOnlySample(s, consume) ==
    LET segment == Range(s, consume)
        at == segment[1].timestamp
        sample == [data |-> [k \in 1 .. Len(segment) |-> <<segment[k].frame, segment[k].part>>],
                   packet_timestamp |-> at, duration |-> after_timestamp(s, consume) - at,
                   prev_dropped_packets |-> s.dropped]
        made == [s EXCEPT !.active.head = consume.tail, !.dropped = 0, !.prepared = <<sample>>]
    IN [s |-> purge_consumed_buffers(purge_consumed_location(made, consume, TRUE)), result |-> "Ok"]

MakeSample(s, consume) ==
    LET segment == Range(s, consume)
        at == segment[1].timestamp
        sample == [data |-> [k \in 1 .. Len(segment) |-> <<segment[k].frame, segment[k].part>>],
                   packet_timestamp |-> at, duration |-> after_timestamp(s, consume) - at,
                   prev_dropped_packets |-> s.dropped]
        made == [s EXCEPT !.active.head = consume.tail, !.dropped = 0,
                          !.prepared = Append(@, sample)]
    IN [s |-> purge_consumed_buffers(purge_consumed_location(made, consume, TRUE)), result |-> "Ok"]

build_sample(s0, purging) ==
    LET chosen == IF empty(s0.active) THEN [s0 EXCEPT !.active = s0.filled] ELSE s0
        s == IF compare(chosen.filled, chosen.active.tail) = "Inside"
               THEN [chosen EXCEPT !.active.tail = chosen.filled.tail] ELSE chosen
        consume == Consume(s, s.active.head)
    IN IF empty(chosen.active) THEN [s |-> chosen, result |-> "NoActiveSegment"]
       ELSE IF empty(consume) THEN [s |-> s, result |-> "NothingToConsume"]
       ELSE IF ~purging /\ s.buffer[consume.tail] = None
         THEN [s |-> s, result |-> "PendingTimestampPacket"]
       ELSE IF s.buffer[consume.head].part # 1 THEN DropPartition(s, consume)
       ELSE MakeSample(s, consume)

\* The loop of purge_buffers: the oldest packets go, made into samples where
\* they can be.
RECURSIVE Purge(_)
Purge(s0) ==
    LET s == IF empty(s0.active) THEN [s0 EXCEPT !.active = s0.filled] ELSE s0
        built == build_sample(s, TRUE)
        lost == [built.s EXCEPT !.dropped = IF built.result = "InvalidPartition" THEN @ ELSE @ + 1,
                                !.active.head = Add(@, 1)]
    IN IF ~(has_data(s0.filled) /\ (too_old(s0, s0.filled) \/ count(s0.filled) > MAX_LATE)) THEN s0
       ELSE IF has_data(s.active) /\ s.active.head = s.filled.head
         THEN IF built.result = "Ok" THEN Purge(built.s) ELSE Purge(release_packet(lost))
       ELSE Purge(release_packet(s))

purge_buffers(s) == Purge(purge_consumed_buffers(s))

push(s, p) ==
    LET n == p.sequence_number
        place == compare(s.filled, n)
        stored == [s EXCEPT !.buffer[n] = p]
    IN purge_buffers(
         CASE place = "Void" -> [stored EXCEPT !.filled = [head |-> n, tail |-> Add(n, 1)]]
           [] place = "Before" -> [stored EXCEPT !.filled.head = n]
           [] place = "After" -> [stored EXCEPT !.filled.tail = Add(n, 1)]
           [] OTHER -> stored)

-----------------------------------------------------------------------------

Init ==
    /\ sequence_number = First /\ timestamp = 0 /\ sent = {} /\ copies = 0 /\ newest = 0
    /\ b = NewBuilder /\ popped = << >> /\ arrived = {} /\ best = 0

\* The next frame is sent.
WriteSample ==
    /\ timestamp < Len(Parts)
    /\ \A p \in sent : newest + Parts[timestamp + 1] - p.place <= Window
    /\ sent' = sent \cup packetize(timestamp + 1)
    /\ sequence_number' = Add(sequence_number, Parts[timestamp + 1])
    /\ timestamp' = timestamp + 1
    /\ newest' = newest + Parts[timestamp + 1]
    /\ UNCHANGED <<copies, b, popped, arrived, best>>

\* The first packet is the first to arrive, the others come before the builder
\* has one MAX_LATE places after the start of their frame.
InTime(p) == IF p.place = 1 THEN best = 0 ELSE best < p.place - p.part + 1 + MAX_LATE

\* A packet arrives, and may arrive again.
Arrive(p, again) ==
    /\ p \in sent
    /\ again => copies < MaxCopies
    /\ b' = push(b, p)
    /\ sent' = IF again THEN sent ELSE sent \ {p}
    /\ copies' = IF again THEN copies + 1 ELSE copies
    /\ arrived' = IF InTime(p) THEN arrived \cup {p.place} ELSE arrived
    /\ best' = IF p.place > best THEN p.place ELSE best
    /\ UNCHANGED <<sequence_number, timestamp, newest, popped>>

Lose(p) ==
    /\ p \in sent
    /\ sent' = sent \ {p}
    /\ UNCHANGED <<sequence_number, timestamp, copies, newest, b, popped, arrived, best>>

\* A sample is built if it can be, and the oldest one is taken.
pop ==
    LET s == build_sample(b, FALSE).s
    IN /\ b' = IF s.prepared = << >> THEN s ELSE [s EXCEPT !.prepared = Tail(@)]
       /\ popped' = IF s.prepared = << >> THEN popped ELSE Append(popped, Head(s.prepared))
       /\ UNCHANGED <<sequence_number, timestamp, sent, copies, newest, arrived, best>>

Next ==
    \/ WriteSample
    \/ \E p \in sent, again \in BOOLEAN : Arrive(p, again)
    \/ \E p \in sent : Lose(p)
    \/ pop

Spec == Init /\ [][Next]_vars

\* The application goes on taking samples: weak fairness of pop, with its
\* enabling condition spelt out.
CanPop == LET s == build_sample(b, FALSE).s IN s # b \/ s.prepared # << >>
FairSpec == Spec /\ ([]<>~CanPop \/ []<><<pop>>_vars)

-----------------------------------------------------------------------------

\* A sample the application takes is a frame that was sent, whole and in order,
\* and samples are taken in the order their frames were sent, none twice,
\* whatever the network did (build_sample, purge_buffers).
SamplesWhole ==
    /\ \A k \in DOMAIN popped :
          LET f == popped[k].data[1][1]
          IN popped[k].data = [i \in 1 .. Parts[f] |-> <<f, i>>]
    /\ \A j, k \in DOMAIN popped : j < k => popped[j].packet_timestamp < popped[k].packet_timestamp

LastPlace(f) == LET to[i \in 0 .. f] == IF i = 0 THEN 0 ELSE to[i - 1] + Parts[i] IN to[f]

\* A frame is taken in the end once it, all before it and the start of the next
\* one arrived in time: packets that come out of order hold up nothing for good.
Played ==
    \A f \in 1 .. Len(Parts) - 1 :
        (1 .. LastPlace(f) + 1 \subseteq arrived)
            ~> (\E k \in DOMAIN popped : popped[k].packet_timestamp = f - 1)
=============================================================================
