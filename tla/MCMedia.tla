------------------------------ MODULE MCMedia ------------------------------
(***************************************************************************)
(* Media from one peer to the other, either half of which a behaviour      *)
(* follows: the packets of a stream (MediaPath), or the frames made into   *)
(* packets and built again from them (SamplePath).                         *)
(***************************************************************************)
EXTENDS MediaPath

W(start, length, rtx, declared, losses, repeats, timers, reports) ==
    [start |-> start, length |-> length, rtx |-> rtx, declared |-> declared,
     losses |-> losses, repeats |-> repeats, timers |-> timers, reports |-> reports]

\* A stream that wraps, with a loss; one whose first packet binds it, with a
\* repeat and a report; a longer one, reordered beyond the log; RTX.
MCWorkloads ==
    { W(13, 5, FALSE, TRUE, 1, 0, 1, 0), W(15, 3, FALSE, FALSE, 1, 1, 1, 1),
      W(12, 6, FALSE, TRUE, 0, 0, 1, 0), W(14, 4, FALSE, TRUE, 2, 0, 1, 0),
      W(14, 4, TRUE, TRUE, 1, 0, 2, 0), W(0, 3, FALSE, TRUE, 0, 1, 1, 2) }

-----------------------------------------------------------------------------
(* SamplePath: frames of one packet and of two, numbers that wrap.         *)

CONSTANTS SEQ, First, MAX_LATE, MAX_LATE_TS, SampleWindow, MaxCopies
Parts == <<1, 2, 1, 2>>

ASSUME SampleAssumption ==
    /\ SEQ \in Nat \ {0} /\ First \in 0 .. SEQ - 1
    /\ {MAX_LATE, MAX_LATE_TS, SampleWindow, MaxCopies} \subseteq Nat

VARIABLES part, sequence_number, timestamp, sent, copies, newest, b, popped, arrived, best
sampleVars == <<sequence_number, timestamp, sent, copies, newest, b, popped, arrived, best>>
S == INSTANCE SamplePath WITH Window <- SampleWindow

all == <<part, vars, sampleVars>>

MCInit ==
    /\ part \in {"packets", "samples"} /\ Init /\ S!Init
    /\ part = "samples" => work = CHOOSE w \in Workloads : TRUE

PacketStep(A) == part = "packets" /\ A /\ UNCHANGED <<part, sampleVars>>
SampleStep(A) == part = "samples" /\ A /\ UNCHANGED <<part, vars>>

MCNext == PacketStep(Next) \/ SampleStep(S!Next)

\* The fairness of either half.
MCSpec ==
    /\ MCInit /\ [][MCNext]_all
    /\ []<>(part = "samples" \/ ~NackReady) \/ []<><<PacketStep(NackTimer)>>_all
    /\ <>(part = "samples" \/ (rx.up /\ tx.next = work.start + work.length))
    /\ []<>(\A p \in net : p.ssrc = "rtcp")
    /\ \A i \in 0..RtcpMod - 1 : []<>(\A p \in NacksUnderWay : p.index # i)
    /\ []<>(part = "packets" \/ ~S!CanPop) \/ []<><<SampleStep(S!pop)>>_all

\* Samples: the application takes the frames whole, in order and once
\* (push, pop, build_sample, purge_buffers).
SamplesWhole == S!SamplesWhole

\* Samples: a frame whose packets came in time is taken in the end.
Played == S!Played
=============================================================================
