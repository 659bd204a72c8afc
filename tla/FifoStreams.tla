----------------------------- MODULE FifoStreams -----------------------------
(***************************************************************************)
(* What the ARQ layer promises its users: each stream is a reliable FIFO   *)
(* of payloads.  What is delivered on a stream is a prefix of what was     *)
(* sent on it; a step delivers one or more of the next payloads.           *)
(***************************************************************************)
EXTENDS Naturals, Sequences

CONSTANTS Streams, Payloads

VARIABLES sent, delivered

TypeOK ==
    /\ sent \in [Streams -> Seq(Payloads)]
    /\ delivered \in [Streams -> Seq(Payloads)]

Init ==
    /\ sent = [s \in Streams |-> <<>>]
    /\ delivered = [s \in Streams |-> <<>>]

Send(s) ==
    /\ \E p \in Payloads : sent' = [sent EXCEPT ![s] = Append(@, p)]
    /\ UNCHANGED delivered

Deliver(s) ==
    /\ \E k \in (Len(delivered[s]) + 1)..Len(sent[s]) :
        delivered' = [delivered EXCEPT ![s] = SubSeq(sent[s], 1, k)]
    /\ UNCHANGED sent

Next == \E s \in Streams : Send(s) \/ Deliver(s)

Spec == Init /\ [][Next]_<<sent, delivered>>

=============================================================================
