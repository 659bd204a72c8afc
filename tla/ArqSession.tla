----------------------------- MODULE ArqSession -----------------------------
(***************************************************************************)
(* One direction of a UDP session of pkg/udp/arq: the sending half of one  *)
(* Controller (congestion window, send buffer, ACK processing and the      *)
(* three retransmission paths), an unreliable network, and the receiving   *)
(* half of the peer's Controller (AckState and one RecvBuffer per stream). *)
(*                                                                         *)
(* A data packet is named by its PktNum, the position of its entry in      *)
(* pkts; a retransmission carries the same PktNum, stream and seq, so the  *)
(* number stands for the datagram and for its payload.  Time is left out:  *)
(* whatever a timer decides (which packets have expired, whether the 5 ms  *)
(* limiter lets an immediate ACK through) is a nondeterministic choice.    *)
(***************************************************************************)
EXTENDS Naturals, FiniteSets, Sequences

CONSTANTS
    Streams,             \* stream IDs, one writer goroutine each
    Control,             \* the writer of MsgStreamOpen / MsgStreamClose
    MaxPkt,              \* model bound: packets ever numbered
    MaxNetAcks,          \* model bound: ACK datagrams in the network
    MinCwnd,             \* congestion.go: min(minCwnd, probeRTTCwnd)
    StartupCwnd,         \* congestion.go: startupCwnd
    MaxCwnd,             \* congestion.go: maxCwnd
    SackWindow,          \* ack.go: bits of AckData.Bitmap
    RecvBufSize,         \* controller.go: Config.RecvBufSize
    MaxStreams,          \* controller.go: Config.MaxStreams
    MaxRetransmits,      \* send_buffer.go: maxRetransmits
    MaxRetransmitBatch,  \* controller.go: maxRetransmitBatch
    MaxSackRetransmit,   \* controller.go: maxSackRetransmit
    ReorderThreshold,    \* controller.go: SACKed packets behind a gap (3)
    DupAckThreshold,     \* controller.go: duplicate ACKs (3)
    DelayedAckThreshold  \* ack_state.go: delayedAckThreshold

Writers == Streams \cup {Control}
PktNums == 1..MaxPkt

ASSUME ConstantsAssumption ==
    /\ IsFiniteSet(Streams)
    /\ Control \notin Streams
    /\ MaxPkt \in Nat
    /\ MaxNetAcks \in Nat
    /\ MinCwnd \in Nat \ {0}
    /\ MaxCwnd \in Nat
    /\ StartupCwnd \in MinCwnd..MaxCwnd
    /\ SackWindow \in Nat \ {0}
    /\ RecvBufSize \in Nat
    /\ MaxStreams \in Nat
    /\ MaxRetransmits \in Nat \ {0}
    /\ MaxRetransmitBatch \in Nat \ {0}
    /\ MaxSackRetransmit \in Nat
    /\ ReorderThreshold \in Nat \ {0}
    /\ DupAckThreshold \in Nat \ {0}
    /\ DelayedAckThreshold \in Nat \ {0}

\* The sizes the code chooses: 1024 >= 256 + 512 - 2.
ASSUME RecvBufHoldsWindow == RecvBufSize + 2 >= SackWindow + MaxCwnd

VARIABLES
    \* sender
    pkts,          \* pkts[n]: the stream and seq that PktNum n carries
    nextSeq,       \* nextSeq[s]: the stream writer's next seq
    slot,          \* writers that left AcquireSlot and have no PktNum yet
    numbered,      \* PktNums taken but not yet in the send buffer
    unacked,       \* send buffer entries with Acked = false
    sacked,        \* send buffer entries with Acked = true
    retx,          \* Retransmits of each entry, saturating at MaxRetransmits
    cwnd,
    inFlight,
    lastAckCumAck,
    dupAckCount,
    senderClosed,
    dead,
    \* network
    ackNet,        \* ACK datagrams in transit
    \* receiver
    received,      \* AckState.received: numbers above cumAck
    cumAck,
    pktsSinceAck,  \* saturating at DelayedAckThreshold
    immediateAck,
    handling,      \* HandleData is between RecordReceived and Insert (0: no)
    recvState,     \* "none", "open" or "removed": the stream's recvBufs entry
    expected,
    buffer,        \* out-of-order packets of a stream
    delivered,     \* packets handed to deliverFn, in order
    receiverClosed

senderVars == <<pkts, nextSeq, slot, numbered, unacked, sacked, retx, cwnd,
                inFlight, lastAckCumAck, dupAckCount, senderClosed, dead>>
writerVars == <<pkts, nextSeq, slot, numbered>>
ackStateVars == <<received, cumAck, pktsSinceAck, immediateAck>>
streamVars == <<recvState, expected, buffer, delivered>>
receiverVars == <<ackStateVars, streamVars, handling, receiverClosed>>
vars == <<senderVars, ackNet, receiverVars>>

Acks == [cum : 0..MaxPkt, sack : SUBSET PktNums]
Sent == 1..Len(pkts)
IsData(n) == pkts[n].stream \in Streams

TypeOK ==
    /\ pkts \in Seq([stream : Writers, seq : Nat])
    /\ Len(pkts) \in 0..MaxPkt
    /\ nextSeq \in [Streams -> Nat]
    /\ slot \subseteq Writers
    /\ numbered \subseteq PktNums
    /\ unacked \subseteq PktNums
    /\ sacked \subseteq PktNums
    /\ retx \in [PktNums -> 0..MaxRetransmits]
    /\ cwnd \in MinCwnd..MaxCwnd
    /\ inFlight \in 0..MaxCwnd
    /\ lastAckCumAck \in 0..MaxPkt
    /\ dupAckCount \in 0..(DupAckThreshold - 1)
    /\ senderClosed \in BOOLEAN
    /\ dead \in BOOLEAN
    /\ ackNet \subseteq Acks
    /\ received \subseteq PktNums
    /\ cumAck \in 0..MaxPkt
    /\ pktsSinceAck \in 0..DelayedAckThreshold
    /\ immediateAck \in BOOLEAN
    /\ handling \in 0..MaxPkt
    /\ recvState \in [Streams -> {"none", "open", "removed"}]
    /\ expected \in [Streams -> Nat]
    /\ buffer \in [Streams -> SUBSET PktNums]
    /\ delivered \in [Streams -> Seq(PktNums)]
    /\ receiverClosed \in BOOLEAN

Init ==
    /\ pkts = <<>>
    /\ nextSeq = [s \in Streams |-> 0]
    /\ slot = {}
    /\ numbered = {}
    /\ unacked = {}
    /\ sacked = {}
    /\ retx = [n \in PktNums |-> 0]
    /\ cwnd = StartupCwnd
    /\ inFlight = 0
    /\ lastAckCumAck = 0
    /\ dupAckCount = 0
    /\ senderClosed = FALSE
    /\ dead = FALSE
    /\ ackNet = {}
    /\ received = {}
    /\ cumAck = 0
    /\ pktsSinceAck = 0
    /\ immediateAck = FALSE
    /\ handling = 0
    /\ recvState = [s \in Streams |-> "none"]
    /\ expected = [s \in Streams |-> 0]
    /\ buffer = [s \in Streams |-> {}]
    /\ delivered = [s \in Streams |-> <<>>]
    /\ receiverClosed = FALSE

-----------------------------------------------------------------------------
(* Controller.Send, in the steps between which other goroutines run. *)

Idle(w) == w \notin slot /\ \A n \in numbered : pkts[n].stream # w

SlotFreeOffByOne == inFlight <= cwnd
SlotFree == inFlight < cwnd

\* The model's bound on the packets of a run.
PktBudget == Len(pkts) + Cardinality(slot) < MaxPkt

\* CongestionControl.AcquireSlot succeeds.  It may do so after Close too: its
\* select picks at random between a wake-up and the closed done channel.
AcquireSlot(w) ==
    /\ Idle(w)
    /\ w \in Streams => recvState[w] # "none"
    /\ PktBudget
    /\ SlotFree
    /\ inFlight' = inFlight + 1
    /\ slot' = slot \cup {w}
    /\ UNCHANGED <<pkts, nextSeq, numbered, unacked, sacked, retx, cwnd,
                   lastAckCumAck, dupAckCount, senderClosed, dead,
                   ackNet, receiverVars>>

\* Mutant: the stream's seq does not advance.
NumberPacketSameSeq(w) ==
    /\ w \in slot
    /\ slot' = slot \ {w}
    /\ numbered' = numbered \cup {Len(pkts) + 1}
    /\ pkts' = Append(pkts, [stream |-> w, seq |-> 0])
    /\ UNCHANGED <<nextSeq, unacked, sacked, retx, cwnd, inFlight,
                   lastAckCumAck, dupAckCount, senderClosed, dead, ackNet,
                   receiverVars>>

\* nextPktNum.Add(1).  A stream's data carries the writer's next seq; control
\* messages have none and are not delivered through a RecvBuffer.
NumberPacket(w) ==
    /\ w \in slot
    /\ slot' = slot \ {w}
    /\ numbered' = numbered \cup {Len(pkts) + 1}
    /\ IF w \in Streams
       THEN /\ pkts' = Append(pkts, [stream |-> w, seq |-> nextSeq[w]])
            /\ nextSeq' = [nextSeq EXCEPT ![w] = @ + 1]
       ELSE /\ pkts' = Append(pkts, [stream |-> w, seq |-> 0])
            /\ UNCHANGED nextSeq
    /\ UNCHANGED <<unacked, sacked, retx, cwnd, inFlight, lastAckCumAck,
                   dupAckCount, senderClosed, dead, ackNet,
                   receiverVars>>

\* SendBuffer.Add and sendFn.  A sendFn error leaves the packet in the buffer:
\* it is a datagram the network loses.
Transmit(n) ==
    /\ n \in numbered
    /\ numbered' = numbered \ {n}
    /\ unacked' = unacked \cup {n}
    /\ UNCHANGED <<pkts, nextSeq, slot, sacked, retx, cwnd, inFlight,
                   lastAckCumAck, dupAckCount, senderClosed, dead, ackNet,
                   receiverVars>>

-----------------------------------------------------------------------------
(* Retransmission *)

\* SendBuffer.MarkResent for every packet of R; the count goes with the entry,
\* so it is 0 again for what is not among the unacknowledged entries U.
MarkResent(R, U) ==
    [n \in PktNums |-> IF n \notin U THEN 0
                       ELSE IF n \in R /\ retx[n] < MaxRetransmits
                            THEN retx[n] + 1 ELSE retx[n]]

LowestOf(S) == CHOOSE n \in S : \A m \in S : n <= m

Exhausted(E) == {n \in E : retx[n] >= MaxRetransmits}

\* Mutant: the packet at the limit is dropped from the buffer, and the session
\* lives on.
RetransmitTickDrops(E) ==
    LET resent == E \ Exhausted(E) IN
    /\ E # {}
    /\ E \subseteq unacked
    /\ Cardinality(E) <= MaxRetransmitBatch
    /\ retx' = MarkResent(resent, unacked)
    /\ unacked' = unacked \ Exhausted(E)
    /\ UNCHANGED <<writerVars, sacked, cwnd, inFlight, lastAckCumAck,
                   dupAckCount, senderClosed, dead, ackNet, receiverVars>>

\* What RetransmitTick does with the expired packets E, lowest number first:
\* the first one at the limit makes the session dead and ends the tick.
RetransmitTick(E) ==
    LET resent == {n \in E : \A m \in Exhausted(E) : n < m} IN
    /\ E # {}
    /\ E \subseteq unacked
    /\ Cardinality(E) <= MaxRetransmitBatch
    /\ retx' = MarkResent(resent, unacked)
    /\ IF Exhausted(E) # {}
       THEN dead' = TRUE /\ senderClosed' = TRUE
       ELSE UNCHANGED <<dead, senderClosed>>
    /\ UNCHANGED <<writerVars, unacked, sacked, cwnd, inFlight, lastAckCumAck,
                   dupAckCount, ackNet, receiverVars>>

-----------------------------------------------------------------------------
(* Controller.HandleAck *)

\* AckCumulative and the SACK loop: the entries this ACK acknowledges first.
NewlyAcked(a) == {n \in unacked : n <= a.cum \/ n \in a.sack}

StillSacked(a) ==
    {n \in sacked \cup {m \in unacked : m \in a.sack} : n > a.cum}

\* How many slots the ACK gives back.  Mutants: AckCumulative counts entries the
\* bitmap had already acknowledged; the SACK loop does not count.
AckedCountTwice(a) ==
    Cardinality(NewlyAcked(a) \cup {n \in sacked : n <= a.cum})
AckedCountNoSack(a) == Cardinality({n \in unacked : n <= a.cum})
AckedCount(a) == Cardinality(NewlyAcked(a))

\* CongestionControl.OnAck: the slots come back, never below zero.
ReleaseSlots(k) == IF inFlight >= k THEN inFlight - k ELSE 0

\* sackDetect: gaps with at least ReorderThreshold SACKed packets above them.
SackLost(a) ==
    {n \in unacked \ NewlyAcked(a) :
        /\ n > a.cum
        /\ Cardinality({m \in a.sack : m > n}) >= ReorderThreshold}

\* OnAck with checkProbeRTT and recalcCwnd: of the estimated bandwidth only the
\* bounds of the window are kept, and that an ACK of nothing new leaves it.
RecalcCwnd(acked) == IF acked = {} THEN {cwnd} ELSE MinCwnd..MaxCwnd

\* The whole handler.  R is the part of SackLost that minInterval lets through.
HandleAck(a) ==
    LET acked == NewlyAcked(a)
        open == unacked \ acked
        dup == a.cum = lastAckCumAck /\ a.cum > 0
        fire == dup /\ dupAckCount + 1 >= DupAckThreshold
        first == IF fire /\ open # {} THEN {LowestOf(open)} ELSE {}
    IN
    /\ a \in ackNet
    /\ ~senderClosed
    /\ unacked' = open
    /\ sacked' = StillSacked(a)
    /\ inFlight' = ReleaseSlots(AckedCount(a))
    /\ cwnd' \in RecalcCwnd(acked)
    /\ \E R \in SUBSET SackLost(a) :
        /\ Cardinality(R) <= MaxSackRetransmit
        /\ retx' = MarkResent(R \cup first, open)
    /\ lastAckCumAck' = a.cum
    /\ dupAckCount' = IF dup /\ ~fire THEN dupAckCount + 1 ELSE 0
    /\ UNCHANGED <<writerVars, senderClosed, dead, ackNet, receiverVars>>

\* Controller.Close by its owner.
CloseSender ==
    /\ ~senderClosed
    /\ senderClosed' = TRUE
    /\ UNCHANGED <<writerVars, unacked, sacked, retx, cwnd, inFlight,
                   lastAckCumAck, dupAckCount, dead, ackNet,
                   receiverVars>>

-----------------------------------------------------------------------------
(* The network.  A data datagram, once transmitted, may arrive at any later    *)
(* time, any number of times, or never: no state is kept for it, and a        *)
(* retransmission shows in retx alone.  An ACK may arrive any number of times *)
(* until it is lost.                                                          *)

LoseAck(a) ==
    /\ a \in ackNet
    /\ ackNet' = ackNet \ {a}
    /\ UNCHANGED <<senderVars, receiverVars>>

\* sendFn of an ACK; beyond MaxNetAcks the network drops it.
PutAck(a) ==
    IF Cardinality(ackNet) < MaxNetAcks THEN ackNet \cup {a} ELSE ackNet

-----------------------------------------------------------------------------
(* Receiver: AckState *)

\* The cumulative ACK after the numbers in R have been recorded: everything
\* up to it has been received and the next number has not.
AdvanceTo(R, c) ==
    /\ \A m \in (cumAck + 1)..c : m \in R
    /\ c + 1 \notin R

Counted == IF pktsSinceAck < DelayedAckThreshold
           THEN pktsSinceAck + 1 ELSE pktsSinceAck

RecordReceived(n) ==
    /\ pktsSinceAck' = Counted
    /\ IF n <= cumAck
       THEN UNCHANGED <<received, cumAck, immediateAck>>
       ELSE \E c \in cumAck..MaxPkt :
              /\ AdvanceTo(received \cup {n}, c)
              /\ cumAck' = c
              /\ received' = {m \in received \cup {n} : m > c}
              /\ immediateAck' = (immediateAck \/ n > c)

\* AckState.BuildAck with AckData.SetReceived's window.
BuildAck == [cum |-> cumAck,
             sack |-> {n \in received : n <= cumAck + SackWindow}]

NeedsAck == pktsSinceAck >= DelayedAckThreshold \/ immediateAck

\* sendAck: BuildAck, AckSent and sendFn.
SendAck ==
    /\ ackNet' = PutAck(BuildAck)
    /\ pktsSinceAck' = 0
    /\ immediateAck' = FALSE

\* AckTick runs in the ack loop, so also between the steps of HandleData.
AckTick ==
    /\ NeedsAck
    /\ SendAck
    /\ UNCHANGED <<senderVars, received, cumAck, streamVars, handling,
                   receiverClosed>>

-----------------------------------------------------------------------------
(* Receiver: HandleData, RecordPktNum and RecvBuffer.Insert *)

\* A datagram arrives in the receive loop and its number is recorded, so it
\* may be acknowledged from here on.
HandleDataRecord(n) ==
    /\ n \in Sent \ numbered
    /\ handling = 0
    /\ ~receiverClosed
    /\ RecordReceived(n)
    /\ handling' = IF IsData(n) THEN n ELSE 0
    /\ UNCHANGED <<senderVars, ackNet, streamVars, receiverClosed>>

Buffered(s, q) == \E m \in buffer[s] : pkts[m].seq = q
\* Mutant: the last place of the buffer is never used.
RoomInOffByOne(s) == Cardinality(buffer[s]) + 1 < RecvBufSize

RoomIn(s) == Cardinality(buffer[s]) < RecvBufSize

\* The packets delivered when n arrives in order: n, then the buffered packets
\* with the consecutive seqs up to e (exclusive).
FlushRun(s, n, e) ==
    [i \in 1..(e - expected[s]) |->
        IF i = 1 THEN n
        ELSE CHOOSE m \in buffer[s] : pkts[m].seq = expected[s] + i - 1]

InsertInOrder(s, n) ==
    \E e \in (expected[s] + 1)..(expected[s] + 1 + MaxPkt) :
        /\ \A q \in (expected[s] + 1)..(e - 1) : Buffered(s, q)
        /\ ~Buffered(s, e)
        /\ expected' = [expected EXCEPT ![s] = e]
        /\ buffer' = [buffer EXCEPT ![s] = {m \in @ : pkts[m].seq > e}]
        /\ delivered' = [delivered EXCEPT ![s] = @ \o FlushRun(s, n, e)]

InsertOutOfOrder(s, n) ==
    /\ buffer' = IF ~Buffered(s, pkts[n].seq) /\ RoomIn(s)
                 THEN [buffer EXCEPT ![s] = @ \cup {n}] ELSE buffer
    /\ UNCHANGED <<expected, delivered>>

\* Mutant: a seq below expected is not recognised as a duplicate.
InsertRedelivers(s, n) ==
    IF pkts[n].seq <= expected[s]
    THEN InsertInOrder(s, n) ELSE InsertOutOfOrder(s, n)

\* RecvBuffer.Insert.
Insert(s, n) ==
    \/ /\ pkts[n].seq < expected[s]
       /\ UNCHANGED <<expected, buffer, delivered>>
    \/ pkts[n].seq = expected[s] /\ InsertInOrder(s, n)
    \/ pkts[n].seq > expected[s] /\ InsertOutOfOrder(s, n)

\* HandleData continues: the payload goes to the stream's buffer, or nowhere
\* when the stream has none, and a gap may send an ACK at once.
HandleDataInsert ==
    LET s == pkts[handling].stream IN
    /\ handling # 0
    /\ IF recvState[s] = "open"
       THEN Insert(s, handling)
       ELSE UNCHANGED <<expected, buffer, delivered>>
    /\ handling' = 0
    /\ \/ immediateAck /\ SendAck
       \/ UNCHANGED <<ackNet, pktsSinceAck, immediateAck>>
    /\ UNCHANGED <<senderVars, received, cumAck, recvState, receiverClosed>>

\* CreateRecvBuffer: the opener makes the buffer before the peer can send on
\* the stream, and stream IDs are not reused.  At MaxStreams it only fails.
CreateRecvBuffer(s) ==
    /\ recvState[s] = "none"
    /\ Cardinality({t \in Streams : recvState[t] = "open"}) < MaxStreams
    /\ recvState' = [recvState EXCEPT ![s] = "open"]
    /\ UNCHANGED <<senderVars, ackNet, ackStateVars, expected, buffer,
                   delivered, handling, receiverClosed>>

RemoveRecvBuffer(s) ==
    /\ recvState[s] = "open"
    /\ recvState' = [recvState EXCEPT ![s] = "removed"]
    /\ buffer' = [buffer EXCEPT ![s] = {}]
    /\ UNCHANGED <<senderVars, ackNet, ackStateVars, expected,
                   delivered, handling, receiverClosed>>

CloseReceiver ==
    /\ ~receiverClosed
    /\ receiverClosed' = TRUE
    /\ UNCHANGED <<senderVars, ackNet, ackStateVars, streamVars,
                   handling>>

-----------------------------------------------------------------------------
Next ==
    \/ \E w \in Writers : AcquireSlot(w) \/ NumberPacket(w)
    \/ \E n \in PktNums : Transmit(n) \/ HandleDataRecord(n)
    \/ \E E \in SUBSET unacked : RetransmitTick(E)
    \/ \E a \in ackNet : HandleAck(a) \/ LoseAck(a)
    \/ \E s \in Streams : CreateRecvBuffer(s) \/ RemoveRecvBuffer(s)
    \/ HandleDataInsert
    \/ AckTick
    \/ CloseSender
    \/ CloseReceiver

Spec == Init /\ [][Next]_vars

\* The retransmit loop fires every 50 ms until the session is closed, and the
\* lowest expired packet is always in its batch.
RetransmitLowest ==
    /\ ~senderClosed
    /\ unacked # {}
    /\ \E E \in SUBSET unacked : LowestOf(unacked) \in E /\ RetransmitTick(E)

\* A writer inside Send goes on; nothing is asked of the network or the peer.
Fairness ==
    /\ WF_vars(RetransmitLowest)
    /\ \A w \in Writers : WF_vars(NumberPacket(w))
    /\ \A n \in PktNums : WF_vars(Transmit(n))

FairSpec == Spec /\ Fairness

-----------------------------------------------------------------------------
(* Properties *)

\* The receiver has recorded PktNum n, so an ACK may tell the sender so.
Recorded(n) == n <= cumAck \/ n \in received

\* HandleData acknowledges a packet before RecvBuffer.Insert has taken it, and
\* Insert drops what does not fit.  Still no acknowledged packet of a stream
\* that has its buffer is lost: it is delivered, or waits in the buffer, or is
\* the one HandleData has in hand.
AckedIsKept ==
    \A n \in Sent :
        LET s == pkts[n].stream IN
        Recorded(n) /\ n # handling /\ IsData(n) /\ recvState[s] = "open"
            => pkts[n].seq < expected[s] \/ n \in buffer[s]

\* deliverFn sees every stream's data exactly once, in seq order, without gaps,
\* whatever was lost, duplicated, reordered or retransmitted.
InOrderDelivery ==
    \A s \in Streams :
        /\ Len(delivered[s]) = expected[s]
        /\ \A i \in 1..Len(delivered[s]) :
            delivered[s][i] \in Sent
                /\ pkts[delivered[s][i]] = [stream |-> s, seq |-> i - 1]

\* A packet leaves the retransmission set (removed by AckCumulative or marked by
\* AckSelective) only when the peer has recorded it: no hole is left behind
\* that nobody would fill.
RetiredWasReceived ==
    \A n \in Sent : n \notin numbered \cup unacked => Recorded(n)

\* inFlight counts exactly the slots in use: writers inside Send and packets not
\* yet acknowledged.  OnAck's clamp at zero never hides a wrong count, and no
\* slot leaks however ACKs are duplicated or reordered.
SlotsExact ==
    inFlight = Cardinality(slot) + Cardinality(numbered) + Cardinality(unacked)

\* No packet is forgotten: without any help from the network, a packet in the
\* retransmission set ends up recorded by the peer or the session is closed
\* (dead), so that its owner rebuilds the transport.
PacketResolved ==
    \A n \in PktNums : n \in unacked ~> Recorded(n) \/ senderClosed

\* The window always opens again, or the session is closed: a writer blocked in
\* AcquireSlot is not stuck for ever.
WindowReopens == []<>(SlotFree \/ senderClosed)

=============================================================================
