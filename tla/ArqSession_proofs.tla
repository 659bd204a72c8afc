------------------------- MODULE ArqSession_proofs -------------------------
(***************************************************************************)
(* For every number of streams and packets and every size of the windows   *)
(* and buffers that satisfies the module's assumptions: no acknowledged    *)
(* packet is lost, streams are delivered in order, no packet leaves the    *)
(* retransmission set unreceived, and no slot of the window leaks; and the *)
(* session implements one reliable FIFO per stream, whatever the network   *)
(* does.                                                                   *)
(***************************************************************************)
EXTENDS MCArqSession, FiniteSetTheorems, SequenceTheorems, TLAPS

-----------------------------------------------------------------------------
(* The inductive invariant, part by part. *)

\* The model's packet budget counts the writers that hold a slot.
Budget == Len(pkts) + Cardinality(slot) <= MaxPkt

\* Only packets that exist are anywhere, and a packet is in one place only.
Places ==
    /\ numbered \subseteq Sent
    /\ unacked \subseteq Sent
    /\ sacked \subseteq Sent
    /\ received \subseteq Sent
    /\ cumAck <= Len(pkts)
    /\ numbered \cap (unacked \cup sacked) = {}
    /\ unacked \cap sacked = {}

\* The receive loop handles a data packet that it has recorded.
HandlingData ==
    handling # 0 => handling \in Sent /\ IsData(handling) /\ Recorded(handling)

\* cumAck is maximal, and what has not been transmitted is not recorded.
CumAckMaximal ==
    /\ \A n \in received : n > cumAck + 1
    /\ \A n \in numbered : ~Recorded(n)

\* A packet the send buffer has removed is below cumAck; one it keeps as SACKed
\* is recorded and within the SACK window.
Retirement ==
    /\ \A n \in Sent : n \notin numbered \cup unacked \cup sacked => n <= cumAck
    /\ \A n \in sacked : Recorded(n) /\ n <= cumAck + SackWindow

\* An ACK in the network, however old, tells of recorded packets only.
AcksTruthful ==
    \A a \in ackNet :
        /\ a.cum <= cumAck
        /\ \A n \in a.sack : n \in Sent /\ Recorded(n) /\ n <= a.cum + SackWindow

\* A stream's seqs are assigned in the order of the packet numbers, without gaps.
SeqOrder ==
    /\ \A n \in Sent : IsData(n) => pkts[n].seq < nextSeq[pkts[n].stream]
    /\ \A m, n \in Sent :
        IsData(m) /\ pkts[m].stream = pkts[n].stream /\ m < n
            => pkts[m].seq < pkts[n].seq
    /\ \A s \in Streams : \A q \in Nat :
        q < nextSeq[s] => \E n \in Sent : pkts[n].stream = s /\ pkts[n].seq = q

\* What waits in a stream's buffer belongs there.
BufferSound ==
    \A s \in Streams : \A m \in buffer[s] :
        /\ m \in Sent
        /\ pkts[m].stream = s
        /\ pkts[m].seq > expected[s]
        /\ Recorded(m)

\* Nothing is sent on a stream before its buffer exists.
Unopened ==
    \A s \in Streams : recvState[s] = "none" => s \notin slot /\ nextSeq[s] = 0

IInv ==
    /\ TypeOK
    /\ Budget
    /\ Places
    /\ HandlingData
    /\ CumAckMaximal
    /\ Retirement
    /\ AcksTruthful
    /\ SlotsExact
    /\ SeqOrder
    /\ Unopened
    /\ BufferSound
    /\ AckedIsKept
    /\ InOrderDelivery

-----------------------------------------------------------------------------
(* Lemmas on finiteness and on the packet sequence. *)

\* The sets the model counts are finite.
LEMMA FiniteParts ==
    ASSUME TypeOK
    PROVE  /\ IsFiniteSet(PktNums)
           /\ IsFiniteSet(slot)
           /\ IsFiniteSet(numbered)
           /\ IsFiniteSet(unacked)
           /\ IsFiniteSet(received)
           /\ \A s \in Streams : IsFiniteSet(buffer[s])
<1>1. IsFiniteSet(PktNums)
  BY FS_Interval, ConstantsAssumption DEF PktNums
<1>2. IsFiniteSet(Writers)
  BY FS_AddElement, ConstantsAssumption DEF Writers
<1>3. slot \subseteq Writers /\ numbered \subseteq PktNums
      /\ unacked \subseteq PktNums /\ received \subseteq PktNums
  BY DEF TypeOK
<1>4. \A s \in Streams : buffer[s] \subseteq PktNums
  BY DEF TypeOK
<1> QED
  BY <1>1, <1>2, <1>3, <1>4, FS_Subset

\* A packet number stands for a stream, or the control writer, and a seq.
LEMMA PktType ==
    ASSUME TypeOK, NEW n \in Sent
    PROVE  pkts[n].stream \in Writers /\ pkts[n].seq \in Nat
<1>1. pkts[n] \in [stream : Writers, seq : Nat]
  <2>1. pkts \in Seq([stream : Writers, seq : Nat]) /\ n \in 1..Len(pkts)
    BY DEF TypeOK, Sent
  <2> QED
    BY <2>1, ElementOfSeq
<1> QED
  BY <1>1

\* Numbering a packet (nextPktNum.Add) extends pkts by that packet and leaves
\* what the earlier numbers carry alone.
LEMMA AppendPkt ==
    ASSUME TypeOK, NEW r \in [stream : Writers, seq : Nat],
           pkts' = Append(pkts, r)
    PROVE  /\ pkts' \in Seq([stream : Writers, seq : Nat])
           /\ Len(pkts') = Len(pkts) + 1
           /\ \A n \in Sent : pkts'[n] = pkts[n]
           /\ pkts'[Len(pkts) + 1] = r
  BY DEF TypeOK, Sent

\* Initially nothing has been sent.
LEMMA InitIInv == Init => IInv
<1> SUFFICES ASSUME Init PROVE IInv
  OBVIOUS
<1>1. TypeOK
  <2>1. /\ pkts \in Seq([stream : Writers, seq : Nat])
        /\ Len(pkts) \in 0..MaxPkt
    BY ConstantsAssumption DEF Init
  <2>2. delivered \in [Streams -> Seq(PktNums)]
    BY DEF Init
  <2>3. /\ cwnd \in MinCwnd..MaxCwnd
        /\ inFlight \in 0..MaxCwnd
        /\ lastAckCumAck \in 0..MaxPkt
        /\ cumAck \in 0..MaxPkt
        /\ handling \in 0..MaxPkt
        /\ dupAckCount \in 0..(DupAckThreshold - 1)
        /\ pktsSinceAck \in 0..DelayedAckThreshold
        /\ retx \in [PktNums -> 0..MaxRetransmits]
    BY ConstantsAssumption DEF Init
  <2> QED
    BY <2>1, <2>2, <2>3, Zenon DEF Init, TypeOK
<1>2. Budget /\ SlotsExact
  BY FS_EmptySet, ConstantsAssumption DEF Init, Budget, SlotsExact
<1>3. Places /\ HandlingData /\ CumAckMaximal /\ Retirement
  BY DEF Init, Places, HandlingData, CumAckMaximal, Retirement, Sent
<1>4. AcksTruthful /\ SeqOrder /\ Unopened
  BY DEF Init, AcksTruthful, SeqOrder, Unopened, Sent
<1>5. BufferSound /\ AckedIsKept /\ InOrderDelivery
  BY DEF Init, BufferSound, AckedIsKept, InOrderDelivery, Sent
<1> QED
  BY <1>1, <1>2, <1>3, <1>4, <1>5 DEF IInv

-----------------------------------------------------------------------------
(* Steps that move no packet. *)

\* A step that touches neither the packets, nor what was received
\* and delivered keeps every part of the invariant that speaks of those only.
LEMMA Frame ==
    ASSUME IInv,
           UNCHANGED <<writerVars, unacked, sacked, inFlight, received, cumAck,
                       expected, delivered, handling>>
    PROVE  /\ (Budget /\ Places /\ HandlingData /\ CumAckMaximal)'
           /\ (Retirement /\ SlotsExact /\ SeqOrder /\ InOrderDelivery)'
           /\ UNCHANGED ackNet => AcksTruthful'
<1> USE DEF writerVars
<1>1. (Budget /\ SlotsExact)'
  BY DEF IInv, Budget, SlotsExact
<1>2. (Places /\ CumAckMaximal)'
  BY DEF IInv, Places, CumAckMaximal, Sent, Recorded
<1>3. HandlingData'
  BY DEF IInv, HandlingData, Sent, IsData, Recorded
<1>4. Retirement' /\ (UNCHANGED ackNet => AcksTruthful')
  BY DEF IInv, Retirement, AcksTruthful, Sent, Recorded
<1>5. SeqOrder'
  BY DEF IInv, SeqOrder, Sent, IsData
<1>6. InOrderDelivery'
  BY DEF IInv, InOrderDelivery, Sent
<1> QED
  BY <1>1, <1>2, <1>3, <1>4, <1>5, <1>6

\* The same for what depends on the receive buffers.
LEMMA BufferFrame ==
    ASSUME IInv,
           UNCHANGED <<writerVars, received, cumAck, streamVars, handling>>
    PROVE  (Unopened /\ BufferSound /\ AckedIsKept)'
<1> USE DEF writerVars, streamVars
<1>1. Unopened'
  BY DEF IInv, Unopened
<1>2. BufferSound'
  BY DEF IInv, BufferSound, Sent, Recorded
<1>3. AckedIsKept'
  BY DEF IInv, AckedIsKept, Sent, IsData, Recorded
<1> QED
  BY <1>1, <1>2, <1>3

\* RetransmitTick changes counts and flags only: the datagrams it sends are
\* copies of datagrams sent before.
LEMMA RetransmitStep ==
    ASSUME IInv, NEW E \in SUBSET unacked, RetransmitTick(E)
    PROVE  IInv'
<1> DEFINE resent == {n \in E : \A m \in Exhausted(E) : n < m}
<1>1. retx' = MarkResent(resent, unacked)
  BY DEF RetransmitTick
<1>2. retx' \in [PktNums -> 0..MaxRetransmits]
  <2> HIDE DEF resent
  <2>1. retx \in [PktNums -> 0..MaxRetransmits] /\ MaxRetransmits \in Nat
    BY ConstantsAssumption DEF IInv, TypeOK
  <2> QED
    BY <1>1, <2>1 DEF MarkResent
<1>3. dead' \in BOOLEAN /\ senderClosed' \in BOOLEAN
  BY Zenon DEF RetransmitTick, IInv, TypeOK
<1>4. UNCHANGED <<writerVars, unacked, sacked, cwnd, inFlight, lastAckCumAck,
                  dupAckCount, ackNet, receiverVars>>
  BY DEF RetransmitTick
<1>5. TypeOK'
  BY <1>2, <1>3, <1>4, Zenon DEF IInv, TypeOK, writerVars, receiverVars,
     ackStateVars, streamVars
<1>6. UNCHANGED <<received, cumAck, streamVars, expected, delivered, handling>>
  BY <1>4 DEF receiverVars, ackStateVars, streamVars
<1> QED
  BY <1>4, <1>5, <1>6, Frame, BufferFrame DEF IInv

\* Closing either side only sets its flag.
LEMMA CloseStep ==
    ASSUME IInv, CloseSender \/ CloseReceiver
    PROVE  IInv'
<1>1. /\ UNCHANGED <<writerVars, unacked, sacked, retx, cwnd, inFlight,
                     lastAckCumAck, dupAckCount, dead, ackNet, ackStateVars,
                     streamVars, handling>>
      /\ senderClosed' \in BOOLEAN
      /\ receiverClosed' \in BOOLEAN
  BY Zenon DEF CloseSender, CloseReceiver, IInv, TypeOK, senderVars, writerVars,
     receiverVars
<1>2. TypeOK'
  BY <1>1, Zenon DEF IInv, TypeOK, writerVars, ackStateVars, streamVars
<1>3. UNCHANGED <<received, cumAck, expected, delivered>>
  BY <1>1 DEF ackStateVars, streamVars
<1> QED
  BY <1>1, <1>2, <1>3, Frame, BufferFrame DEF IInv

\* An ACK built from the receiver's state is well typed and truthful.
LEMMA BuildAckTruthful ==
    ASSUME IInv
    PROVE  /\ BuildAck \in Acks
           /\ BuildAck.cum <= cumAck
           /\ \A n \in BuildAck.sack :
                n \in Sent /\ Recorded(n) /\ n <= BuildAck.cum + SackWindow
  BY DEF IInv, TypeOK, Places, BuildAck, Acks, Recorded

\* Building and losing ACKs leaves the network with truthful ACKs.
LEMMA AckStep ==
    ASSUME IInv, AckTick \/ \E a \in ackNet : LoseAck(a)
    PROVE  IInv'
<1>1. /\ UNCHANGED <<senderVars, received, cumAck, streamVars, handling,
                     receiverClosed>>
      /\ ackNet' \subseteq ackNet \cup {BuildAck}
  BY DEF AckTick, LoseAck, SendAck, PutAck, receiverVars, ackStateVars
<1>2. pktsSinceAck' \in 0..DelayedAckThreshold /\ immediateAck' \in BOOLEAN
  <2>1. CASE AckTick
    <3>1. pktsSinceAck' = 0
      BY <2>1 DEF AckTick, SendAck
    <3>2. immediateAck' \in BOOLEAN
      BY <2>1, Zenon DEF AckTick, SendAck
    <3>3. pktsSinceAck' \in 0..DelayedAckThreshold
      BY <3>1, ConstantsAssumption
    <3> QED
      BY <3>2, <3>3
  <2>2. CASE \E a \in ackNet : LoseAck(a)
    BY <2>2, Zenon DEF LoseAck, receiverVars, ackStateVars, IInv, TypeOK
  <2> QED
    BY <2>1, <2>2
<1>3. ackNet' \subseteq Acks
  BY <1>1, BuildAckTruthful DEF IInv, TypeOK
<1>4. TypeOK'
  BY <1>1, <1>2, <1>3, Zenon DEF IInv, TypeOK, senderVars, streamVars
<1>5. AcksTruthful'
  <2> SUFFICES ASSUME NEW a \in ackNet'
               PROVE  /\ a.cum <= cumAck
                      /\ \A n \in a.sack : /\ n \in Sent
                                           /\ Recorded(n)
                                           /\ n <= a.cum + SackWindow
    BY <1>1 DEF AcksTruthful, senderVars, Sent, Recorded
  <2> QED
    BY <1>1, BuildAckTruthful DEF IInv, AcksTruthful
<1>6. UNCHANGED <<writerVars, unacked, sacked, inFlight, expected, delivered>>
  BY <1>1 DEF senderVars, writerVars, streamVars
<1> QED
  BY <1>1, <1>4, <1>5, <1>6, Frame, BufferFrame DEF IInv

\* No packet of a stream without a buffer exists yet, so none is lost when the
\* buffer is created; when it is removed nothing is promised any more.
LEMMA RecvBufferStep ==
    ASSUME IInv, NEW s \in Streams, CreateRecvBuffer(s) \/ RemoveRecvBuffer(s)
    PROVE  IInv'
<1>1. UNCHANGED <<senderVars, ackNet, ackStateVars, expected, delivered,
                  handling, receiverClosed>>
  BY DEF CreateRecvBuffer, RemoveRecvBuffer
<1>2. /\ recvState' \in [Streams -> {"none", "open", "removed"}]
      /\ \A t \in Streams : recvState'[t] = "none" => recvState[t] = "none"
      /\ buffer' \in [Streams -> SUBSET PktNums]
      /\ \A t \in Streams : buffer'[t] \subseteq buffer[t]
  BY DEF CreateRecvBuffer, RemoveRecvBuffer, IInv, TypeOK
<1>3. TypeOK'
  BY <1>1, <1>2, Zenon DEF IInv, TypeOK, senderVars, ackStateVars
<1>4. BufferSound'
  BY <1>1, <1>2 DEF IInv, BufferSound, Sent, Recorded, senderVars, ackStateVars
<1>5. AckedIsKept'
  <2> SUFFICES ASSUME NEW n \in Sent, Recorded(n), n # handling, IsData(n),
                      recvState'[pkts[n].stream] = "open"
               PROVE  \/ pkts[n].seq < expected[pkts[n].stream]
                      \/ n \in buffer'[pkts[n].stream]
    BY <1>1 DEF AckedIsKept, Sent, Recorded, IsData, senderVars, ackStateVars
  <2>1. pkts[n].stream \in Streams /\ pkts[n].seq \in Nat
    BY PktType DEF IsData, IInv
  <2>2. recvState[pkts[n].stream] # "none"
    BY <2>1 DEF IInv, SeqOrder, Unopened
  <2>3. /\ recvState[pkts[n].stream] = "open"
        /\ buffer'[pkts[n].stream] = buffer[pkts[n].stream]
    BY <2>1, <2>2 DEF CreateRecvBuffer, RemoveRecvBuffer, IInv, TypeOK
  <2> QED
    BY <2>3 DEF IInv, AckedIsKept
<1>6. UNCHANGED <<writerVars, unacked, sacked, inFlight, received, cumAck>>
  BY <1>1 DEF senderVars, writerVars, ackStateVars
<1>7. Unopened'
  BY <1>1, <1>2 DEF IInv, Unopened, senderVars
<1> QED
  BY <1>1, <1>3, <1>4, <1>5, <1>6, <1>7, Frame DEF IInv

-----------------------------------------------------------------------------
(* Controller.Send *)

\* A slot is taken only below the window, so inFlight stays within MaxCwnd.
LEMMA AcquireStep ==
    ASSUME IInv, NEW w \in Writers, AcquireSlot(w)
    PROVE  IInv'
<1>1. /\ slot' = slot \cup {w}
      /\ w \notin slot
      /\ inFlight' = inFlight + 1
      /\ inFlight < cwnd
      /\ Len(pkts) + Cardinality(slot) < MaxPkt
      /\ w \in Streams => recvState[w] # "none"
  BY DEF AcquireSlot, Idle, SlotFree, PktBudget
<1>2. UNCHANGED <<pkts, nextSeq, numbered, unacked, sacked, retx, cwnd,
                  lastAckCumAck, dupAckCount, senderClosed, dead, ackNet,
                  receiverVars>>
  BY DEF AcquireSlot
<1>3. Cardinality(slot') = Cardinality(slot) + 1
  BY <1>1, FiniteParts, FS_AddElement DEF IInv
<1>4. /\ Cardinality(slot) \in Nat
      /\ Cardinality(numbered) \in Nat
      /\ Cardinality(unacked) \in Nat
  BY FiniteParts, FS_CardinalityType DEF IInv
<1>5. TypeOK'
  <2>1. inFlight' \in 0..MaxCwnd
    BY <1>1, ConstantsAssumption DEF IInv, TypeOK
  <2>2. slot' \subseteq Writers
    BY <1>1 DEF IInv, TypeOK
  <2> QED
    BY <1>2, <2>1, <2>2, Zenon DEF IInv, TypeOK, receiverVars, ackStateVars,
       streamVars
<1>6. Budget'
  BY <1>1, <1>2, <1>3, <1>4, ConstantsAssumption DEF Budget, IInv, TypeOK
<1>7. SlotsExact'
  <2>1. inFlight \in Nat
    BY ConstantsAssumption DEF IInv, TypeOK
  <2> QED
    BY <1>1, <1>2, <1>3, <1>4, <2>1 DEF SlotsExact, IInv
<1>8. Unopened'
  BY <1>1, <1>2 DEF Unopened, IInv, receiverVars, streamVars
<1>9. /\ (Places /\ HandlingData /\ CumAckMaximal /\ Retirement)'
      /\ (AcksTruthful /\ SeqOrder)'
      /\ (BufferSound /\ AckedIsKept /\ InOrderDelivery)'
  BY <1>2 DEF IInv, receiverVars, ackStateVars, streamVars,
     Places, HandlingData, CumAckMaximal, Retirement, AcksTruthful, SeqOrder,
     BufferSound, AckedIsKept, InOrderDelivery, Sent, IsData, Recorded
<1> QED
  BY <1>5, <1>6, <1>7, <1>8, <1>9 DEF IInv

\* The slot turns into a numbered packet; no existing packet is touched, and
\* the new one is recorded nowhere.
LEMMA NumberStep ==
    ASSUME IInv, NEW w \in Writers, NumberPacket(w)
    PROVE  IInv'
<1> DEFINE k == Len(pkts) + 1
           r == [stream |-> w, seq |-> IF w \in Streams THEN nextSeq[w] ELSE 0]
<1>1. /\ w \in slot
      /\ slot' = slot \ {w}
      /\ numbered' = numbered \cup {k}
      /\ pkts' = Append(pkts, r)
      /\ nextSeq' = IF w \in Streams THEN [nextSeq EXCEPT ![w] = @ + 1]
                                     ELSE nextSeq
  BY DEF NumberPacket
<1>2. UNCHANGED <<unacked, sacked, retx, cwnd, inFlight, lastAckCumAck,
                  dupAckCount, senderClosed, dead, ackNet, receiverVars>>
  BY DEF NumberPacket
<1>3. r \in [stream : Writers, seq : Nat]
  BY DEF IInv, TypeOK
<1>4. /\ pkts' \in Seq([stream : Writers, seq : Nat])
      /\ Len(pkts') = k
      /\ \A n \in Sent : pkts'[n] = pkts[n]
      /\ pkts'[k] = r
  <2> HIDE DEF r
  <2> QED
    BY <1>1, <1>3, AppendPkt DEF IInv
<1>5. Len(pkts) \in Nat /\ Sent' = Sent \cup {k} /\ k \notin Sent
  BY <1>4 DEF IInv, TypeOK, Sent
<1>6. /\ Cardinality(slot) \in Nat
      /\ Cardinality(numbered) \in Nat
      /\ Cardinality(unacked) \in Nat
  BY FiniteParts, FS_CardinalityType DEF IInv
<1>7. Cardinality(slot') = Cardinality(slot) - 1
  BY <1>1, FiniteParts, FS_RemoveElement DEF IInv
<1>8. k \notin numbered
  BY <1>5 DEF IInv, Places
<1>9. Cardinality(numbered') = Cardinality(numbered) + 1
  BY <1>1, <1>8, FiniteParts, FS_AddElement DEF IInv
<1>10. slot # {} /\ Cardinality(slot) # 0
  BY <1>1, FiniteParts, FS_EmptySet DEF IInv
<1>11. k <= MaxPkt
  BY <1>6, <1>10, <1>5, ConstantsAssumption DEF IInv, Budget
<1>12. TypeOK'
  <2>1. Len(pkts') \in 0..MaxPkt
    BY <1>4, <1>5, <1>11, ConstantsAssumption
  <2>2. numbered' \subseteq PktNums
    <3>1. k \in PktNums
      BY <1>5, <1>11, ConstantsAssumption DEF PktNums
    <3>2. numbered \subseteq PktNums
      BY DEF IInv, TypeOK
    <3> QED
      BY <3>1, <3>2, <1>1
  <2>3. nextSeq' \in [Streams -> Nat]
    BY <1>1 DEF IInv, TypeOK
  <2>4. slot' \subseteq Writers
    BY <1>1 DEF IInv, TypeOK
  <2>5. pkts' \in Seq([stream : Writers, seq : Nat])
    BY <1>4
  <2> HIDE DEF k, r
  <2> QED
    BY <1>2, <2>1, <2>2, <2>3, <2>4, <2>5, Zenon DEF IInv, TypeOK,
       receiverVars, ackStateVars, streamVars
<1>13. Budget'
  BY <1>4, <1>5, <1>6, <1>7, ConstantsAssumption DEF Budget, IInv
<1>14. SlotsExact'
  BY <1>2, <1>6, <1>7, <1>9 DEF SlotsExact, IInv, TypeOK
<1>15. cumAck \in Nat /\ cumAck < k /\ k \notin received
  BY <1>5 DEF IInv, TypeOK, Places, Sent
<1> HIDE DEF k
<1>16. Places'
  BY <1>1, <1>2, <1>4, <1>5, <1>15 DEF IInv, Places, receiverVars, ackStateVars
<1>17. HandlingData' /\ CumAckMaximal' /\ Retirement' /\ AcksTruthful'
  <2>1. HandlingData'
    BY <1>2, <1>4, <1>5 DEF IInv, HandlingData, Recorded, IsData, receiverVars,
       ackStateVars
  <2>2. k \in Nat
    BY <1>5 DEF k
  <2>3. CumAckMaximal'
    BY <1>1, <1>2, <1>15, <2>2 DEF IInv, CumAckMaximal, Recorded, receiverVars,
       ackStateVars
  <2>4. Retirement'
    BY <1>1, <1>2, <1>5 DEF IInv, Retirement, Recorded, receiverVars,
       ackStateVars
  <2>5. AcksTruthful'
    BY <1>2, <1>5 DEF IInv, AcksTruthful, Recorded, receiverVars, ackStateVars
  <2> QED
    BY <2>1, <2>3, <2>4, <2>5
<1>18. BufferSound' /\ AckedIsKept' /\ InOrderDelivery'
  <2>1. BufferSound'
    BY <1>2, <1>4, <1>5 DEF IInv, BufferSound, Recorded, receiverVars,
       ackStateVars, streamVars
  <2>2. AckedIsKept'
    BY <1>2, <1>4, <1>5, <1>15 DEF IInv, AckedIsKept, Recorded, IsData,
       receiverVars, ackStateVars, streamVars
  <2>3. InOrderDelivery'
    BY <1>2, <1>4, <1>5 DEF IInv, InOrderDelivery, receiverVars, streamVars
  <2> QED
    BY <2>1, <2>2, <2>3
<1>19. Unopened'
  BY <1>1, <1>2 DEF IInv, TypeOK, Unopened, receiverVars, streamVars
<1>20. SeqOrder'
  <2>1. \A s \in Streams : nextSeq[s] \in Nat /\ nextSeq'[s] \in Nat
                           /\ nextSeq[s] <= nextSeq'[s]
                           /\ (s # w => nextSeq'[s] = nextSeq[s])
                           /\ (s = w => nextSeq'[s] = nextSeq[s] + 1)
    BY <1>1 DEF IInv, TypeOK
  <2>2. w \in Streams => r.stream = w /\ r.seq = nextSeq[w]
    OBVIOUS
  <2>3. r.stream = w
    OBVIOUS
  <2>4. \A n \in Sent : pkts[n].seq \in Nat
    BY PktType DEF IInv
  <2> HIDE DEF r
  <2>5. \A n \in Sent' : IsData(n)' => pkts'[n].seq < nextSeq'[pkts'[n].stream]
    <3> SUFFICES ASSUME NEW n \in Sent', IsData(n)'
                 PROVE  pkts'[n].seq < nextSeq'[pkts'[n].stream]
      OBVIOUS
    <3>1. CASE n \in Sent
      <4>1. pkts'[n] = pkts[n] /\ pkts[n].stream \in Streams
        BY <3>1, <1>4 DEF IsData
      <4>2. pkts[n].seq < nextSeq[pkts[n].stream]
        BY <3>1, <4>1 DEF IInv, SeqOrder, IsData
      <4> QED
        BY <3>1, <4>1, <4>2, <2>1, <2>4
    <3>2. CASE n = k
      BY <3>2, <1>4, <2>1, <2>2, <2>3 DEF IsData
    <3> QED
      BY <1>5, <3>1, <3>2
  <2>6. \A m, n \in Sent' :
          IsData(m)' /\ pkts'[m].stream = pkts'[n].stream /\ m < n
            => pkts'[m].seq < pkts'[n].seq
    <3> SUFFICES ASSUME NEW m \in Sent', NEW n \in Sent', IsData(m)',
                        pkts'[m].stream = pkts'[n].stream, m < n
                 PROVE  pkts'[m].seq < pkts'[n].seq
      OBVIOUS
    <3>1. m \in Sent
      BY <1>5 DEF Sent, k
    <3>2. CASE n \in Sent
      BY <3>1, <3>2, <1>4 DEF IInv, SeqOrder, IsData
    <3>3. CASE n = k
      BY <3>1, <3>3, <1>4, <2>2, <2>3 DEF IInv, SeqOrder, IsData
    <3> QED
      BY <1>5, <3>2, <3>3
  <2>7. \A s \in Streams : \A q \in Nat :
          q < nextSeq'[s]
            => \E n \in Sent' : pkts'[n].stream = s /\ pkts'[n].seq = q
    <3> SUFFICES ASSUME NEW s \in Streams, NEW q \in Nat, q < nextSeq'[s]
                 PROVE  \E n \in Sent' : pkts'[n].stream = s /\ pkts'[n].seq = q
      OBVIOUS
    <3>1. CASE q < nextSeq[s]
      BY <3>1, <1>4, <1>5 DEF IInv, SeqOrder
    <3>2. CASE ~(q < nextSeq[s])
      <4>1. s = w /\ q = nextSeq[s]
        BY <3>2, <2>1
      <4> QED
        BY <4>1, <2>2, <1>4, <1>5
    <3> QED
      BY <3>1, <3>2
  <2> QED
    BY <2>5, <2>6, <2>7 DEF SeqOrder
<1> QED
  BY <1>12, <1>13, <1>14, <1>16, <1>17, <1>18, <1>19, <1>20 DEF IInv

\* SendBuffer.Add moves the packet from the writer to the send buffer.
LEMMA TransmitStep ==
    ASSUME IInv, NEW n \in PktNums, Transmit(n)
    PROVE  IInv'
<1>1. /\ n \in numbered
      /\ numbered' = numbered \ {n}
      /\ unacked' = unacked \cup {n}
  BY DEF Transmit
<1>2. UNCHANGED <<pkts, nextSeq, slot, sacked, retx, cwnd, inFlight,
                  lastAckCumAck, dupAckCount, senderClosed, dead, ackNet,
                  receiverVars>>
  BY DEF Transmit
<1>3. n \notin unacked
  BY <1>1 DEF IInv, Places
<1>4. Cardinality(numbered') = Cardinality(numbered) - 1
  BY <1>1, FiniteParts, FS_RemoveElement DEF IInv
<1>5. Cardinality(unacked') = Cardinality(unacked) + 1
  BY <1>1, <1>3, FiniteParts, FS_AddElement DEF IInv
<1>6. /\ Cardinality(slot) \in Nat
      /\ Cardinality(numbered) \in Nat
      /\ Cardinality(unacked) \in Nat
  BY FiniteParts, FS_CardinalityType DEF IInv
<1>7. TypeOK'
  <2>1. numbered' \subseteq PktNums /\ unacked' \subseteq PktNums
    BY <1>1 DEF IInv, TypeOK
  <2> QED
    BY <1>2, <2>1, Zenon DEF IInv, TypeOK, receiverVars, ackStateVars,
       streamVars
<1>8. SlotsExact'
  <2>1. inFlight \in Nat
    BY ConstantsAssumption DEF IInv, TypeOK
  <2> QED
    BY <1>2, <1>4, <1>5, <1>6, <2>1 DEF SlotsExact, IInv
<1>9. Places' /\ CumAckMaximal' /\ Retirement'
  BY <1>1, <1>2 DEF IInv, Places, CumAckMaximal, Retirement, Recorded, Sent,
     receiverVars, ackStateVars
<1>10. /\ (Budget /\ HandlingData)'
       /\ (AcksTruthful /\ SeqOrder /\ Unopened)'
       /\ (BufferSound /\ AckedIsKept /\ InOrderDelivery)'
  BY <1>2 DEF IInv, receiverVars, ackStateVars, streamVars, Budget,
     HandlingData, AcksTruthful, SeqOrder, Unopened, BufferSound, AckedIsKept,
     InOrderDelivery, Sent, IsData, Recorded
<1> QED
  BY <1>7, <1>8, <1>9, <1>10 DEF IInv

-----------------------------------------------------------------------------
(* Controller.HandleAck *)

\* An ACK retires only packets it speaks for, and gives back exactly their
\* slots: what an older ACK had acknowledged is not counted again.
LEMMA HandleAckStep ==
    ASSUME IInv, NEW a \in ackNet, HandleAck(a)
    PROVE  IInv'
<1> DEFINE acked == NewlyAcked(a)
<1>1. /\ unacked' = unacked \ acked
      /\ sacked' = StillSacked(a)
      /\ inFlight' = ReleaseSlots(Cardinality(acked))
      /\ cwnd' \in IF acked = {} THEN {cwnd} ELSE MinCwnd..MaxCwnd
      /\ lastAckCumAck' = a.cum
  BY DEF HandleAck, AckedCount, RecalcCwnd
<1>2. UNCHANGED <<writerVars, senderClosed, dead, ackNet, receiverVars>>
  BY DEF HandleAck
<1>3. acked \subseteq unacked
  BY DEF NewlyAcked
<1>4. /\ a \in Acks
      /\ a.cum \in 0..MaxPkt
      /\ a.cum <= cumAck
      /\ \A n \in a.sack : n \in Sent /\ Recorded(n) /\ n <= a.cum + SackWindow
  BY DEF IInv, TypeOK, AcksTruthful, Acks
<1>5. /\ Cardinality(slot) \in Nat
      /\ Cardinality(numbered) \in Nat
      /\ Cardinality(unacked) \in Nat
      /\ Cardinality(acked) \in Nat
      /\ Cardinality(unacked \ acked) = Cardinality(unacked) - Cardinality(acked)
      /\ Cardinality(acked) <= Cardinality(unacked)
  <2>1. IsFiniteSet(unacked) /\ IsFiniteSet(slot) /\ IsFiniteSet(numbered)
    BY FiniteParts DEF IInv
  <2>2. IsFiniteSet(acked) /\ Cardinality(acked) <= Cardinality(unacked)
    BY <2>1, <1>3, FS_Subset
  <2>3. unacked \cap acked = acked
    BY <1>3
  <2>4. Cardinality(unacked \ acked) = Cardinality(unacked) - Cardinality(acked)
    BY <2>1, <2>2, <2>3, FS_Difference
  <2> QED
    BY <2>1, <2>2, <2>4, FS_CardinalityType
<1> HIDE DEF acked
<1>6. SlotsExact' /\ inFlight' \in 0..inFlight
  <2>1. slot' = slot /\ numbered' = numbered
    BY <1>2 DEF writerVars
  <2>2. inFlight = Cardinality(slot) + Cardinality(numbered) + Cardinality(unacked)
    BY DEF IInv, SlotsExact
  <2>3. inFlight' = inFlight - Cardinality(acked)
    BY <1>1, <1>5, <2>2 DEF ReleaseSlots
  <2>4. Cardinality(unacked') = Cardinality(unacked) - Cardinality(acked)
    BY <1>1, <1>5
  <2> QED
    BY <1>5, <2>1, <2>2, <2>3, <2>4 DEF SlotsExact
<1>7. TypeOK'
  <2>1. unacked' \subseteq PktNums
    BY <1>1 DEF IInv, TypeOK
  <2>2. sacked' \subseteq PktNums
    BY <1>1 DEF StillSacked, IInv, TypeOK
  <2>3. cwnd' \in MinCwnd..MaxCwnd
    BY <1>1 DEF IInv, TypeOK
  <2>4. inFlight' \in 0..MaxCwnd
    BY <1>6, ConstantsAssumption DEF IInv, TypeOK
  <2>5. lastAckCumAck' \in 0..MaxPkt
    BY <1>1, <1>4
  <2>6. dupAckCount' \in 0..(DupAckThreshold - 1)
    BY ConstantsAssumption DEF HandleAck, IInv, TypeOK
  <2>7. retx' \in [PktNums -> 0..MaxRetransmits]
    <3>1. \E X, U : retx' = MarkResent(X, U)
      BY DEF HandleAck
    <3>2. retx \in [PktNums -> 0..MaxRetransmits] /\ MaxRetransmits \in Nat
      BY ConstantsAssumption DEF IInv, TypeOK
    <3> QED
      BY <3>1, <3>2 DEF MarkResent
  <2> QED
    BY <1>2, <2>1, <2>2, <2>3, <2>4, <2>5, <2>6, <2>7, Zenon DEF IInv, TypeOK,
       writerVars, receiverVars, ackStateVars, streamVars
<1>8. Places'
  BY <1>1, <1>2 DEF IInv, Places, Sent, StillSacked, NewlyAcked, acked,
     writerVars, receiverVars, ackStateVars
<1>9. Retirement'
  <2>1. /\ cumAck' = cumAck /\ received' = received
        /\ Sent' = Sent /\ numbered' = numbered
        /\ cumAck \in Nat /\ SackWindow \in Nat /\ a.cum \in Nat
        /\ \A n \in Sent : n \in Nat
    BY <1>2, <1>4, ConstantsAssumption DEF writerVars, receiverVars,
       ackStateVars, Sent, IInv, TypeOK
  <2>2. ASSUME NEW n \in Sent, n \notin numbered \cup unacked' \cup sacked'
        PROVE  n <= cumAck
    <3>1. CASE n \in unacked \cup sacked
      <4>1. n <= a.cum
        BY <3>1, <2>1, <2>2, <1>1 DEF StillSacked, NewlyAcked, acked
      <4> QED
        BY <4>1, <1>4, <2>1
    <3>2. CASE n \notin unacked \cup sacked
      BY <3>2, <2>2 DEF IInv, Retirement
    <3> QED
      BY <3>1, <3>2
  <2>3. ASSUME NEW n \in sacked'
        PROVE  Recorded(n) /\ n <= cumAck + SackWindow
    <3>1. CASE n \in sacked
      BY <3>1 DEF IInv, Retirement
    <3>2. CASE n \in a.sack
      BY <3>2, <1>4, <2>1
    <3> QED
      BY <3>1, <3>2, <2>3, <1>1 DEF StillSacked
  <2> QED
    BY <2>1, <2>2, <2>3 DEF Retirement, Recorded
<1>10. /\ (Budget /\ HandlingData /\ CumAckMaximal)'
       /\ (AcksTruthful /\ SeqOrder /\ Unopened)'
       /\ (BufferSound /\ AckedIsKept /\ InOrderDelivery)'
  BY <1>2 DEF IInv, writerVars, receiverVars, ackStateVars, streamVars, Budget,
     HandlingData, CumAckMaximal, AcksTruthful, SeqOrder, Unopened,
     BufferSound, AckedIsKept, InOrderDelivery, Sent, IsData, Recorded
<1> QED
  BY <1>6, <1>7, <1>8, <1>9, <1>10 DEF IInv

-----------------------------------------------------------------------------
(* Receiver *)

\* Recording a packet adds it, and nothing else, to what is recorded, and
\* never takes cumAck back.
LEMMA RecordStep ==
    ASSUME IInv, NEW n \in PktNums, HandleDataRecord(n)
    PROVE  IInv'
<1>1. /\ n \in Sent /\ n \notin numbered
      /\ handling = 0
      /\ handling' = IF IsData(n) THEN n ELSE 0
      /\ pktsSinceAck' = Counted
      /\ UNCHANGED <<senderVars, ackNet, streamVars, receiverClosed>>
  BY DEF HandleDataRecord, RecordReceived
<1>2. /\ cumAck \in Nat /\ n \in Nat /\ MaxPkt \in Nat /\ Len(pkts) \in Nat
      /\ \A m \in Sent : m \in Nat /\ m >= 1
      /\ Sent' = Sent
      /\ received \subseteq Sent
      /\ \A m \in received : m > cumAck + 1
      /\ SackWindow \in Nat
  BY <1>1, ConstantsAssumption DEF IInv, TypeOK, Sent, Places, CumAckMaximal,
     senderVars
<1>3. /\ cumAck' \in cumAck..MaxPkt
      /\ cumAck' <= Len(pkts)
      /\ received' \subseteq received \cup {n}
      /\ \A m \in received' : m > cumAck' + 1
      /\ \A m \in Sent : Recorded(m)' <=> Recorded(m) \/ m = n
  <2>1. CASE n <= cumAck
    <3>1. received' = received /\ cumAck' = cumAck
      BY <2>1 DEF HandleDataRecord, RecordReceived
    <3> QED
      BY <3>1, <2>1, <1>2 DEF Recorded, IInv, Places, TypeOK
  <2>2. CASE ~(n <= cumAck)
    <3>1. PICK c \in cumAck..MaxPkt :
            /\ \A m \in (cumAck + 1)..c : m \in received \cup {n}
            /\ c + 1 \notin received \cup {n}
            /\ cumAck' = c
            /\ received' = {m \in received \cup {n} : m > c}
      BY <2>2 DEF HandleDataRecord, RecordReceived, AdvanceTo
    <3>2. c <= Len(pkts)
      <4>1. CASE c = cumAck
        BY <4>1 DEF IInv, Places
      <4>2. CASE c # cumAck
        <5>1. c \in (cumAck + 1)..c
          BY <4>2, <1>2
        <5>2. c \in Sent
          BY <5>1, <3>1, <1>1, <1>2
        <5> QED
          BY <5>2 DEF Sent
      <4> QED
        BY <4>1, <4>2
    <3>3. \A m \in received' : m > c + 1
      BY <3>1, <1>1, <1>2
    <3>4. ASSUME NEW m \in Sent
          PROVE  Recorded(m)' <=> Recorded(m) \/ m = n
      BY <3>1, <1>2, <2>2 DEF Recorded
    <3> QED
      BY <3>1, <3>2, <3>3, <3>4
  <2> QED
    BY <2>1, <2>2
<1>4. immediateAck' \in BOOLEAN
  <2>1. CASE n <= cumAck
    BY <2>1, Zenon DEF HandleDataRecord, RecordReceived, IInv, TypeOK
  <2>2. CASE ~(n <= cumAck)
    BY <2>2, Zenon DEF HandleDataRecord, RecordReceived
  <2> QED
    BY <2>1, <2>2
<1>5. TypeOK'
  <2>1. pktsSinceAck' \in 0..DelayedAckThreshold
    BY <1>1, ConstantsAssumption DEF Counted, IInv, TypeOK
  <2>2. received' \subseteq PktNums
    BY <1>3 DEF IInv, TypeOK
  <2>3. cumAck' \in 0..MaxPkt
    BY <1>2, <1>3
  <2>4. handling' \in 0..MaxPkt
    BY <1>1, <1>2 DEF PktNums
  <2> QED
    BY <1>1, <1>4, <2>1, <2>2, <2>3, <2>4, Zenon DEF IInv, TypeOK, senderVars,
       streamVars
<1>6. Places'
  BY <1>1, <1>2, <1>3 DEF IInv, Places, senderVars
<1>7. HandlingData'
  BY <1>1, <1>2, <1>3 DEF HandlingData, IsData, senderVars
<1>8. CumAckMaximal'
  BY <1>1, <1>2, <1>3 DEF IInv, CumAckMaximal, Places, senderVars
<1>9. Retirement'
  <2>1. numbered' = numbered /\ unacked' = unacked /\ sacked' = sacked
    BY <1>1 DEF senderVars
  <2>2. ASSUME NEW m \in Sent, m \notin numbered \cup unacked \cup sacked
        PROVE  m <= cumAck'
    <3>1. m <= cumAck
      BY <2>2 DEF IInv, Retirement
    <3> QED
      BY <3>1, <1>2, <1>3
  <2>3. ASSUME NEW m \in sacked
        PROVE  Recorded(m)' /\ m <= cumAck' + SackWindow
    <3>1. m \in Sent /\ Recorded(m) /\ m <= cumAck + SackWindow
      BY DEF IInv, Retirement, Places
    <3> QED
      BY <3>1, <1>2, <1>3
  <2> QED
    BY <1>2, <2>1, <2>2, <2>3 DEF Retirement
<1>10. AcksTruthful'
  <2> SUFFICES ASSUME NEW a \in ackNet
               PROVE  /\ a.cum <= cumAck'
                      /\ \A m \in a.sack : /\ m \in Sent
                                           /\ Recorded(m)'
                                           /\ m <= a.cum + SackWindow
    BY <1>1, <1>2 DEF AcksTruthful
  <2>1. a.cum \in Nat
    BY DEF IInv, TypeOK, Acks
  <2> QED
    BY <1>2, <1>3, <2>1 DEF IInv, AcksTruthful
<1>11. BufferSound'
  BY <1>1, <1>2, <1>3 DEF IInv, BufferSound, senderVars, streamVars
<1>12. AckedIsKept'
  <2> SUFFICES ASSUME NEW m \in Sent, Recorded(m)', m # handling', IsData(m),
                      recvState[pkts[m].stream] = "open"
               PROVE  \/ pkts[m].seq < expected[pkts[m].stream]
                      \/ m \in buffer[pkts[m].stream]
    BY <1>1, <1>2 DEF AckedIsKept, IsData, senderVars, streamVars
  <2>1. Recorded(m)
    BY <1>1, <1>3
  <2> QED
    <3>1. m # handling
      BY <1>1, <1>2
    <3>2. AckedIsKept
      BY DEF IInv
    <3> QED
      BY <2>1, <3>1, <3>2 DEF AckedIsKept
<1>13. (Budget /\ SlotsExact /\ SeqOrder /\ Unopened /\ InOrderDelivery)'
  BY <1>1, <1>2 DEF IInv, Budget, SlotsExact, SeqOrder, Unopened, IsData,
     InOrderDelivery, senderVars, streamVars
<1> QED
  BY <1>5, <1>6, <1>7, <1>8, <1>9, <1>10, <1>11, <1>12, <1>13 DEF IInv

\* Above the cumulative ACK the receiver holds at most what the window lets in
\* flight, less the missing packet, and what the SACK bitmap can retire.
LEMMA ReceivedBounded ==
    ASSUME IInv, received # {}
    PROVE  Cardinality(received) + 2 <= SackWindow + MaxCwnd
<1> DEFINE owed == numbered \cup unacked
           hole == cumAck + 1
           sackable == (cumAck + 2)..(cumAck + SackWindow)
<1>1. /\ cumAck \in Nat /\ SackWindow \in Nat \ {0} /\ MaxCwnd \in Nat
      /\ Len(pkts) \in Nat
  BY ConstantsAssumption DEF IInv, TypeOK
<1>2. hole \in owed
  <2>1. hole \in Sent
    <3>1. PICK m \in received : TRUE
      OBVIOUS
    <3>2. m \in Sent /\ m > cumAck + 1
      BY DEF IInv, Places, CumAckMaximal
    <3> QED
      BY <3>2, <1>1 DEF Sent
  <2>2. ~Recorded(hole)
    BY <1>1 DEF IInv, TypeOK, PktNums, CumAckMaximal, Recorded
  <2> QED
    BY <2>1, <2>2, <1>1 DEF IInv, Retirement, Recorded
<1>3. received \subseteq (owed \ {hole}) \cup sackable
  <2> SUFFICES ASSUME NEW m \in received
               PROVE  m \in (owed \ {hole}) \cup sackable
    OBVIOUS
  <2>1. m \in Sent /\ m > cumAck + 1 /\ m \in Nat
    BY DEF IInv, Places, CumAckMaximal, Sent
  <2>2. m \in owed \/ m \in sacked
    BY <2>1, <1>1 DEF IInv, Retirement
  <2>3. m \in sacked => m \in sackable
    BY <2>1, <1>1 DEF IInv, Retirement
  <2> QED
    BY <2>1, <2>2, <2>3, <1>1
<1>4. /\ IsFiniteSet(owed)
      /\ Cardinality(owed) = Cardinality(numbered) + Cardinality(unacked)
  <2>1. numbered \cap unacked = {}
    BY DEF IInv, Places
  <2>2. IsFiniteSet(numbered) /\ IsFiniteSet(unacked)
    BY FiniteParts DEF IInv
  <2> QED
    <3>1. Cardinality(numbered \cap unacked) = 0
      BY <2>1, FS_EmptySet
    <3>2. /\ IsFiniteSet(owed)
          /\ Cardinality(owed) = Cardinality(numbered) + Cardinality(unacked)
                                 - Cardinality(numbered \cap unacked)
      BY <2>2, FS_Union
    <3>3. Cardinality(numbered) \in Nat /\ Cardinality(unacked) \in Nat
      BY <2>2, FS_CardinalityType
    <3> HIDE DEF owed
    <3> QED
      BY <3>1, <3>2, <3>3
<1>5. Cardinality(owed) \in Nat /\ Cardinality(owed) <= MaxCwnd
  <2>1. Cardinality(slot) \in Nat
    BY FiniteParts, FS_CardinalityType DEF IInv
  <2>2. Cardinality(owed) \in Nat
    BY <1>4, FS_CardinalityType
  <2>3. /\ inFlight = Cardinality(slot) + Cardinality(numbered) + Cardinality(unacked)
        /\ inFlight <= MaxCwnd
    BY <1>1 DEF IInv, SlotsExact, TypeOK
  <2>4. Cardinality(numbered) \in Nat /\ Cardinality(unacked) \in Nat
    BY FiniteParts, FS_CardinalityType DEF IInv
  <2> QED
    BY <1>1, <1>4, <2>1, <2>2, <2>3, <2>4
<1>6. /\ IsFiniteSet(owed \ {hole})
      /\ Cardinality(owed \ {hole}) = Cardinality(owed) - 1
  BY <1>2, <1>4, FS_RemoveElement
<1>7. IsFiniteSet(sackable) /\ Cardinality(sackable) = SackWindow - 1
  <2>1. cumAck + 2 \in Int /\ cumAck + SackWindow \in Int
    BY <1>1
  <2>2. /\ IsFiniteSet(sackable)
        /\ Cardinality(sackable) =
             IF cumAck + 2 > cumAck + SackWindow THEN 0
             ELSE (cumAck + SackWindow) - (cumAck + 2) + 1
    BY <2>1, FS_Interval
  <2> QED
    BY <2>2, <1>1
<1>8. /\ IsFiniteSet((owed \ {hole}) \cup sackable)
      /\ Cardinality((owed \ {hole}) \cup sackable)
           <= Cardinality(owed \ {hole}) + Cardinality(sackable)
  <2>1. /\ IsFiniteSet((owed \ {hole}) \cup sackable)
        /\ Cardinality((owed \ {hole}) \cup sackable)
             = Cardinality(owed \ {hole}) + Cardinality(sackable)
               - Cardinality((owed \ {hole}) \cap sackable)
    BY <1>6, <1>7, FS_Union
  <2>2. /\ Cardinality((owed \ {hole}) \cap sackable) \in Nat
        /\ Cardinality(owed \ {hole}) \in Nat
        /\ Cardinality(sackable) \in Nat
    BY <1>6, <1>7, FS_Intersection, FS_CardinalityType
  <2> QED
    BY <2>1, <2>2
<1>9. /\ Cardinality(received) \in Nat
      /\ Cardinality(received) <= Cardinality((owed \ {hole}) \cup sackable)
      /\ Cardinality((owed \ {hole}) \cup sackable) \in Nat
  BY <1>3, <1>8, FS_Subset, FS_CardinalityType
<1> HIDE DEF owed, hole, sackable
<1> QED
  BY <1>1, <1>5, <1>6, <1>7, <1>8, <1>9

\* When the packet in hand is out of order, the stream's buffer has room: all
\* that waits in it lies above the cumulative ACK.
LEMMA BufferHasRoom ==
    ASSUME IInv, handling # 0, NEW s \in Streams, pkts[handling].stream = s,
           recvState[s] = "open", pkts[handling].seq > expected[s],
           handling \notin buffer[s]
    PROVE  RoomIn(s)
<1> DEFINE h == handling
<1>1. h \in Sent /\ IsData(h) /\ Recorded(h)
  BY DEF IInv, HandlingData
<1>2. /\ expected[s] \in Nat /\ nextSeq[s] \in Nat /\ cumAck \in Nat
      /\ \A m \in Sent : pkts[m].seq \in Nat /\ m \in Nat
  <2>1. expected[s] \in Nat /\ nextSeq[s] \in Nat /\ cumAck \in Nat
    BY DEF IInv, TypeOK
  <2>2. \A m \in Sent : pkts[m].seq \in Nat
    BY PktType DEF IInv
  <2>3. \A m \in Sent : m \in Nat
    BY DEF Sent
  <2> QED
    BY <2>1, <2>2, <2>3
<1>3. PICK x \in Sent : pkts[x].stream = s /\ pkts[x].seq = expected[s]
  <2>1. expected[s] < nextSeq[s]
    BY <1>1, <1>2 DEF IInv, SeqOrder
  <2> QED
    BY <2>1, <1>2 DEF IInv, SeqOrder
<1>4. ~Recorded(x)
  <2> SUFFICES ASSUME Recorded(x) PROVE FALSE
    OBVIOUS
  <2>1. x # h /\ IsData(x)
    BY <1>2, <1>3 DEF IsData
  <2>2. pkts[x].seq < expected[s] \/ x \in buffer[s]
    BY <2>1, <1>3 DEF IInv, AckedIsKept
  <2>3. x \notin buffer[s]
    BY <1>2, <1>3 DEF IInv, BufferSound
  <2> QED
    BY <2>2, <2>3, <1>2, <1>3
<1>5. ASSUME NEW m \in Sent, pkts[m].stream = s, pkts[m].seq > expected[s],
             Recorded(m)
      PROVE  m \in received
  <2>1. x < m
    <3>1. m # x
      BY <1>2, <1>3, <1>5
    <3>2. ~(m < x)
      BY <1>2, <1>3, <1>5 DEF IInv, SeqOrder, IsData
    <3> QED
      BY <3>1, <3>2, <1>2
  <2>2. cumAck < x
    BY <1>2, <1>4 DEF Recorded
  <2> QED
    BY <2>1, <2>2, <1>2, <1>5 DEF Recorded
<1>6. buffer[s] \cup {h} \subseteq received
  BY <1>1, <1>5 DEF IInv, BufferSound
<1>7. /\ IsFiniteSet(received) /\ IsFiniteSet(buffer[s])
      /\ Cardinality(received) \in Nat /\ Cardinality(buffer[s]) \in Nat
  BY FiniteParts, FS_CardinalityType DEF IInv
<1>8. Cardinality(buffer[s] \cup {h}) = Cardinality(buffer[s]) + 1
  BY <1>7, FS_AddElement
<1>9. Cardinality(buffer[s] \cup {h}) <= Cardinality(received)
  BY <1>6, <1>7, FS_Subset
<1>10. Cardinality(received) + 2 <= SackWindow + MaxCwnd
  BY <1>6, ReceivedBounded
<1> HIDE DEF h
<1> QED
  BY <1>7, <1>8, <1>9, <1>10, RecvBufHoldsWindow, ConstantsAssumption DEF RoomIn

\* RecvBuffer.Insert keeps the packet in hand: delivered before, delivered now
\* with the run it completes, or buffered.
LEMMA InsertKeeps ==
    ASSUME IInv, handling # 0, NEW s \in Streams, pkts[handling].stream = s,
           recvState[s] = "open", Insert(s, handling)
    PROVE  /\ expected' \in [Streams -> Nat]
           /\ buffer' \in [Streams -> SUBSET PktNums]
           /\ delivered' \in [Streams -> Seq(PktNums)]
           /\ \A t \in Streams \ {s} : /\ expected'[t] = expected[t]
                                       /\ buffer'[t] = buffer[t]
                                       /\ delivered'[t] = delivered[t]
           /\ \A m \in buffer'[s] : /\ m \in buffer[s] \cup {handling}
                                    /\ pkts[m].seq > expected'[s]
           /\ pkts[handling].seq < expected'[s] \/ handling \in buffer'[s]
           /\ \A m \in buffer[s] : pkts[m].seq < expected'[s] \/ m \in buffer'[s]
           /\ expected'[s] >= expected[s]
           /\ Len(delivered'[s]) = expected'[s]
           /\ \A i \in 1..Len(delivered'[s]) :
                /\ delivered'[s][i] \in Sent
                /\ pkts[delivered'[s][i]] = [stream |-> s, seq |-> i - 1]
<1> DEFINE h == handling
<1>1. h \in Sent /\ h \in PktNums
  BY DEF IInv, HandlingData, TypeOK, Sent, PktNums
<1>2. /\ expected \in [Streams -> Nat]
      /\ buffer \in [Streams -> SUBSET PktNums]
      /\ delivered \in [Streams -> Seq(PktNums)]
      /\ expected[s] \in Nat
      /\ pkts[h].seq \in Nat
      /\ \A m \in buffer[s] : /\ m \in Sent /\ pkts[m].stream = s
                              /\ pkts[m].seq \in Nat
                              /\ pkts[m].seq > expected[s]
  BY <1>1, PktType DEF IInv, TypeOK, BufferSound
<1>3. /\ Len(delivered[s]) = expected[s]
      /\ \A i \in 1..Len(delivered[s]) :
            /\ delivered[s][i] \in Sent
            /\ pkts[delivered[s][i]] = [stream |-> s, seq |-> i - 1]
  BY DEF IInv, InOrderDelivery
<1>4. CASE pkts[h].seq < expected[s] /\ UNCHANGED <<expected, buffer, delivered>>
  BY <1>4, <1>2, <1>3
<1>5. CASE pkts[h].seq > expected[s] /\ InsertOutOfOrder(s, h)
  <2>1. UNCHANGED <<expected, delivered>>
    BY <1>5 DEF InsertOutOfOrder
  <2>2. CASE h \in buffer[s]
    <3>1. buffer' = buffer
      BY <2>2, <1>5 DEF InsertOutOfOrder, Buffered
    <3> QED
      BY <2>1, <2>2, <3>1, <1>2, <1>3
  <2>3. CASE h \notin buffer[s]
    <3>1. RoomIn(s)
      BY <2>3, <1>5, BufferHasRoom
    <3>2. ~Buffered(s, pkts[h].seq)
      <4> SUFFICES ASSUME NEW m \in buffer[s], pkts[m].seq = pkts[h].seq
                   PROVE  FALSE
        BY DEF Buffered
      <4>1. m \in Sent /\ m # h /\ pkts[m].stream = s
        BY <1>2, <2>3
      <4>2. m \in Nat /\ h \in Nat /\ pkts[h].seq \in Nat
        BY <1>1, <1>2, <4>1 DEF Sent
      <4>3. ~(m < h) /\ ~(h < m)
        BY <4>1, <4>2, <1>1 DEF IInv, SeqOrder, IsData
      <4> QED
        BY <4>1, <4>2, <4>3
    <3>3. buffer' = [buffer EXCEPT ![s] = @ \cup {h}]
      BY <1>5, <3>1, <3>2 DEF InsertOutOfOrder
    <3> QED
      BY <2>1, <3>3, <1>1, <1>2, <1>3, <1>5
  <2> QED
    BY <2>2, <2>3
<1>6. CASE pkts[h].seq = expected[s] /\ InsertInOrder(s, h)
  <2>1. PICK e \in (expected[s] + 1)..(expected[s] + 1 + MaxPkt) :
          /\ \A q \in (expected[s] + 1)..(e - 1) : Buffered(s, q)
          /\ ~Buffered(s, e)
          /\ expected' = [expected EXCEPT ![s] = e]
          /\ buffer' = [buffer EXCEPT ![s] = {m \in @ : pkts[m].seq > e}]
          /\ delivered' = [delivered EXCEPT ![s] = @ \o FlushRun(s, h, e)]
    BY <1>6 DEF InsertInOrder
  <2> DEFINE run == FlushRun(s, h, e)
             len == e - expected[s]
  <2>2. e \in Nat /\ e > expected[s] /\ len \in Nat
    BY <2>1, <1>2, ConstantsAssumption
  <2>3. \A i \in 1..len : /\ run[i] \in Sent
                          /\ run[i] \in PktNums
                          /\ pkts[run[i]].stream = s
                          /\ pkts[run[i]].seq = expected[s] + i - 1
    <3> SUFFICES ASSUME NEW i \in 1..len
                 PROVE  /\ run[i] \in Sent
                        /\ run[i] \in PktNums
                        /\ pkts[run[i]].stream = s
                        /\ pkts[run[i]].seq = expected[s] + i - 1
      OBVIOUS
    <3>1. CASE i = 1
      <4>1. run[i] = h
        BY <3>1 DEF FlushRun
      <4> QED
        BY <4>1, <3>1, <1>1, <1>2, <1>6
    <3>2. CASE i # 1
      <4>1. run[i] = CHOOSE m \in buffer[s] : pkts[m].seq = expected[s] + i - 1
        BY <3>2 DEF FlushRun
      <4>2. expected[s] + i - 1 \in (expected[s] + 1)..(e - 1)
        BY <3>2, <2>2, <1>2
      <4>3. \E m \in buffer[s] : pkts[m].seq = expected[s] + i - 1
        BY <4>2, <2>1 DEF Buffered
      <4>4. run[i] \in buffer[s] /\ pkts[run[i]].seq = expected[s] + i - 1
        BY <4>1, <4>3
      <4> QED
        BY <4>4, <1>2
    <3> QED
      BY <3>1, <3>2
  <2>4. run \in Seq(PktNums) /\ Len(run) = len
    <3>1. run = [i \in 1..len |-> run[i]]
      BY DEF FlushRun
    <3> HIDE DEF run
    <3>2. run \in [1..len -> PktNums]
      BY <3>1, <2>3
    <3> QED
      BY <3>2, <2>2
  <2>5. /\ expected'[s] = e
        /\ buffer'[s] = {m \in buffer[s] : pkts[m].seq > e}
        /\ delivered'[s] = delivered[s] \o run
    BY <2>1, <1>2
  <2> HIDE DEF run
  <2>6. /\ expected' \in [Streams -> Nat]
        /\ buffer' \in [Streams -> SUBSET PktNums]
        /\ delivered' \in [Streams -> Seq(PktNums)]
        /\ \A t \in Streams \ {s} : /\ expected'[t] = expected[t]
                                    /\ buffer'[t] = buffer[t]
                                    /\ delivered'[t] = delivered[t]
    <3>1. delivered[s] \o run \in Seq(PktNums)
      BY <1>2, <2>4
    <3>2. delivered' = [delivered EXCEPT ![s] = delivered[s] \o run]
      BY <2>1, <1>2 DEF run
    <3>3. expected' \in [Streams -> Nat]
          /\ \A t \in Streams \ {s} : expected'[t] = expected[t]
      BY <2>1, <2>2, <1>2
    <3>4. buffer' \in [Streams -> SUBSET PktNums]
          /\ \A t \in Streams \ {s} : buffer'[t] = buffer[t]
      BY <2>1, <1>2
    <3>5. delivered' \in [Streams -> Seq(PktNums)]
          /\ \A t \in Streams \ {s} : delivered'[t] = delivered[t]
      BY <3>1, <3>2, <1>2
    <3> QED
      BY <3>3, <3>4, <3>5
  <2>7. /\ \A m \in buffer'[s] : m \in buffer[s] /\ pkts[m].seq > e
        /\ \A m \in buffer[s] : pkts[m].seq < e \/ m \in buffer'[s]
    BY <2>1, <2>2, <2>5, <1>2 DEF Buffered
  <2>8. Len(delivered'[s]) = e
    <3>1. delivered[s] \in Seq(PktNums)
      BY <1>2
    <3>2. Len(delivered[s] \o run) = Len(delivered[s]) + Len(run)
      BY <3>1, <2>4
    <3>3. Len(delivered[s] \o run) = expected[s] + (e - expected[s])
      BY <3>2, <2>4, <1>3
    <3> QED
      BY <3>3, <2>2, <2>5, <1>2
  <2>9. \A i \in 1..e : /\ delivered'[s][i] \in Sent
                        /\ pkts[delivered'[s][i]] = [stream |-> s, seq |-> i - 1]
    <3> SUFFICES ASSUME NEW i \in 1..e
                 PROVE  /\ delivered'[s][i] \in Sent
                        /\ pkts[delivered'[s][i]] = [stream |-> s, seq |-> i - 1]
      OBVIOUS
    <3>1. CASE i <= expected[s]
      <4>1. delivered'[s][i] = delivered[s][i]
        BY <3>1, <2>4, <2>5, <1>2, <1>3
      <4> QED
        BY <4>1, <3>1, <1>2, <1>3
    <3>2. CASE i > expected[s]
      <4>1. i - expected[s] \in 1..len
        BY <3>2, <1>2, <2>2
      <4>2. delivered'[s][i] = run[i - expected[s]]
        BY <3>2, <4>1, <2>2, <2>4, <2>5, <1>2, <1>3
      <4>3. /\ delivered'[s][i] \in Sent
            /\ pkts[delivered'[s][i]].stream = s
            /\ pkts[delivered'[s][i]].seq = i - 1
        BY <4>1, <4>2, <2>3, <1>2
      <4>4. pkts[delivered'[s][i]] \in [stream : Writers, seq : Nat]
        BY <4>3, ElementOfSeq DEF IInv, TypeOK, Sent
      <4> QED
        BY <4>3, <4>4
    <3> QED
      BY <3>1, <3>2, <1>2
  <2> QED
    BY <2>2, <2>5, <2>6, <2>7, <2>8, <2>9, <1>2, <1>6
<1> QED
  BY <1>4, <1>5, <1>6 DEF Insert

\* HandleData's second half leaves nothing recorded outside a buffer.
LEMMA InsertStep ==
    ASSUME IInv, HandleDataInsert
    PROVE  IInv'
<1> DEFINE s == pkts[handling].stream
<1>1. /\ handling # 0 /\ handling' = 0
      /\ UNCHANGED <<senderVars, received, cumAck, recvState, receiverClosed>>
      /\ IF recvState[s] = "open"
         THEN Insert(s, handling)
         ELSE UNCHANGED <<expected, buffer, delivered>>
  BY DEF HandleDataInsert
<1>2. handling \in Sent /\ s \in Streams /\ Recorded(handling)
  BY <1>1 DEF IInv, HandlingData, IsData
<1> HIDE DEF s
<1>3. /\ ackNet' \subseteq ackNet \cup {BuildAck}
      /\ pktsSinceAck' \in 0..DelayedAckThreshold
  BY ConstantsAssumption DEF HandleDataInsert, SendAck, PutAck, IInv, TypeOK
<1>4. immediateAck' \in BOOLEAN
  BY Zenon DEF HandleDataInsert, SendAck, IInv, TypeOK
<1>5. /\ expected' \in [Streams -> Nat]
      /\ buffer' \in [Streams -> SUBSET PktNums]
      /\ delivered' \in [Streams -> Seq(PktNums)]
  <2>1. CASE recvState[s] = "open"
    BY <2>1, <1>1, <1>2, InsertKeeps DEF s
  <2>2. CASE recvState[s] # "open"
    BY <2>2, <1>1 DEF IInv, TypeOK
  <2> QED
    BY <2>1, <2>2
<1>6. TypeOK'
  <2>1. ackNet' \subseteq Acks
    BY <1>3, BuildAckTruthful DEF IInv, TypeOK
  <2>2. handling' \in 0..MaxPkt
    BY <1>1, ConstantsAssumption
  <2> QED
    BY <1>1, <1>3, <1>4, <1>5, <2>1, <2>2, Zenon DEF IInv, TypeOK, senderVars
<1>7. AcksTruthful'
  <2> SUFFICES ASSUME NEW a \in ackNet'
               PROVE  /\ a.cum <= cumAck
                      /\ \A n \in a.sack : /\ n \in Sent
                                           /\ Recorded(n)
                                           /\ n <= a.cum + SackWindow
    BY <1>1 DEF AcksTruthful, senderVars, Sent, Recorded
  <2> QED
    BY <1>3, BuildAckTruthful DEF IInv, AcksTruthful
<1>8. (BufferSound /\ AckedIsKept /\ InOrderDelivery)'
  <2>1. CASE recvState[s] # "open"
    <3>1. UNCHANGED <<expected, buffer, delivered>>
      BY <2>1, <1>1
    <3>2. BufferSound' /\ InOrderDelivery'
      BY <3>1, <1>1 DEF IInv, BufferSound, InOrderDelivery, Sent, Recorded,
         senderVars
    <3>3. AckedIsKept'
      <4> SUFFICES ASSUME NEW n \in Sent, Recorded(n), IsData(n),
                          recvState[pkts[n].stream] = "open"
                   PROVE  \/ pkts[n].seq < expected[pkts[n].stream]
                          \/ n \in buffer[pkts[n].stream]
        BY <1>1, <3>1 DEF AckedIsKept, Sent, Recorded, IsData, senderVars
      <4>1. n # handling
        BY <2>1 DEF s
      <4> QED
        BY <4>1 DEF IInv, AckedIsKept
    <3> QED
      BY <3>2, <3>3
  <2>2. CASE recvState[s] = "open"
    <3>1. /\ \A t \in Streams \ {s} : /\ expected'[t] = expected[t]
                                      /\ buffer'[t] = buffer[t]
                                      /\ delivered'[t] = delivered[t]
          /\ \A m \in buffer'[s] : /\ m \in buffer[s] \cup {handling}
                                   /\ pkts[m].seq > expected'[s]
          /\ pkts[handling].seq < expected'[s] \/ handling \in buffer'[s]
          /\ \A m \in buffer[s] : pkts[m].seq < expected'[s] \/ m \in buffer'[s]
          /\ expected'[s] >= expected[s]
          /\ Len(delivered'[s]) = expected'[s]
          /\ \A i \in 1..Len(delivered'[s]) :
                /\ delivered'[s][i] \in Sent
                /\ pkts[delivered'[s][i]] = [stream |-> s, seq |-> i - 1]
      BY <2>2, <1>1, <1>2, InsertKeeps DEF s
    <3>2. pkts' = pkts /\ Sent' = Sent /\ cumAck' = cumAck
          /\ received' = received /\ recvState' = recvState
      BY <1>1 DEF senderVars, Sent
    <3>3. BufferSound'
      <4> SUFFICES ASSUME NEW t \in Streams, NEW m \in buffer'[t]
                   PROVE  /\ m \in Sent
                          /\ pkts[m].stream = t
                          /\ pkts[m].seq > expected'[t]
                          /\ Recorded(m)
        BY <3>2 DEF BufferSound, Recorded
      <4>1. CASE t = s
        BY <4>1, <3>1, <1>2 DEF IInv, BufferSound, s
      <4>2. CASE t # s
        BY <4>2, <3>1 DEF IInv, BufferSound
      <4> QED
        BY <4>1, <4>2
    <3>4. InOrderDelivery'
      <4> SUFFICES ASSUME NEW t \in Streams
                   PROVE  /\ Len(delivered'[t]) = expected'[t]
                          /\ \A i \in 1..Len(delivered'[t]) :
                              /\ delivered'[t][i] \in Sent
                              /\ pkts[delivered'[t][i]]
                                   = [stream |-> t, seq |-> i - 1]
        BY <3>2 DEF InOrderDelivery
      <4>1. CASE t = s
        BY <4>1, <3>1
      <4>2. CASE t # s
        BY <4>2, <3>1 DEF IInv, InOrderDelivery
      <4> QED
        BY <4>1, <4>2
    <3>5. AckedIsKept'
      <4> SUFFICES ASSUME NEW n \in Sent, Recorded(n), IsData(n),
                          recvState[pkts[n].stream] = "open"
                   PROVE  \/ pkts[n].seq < expected'[pkts[n].stream]
                          \/ n \in buffer'[pkts[n].stream]
        BY <3>2 DEF AckedIsKept, Recorded, IsData
      <4>1. CASE n = handling
        BY <4>1, <3>1 DEF s
      <4>2. CASE n # handling
        <5>1. \/ pkts[n].seq < expected[pkts[n].stream]
              \/ n \in buffer[pkts[n].stream]
          BY <4>2 DEF IInv, AckedIsKept
        <5>2. CASE pkts[n].stream = s
          <6>1. /\ expected[s] \in Nat /\ expected'[s] \in Nat
                /\ pkts[n].seq \in Nat
            BY <1>2, <1>5, PktType DEF IInv, TypeOK
          <6> QED
            BY <5>1, <5>2, <6>1, <3>1
        <5>3. CASE pkts[n].stream # s
          BY <5>1, <5>3, <3>1 DEF IsData
        <5> QED
          BY <5>2, <5>3
      <4> QED
        BY <4>1, <4>2
    <3> QED
      BY <3>3, <3>4, <3>5
  <2> QED
    BY <2>1, <2>2
<1>9. /\ (Budget /\ SlotsExact /\ Places /\ HandlingData /\ CumAckMaximal)'
      /\ (Retirement /\ SeqOrder /\ Unopened)'
  BY <1>1 DEF IInv, senderVars, Budget, SlotsExact, Places, HandlingData,
     CumAckMaximal, Retirement, SeqOrder, Unopened, Sent, IsData, Recorded
<1> QED
  BY <1>6, <1>7, <1>8, <1>9 DEF IInv

-----------------------------------------------------------------------------
(* The theorems *)

\* Every step keeps the inductive invariant.
LEMMA NextIInv == IInv /\ [Next]_vars => IInv'
<1> SUFFICES ASSUME IInv, [Next]_vars PROVE IInv'
  OBVIOUS
<1>1. CASE \E w \in Writers : AcquireSlot(w) \/ NumberPacket(w)
  BY <1>1, AcquireStep, NumberStep
<1>2. CASE \E n \in PktNums : Transmit(n) \/ HandleDataRecord(n)
  BY <1>2, TransmitStep, RecordStep
<1>3. CASE \E E \in SUBSET unacked : RetransmitTick(E)
  BY <1>3, RetransmitStep
<1>4. CASE \E a \in ackNet : HandleAck(a) \/ LoseAck(a)
  BY <1>4, HandleAckStep, AckStep
<1>5. CASE \E s \in Streams : CreateRecvBuffer(s) \/ RemoveRecvBuffer(s)
  BY <1>5, RecvBufferStep
<1>6. CASE HandleDataInsert
  BY <1>6, InsertStep
<1>7. CASE AckTick
  BY <1>7, AckStep
<1>8. CASE CloseSender \/ CloseReceiver
  BY <1>8, CloseStep
<1>9. CASE UNCHANGED vars
  <2>1. UNCHANGED <<senderVars, ackNet, ackStateVars, streamVars, handling,
                    receiverClosed>>
    BY <1>9 DEF vars, receiverVars
  <2>2. TypeOK'
    BY <2>1, Zenon DEF IInv, TypeOK, senderVars, ackStateVars, streamVars
  <2>3. /\ (Budget /\ SlotsExact)'
        /\ (Places /\ HandlingData /\ CumAckMaximal /\ Retirement)'
        /\ (AcksTruthful /\ SeqOrder /\ Unopened)'
        /\ (BufferSound /\ AckedIsKept /\ InOrderDelivery)'
    BY <2>1 DEF IInv, senderVars, ackStateVars, streamVars,
       Budget, SlotsExact, Places, HandlingData, CumAckMaximal, Retirement,
       AcksTruthful, SeqOrder, Unopened, BufferSound, AckedIsKept,
       InOrderDelivery, Sent, IsData, Recorded
  <2> QED
    BY <2>2, <2>3 DEF IInv
<1> QED
  BY <1>1, <1>2, <1>3, <1>4, <1>5, <1>6, <1>7, <1>8, <1>9 DEF Next

\* The inductive invariant holds throughout.
THEOREM Invariance == Spec => []IInv
  BY InitIInv, NextIInv, PTL DEF Spec

\* The state of Controller, SendBuffer, AckState and RecvBuffer stays within its
\* types; in particular inFlight never exceeds maxCwnd.
THEOREM TypeCorrect == Spec => []TypeOK
<1>1. IInv => TypeOK
  BY DEF IInv
<1> QED
  BY <1>1, Invariance, PTL

\* With the buffer sizes of the code, RecvBuffer.Insert never drops a packet
\* that HandleData has already acknowledged, for any number of streams.
THEOREM NothingAckedIsLost == Spec => []AckedIsKept
<1>1. IInv => AckedIsKept
  BY DEF IInv
<1> QED
  BY <1>1, Invariance, PTL

\* Each stream is delivered exactly once and in order.
THEOREM DeliveredInOrder == Spec => []InOrderDelivery
<1>1. IInv => InOrderDelivery
  BY DEF IInv
<1> QED
  BY <1>1, Invariance, PTL

\* SendBuffer retires a packet only after the peer has recorded it.
THEOREM RetiredAreReceived == Spec => []RetiredWasReceived
<1>1. IInv => RetiredWasReceived
  BY DEF IInv, RetiredWasReceived, Retirement, Recorded
<1> QED
  BY <1>1, Invariance, PTL

\* No slot of the congestion window leaks or is given back twice.
THEOREM SlotsAreExact == Spec => []SlotsExact
<1>1. IInv => SlotsExact
  BY DEF IInv
<1> QED
  BY <1>1, Invariance, PTL

-----------------------------------------------------------------------------
(* The packets of a stream, in the order of their numbers. *)

\* Numbering.  A packet's seq counts the packets of its stream before it, so
\* the order of the numbers and that of the seqs are the same.
Ranks ==
    \A s \in Streams :
        /\ Cardinality(DataOf(s)) = nextSeq[s]
        /\ \A n \in DataOf(s) : Rank(s, n) = pkts[n].seq

\* A packet is numbered, or the numbers stay as they are.
LEMMA PktsChange ==
    ASSUME [Next]_vars
    PROVE  \/ UNCHANGED <<pkts, nextSeq>>
           \/ \E w \in Writers : NumberPacket(w)
<1>1. ASSUME NEW w \in Writers, AcquireSlot(w) PROVE UNCHANGED <<pkts, nextSeq>>
  BY <1>1 DEF AcquireSlot
<1>2. ASSUME NEW n \in PktNums, Transmit(n) \/ HandleDataRecord(n)
      PROVE  UNCHANGED <<pkts, nextSeq>>
  BY <1>2 DEF Transmit, HandleDataRecord, senderVars
<1>3. ASSUME NEW E \in SUBSET unacked, RetransmitTick(E)
      PROVE  UNCHANGED <<pkts, nextSeq>>
  BY <1>3 DEF RetransmitTick, writerVars
<1>4. ASSUME NEW a \in ackNet, HandleAck(a) \/ LoseAck(a)
      PROVE  UNCHANGED <<pkts, nextSeq>>
  BY <1>4 DEF HandleAck, LoseAck, writerVars, senderVars
<1>5. ASSUME NEW s \in Streams, CreateRecvBuffer(s) \/ RemoveRecvBuffer(s)
      PROVE  UNCHANGED <<pkts, nextSeq>>
  BY <1>5 DEF CreateRecvBuffer, RemoveRecvBuffer, senderVars
<1>6. CASE HandleDataInsert \/ AckTick \/ CloseSender \/ CloseReceiver
  BY <1>6 DEF HandleDataInsert, AckTick, CloseSender, CloseReceiver, writerVars,
     senderVars
<1>7. CASE UNCHANGED vars
  BY <1>7 DEF vars, senderVars
<1> QED
  BY <1>1, <1>2, <1>3, <1>4, <1>5, <1>6, <1>7 DEF Next

\* A packet is delivered by HandleDataInsert only.
LEMMA DeliveredChange ==
    ASSUME [Next]_vars
    PROVE  UNCHANGED delivered \/ HandleDataInsert
<1> USE DEF receiverVars, streamVars
<1>1. ASSUME NEW w \in Writers, AcquireSlot(w) \/ NumberPacket(w)
      PROVE  UNCHANGED delivered
  BY <1>1 DEF AcquireSlot, NumberPacket
<1>2. ASSUME NEW n \in PktNums, Transmit(n) \/ HandleDataRecord(n)
      PROVE  UNCHANGED delivered
  BY <1>2 DEF Transmit, HandleDataRecord
<1>3. ASSUME NEW E \in SUBSET unacked, RetransmitTick(E)
      PROVE  UNCHANGED delivered
  BY <1>3 DEF RetransmitTick
<1>4. ASSUME NEW a \in ackNet, HandleAck(a) \/ LoseAck(a)
      PROVE  UNCHANGED delivered
  BY <1>4 DEF HandleAck, LoseAck
<1>5. ASSUME NEW s \in Streams, CreateRecvBuffer(s) \/ RemoveRecvBuffer(s)
      PROVE  UNCHANGED delivered
  BY <1>5 DEF CreateRecvBuffer, RemoveRecvBuffer
<1>6. CASE AckTick \/ CloseSender \/ CloseReceiver
  BY <1>6 DEF AckTick, CloseSender, CloseReceiver
<1>7. CASE UNCHANGED vars
  BY <1>7 DEF vars
<1> QED
  BY <1>1, <1>2, <1>3, <1>4, <1>5, <1>6, <1>7 DEF Next

\* What NumberPacket does to the packets of each stream.
LEMMA NumberedPacket ==
    ASSUME IInv, NEW w \in Writers, NumberPacket(w)
    PROVE  LET k == Len(pkts) + 1 IN
           /\ Len(pkts) \in Nat /\ Len(pkts') = k
           /\ \A n \in Sent : pkts'[n] = pkts[n]
           /\ pkts'[k].stream = w
           /\ w \in Streams => /\ pkts'[k].seq = nextSeq[w]
                               /\ nextSeq' = [nextSeq EXCEPT ![w] = @ + 1]
           /\ w \notin Streams => nextSeq' = nextSeq
           /\ \A s \in Streams :
                DataOf(s)' = IF s = w THEN DataOf(s) \cup {k} ELSE DataOf(s)
<1> DEFINE k == Len(pkts) + 1
           r == [stream |-> w, seq |-> IF w \in Streams THEN nextSeq[w] ELSE 0]
<1>1. /\ pkts' = Append(pkts, r) /\ r.stream = w
      /\ w \in Streams => /\ r.seq = nextSeq[w]
                          /\ nextSeq' = [nextSeq EXCEPT ![w] = @ + 1]
      /\ w \notin Streams => nextSeq' = nextSeq
  BY DEF NumberPacket
<1>2. r \in [stream : Writers, seq : Nat]
  BY DEF IInv, TypeOK
<1> HIDE DEF r
<1>3. Len(pkts) \in Nat
  BY DEF IInv, TypeOK
<1>4. Len(pkts') = k /\ (\A n \in Sent : pkts'[n] = pkts[n]) /\ pkts'[k] = r
  BY <1>1, <1>2, AppendPkt DEF IInv
<1>5. Sent' = Sent \cup {k} /\ k \notin Sent
  BY <1>3, <1>4 DEF Sent
<1> HIDE DEF k
<1>6. ASSUME NEW s \in Streams
      PROVE  DataOf(s)' = IF s = w THEN DataOf(s) \cup {k} ELSE DataOf(s)
  BY <1>1, <1>4, <1>5 DEF DataOf
<1> QED
  BY <1>1, <1>3, <1>4, <1>6 DEF k

\* The packets of a stream are finitely many.
LEMMA DataFinite ==
    ASSUME IInv, NEW s \in Streams
    PROVE  IsFiniteSet(DataOf(s)) /\ DataOf(s) \subseteq Sent /\ Sent \subseteq Nat
<1>1. IsFiniteSet(Sent) /\ Sent \subseteq Nat
  <2>1. Len(pkts) \in Nat
    BY DEF IInv, TypeOK
  <2> QED
    BY <2>1, FS_Interval DEF Sent
<1> QED
  BY <1>1, FS_Subset DEF DataOf

\* Initially there is no packet.
LEMMA InitRanks == Init => Ranks
  BY FS_EmptySet DEF Init, Ranks, DataOf, Sent

\* A new packet comes after all the packets of its stream.
LEMMA NextRanks ==
    ASSUME IInv, Ranks, [Next]_vars
    PROVE  Ranks'
<1>1. CASE UNCHANGED <<pkts, nextSeq>>
  <2>1. \A s : DataOf(s)' = DataOf(s)
    BY <1>1 DEF DataOf, Sent
  <2>2. \A s, n : Rank(s, n)' = Rank(s, n)
    BY <2>1 DEF Rank
  <2> QED
    BY <1>1, <2>1, <2>2 DEF Ranks
<1>2. ASSUME NEW w \in Writers, NumberPacket(w) PROVE Ranks'
  <2>1. PICK k \in Nat :
        /\ Len(pkts) \in Nat /\ k = Len(pkts) + 1
        /\ \A n \in Sent : pkts'[n] = pkts[n]
        /\ pkts'[k].stream = w
        /\ w \in Streams => /\ pkts'[k].seq = nextSeq[w]
                            /\ nextSeq' = [nextSeq EXCEPT ![w] = @ + 1]
        /\ w \notin Streams => nextSeq' = nextSeq
        /\ \A s \in Streams :
             DataOf(s)' = IF s = w THEN DataOf(s) \cup {k} ELSE DataOf(s)
    BY <1>2, NumberedPacket
  <2>2. nextSeq \in [Streams -> Nat] /\ \A n \in Sent : n \in Nat /\ n < k
    BY <2>1 DEF IInv, TypeOK, Sent
  <2>3. k \notin Sent /\ k \in Nat
    BY <2>1, <2>2
  <2> SUFFICES ASSUME NEW s \in Streams
               PROVE  /\ Cardinality(DataOf(s)') = nextSeq'[s]
                      /\ \A n \in DataOf(s)' : Rank(s, n)' = pkts'[n].seq
    BY DEF Ranks
  <2>4. IsFiniteSet(DataOf(s)) /\ DataOf(s) \subseteq Sent
    BY DataFinite
  <2>5. Cardinality(DataOf(s)) = nextSeq[s] /\ \A n \in DataOf(s) : Rank(s, n) = pkts[n].seq
    BY DEF Ranks
  <2>6. CASE s # w
    <3>1. DataOf(s)' = DataOf(s) /\ nextSeq'[s] = nextSeq[s]
      BY <2>1, <2>2, <2>6
    <3>2. \A n : Rank(s, n)' = Rank(s, n)
      BY <3>1 DEF Rank
    <3> QED
      BY <2>1, <2>4, <2>5, <3>1, <3>2
  <2>7. CASE s = w
    <3>1. DataOf(s)' = DataOf(s) \cup {k} /\ nextSeq'[s] = nextSeq[s] + 1
      BY <2>1, <2>2, <2>7
    <3>2. Cardinality(DataOf(s)') = nextSeq[s] + 1
      BY <2>3, <2>4, <2>5, <3>1, FS_AddElement
    <3>3. ASSUME NEW n \in DataOf(s) PROVE Rank(s, n)' = pkts'[n].seq
      <4>1. {m \in DataOf(s) \cup {k} : m < n} = {m \in DataOf(s) : m < n}
        BY <2>2, <2>3, <2>4
      <4>2. Rank(s, n)' = Rank(s, n)
        BY <3>1, <4>1 DEF Rank
      <4>3. pkts'[n] = pkts[n]
        BY <2>1, <2>4
      <4> QED
        BY <2>5, <4>2, <4>3
    <3>4. Rank(s, k)' = pkts'[k].seq
      <4>1. {m \in DataOf(s) \cup {k} : m < k} = DataOf(s)
        BY <2>2, <2>3, <2>4
      <4> QED
        BY <2>1, <2>5, <2>7, <3>1, <4>1 DEF Rank
    <3> QED
      BY <3>1, <3>2, <3>3, <3>4
  <2> QED
    BY <2>6, <2>7
<1> QED
  BY <1>1, <1>2, PktsChange

-----------------------------------------------------------------------------
(* The refinement mapping. *)

\* A stream and a seq name one packet.
SeqUnique ==
    \A m, n \in Sent :
        IsData(m) /\ pkts[m].stream = pkts[n].stream /\ pkts[m].seq = pkts[n].seq
            => m = n

\* The i-th payload sent on a stream is the packet with seq i - 1.
SentExact ==
    \A s \in Streams :
        /\ SentOn(s) \in Seq(PktNums)
        /\ Len(SentOn(s)) = nextSeq[s]
        /\ \A i \in 1..nextSeq[s] :
             /\ SentOn(s)[i] \in Sent
             /\ pkts[SentOn(s)[i]].stream = s
             /\ pkts[SentOn(s)[i]].seq = i - 1

\* Both follow from the invariant.
LEMMA SentSeq == IInv /\ Ranks => SeqUnique /\ SentExact
<1> SUFFICES ASSUME IInv, Ranks PROVE SeqUnique /\ SentExact
  OBVIOUS
<1>1. SeqUnique
  <2> SUFFICES ASSUME NEW m \in Sent, NEW n \in Sent, IsData(m),
                      pkts[m].stream = pkts[n].stream, pkts[m].seq = pkts[n].seq
               PROVE  m = n
    BY DEF SeqUnique
  <2>1. m \in Nat /\ n \in Nat /\ pkts[m].seq \in Nat
    BY DataFinite, PktType DEF IInv, IsData
  <2>2. ~(m < n) /\ ~(n < m)
    BY <2>1 DEF IInv, SeqOrder, IsData
  <2> QED
    BY <2>1, <2>2
<1>2. ASSUME NEW s \in Streams
      PROVE  /\ SentOn(s) \in Seq(PktNums)
             /\ Len(SentOn(s)) = nextSeq[s]
             /\ \A i \in 1..nextSeq[s] :
                  /\ SentOn(s)[i] \in Sent
                  /\ pkts[SentOn(s)[i]].stream = s
                  /\ pkts[SentOn(s)[i]].seq = i - 1
  <2>1. nextSeq[s] \in Nat /\ Sent \subseteq PktNums
    BY ConstantsAssumption DEF IInv, TypeOK, Sent, PktNums
  <2>2. SentOn(s) = [i \in 1..nextSeq[s] |-> CHOOSE n \in DataOf(s) : Rank(s, n) = i - 1]
    BY DEF SentOn, Ranks
  <2>3. ASSUME NEW i \in 1..nextSeq[s]
        PROVE  /\ SentOn(s)[i] \in Sent
               /\ pkts[SentOn(s)[i]].stream = s
               /\ pkts[SentOn(s)[i]].seq = i - 1
    <3>1. i - 1 \in Nat /\ i - 1 < nextSeq[s]
      BY <2>1
    <3>2. \E n \in Sent : pkts[n].stream = s /\ pkts[n].seq = i - 1
      BY <3>1 DEF IInv, SeqOrder
    <3>3. \E n \in DataOf(s) : Rank(s, n) = i - 1
      BY <3>2 DEF DataOf, Ranks
    <3>4. SentOn(s)[i] \in DataOf(s) /\ Rank(s, SentOn(s)[i]) = i - 1
      BY <2>2, <3>3
    <3> QED
      BY <3>4 DEF DataOf, Ranks
  <2>4. SentOn(s) \in [1..nextSeq[s] -> PktNums]
    BY <2>1, <2>2, <2>3
  <2>5. SentOn(s) \in Seq(PktNums) /\ Len(SentOn(s)) = nextSeq[s]
    BY <2>1, <2>4
  <2> QED
    BY <2>3, <2>5
<1> QED
  BY <1>1, <1>2 DEF SentExact

\* The same after the step.
LEMMA SentSeqNext == IInv' /\ Ranks' => SeqUnique' /\ SentExact'
  BY SentSeq, PTL

\* Numbering a packet of a stream appends it to what was sent on the stream
\* and leaves what was sent on the others.
LEMMA NumberSends ==
    ASSUME IInv, Ranks, IInv', Ranks', NEW w \in Writers, NumberPacket(w),
           NEW s \in Streams
    PROVE  /\ s # w => SentOn(s)' = SentOn(s)
           /\ s = w => \E k \in PktNums : SentOn(s)' = Append(SentOn(s), k)
<1>1. PICK k \in Nat :
        /\ Len(pkts) \in Nat /\ k = Len(pkts) + 1 /\ Len(pkts') = k
        /\ \A n \in Sent : pkts'[n] = pkts[n]
        /\ pkts'[k].stream = w
        /\ w \in Streams => /\ pkts'[k].seq = nextSeq[w]
                            /\ nextSeq' = [nextSeq EXCEPT ![w] = @ + 1]
        /\ w \notin Streams => nextSeq' = nextSeq
  BY NumberedPacket
<1>2. nextSeq \in [Streams -> Nat] /\ Sent' = Sent \cup {k} /\ k \in PktNums
  <2>1. k <= MaxPkt
    BY <1>1, ConstantsAssumption DEF IInv, TypeOK
  <2>2. k \in PktNums
    BY <1>1, <2>1, ConstantsAssumption DEF PktNums
  <2>3. Sent' = Sent \cup {k}
    BY <1>1 DEF Sent
  <2> QED
    BY <2>2, <2>3 DEF IInv, TypeOK
<1>3. /\ SentOn(s) \in Seq(PktNums) /\ Len(SentOn(s)) = nextSeq[s]
      /\ \A i \in 1..nextSeq[s] :
           /\ SentOn(s)[i] \in Sent
           /\ pkts[SentOn(s)[i]].stream = s
           /\ pkts[SentOn(s)[i]].seq = i - 1
  BY SentSeq DEF SentExact
<1>4. /\ SentOn(s)' \in Seq(PktNums) /\ Len(SentOn(s)') = nextSeq'[s]
      /\ \A i \in 1..nextSeq'[s] :
           /\ SentOn(s)'[i] \in Sent'
           /\ pkts'[SentOn(s)'[i]].stream = s
           /\ pkts'[SentOn(s)'[i]].seq = i - 1
  BY SentSeqNext DEF SentExact
<1>5. \A m, n \in Sent' :
        pkts'[m].stream = s /\ pkts'[n].stream = s /\ pkts'[m].seq = pkts'[n].seq
            => m = n
  BY SentSeqNext DEF SeqUnique, IsData
<1>6. nextSeq[s] \in Nat /\ nextSeq'[s] = IF s = w THEN nextSeq[s] + 1 ELSE nextSeq[s]
  BY <1>1, <1>2
<1>7. \A i \in 1..nextSeq[s] : SentOn(s)'[i] = SentOn(s)[i]
  <2> SUFFICES ASSUME NEW i \in 1..nextSeq[s] PROVE SentOn(s)'[i] = SentOn(s)[i]
    OBVIOUS
  <2>1. i \in 1..nextSeq'[s]
    BY <1>6
  <2>2. /\ SentOn(s)[i] \in Sent' /\ pkts'[SentOn(s)[i]].stream = s
        /\ pkts'[SentOn(s)[i]].seq = i - 1
    BY <1>1, <1>2, <1>3
  <2> QED
    BY <1>4, <1>5, <2>1, <2>2
<1>8. CASE s # w
  BY <1>3, <1>4, <1>6, <1>7, <1>8
<1>9. CASE s = w
  <2>1. SentOn(s)'[nextSeq[s] + 1] = k
    <3>1. nextSeq[s] + 1 \in 1..nextSeq'[s] /\ (nextSeq[s] + 1) - 1 = nextSeq[s]
      BY <1>6, <1>9
    <3>2. k \in Sent' /\ pkts'[k].stream = s /\ pkts'[k].seq = nextSeq[s]
      BY <1>1, <1>2, <1>9
    <3>3. PICK m \in Sent' : m = SentOn(s)'[nextSeq[s] + 1]
      BY <1>4, <3>1
    <3>4. pkts'[m].stream = s /\ pkts'[m].seq = nextSeq[s]
      BY <1>4, <3>1, <3>3
    <3> QED
      BY <1>5, <3>2, <3>3, <3>4
  <2>2. /\ Append(SentOn(s), k) \in Seq(PktNums)
        /\ Len(Append(SentOn(s), k)) = nextSeq'[s]
        /\ \A i \in 1..nextSeq'[s] : Append(SentOn(s), k)[i] = SentOn(s)'[i]
    <3>1. SentOn(s) \in Seq(PktNums) /\ Len(SentOn(s)) = nextSeq[s] /\ k \in PktNums
      BY <1>2, <1>3
    <3>2. /\ Append(SentOn(s), k) \in Seq(PktNums)
          /\ Len(Append(SentOn(s), k)) = nextSeq[s] + 1
          /\ \A i \in 1..nextSeq[s] : Append(SentOn(s), k)[i] = SentOn(s)[i]
          /\ Append(SentOn(s), k)[nextSeq[s] + 1] = k
      BY <1>6, <3>1, AppendProperties
    <3>3. \A i \in 1..(nextSeq[s] + 1) : i \in 1..nextSeq[s] \/ i = nextSeq[s] + 1
      BY <1>6
    <3> QED
      BY <1>6, <1>7, <1>9, <2>1, <3>2, <3>3
  <2>3. SentOn(s)' = Append(SentOn(s), k)
    <3> DEFINE a == SentOn(s)'
               b == Append(SentOn(s), k)
    <3>1. /\ a \in Seq(PktNums) /\ b \in Seq(PktNums) /\ Len(a) = Len(b)
          /\ \A i \in 1..Len(a) : a[i] = b[i]
      BY <1>4, <2>2
    <3> HIDE DEF a, b
    <3>2. a = b
      BY <3>1, SeqEqual
    <3> QED
      BY <3>2 DEF a, b
  <2> QED
    BY <1>2, <1>9, <2>3
<1> QED
  BY <1>8, <1>9

\* What HandleData delivers is the next of what was sent on the stream.
LEMMA InsertDelivers ==
    ASSUME IInv, Ranks, IInv', HandleDataInsert, delivered' # delivered
    PROVE  \E s \in Streams :
             \E k \in (Len(delivered[s]) + 1)..Len(SentOn(s)) :
               delivered' = [delivered EXCEPT ![s] = SubSeq(SentOn(s), 1, k)]
<1>1. PICK s \in Streams : s = pkts[handling].stream
  BY DEF HandleDataInsert, IInv, HandlingData, IsData
<1>2. /\ UNCHANGED <<pkts, nextSeq>>
      /\ \E e \in Nat : /\ e > expected[s] /\ expected' = [expected EXCEPT ![s] = e]
      /\ \E d : delivered' = [delivered EXCEPT ![s] = d]
  <2>1. UNCHANGED <<pkts, nextSeq>>
    BY DEF HandleDataInsert, senderVars
  <2>2. Insert(s, handling)
    BY <1>1 DEF HandleDataInsert
  <2>3. InsertInOrder(s, handling)
    BY <2>2 DEF Insert, InsertOutOfOrder
  <2>4. expected[s] \in Nat
    BY DEF IInv, TypeOK
  <2>5. PICK e \in (expected[s] + 1)..(expected[s] + 1 + MaxPkt) :
          expected' = [expected EXCEPT ![s] = e]
    BY <2>3 DEF InsertInOrder
  <2>6. e \in Nat /\ e > expected[s]
    BY <2>4, <2>5, ConstantsAssumption
  <2>7. \E d : delivered' = [delivered EXCEPT ![s] = d]
    BY <2>3 DEF InsertInOrder
  <2> QED
    BY <2>1, <2>5, <2>6, <2>7
<1> DEFINE d == delivered'[s]
           k == Len(d)
<1>3. delivered \in [Streams -> Seq(PktNums)] /\ expected \in [Streams -> Nat]
  BY DEF IInv, TypeOK
<1>4. delivered' = [delivered EXCEPT ![s] = d]
  BY <1>2, <1>3
<1>5. /\ d \in Seq(PktNums) /\ k = expected'[s] /\ k \in Nat
      /\ \A i \in 1..k : d[i] \in Sent /\ pkts[d[i]] = [stream |-> s, seq |-> i - 1]
  BY <1>2 DEF IInv, TypeOK, InOrderDelivery, Sent
<1>6. Len(delivered[s]) = expected[s] /\ expected[s] \in Nat /\ k > expected[s]
  BY <1>2, <1>3, <1>5 DEF IInv, InOrderDelivery
<1>7. /\ SentOn(s) \in Seq(PktNums) /\ Len(SentOn(s)) = nextSeq[s] /\ nextSeq[s] \in Nat
      /\ \A i \in 1..nextSeq[s] :
           /\ SentOn(s)[i] \in Sent
           /\ pkts[SentOn(s)[i]].stream = s
           /\ pkts[SentOn(s)[i]].seq = i - 1
  BY SentSeq DEF SentExact, IInv, TypeOK
<1> HIDE DEF d, k
<1>8. k <= nextSeq[s]
  <2>1. k \in 1..k /\ d[k] \in Sent /\ pkts[d[k]] = [stream |-> s, seq |-> k - 1]
    BY <1>5, <1>6
  <2>2. k - 1 < nextSeq[s]
    BY <2>1 DEF IInv, SeqOrder, IsData
  <2> QED
    BY <1>5, <1>7, <2>2
<1>9. \A i \in 1..k : d[i] = SentOn(s)[i]
  <2> SUFFICES ASSUME NEW i \in 1..k PROVE d[i] = SentOn(s)[i]
    OBVIOUS
  <2>1. i \in 1..nextSeq[s]
    BY <1>5, <1>7, <1>8
  <2>2. /\ d[i] \in Sent /\ pkts[d[i]].stream = s /\ pkts[d[i]].seq = i - 1
    <3>1. d[i] \in Sent /\ pkts[d[i]] = [stream |-> s, seq |-> i - 1]
      BY <1>5
    <3> QED
      BY <3>1
  <2>3. /\ SentOn(s)[i] \in Sent /\ pkts[SentOn(s)[i]].stream = s
        /\ pkts[SentOn(s)[i]].seq = i - 1
    BY <1>7, <2>1
  <2> QED
    BY <2>2, <2>3, SentSeq DEF SeqUnique, IsData
<1>10. d = SubSeq(SentOn(s), 1, k)
  <2> DEFINE a == SentOn(s)
             b == SubSeq(a, 1, k)
  <2>1. a \in Seq(PktNums) /\ k \in Nat /\ k <= Len(a) /\ \A i \in 1..k : d[i] = a[i]
    BY <1>5, <1>7, <1>8, <1>9
  <2> HIDE DEF a
  <2>2. b \in Seq(PktNums) /\ Len(b) = k /\ \A i \in 1..k : b[i] = a[i]
    BY <2>1
  <2>3. Len(d) = k
    BY DEF k
  <2> HIDE DEF b
  <2>4. d = b
    BY <1>5, <2>1, <2>2, <2>3, SeqEqual
  <2> QED
    BY <2>4 DEF a, b
<1>11. k \in (Len(delivered[s]) + 1)..Len(SentOn(s))
  BY <1>5, <1>6, <1>7, <1>8
<1> QED
  BY <1>4, <1>10, <1>11

\* The payloads sent, as the FIFO sees them.
SentOf == [s \in Streams |-> SentOn(s)]

\* Every step of the session sends a payload, delivers some, or does nothing
\* the users of the streams see.
LEMMA FifoStep ==
    ASSUME IInv, Ranks, IInv', Ranks', [Next]_vars
    PROVE  Fifo!Next \/ UNCHANGED <<SentOf, delivered>>
<1>1. CASE \E w \in Writers : NumberPacket(w)
  <2>1. PICK w \in Writers : NumberPacket(w)
    BY <1>1
  <2>2. delivered' = delivered
    BY <2>1 DEF NumberPacket, receiverVars, streamVars
  <2>3. CASE w \in Streams
    <3>1. PICK k \in PktNums : SentOn(w)' = Append(SentOn(w), k)
      BY <2>1, <2>3, NumberSends
    <3>2. \A s \in Streams : s # w => SentOn(s)' = SentOn(s)
      BY <2>1, NumberSends
    <3>3. SentOf' = [SentOf EXCEPT ![w] = Append(SentOf[w], k)]
      BY <2>3, <3>1, <3>2 DEF SentOf
    <3>4. Fifo!Send(w)
      BY <2>2, <3>3 DEF Fifo!Send, SentOf
    <3> QED
      BY <2>3, <3>4 DEF Fifo!Next
  <2>4. CASE w \notin Streams
    <3>1. \A s \in Streams : SentOn(s)' = SentOn(s)
      BY <2>1, <2>4, NumberSends
    <3> QED
      BY <2>2, <3>1 DEF SentOf
  <2> QED
    BY <2>3, <2>4
<1>2. CASE UNCHANGED <<pkts, nextSeq>>
  <2>1. \A s : SentOn(s)' = SentOn(s)
    BY <1>2 DEF SentOn, DataOf, Rank, Sent
  <2>2. SentOf' = SentOf
    BY <2>1 DEF SentOf
  <2>3. CASE delivered' = delivered
    BY <2>2, <2>3
  <2>4. CASE delivered' # delivered
    <3>1. PICK s \in Streams :
            \E k \in (Len(delivered[s]) + 1)..Len(SentOn(s)) :
               delivered' = [delivered EXCEPT ![s] = SubSeq(SentOn(s), 1, k)]
      BY <2>4, InsertDelivers, DeliveredChange
    <3>2. SentOf[s] = SentOn(s)
      BY DEF SentOf
    <3>3. Fifo!Deliver(s)
      BY <2>2, <3>1, <3>2 DEF Fifo!Deliver, SentOf
    <3> QED
      BY <3>3 DEF Fifo!Next
  <2> QED
    BY <2>3, <2>4
<1> QED
  BY <1>1, <1>2, PktsChange

\* The numbering of the packets, in every reachable state.
LEMMA RanksInvariance == Spec => []Ranks
<1>1. Init => Ranks
  BY InitRanks
<1>2. IInv /\ Ranks /\ [Next]_vars => Ranks'
  BY NextRanks
<1> QED
  BY <1>1, <1>2, Invariance, PTL DEF Spec

\* Over a network that loses, duplicates and reorders datagrams, with writers,
\* acknowledgements, retransmissions and closes interleaved in any way, each
\* stream of a session (Controller.Send to deliverFn) is a reliable FIFO.
THEOREM FifoRefinement == Spec => ImplementsFifo
<1>1. Init => Fifo!Init
  <2> SUFFICES ASSUME Init PROVE Fifo!Init
    OBVIOUS
  <2>1. \A s \in Streams : SentOn(s) = <<>>
    <3>1. \A s \in Streams : DataOf(s) = {}
      BY DEF Init, DataOf, Sent
    <3>2. Cardinality({}) = 0
      BY FS_EmptySet
    <3>3. \A s \in Streams : SentOn(s) = [i \in 1..0 |-> CHOOSE n \in {} : Rank(s, n) = i - 1]
      BY <3>1, <3>2 DEF SentOn
    <3> QED
      BY <3>3
  <2> QED
    BY <2>1 DEF Init, Fifo!Init
<1>2. IInv /\ Ranks /\ (IInv /\ Ranks)' /\ [Next]_vars
        => [Fifo!Next]_<<[s \in Streams |-> SentOn(s)], delivered>>
  BY FifoStep DEF SentOf
<1> QED
  BY <1>1, <1>2, Invariance, RanksInvariance, PTL DEF Spec, ImplementsFifo, Fifo!Spec

=============================================================================
