------------------------- MODULE UdpStreams_proofs -------------------------
(***************************************************************************)
(* For any streams, retransmissions and channel capacity: numbers and      *)
(* payloads keep their types, a TCP stream that is reported open was       *)
(* dialled, whoever waits for a stream can be woken until Close sweeps the   *)
(* table, and every stream of the session has a goroutine that will        *)
(* remove it.                                                              *)
(***************************************************************************)
EXTENDS UdpStreams, FiniteSetTheorems, WellFoundedInduction,
        SequenceTheorems, TLAPS

-----------------------------------------------------------------------------
(* The inductive invariant, part by part. *)

\* Payloads of a stream stay within the bound in both directions.
WithinData == \A s \in Streams : wrote[s] <= spent /\ down[s] <= spent

\* A goroutine beyond its spawn knows its stream.
SidKnown == \A g \in Openers : opener[g] # "idle" => sid[g] \in Streams

\* An entry of the session is that of an opener of its stream, which still
\* has the way to RemoveStream before it, or its relay has.
EntryOwned ==
    \A s \in Streams : streams[s] # 0 =>
        /\ sid[streams[s]] = s
        /\ \/ opener[streams[s]] \in {"entered", "dial", "connected"}
           \/ relay[streams[s]] \in {"read", "got", "exit"}

\* A destination connection, and the goroutines that use it, follow the dial.
AfterDial ==
    \A g \in Openers :
        /\ relay[g] # "off" => opener[g] = "done" /\ g \in dialled
        /\ writer[g] # "off" => g \in dialled
        /\ opener[g] = "connected" => g \in dialled
        /\ g \in dialled => opener[g] \in {"connected", "done"}
        /\ relay[g] = "got" => down[sid[g]] >= 1

\* What processLoop has left to deliver belongs to a stream.
LoopStream ==
    /\ loop.q # <<>> => loop.s \in Streams
    /\ loop.g # 0 => loop.q # <<>>

\* A number of a stream is used up by a result or by a payload that a relay
\* has read: those to come fit in what is left.
Unsent == {g \in Openers : opener[g] # "done"}
Holding(s) == {g \in Openers : relay[g] = "got" /\ sid[g] = s}
SeqRoom ==
    \A s \in Streams :
        nextSeq[s] + Cardinality(Holding(s)) + Cardinality(Unsent) <= down[s] + MaxOpens

\* A stream whose owner is inside is registered until it is done.
StillRegistered ==
    transport \in {"up", "stopped"} => \A s \in Streams :
        cpc[s] \in {"registered", "waiting", "open"} => s \in registered \cup done

\* Until a dial of the stream succeeds nothing but a failure comes down.
Dialled(s) == \E g \in dialled : sid[g] = s
FailSlots == [seq : Seqs, v : {Fail}]
OnlyFailures ==
    \A s \in Streams : ~Dialled(s) =>
        /\ recvCh[s] \in Seq({Fail})
        /\ crecv[s].held \subseteq FailSlots
        /\ \A p \in net : p.dir = "down" /\ p.type = "data" /\ p.s = s => p.v = Fail

IInv ==
    /\ TypeOK
    /\ WithinData
    /\ SidKnown
    /\ EntryOwned
    /\ AfterDial
    /\ LoopStream
    /\ SeqRoom
    /\ StillRegistered
    /\ OnlyFailures
    /\ OpenedMeansDialled

-----------------------------------------------------------------------------
(* Numbers, buffers and channels. *)

\* A bounded set of numbers has a greatest one, and Max is it.
LEMMA MaxProperties ==
    ASSUME NEW S \in SUBSET Nat, S # {}, NEW b \in Nat, \A n \in S : n <= b
    PROVE  Max(S) \in S /\ \A n \in S : n <= Max(S)
<1>1. PICK T : T = {b - n : n \in S}
  OBVIOUS
<1>2. T \subseteq Nat /\ T # {}
  <2>1. \A n \in S : b - n \in Nat
    OBVIOUS
  <2> QED
    BY <1>1, <2>1
<1>3. PICK t \in T : \A u \in T : t <= u
  <2>1. PICK t \in T : \A u \in T : ~(<<u, t>> \in OpToRel(<, Nat))
    BY <1>2, NatLessThanWellFounded, WFMin
  <2>2. \A u \in T : ~(u < t)
    BY <1>2, <2>1 DEF OpToRel
  <2> QED
    BY <1>2, <2>2
<1>4. PICK m \in S : t = b - m
  BY <1>1
<1>5. \A n \in S : m >= n
  <2> TAKE n \in S
  <2>1. b - m <= b - n
    BY <1>1, <1>3, <1>4
  <2> QED
    BY <2>1
<1>6. Max(S) \in S /\ \A n \in S : Max(S) >= n
  BY <1>5 DEF Max
<1> QED
  BY <1>6

\* The greatest number of a packet.
LEMMA MaxSeqs ==
    /\ Max(Seqs) = MaxData + MaxOpens /\ MaxData + MaxOpens \in Nat
    /\ Seqs \cup {Max(Seqs) + 1} = 0..(MaxData + MaxOpens + 1)
<1>1. MaxData + MaxOpens \in Nat /\ MaxData + MaxOpens \in Seqs /\ Seqs \in SUBSET Nat
  BY StreamsAssumption DEF Seqs
<1>2. \A n \in Seqs : n <= MaxData + MaxOpens
  BY <1>1 DEF Seqs
<1>3. Max(Seqs) \in Seqs /\ MaxData + MaxOpens <= Max(Seqs)
  BY <1>1, <1>2, MaxProperties
<1>4. Max(Seqs) \in Nat /\ Max(Seqs) <= MaxData + MaxOpens
  BY <1>1, <1>2, <1>3
<1>5. Max(Seqs) = MaxData + MaxOpens
  BY <1>1, <1>3, <1>4
<1> QED
  BY <1>1, <1>5 DEF Seqs

\* The recv buffers that hold payloads of P.
BuffersOf(P) ==
    [live : BOOLEAN, expected : Seqs \cup {Max(Seqs) + 1},
     held : SUBSET [seq : Seqs, v : P]]

\* Insert hands over payloads that are held or have just come, those that
\* follow the expected number without a gap.
LEMMA FlushedProperties ==
    ASSUME NEW P, NEW rb \in BuffersOf(P), NEW seq \in Seqs, NEW v \in P
    PROVE  /\ Flushed(rb, seq, v) \in Seq(P)
           /\ rb.expected + Len(Flushed(rb, seq, v)) \in Seqs \cup {Max(Seqs) + 1}
           /\ Flushed(rb, seq, v) # <<>> => seq = rb.expected
           /\ \A i \in 1..Len(Flushed(rb, seq, v)) :
                \E p \in rb.held \cup {Slot(seq, v)} :
                    p.seq = seq + i - 1 /\ p.v = Flushed(rb, seq, v)[i]
<1>0. /\ rb.expected \in Nat /\ seq \in Nat /\ rb.expected <= MaxData + MaxOpens + 1
      /\ MaxData + MaxOpens \in Nat
  BY MaxSeqs DEF BuffersOf, Seqs
<1>1. CASE ~rb.live \/ seq # rb.expected
  <2>1. Flushed(rb, seq, v) = <<>>
    BY <1>1 DEF Flushed
  <2>2. <<>> \in Seq(P) /\ Len(<<>>) = 0 /\ rb.expected + 0 = rb.expected
    BY <1>0
  <2>3. rb.expected + Len(Flushed(rb, seq, v)) = rb.expected
    BY <2>1, <2>2
  <2> QED
    BY <2>1, <2>2, <2>3 DEF BuffersOf
<1>2. CASE rb.live /\ seq = rb.expected
  <2>1. PICK held : held = rb.held \cup {Slot(seq, v)}
    OBVIOUS
  <2>2. held \subseteq [seq : Seqs, v : P]
    BY <2>1 DEF Slot, BuffersOf
  <2>3. PICK R : R = {n \in {p.seq : p \in held} :
                        \A i \in seq..n : \E p \in held : p.seq = i}
    OBVIOUS
  <2>4. seq \in R
    <3>1. Slot(seq, v) \in held /\ Slot(seq, v).seq = seq
      BY <2>1 DEF Slot
    <3>2. \A i \in seq..seq : i = seq
      BY <1>0
    <3> QED
      BY <2>3, <3>1, <3>2
  <2>5. R \in SUBSET Nat /\ \A n \in R : n \in Seqs /\ n <= MaxData + MaxOpens
    BY <2>2, <2>3, MaxSeqs DEF Seqs
  <2>6. Max(R) \in R /\ seq <= Max(R)
    BY <1>0, <2>4, <2>5, MaxProperties
  <2>7. PICK last : last = Max(R)
    OBVIOUS
  <2>8. /\ last \in Nat /\ seq <= last /\ last <= MaxData + MaxOpens
        /\ \A i \in seq..last : \E p \in held : p.seq = i
    BY <2>3, <2>5, <2>6, <2>7
  <2>9. Flushed(rb, seq, v) = [i \in 1..(last - seq + 1) |->
                                 (CHOOSE p \in held : p.seq = seq + i - 1).v]
    BY <1>2, <2>1, <2>3, <2>7 DEF Flushed
  <2>10. \A i \in 1..(last - seq + 1) : seq + i - 1 \in seq..last
    BY <1>0, <2>8
  <2>11. \A i \in 1..(last - seq + 1) :
           \E p \in held : /\ p.seq = seq + i - 1
                           /\ p = CHOOSE r \in held : r.seq = seq + i - 1
    BY <2>8, <2>10
  <2>12. \A i \in 1..(last - seq + 1) :
           \E p \in held : p.seq = seq + i - 1 /\ p.v = Flushed(rb, seq, v)[i]
    BY <2>9, <2>11
  <2>13. last - seq + 1 \in Nat
    BY <1>0, <2>8
  <2>14. Flushed(rb, seq, v) \in [1..(last - seq + 1) -> P]
    <3>1. DOMAIN Flushed(rb, seq, v) = 1..(last - seq + 1)
      BY <2>9
    <3>2. \A i \in 1..(last - seq + 1) : Flushed(rb, seq, v)[i] \in P
      BY <2>2, <2>12
    <3> QED
      BY <2>9, <3>1, <3>2
  <2>15. Flushed(rb, seq, v) \in Seq(P)
    BY <2>13, <2>14, SeqDef
  <2>16. Len(Flushed(rb, seq, v)) = last - seq + 1
    BY <2>13, <2>14, <2>15, LenProperties
  <2>17. rb.expected + Len(Flushed(rb, seq, v)) \in 0..(MaxData + MaxOpens + 1)
    BY <1>0, <1>2, <2>8, <2>16
  <2> QED
    BY <1>2, <2>1, <2>12, <2>15, <2>16, <2>17, MaxSeqs
<1> QED
  BY <1>1, <1>2

\* What Insert leaves in the buffer was there or has just come.
LEMMA InsertedProperties ==
    ASSUME NEW P, NEW rb \in BuffersOf(P), NEW seq \in Seqs, NEW v \in P
    PROVE  Inserted(rb, seq, v) \in BuffersOf(P)
<1>1. PICK next : next = rb.expected + Len(Flushed(rb, seq, v))
  OBVIOUS
<1>2. next \in Seqs \cup {Max(Seqs) + 1}
  BY <1>1, FlushedProperties
<1>3. Inserted(rb, seq, v) = rb \/
      Inserted(rb, seq, v) = [rb EXCEPT
                                !.expected = next,
                                !.held = {p \in @ \cup {Slot(seq, v)} : p.seq >= next}]
  BY <1>1 DEF Inserted
<1>4. {p \in rb.held \cup {Slot(seq, v)} : p.seq >= next} \subseteq [seq : Seqs, v : P]
  BY DEF Slot, BuffersOf
<1> QED
  BY <1>2, <1>3, <1>4 DEF BuffersOf

\* A non-blocking send leaves the content of the channel in front, what fits
\* behind it, and never exceeds the capacity.
LEMMA PushedProperties ==
    ASSUME NEW P, NEW ch \in Seq(P), Len(ch) <= ChanCap, NEW vs \in Seq(P)
    PROVE  /\ Pushed(ch, vs) \in Seq(P) /\ Len(Pushed(ch, vs)) <= ChanCap
           /\ Len(ch) + Len(vs) <= ChanCap => Pushed(ch, vs) = ch \o vs
<1> USE StreamsAssumption
<1>1. PICK all : all = ch \o vs
  OBVIOUS
<1>2. all \in Seq(P) /\ Len(all) = Len(ch) + Len(vs) /\ Len(all) \in Nat
  BY <1>1, ConcatProperties, LenProperties
<1>3. PICK n : n = Min({Len(ch) + Len(vs), ChanCap})
  OBVIOUS
<1>4. \E x \in {Len(all), ChanCap} : \A y \in {Len(all), ChanCap} : x <= y
  BY <1>2
<1>5. n \in {Len(all), ChanCap} /\ n <= Len(all) /\ n <= ChanCap
  BY <1>2, <1>3, <1>4 DEF Min
<1>6. n \in Nat /\ (Len(all) <= ChanCap => n = Len(all))
  BY <1>2, <1>5
<1>7. Pushed(ch, vs) = SubSeq(all, 1, n)
  BY <1>1, <1>3 DEF Pushed
<1>8. \A i \in 1..n : all[i] \in P
  BY <1>2, <1>5, <1>6
<1>9. /\ SubSeq(all, 1, n) \in Seq(P)
      /\ Len(SubSeq(all, 1, n)) = IF 1 <= n THEN n - 1 + 1 ELSE 0
  BY <1>6, <1>8, SubSeqProperties
<1>10. Len(SubSeq(all, 1, n)) = n
  BY <1>6, <1>9
<1>11. n = Len(all) => SubSeq(all, 1, n) = all
  BY <1>2, SubSeqFull
<1> QED
  BY <1>1, <1>2, <1>5, <1>6, <1>7, <1>9, <1>10, <1>11

-----------------------------------------------------------------------------
(* The type invariant, by component. *)

\* The client's streams.
ClientTyped ==
    /\ cpc \in [Streams -> ClientPlaces]
    /\ registered \subseteq Streams
    /\ crecv \in [Streams -> Buffers]
    /\ recvCh \in [Streams -> Seq(Payloads)]
    /\ \A s \in Streams : Len(recvCh[s]) <= ChanCap
    /\ done \subseteq Streams
    /\ wrote \in [Streams -> 0..MaxData]
    /\ got \in [Streams -> Seq(Payloads)]

\* The packets under way.
NetTyped == net \subseteq Packets /\ faults \in 0..MaxFaults

\* The session's maps.
MapTyped ==
    /\ streams \in [Streams -> 0..MaxOpens]
    /\ nextSeq \in [Streams -> Seqs]
    /\ srecv \in [Streams -> Buffers]

\* The goroutines of the server.
GoTyped ==
    /\ opener \in [Openers -> OpenerPlaces]
    /\ sid \in [Openers -> Streams \cup {0}]
    /\ writer \in [Openers -> {"off", "start", "range", "stuck", "done"}]
    /\ relay \in [Openers -> {"off", "read", "got", "exit", "done"}]

\* The channels and connections they share.
ObjTyped ==
    /\ writeCh \in [Openers -> Channels]
    /\ \A g \in Openers : Len(writeCh[g].q) <= ChanCap
    /\ conn \in [Openers -> {"none", "open", "closed"}]

\* What processLoop has left to deliver.
LoopTyped == loop \in [s : Streams \cup {0}, g : 0..MaxOpens, q : Seq(Payloads)]

\* The destination, and what history keeps.
DestTyped ==
    /\ up \in [Streams -> Seq(Payloads)]
    /\ down \in [Streams -> 0..MaxData]
    /\ spent \in 0..MaxData
    /\ dialled \subseteq Openers
    /\ dropped \subseteq Streams

\* The client's connection, and the ends of the session and the server.
ConnTyped ==
    transport \in {"up", "stopped", "swept", "closed"} /\ receiving \in BOOLEAN
EndTyped == removed \in BOOLEAN /\ panicked \in BOOLEAN

\* The parts make up the whole.
LEMMA TypeParts ==
    TypeOK <=> /\ ClientTyped /\ NetTyped /\ MapTyped /\ GoTyped
               /\ ObjTyped /\ LoopTyped /\ DestTyped /\ ConnTyped /\ EndTyped
<1>1. TypeOK => /\ ClientTyped /\ NetTyped /\ MapTyped /\ GoTyped
                /\ ObjTyped /\ LoopTyped /\ DestTyped /\ ConnTyped /\ EndTyped
  BY Zenon DEF TypeOK, ClientTyped, NetTyped, MapTyped, GoTyped, ObjTyped, LoopTyped,
     DestTyped, ConnTyped, EndTyped
<1>2. ClientTyped /\ NetTyped /\ MapTyped /\ GoTyped
        /\ ObjTyped /\ LoopTyped /\ DestTyped /\ ConnTyped /\ EndTyped => TypeOK
  BY Zenon DEF TypeOK, ClientTyped, NetTyped, MapTyped, GoTyped, ObjTyped, LoopTyped,
     DestTyped, ConnTyped, EndTyped
<1> QED
  BY <1>1, <1>2

\* The same after a step.
LEMMA TypePartsNext ==
    TypeOK' <=> /\ ClientTyped' /\ NetTyped' /\ MapTyped' /\ GoTyped'
                /\ ObjTyped' /\ LoopTyped' /\ DestTyped' /\ ConnTyped' /\ EndTyped'
<1>1. (TypeOK <=> /\ ClientTyped /\ NetTyped /\ MapTyped /\ GoTyped
                  /\ ObjTyped /\ LoopTyped /\ DestTyped /\ ConnTyped /\ EndTyped)'
  BY TypeParts, PTL
<1> QED
  BY <1>1

\* Buffers and payloads.
LEMMA DataTypes ==
    /\ Buffers = BuffersOf(Payloads) /\ NoBuffer \in Buffers /\ NewBuffer \in Buffers
    /\ NoBuffer.held = {} /\ NewBuffer.held = {}
    /\ Ok \in Payloads /\ Fail \in Payloads /\ Ok # Fail
    /\ \A k \in 1..MaxData : Data(k) \in Payloads
    /\ 0 \in Seqs
<1>1. 0 \in Seqs
  BY StreamsAssumption DEF Seqs
<1> QED
  BY <1>1 DEF Buffers, BuffersOf, NoBuffer, NewBuffer, Ok, Fail, Payloads

\* A packet is well formed.
LEMMA PacketTypes ==
    ASSUME NEW s \in Streams, NEW dir \in {"up", "down"},
           NEW type \in {"open", "data", "close"}, NEW seq \in Seqs, NEW v \in Payloads
    PROVE  /\ Packet(dir, type, s, seq, v) \in Packets
           /\ Packet(dir, type, s, seq, v).dir = dir
           /\ Packet(dir, type, s, seq, v).type = type
           /\ Packet(dir, type, s, seq, v).s = s
           /\ Packet(dir, type, s, seq, v).v = v
  BY DEF Packet, Packets

-----------------------------------------------------------------------------
(* Frames. *)

\* The server stands still.
LEMMA ClientFrame ==
    ASSUME IInv, UNCHANGED <<serverVars, up, down, dialled>>,
           ClientTyped', NetTyped', ConnTyped', DestTyped',
           WithinData', StillRegistered', OnlyFailures',
           OpenedMeansDialled'
    PROVE  IInv'
<1> USE DEF IInv, serverVars, mapVars, goVars, objVars, endVars
<1>1. MapTyped /\ GoTyped /\ ObjTyped /\ LoopTyped /\ DestTyped /\ ConnTyped /\ EndTyped
  BY TypeParts
<1>2. MapTyped' /\ GoTyped' /\ ObjTyped' /\ LoopTyped'
  BY <1>1 DEF MapTyped, GoTyped, ObjTyped, LoopTyped
<1>3. EndTyped'
  BY <1>1, Zenon DEF EndTyped
<1>4. TypeOK'
  BY <1>2, <1>3, TypePartsNext
<1>5. SidKnown' /\ EntryOwned' /\ AfterDial' /\ LoopStream'
  BY DEF SidKnown, EntryOwned, AfterDial, LoopStream
<1>6. SeqRoom'
  BY DEF SeqRoom, Holding, Unsent
<1> QED
  BY <1>4, <1>5, <1>6

\* The client stands still.  No dial is forgotten, and what is sent down for a
\* stream that was not dialled is a failure.
LEMMA ServerFrame ==
    ASSUME IInv, UNCHANGED clientVars,
           NetTyped', MapTyped', GoTyped', ObjTyped', LoopTyped', DestTyped',
           EndTyped',
           WithinData', SidKnown', EntryOwned', AfterDial', LoopStream', SeqRoom',
           \A g \in dialled : g \in dialled' /\ sid'[g] = sid[g],
           \A p \in net' : \/ p \in net \/ p.dir # "down" \/ p.type # "data"
                           \/ p.v = Fail \/ Dialled(p.s)'
    PROVE  IInv'
<1> USE DEF IInv, clientVars
<1>1. ClientTyped /\ ConnTyped /\ EndTyped
  BY TypeParts
<1>2. ClientTyped'
  BY <1>1 DEF ClientTyped
<1>3. ConnTyped'
  BY <1>1, Zenon DEF ConnTyped, connVars
<1>4. TypeOK'
  BY <1>2, <1>3, TypePartsNext
<1>5. StillRegistered'
  BY DEF StillRegistered, connVars
<1>6. \A s \in Streams : Dialled(s) => Dialled(s)'
  BY DEF Dialled
<1>7. OnlyFailures'
  BY <1>6 DEF OnlyFailures
<1>8. OpenedMeansDialled'
  BY DEF OpenedMeansDialled
<1> QED
  BY <1>4, <1>5, <1>7, <1>8

\* Payloads are read or numbered one at a time: the numbers to come still fit.
LEMMA RoomStep ==
    ASSUME IInv, NEW s \in Streams, nextSeq'[s] \in Nat, down'[s] \in Nat,
           \/ /\ nextSeq'[s] <= nextSeq[s] /\ down'[s] = down[s]
              /\ Holding(s)' \subseteq Holding(s) /\ Unsent' \subseteq Unsent
           \/ /\ nextSeq'[s] <= nextSeq[s] + 1 /\ down'[s] = down[s]
              /\ Holding(s)' \subseteq Holding(s)
              /\ \E g \in Unsent : Unsent' = Unsent \ {g}
           \/ /\ nextSeq'[s] <= nextSeq[s] /\ down'[s] = down[s] + 1
              /\ Unsent' \subseteq Unsent
              /\ \E g \in Openers : Holding(s)' \subseteq Holding(s) \cup {g}
           \/ /\ nextSeq'[s] <= nextSeq[s] + 1 /\ down'[s] = down[s]
              /\ Unsent' \subseteq Unsent
              /\ \E g \in Holding(s) : Holding(s)' = Holding(s) \ {g}
    PROVE  /\ nextSeq'[s] + Cardinality(Holding(s)') + Cardinality(Unsent')
                <= down'[s] + MaxOpens
           /\ nextSeq'[s] <= down'[s] + MaxOpens
<1>0. MaxOpens \in Nat /\ IsFiniteSet(Openers)
  BY FS_Interval, StreamsAssumption DEF Openers
<1>1. \A S \in SUBSET Openers : IsFiniteSet(S) /\ Cardinality(S) \in Nat
  BY <1>0, FS_Subset, FS_CardinalityType
<1>2. \A S, T \in SUBSET Openers : T \subseteq S => Cardinality(T) <= Cardinality(S)
  BY <1>1, FS_Subset
<1>3. \A S \in SUBSET Openers, g \in Openers :
        /\ g \in S => Cardinality(S \ {g}) = Cardinality(S) - 1
        /\ Cardinality(S \cup {g}) <= Cardinality(S) + 1
  <2> TAKE S \in SUBSET Openers, g \in Openers
  <2>1. IsFiniteSet(S) /\ Cardinality(S) \in Nat
    BY <1>1
  <2>2. Cardinality(S \ {g}) = IF g \in S THEN Cardinality(S) - 1 ELSE Cardinality(S)
    BY <2>1, FS_RemoveElement
  <2>3. Cardinality(S \cup {g}) = IF g \in S THEN Cardinality(S) ELSE Cardinality(S) + 1
    BY <2>1, FS_AddElement
  <2> QED
    BY <2>1, <2>2, <2>3
<1>4. /\ Holding(s) \in SUBSET Openers /\ Holding(s)' \in SUBSET Openers
      /\ Unsent \in SUBSET Openers /\ Unsent' \in SUBSET Openers
  BY DEF Holding, Unsent
<1>5. nextSeq[s] \in Nat /\ down[s] \in Nat
  BY MaxSeqs DEF IInv, TypeOK, Seqs
<1>6. /\ Cardinality(Holding(s)) \in Nat /\ Cardinality(Holding(s)') \in Nat
      /\ Cardinality(Unsent) \in Nat /\ Cardinality(Unsent') \in Nat
  BY <1>1, <1>4
<1>7. nextSeq[s] + Cardinality(Holding(s)) + Cardinality(Unsent) <= down[s] + MaxOpens
  BY DEF IInv, SeqRoom
<1>8. nextSeq'[s] + Cardinality(Holding(s)') + Cardinality(Unsent')
        <= down'[s] + MaxOpens
  <2>1. CASE /\ nextSeq'[s] <= nextSeq[s] /\ down'[s] = down[s]
             /\ Holding(s)' \subseteq Holding(s) /\ Unsent' \subseteq Unsent
    <3>1. /\ Cardinality(Holding(s)') <= Cardinality(Holding(s))
          /\ Cardinality(Unsent') <= Cardinality(Unsent)
      BY <1>2, <1>4, <2>1
    <3> QED
      BY <1>0, <1>5, <1>6, <1>7, <2>1, <3>1
  <2>2. CASE /\ nextSeq'[s] <= nextSeq[s] + 1 /\ down'[s] = down[s]
             /\ Holding(s)' \subseteq Holding(s)
             /\ \E g \in Unsent : Unsent' = Unsent \ {g}
    <3>1. /\ Cardinality(Holding(s)') <= Cardinality(Holding(s))
          /\ Cardinality(Unsent') = Cardinality(Unsent) - 1
      BY <1>2, <1>3, <1>4, <2>2
    <3> QED
      BY <1>0, <1>5, <1>6, <1>7, <2>2, <3>1
  <2>3. CASE /\ nextSeq'[s] <= nextSeq[s] /\ down'[s] = down[s] + 1
             /\ Unsent' \subseteq Unsent
             /\ \E g \in Openers : Holding(s)' \subseteq Holding(s) \cup {g}
    <3>1. PICK g \in Openers : Holding(s)' \subseteq Holding(s) \cup {g}
      BY <2>3
    <3>2. Holding(s) \cup {g} \in SUBSET Openers
      BY <1>4
    <3>3. /\ Cardinality(Holding(s)') <= Cardinality(Holding(s) \cup {g})
          /\ Cardinality(Holding(s) \cup {g}) <= Cardinality(Holding(s)) + 1
          /\ Cardinality(Holding(s) \cup {g}) \in Nat
          /\ Cardinality(Unsent') <= Cardinality(Unsent)
      BY <1>1, <1>2, <1>3, <1>4, <2>3, <3>1, <3>2
    <3> QED
      BY <1>0, <1>5, <1>6, <1>7, <2>3, <3>3
  <2>4. CASE /\ nextSeq'[s] <= nextSeq[s] + 1 /\ down'[s] = down[s]
             /\ Unsent' \subseteq Unsent
             /\ \E g \in Holding(s) : Holding(s)' = Holding(s) \ {g}
    <3>1. /\ Cardinality(Holding(s)') = Cardinality(Holding(s)) - 1
          /\ Cardinality(Unsent') <= Cardinality(Unsent)
      BY <1>2, <1>3, <1>4, <2>4
    <3> QED
      BY <1>0, <1>5, <1>6, <1>7, <2>4, <3>1
  <2> QED
    BY <2>1, <2>2, <2>3, <2>4
<1> QED
  BY <1>0, <1>6, <1>8

-----------------------------------------------------------------------------
(* The client. *)

\* A step of the client's API takes payloads out of recvCh and drops recv
\* buffers, and sends only upwards.
LEMMA ClientMove ==
    ASSUME IInv, UNCHANGED <<serverVars, up, down, dialled, dropped>>,
           ClientTyped', NetTyped', ConnTyped', spent' \in 0..MaxData,
           WithinData', StillRegistered',
           \A s \in Streams :
               /\ crecv'[s].held \subseteq crecv[s].held
               /\ recvCh'[s] = recvCh[s] \/ (recvCh[s] # <<>> /\ recvCh'[s] = Tail(recvCh[s]))
               /\ s \notin Datagram /\ cpc'[s] \in {"open", "closed"} =>
                    cpc[s] \in {"open", "closed"} \/ Dialled(s),
           \A p \in net' : p \in net \/ p.dir = "up"
    PROVE  IInv'
<1> USE DEF serverVars, goVars
<1>1. \A s \in Streams : Dialled(s)' <=> Dialled(s)
  BY DEF Dialled
<1>2. OnlyFailures'
  <2> SUFFICES ASSUME NEW s \in Streams, ~Dialled(s)
               PROVE  /\ recvCh'[s] \in Seq({Fail})
                      /\ crecv'[s].held \subseteq FailSlots
                      /\ \A p \in net' : p.dir = "down" /\ p.type = "data" /\ p.s = s =>
                           p.v = Fail
    BY <1>1 DEF OnlyFailures, FailSlots
  <2>1. /\ recvCh[s] \in Seq({Fail}) /\ crecv[s].held \subseteq FailSlots
        /\ \A p \in net : p.dir = "down" /\ p.type = "data" /\ p.s = s => p.v = Fail
    BY DEF IInv, OnlyFailures
  <2>2. recvCh'[s] \in Seq({Fail})
    BY <2>1, HeadTailProperties
  <2> QED
    BY <2>1, <2>2
<1>3. OpenedMeansDialled'
  BY DEF IInv, OpenedMeansDialled, Dialled
<1>4. DestTyped'
  BY DEF IInv, TypeOK, DestTyped
<1> QED
  BY <1>2, <1>3, <1>4, ClientFrame

\* OpenStream up to the packet it sends, and its ends.
LEMMA OpeningStep ==
    ASSUME IInv, NEW s \in Streams,
           OpenStream(s) \/ Register(s) \/ SendOpen(s) \/ OpenGivesUp(s) \/ CloseStream(s)
    PROVE  IInv'
<1> USE DEF netVars, connVars, Goto, Forget, Send
<1>0. ClientTyped /\ NetTyped /\ ConnTyped /\ spent \in 0..MaxData
  BY TypeParts DEF IInv, DestTyped
<1>1. /\ UNCHANGED <<recvCh, transport, receiving, wrote, got, faults, serverVars, destVars, dropped>>
      /\ done' = done \/ done' = done \cup {s}
      /\ registered' \in {registered, registered \cup {s}, registered \ {s}}
  BY DEF OpenStream, Register, SendOpen, OpenGivesUp, CloseStream
<1>2. PICK place \in ClientPlaces : cpc' = [cpc EXCEPT ![s] = place]
  BY DEF OpenStream, Register, SendOpen, OpenGivesUp, CloseStream, ClientPlaces
<1>3. crecv' = crecv \/ \E b \in {NoBuffer, NewBuffer} : crecv' = [crecv EXCEPT ![s] = b]
  BY DEF OpenStream, Register, SendOpen, OpenGivesUp, CloseStream
<1>4. net' = net \/ net' = net \cup {Open(s)} \/ net' = net \cup {CloseUp(s)}
  BY DEF OpenStream, Register, SendOpen, OpenGivesUp, CloseStream
<1>5. ClientTyped'
  <2>1. crecv' \in [Streams -> Buffers]
    <3>1. crecv \in [Streams -> Buffers] /\ {NoBuffer, NewBuffer} \subseteq Buffers
      BY <1>0, DataTypes DEF ClientTyped
    <3> QED
      BY <1>3, <3>1
  <2>2. cpc' \in [Streams -> ClientPlaces]
    BY <1>0, <1>2 DEF ClientTyped
  <2> QED
    BY <1>0, <1>1, <2>1, <2>2 DEF ClientTyped
<1>6. {Open(s), CloseUp(s)} \subseteq Packets /\ Open(s).dir = "up" /\ CloseUp(s).dir = "up"
  BY DataTypes, PacketTypes DEF Open, CloseUp
<1>7. NetTyped' /\ \A p \in net' : p \in net \/ p.dir = "up"
  BY <1>0, <1>1, <1>4, <1>6 DEF NetTyped
<1>8. ConnTyped'
  BY <1>0, <1>1, Zenon DEF ConnTyped, EndTyped
<1>9. WithinData'
  BY <1>1 DEF IInv, WithinData, destVars
<1>10. StillRegistered'
  <2> USE DEF IInv, ClientTyped, StillRegistered
  <2>1. CASE OpenStream(s)
    BY <1>0, <2>1 DEF OpenStream
  <2>2. CASE Register(s)
    BY <1>0, <2>2 DEF Register
  <2>3. CASE SendOpen(s)
    BY <1>0, <2>3 DEF SendOpen
  <2>4. CASE OpenGivesUp(s)
    BY <1>0, <2>4 DEF OpenGivesUp
  <2>5. CASE CloseStream(s)
    BY <1>0, <2>5 DEF CloseStream
  <2> QED
    BY <2>1, <2>2, <2>3, <2>4, <2>5
<1>11. \A t \in Streams :
         /\ crecv'[t].held \subseteq crecv[t].held
         /\ recvCh'[t] = recvCh[t]
  BY <1>0, <1>1, <1>3, DataTypes DEF ClientTyped
<1>12. \A t \in Streams : t \notin Datagram /\ cpc'[t] \in {"open", "closed"} =>
         cpc[t] \in {"open", "closed"}
  BY <1>0 DEF OpenStream, Register, SendOpen, OpenGivesUp, CloseStream, ClientTyped
<1>13. UNCHANGED <<serverVars, up, down, spent, dialled, dropped>>
  BY <1>1 DEF destVars
<1> QED
  BY <1>0, <1>5, <1>7, <1>8, <1>9, <1>10, <1>11, <1>12, <1>13, ClientMove

\* The first payload decides what OpenStream returns; Read takes the others.
LEMMA TakingStep ==
    ASSUME IInv, NEW s \in Streams, OpenResult(s) \/ Read(s)
    PROVE  IInv'
<1> USE DEF netVars, connVars, Goto, Forget
<1>0. ClientTyped /\ NetTyped /\ ConnTyped /\ spent \in 0..MaxData
  BY TypeParts DEF IInv, DestTyped
<1>1. /\ UNCHANGED <<done, transport, receiving, wrote, net, faults, serverVars, destVars, dropped>>
      /\ recvCh' = [recvCh EXCEPT ![s] = Tail(recvCh[s])] /\ recvCh[s] # <<>>
  BY DEF OpenResult, Read
<1>2. /\ Tail(recvCh[s]) \in Seq(Payloads) /\ Head(recvCh[s]) \in Payloads
      /\ Len(Tail(recvCh[s])) <= ChanCap
  <2>1. recvCh[s] \in Seq(Payloads) /\ Len(recvCh[s]) <= ChanCap
    BY <1>0 DEF ClientTyped
  <2>2. /\ Tail(recvCh[s]) \in Seq(Payloads) /\ Head(recvCh[s]) \in Payloads
        /\ Len(Tail(recvCh[s])) = Len(recvCh[s]) - 1
    BY <1>1, <2>1, HeadTailProperties
  <2>3. Len(recvCh[s]) \in Nat
    BY <2>1, LenProperties
  <2> QED
    BY <2>1, <2>2, <2>3, StreamsAssumption
<1>3. /\ recvCh' \in [Streams -> Seq(Payloads)]
      /\ \A t \in Streams : Len(recvCh'[t]) <= ChanCap
      /\ \A t \in Streams : \/ recvCh'[t] = recvCh[t]
                            \/ recvCh[t] # <<>> /\ recvCh'[t] = Tail(recvCh[t])
  BY <1>0, <1>1, <1>2 DEF ClientTyped
<1>35. UNCHANGED <<serverVars, up, down, spent, dialled, dropped, net>>
  BY <1>1 DEF destVars
<1>4. CASE Read(s)
  <2>1. /\ got' = [got EXCEPT ![s] = Append(got[s], Head(recvCh[s]))]
        /\ UNCHANGED <<cpc, registered, crecv>>
    BY <1>4 DEF Read
  <2>2. Append(got[s], Head(recvCh[s])) \in Seq(Payloads)
    <3>1. got[s] \in Seq(Payloads)
      BY <1>0 DEF ClientTyped
    <3> QED
      BY <1>2, <3>1, AppendProperties
  <2>3. ClientTyped'
    BY <1>0, <1>1, <1>3, <2>1, <2>2 DEF ClientTyped
  <2>4. NetTyped' /\ WithinData' /\ StillRegistered'
    BY <1>0, <1>1, <2>1 DEF NetTyped, IInv, WithinData, StillRegistered, destVars
  <2>5. ConnTyped'
    BY <1>0, <1>1, Zenon DEF ConnTyped, EndTyped
  <2> QED
    BY <1>0, <1>3, <1>35, <2>1, <2>3, <2>4, <2>5, ClientMove
<1>5. CASE OpenResult(s)
  <2>1. PICK okay \in BOOLEAN :
          /\ Accepted(Head(recvCh[s]), okay)
          /\ \/ okay /\ cpc' = [cpc EXCEPT ![s] = "open"] /\ UNCHANGED <<registered, crecv>>
             \/ /\ ~okay /\ cpc' = [cpc EXCEPT ![s] = "failed"]
                /\ registered' = registered \ {s}
                /\ crecv' = [crecv EXCEPT ![s] = NoBuffer]
    BY <1>5 DEF OpenResult
  <2>2. cpc[s] = "waiting" /\ got' = got
    BY <1>5 DEF OpenResult
  <2>3. ClientTyped'
    <3>1. crecv' \in [Streams -> Buffers]
      <4>1. crecv \in [Streams -> Buffers] /\ NoBuffer \in Buffers
        BY <1>0, DataTypes DEF ClientTyped
      <4>2. crecv' = crecv \/ crecv' = [crecv EXCEPT ![s] = NoBuffer]
        BY <2>1
      <4> QED
        BY <4>1, <4>2
    <3>2. cpc' \in [Streams -> ClientPlaces] /\ registered' \subseteq Streams
      BY <1>0, <2>1 DEF ClientTyped, ClientPlaces
    <3> QED
      BY <1>0, <1>1, <1>3, <2>2, <3>1, <3>2 DEF ClientTyped
  <2>4. NetTyped' /\ WithinData'
    BY <1>0, <1>1 DEF NetTyped, IInv, WithinData, destVars
  <2>5. StillRegistered'
    BY <1>0, <1>1, <2>1, <2>2 DEF IInv, ClientTyped, StillRegistered
  <2>6. ConnTyped'
    BY <1>0, <1>1, Zenon DEF ConnTyped, EndTyped
  <2>7. \A t \in Streams : crecv'[t].held \subseteq crecv[t].held
    BY <1>0, <2>1, DataTypes DEF ClientTyped
  <2>8. okay => Dialled(s)
    <3> SUFFICES ASSUME okay, ~Dialled(s) PROVE FALSE
      OBVIOUS
    <3>1. recvCh[s] \in Seq({Fail})
      BY DEF IInv, OnlyFailures
    <3>2. Head(recvCh[s]) = Fail
      BY <1>1, <3>1, HeadTailProperties
    <3>3. Fail[1] # "data" /\ Fail # Ok
      BY DEF Fail, Ok
    <3> QED
      BY <2>1, <3>2, <3>3, Zenon DEF Accepted
  <2>9. \A t \in Streams : t \notin Datagram /\ cpc'[t] \in {"open", "closed"} =>
          cpc[t] \in {"open", "closed"} \/ Dialled(t)
    BY <1>0, <2>1, <2>8 DEF ClientTyped
  <2> QED
    BY <1>0, <1>3, <1>35, <2>3, <2>4, <2>5, <2>6, <2>7, <2>9, ClientMove
<1> QED
  BY <1>4, <1>5

\* Write numbers a payload.
LEMMA WritingStep ==
    ASSUME IInv, NEW s \in Streams, Write(s)
    PROVE  IInv'
<1>0. ClientTyped /\ NetTyped /\ ConnTyped /\ DestTyped
  BY TypeParts DEF IInv
<1>1. PICK p : p = Packet("up", "data", s, wrote[s], Data(wrote[s] + 1))
  OBVIOUS
<1>2. /\ UNCHANGED <<cpc, registered, crecv, recvCh, done, transport, receiving, got, faults,
                     serverVars, up, down, dialled, dropped>>
      /\ spent < MaxData /\ spent' = spent + 1 /\ wrote' = [wrote EXCEPT ![s] = wrote[s] + 1]
      /\ net' = net \/ net' = net \cup {p}
  BY <1>1 DEF Write, Spend, Send, connVars
<1>3. /\ spent \in 0..MaxData /\ MaxData \in Nat
      /\ \A t \in Streams : /\ wrote[t] \in 0..MaxData /\ down[t] \in 0..MaxData
                            /\ wrote[t] <= spent /\ down[t] <= spent
  BY <1>0, StreamsAssumption DEF ClientTyped, DestTyped, IInv, WithinData
<1>4. /\ wrote[s] + 1 \in 0..MaxData /\ wrote[s] + 1 \in 1..MaxData /\ wrote[s] \in Seqs
      /\ spent' \in 0..MaxData
  BY <1>2, <1>3, StreamsAssumption DEF Seqs
<1>5. ClientTyped'
  BY <1>0, <1>2, <1>4 DEF ClientTyped
<1>6. p \in Packets /\ p.dir = "up"
  BY <1>1, <1>4, DataTypes, PacketTypes
<1>7. NetTyped' /\ \A q \in net' : q \in net \/ q.dir = "up"
  BY <1>0, <1>2, <1>6 DEF NetTyped
<1>8. WithinData'
  <2>1. \A t \in Streams : wrote'[t] = IF t = s THEN wrote[s] + 1 ELSE wrote[t]
    BY <1>0, <1>2 DEF ClientTyped
  <2> QED
    BY <1>2, <1>3, <2>1 DEF WithinData
<1>9. StillRegistered'
  BY <1>2 DEF IInv, StillRegistered
<1>10. ConnTyped'
  BY <1>0, <1>2, Zenon DEF ConnTyped
<1> QED
  BY <1>2, <1>4, <1>5, <1>7, <1>8, <1>9, <1>10, ClientMove

\* Close sets the flag, sweeps the table and closes the socket; a read error
\* sweeps it as well.
LEMMA ClosingStep ==
    ASSUME IInv, CloseTransport \/ CloseSweeps \/ CloseSocket \/ RecvLoopEnds
    PROVE  IInv'
<1>0. ClientTyped /\ NetTyped /\ ConnTyped /\ spent \in 0..MaxData
  BY TypeParts DEF IInv, DestTyped
<1>1. /\ UNCHANGED <<cpc, crecv, recvCh, wrote, got, net, serverVars, up, down, spent, dialled,
                     dropped>>
      /\ UNCHANGED <<registered, done>> \/ (done' = done \cup registered /\ registered' = {})
      /\ transport' = transport \/ (transport' \in {"stopped", "swept", "closed"})
      /\ transport' \in {"up", "stopped"} => transport \in {"up", "stopped"}
      /\ faults' = faults \/ (faults < MaxFaults /\ faults' = faults + 1)
  BY DEF CloseTransport, CloseSweeps, CloseSocket, RecvLoopEnds, Sweep, Fault, netVars, destVars
<1>2. ConnTyped'
  <2>1. receiving' = receiving \/ receiving' = FALSE
    BY Zenon DEF CloseTransport, CloseSweeps, CloseSocket, RecvLoopEnds
  <2>2. receiving' \in BOOLEAN
    BY <1>0, <2>1, Zenon DEF ConnTyped
  <2>3. transport' \in {"up", "stopped", "swept", "closed"}
    BY <1>0, <1>1 DEF ConnTyped
  <2> QED
    BY <2>2, <2>3 DEF ConnTyped
<1>3. ClientTyped'
  BY <1>0, <1>1 DEF ClientTyped
<1>4. NetTyped'
  BY <1>0, <1>1, StreamsAssumption DEF NetTyped
<1>5. WithinData' /\ StillRegistered'
  BY <1>1 DEF IInv, WithinData, StillRegistered
<1> QED
  BY <1>0, <1>1, <1>2, <1>3, <1>4, <1>5, ClientMove

-----------------------------------------------------------------------------
(* Packets arrive. *)

\* A packet that arrives is taken out, or may come once more.
LEMMA ArrivesTyped ==
    ASSUME NetTyped, NEW p \in net, Arrives(p)
    PROVE  NetTyped' /\ net' \subseteq net /\ p \in Packets
  BY StreamsAssumption DEF NetTyped, Arrives, Fault

\* What arrives for a registered stream goes through its recv buffer into the
\* channel; a StreamClose ends the stream.
LEMMA RecvStep ==
    ASSUME IInv, NEW p \in net, RecvData(p) \/ RecvClose(p)
    PROVE  IInv'
<1> USE DEF Forget, connVars
<1>0. ClientTyped /\ NetTyped /\ ConnTyped /\ DestTyped
  BY TypeParts DEF IInv
<1>1. /\ UNCHANGED <<cpc, transport, receiving, wrote, got, serverVars, destVars>>
      /\ Arrives(p) /\ p.s \in registered
  BY DEF RecvData, RecvClose
<1>2. NetTyped' /\ net' \subseteq net /\ p \in Packets
  BY <1>0, <1>1, ArrivesTyped
<1>3. p.s \in Streams /\ p.seq \in Seqs /\ p.v \in Payloads
  BY <1>2 DEF Packets
<1>4. ConnTyped'
  BY <1>0, <1>1, Zenon DEF ConnTyped, EndTyped
<1>5. WithinData'
  BY <1>1 DEF IInv, WithinData, destVars
<1>6. OpenedMeansDialled' /\ \A s \in Streams : Dialled(s)' <=> Dialled(s)
  BY <1>1 DEF IInv, OpenedMeansDialled, Dialled, destVars, serverVars, goVars
<1>7. CASE RecvClose(p)
  <2>1. /\ UNCHANGED <<recvCh, dropped>> /\ registered' = registered \ {p.s}
        /\ done' = done \cup {p.s} /\ crecv' = [crecv EXCEPT ![p.s] = NoBuffer]
    BY <1>7 DEF RecvClose
  <2>2. crecv' \in [Streams -> Buffers]
    BY <1>0, <2>1, DataTypes DEF ClientTyped
  <2>3. ClientTyped'
    BY <1>0, <1>1, <1>3, <2>1, <2>2 DEF ClientTyped
  <2>4. StillRegistered'
    BY <1>1, <2>1 DEF IInv, StillRegistered
  <2>5. \A s \in Streams : crecv'[s].held \subseteq crecv[s].held
    BY <1>0, <2>1, DataTypes DEF ClientTyped
  <2>6. OnlyFailures'
    BY <1>2, <1>6, <2>1, <2>5 DEF IInv, OnlyFailures, FailSlots
  <2>7. DestTyped' /\ UNCHANGED <<up, down, dialled>>
    BY <1>0, <1>1, <2>1 DEF DestTyped, destVars
  <2> QED
    BY <1>1, <1>2, <1>4, <1>5, <1>6, <2>3, <2>4, <2>6, <2>7, ClientFrame
<1>8. CASE RecvData(p)
  <2>1. PICK out : out = Flushed(crecv[p.s], p.seq, p.v)
    OBVIOUS
  <2>2. /\ UNCHANGED <<registered, done>>
        /\ recvCh' = [recvCh EXCEPT ![p.s] = Pushed(recvCh[p.s], out)]
        /\ crecv' = [crecv EXCEPT ![p.s] = Inserted(crecv[p.s], p.seq, p.v)]
        /\ dropped' \in {dropped, dropped \cup {p.s}}
        /\ p.dir = "down" /\ p.type = "data"
    BY <1>8, <2>1 DEF RecvData
  <2>3. crecv[p.s] \in BuffersOf(Payloads) /\ recvCh[p.s] \in Seq(Payloads)
        /\ Len(recvCh[p.s]) <= ChanCap
    BY <1>0, <1>3, DataTypes DEF ClientTyped
  <2>4. out \in Seq(Payloads) /\ Inserted(crecv[p.s], p.seq, p.v) \in Buffers
    BY <1>3, <2>1, <2>3, DataTypes, FlushedProperties, InsertedProperties
  <2>5. /\ Pushed(recvCh[p.s], out) \in Seq(Payloads)
        /\ Len(Pushed(recvCh[p.s], out)) <= ChanCap
    BY <2>3, <2>4, PushedProperties
  <2>6. crecv' \in [Streams -> Buffers]
    BY <1>0, <2>2, <2>4 DEF ClientTyped
  <2>7. /\ recvCh' \in [Streams -> Seq(Payloads)]
        /\ \A s \in Streams : Len(recvCh'[s]) <= ChanCap
    BY <1>0, <2>2, <2>5 DEF ClientTyped
  <2>8. ClientTyped'
    BY <1>0, <1>1, <2>2, <2>6, <2>7 DEF ClientTyped
  <2>9. StillRegistered'
    BY <1>1, <2>2 DEF IInv, StillRegistered
  <2>10. DestTyped' /\ UNCHANGED <<up, down, dialled>>
    BY <1>0, <1>1, <1>3, <2>2 DEF DestTyped, destVars
  <2>11. OnlyFailures'
    <3> SUFFICES ASSUME NEW s \in Streams, ~Dialled(s)
                 PROVE  /\ recvCh'[s] \in Seq({Fail})
                        /\ crecv'[s].held \subseteq FailSlots
                        /\ \A q \in net' : q.dir = "down" /\ q.type = "data" /\ q.s = s =>
                             q.v = Fail
      BY <1>6 DEF OnlyFailures, FailSlots
    <3>1. /\ recvCh[s] \in Seq({Fail}) /\ crecv[s].held \subseteq FailSlots
          /\ \A q \in net : q.dir = "down" /\ q.type = "data" /\ q.s = s => q.v = Fail
      BY DEF IInv, OnlyFailures
    <3>2. CASE s # p.s
      BY <1>0, <1>2, <2>2, <3>1, <3>2 DEF ClientTyped
    <3>3. CASE s = p.s
      <4>1. p.v \in {Fail}
        BY <2>2, <3>1, <3>3
      <4>2. crecv[s] \in BuffersOf({Fail})
        BY <2>3, <3>1, <3>3 DEF BuffersOf, FailSlots
      <4>3. out \in Seq({Fail}) /\ Inserted(crecv[s], p.seq, p.v) \in BuffersOf({Fail})
        BY <1>3, <2>1, <3>3, <4>1, <4>2, FlushedProperties, InsertedProperties
      <4>4. Pushed(recvCh[s], out) \in Seq({Fail})
        BY <2>3, <3>1, <3>3, <4>3, PushedProperties
      <4>5. recvCh'[s] = Pushed(recvCh[s], out) /\ crecv'[s] = Inserted(crecv[s], p.seq, p.v)
        BY <1>0, <2>2, <3>3 DEF ClientTyped
      <4> QED
        BY <1>2, <3>1, <4>3, <4>4, <4>5 DEF BuffersOf, FailSlots
    <3> QED
      BY <3>2, <3>3
  <2> QED
    BY <1>1, <1>2, <1>4, <1>5, <1>6, <2>8, <2>9, <2>10, <2>11, ClientFrame
<1> QED
  BY <1>7, <1>8

\* RemoveStream under sess.mu: the entry, its number and its buffer go.
LEMMA RemoveProperties ==
    ASSUME IInv, NEW s \in Streams, RemoveStream(s)
    PROVE  /\ MapTyped' /\ ObjTyped'
           /\ \A t \in Streams :
                /\ streams'[t] = IF t = s THEN 0 ELSE streams[t]
                /\ nextSeq'[t] = IF t = s THEN 0 ELSE nextSeq[t]
<1>0. MapTyped /\ ObjTyped
  BY TypeParts DEF IInv
<1>1. 0 \in 0..MaxOpens
  BY StreamsAssumption
<1>2. MapTyped'
  <2>1. srecv' \in [Streams -> Buffers]
    BY <1>0, DataTypes DEF MapTyped, RemoveStream
  <2>2. streams' \in [Streams -> 0..MaxOpens] /\ nextSeq' \in [Streams -> Seqs]
    BY <1>0, <1>1, DataTypes DEF MapTyped, RemoveStream
  <2> QED
    BY <2>1, <2>2 DEF MapTyped
<1>3. streams[s] \in 0..MaxOpens /\ (streams[s] # 0 => streams[s] \in Openers)
  BY <1>0, StreamsAssumption DEF MapTyped, Openers
<1>4. ObjTyped'
  <2>1. conn' \in [Openers -> {"none", "open", "closed"}]
    BY <1>0, <1>3 DEF ObjTyped, RemoveStream
  <2>2. CASE streams[s] = 0
    BY <1>0, <2>1, <2>2 DEF ObjTyped, RemoveStream
  <2>3. CASE streams[s] # 0
    <3>1. PICK g \in Openers : g = streams[s]
      BY <1>3, <2>3
    <3>2. writeCh' = [writeCh EXCEPT ![g] = [writeCh[g] EXCEPT !.st = "closed"]]
      BY <2>3, <3>1 DEF RemoveStream
    <3>3. /\ [writeCh[g] EXCEPT !.st = "closed"] \in Channels
          /\ [writeCh[g] EXCEPT !.st = "closed"].q = writeCh[g].q
      BY <1>0 DEF ObjTyped, Channels
    <3> QED
      BY <1>0, <2>1, <3>2, <3>3 DEF ObjTyped
  <2> QED
    BY <2>2, <2>3
<1>5. \A t \in Streams :
        /\ streams'[t] = IF t = s THEN 0 ELSE streams[t]
        /\ nextSeq'[t] = IF t = s THEN 0 ELSE nextSeq[t]
  BY <1>0 DEF MapTyped, RemoveStream
<1> QED
  BY <1>2, <1>4, <1>5

-----------------------------------------------------------------------------
(* The session. *)

\* No number is used up.
LEMMA RoomKept ==
    ASSUME IInv, UNCHANGED down, MapTyped', Unsent' \subseteq Unsent,
           \A s \in Streams : nextSeq'[s] <= nextSeq[s] /\ Holding(s)' \subseteq Holding(s)
    PROVE  SeqRoom'
<1>1. \A s \in Streams : nextSeq'[s] \in Nat /\ down'[s] \in Nat
  BY DEF IInv, TypeOK, MapTyped, Seqs
<1> QED
  BY <1>1, RoomStep DEF SeqRoom

\* The number a stream has now.
LEMMA NumberTypes ==
    ASSUME IInv
    PROVE  \A s \in Streams : NextSeq(s) \in Seqs /\ nextSeq[s] <= nextSeq[s]
<1>1. nextSeq \in [Streams -> Seqs]
  BY DEF IInv, TypeOK
<1>2. 0 \in Seqs /\ \A k \in Seqs : k <= k
  BY DataTypes DEF Seqs
<1> QED
  BY <1>1, <1>2 DEF NextSeq

\* Goroutines and dials stand still: entries are removed, payloads move on.
LEMMA DataFrame ==
    ASSUME IInv, UNCHANGED <<clientVars, goVars, down, spent, dialled>>,
           NetTyped', MapTyped', ObjTyped', LoopTyped', DestTyped', EndTyped',
           \A s \in Streams : streams'[s] \in {0, streams[s]} /\ nextSeq'[s] <= nextSeq[s],
           LoopStream', net' \subseteq net
    PROVE  IInv'
<1> USE DEF IInv, goVars
<1>1. GoTyped
  BY TypeParts
<1>2. GoTyped' /\ WithinData' /\ SidKnown' /\ AfterDial'
  BY <1>1 DEF GoTyped, WithinData, SidKnown, AfterDial, clientVars
<1>3. EntryOwned'
  BY DEF EntryOwned
<1>4. Unsent' = Unsent /\ \A s \in Streams : Holding(s)' = Holding(s)
  BY DEF Unsent, Holding
<1>5. SeqRoom'
  BY <1>4, RoomKept
<1> QED
  BY <1>2, <1>3, <1>5, ServerFrame

\* processLoop takes one packet.
LEMMA HandleStep ==
    ASSUME IInv, NEW p \in net, HandleOpen(p) \/ HandleData(p) \/ HandleClose(p)
    PROVE  IInv'
<1> USE DEF mapVars, objVars, destVars, endVars
<1>0. /\ ClientTyped /\ NetTyped /\ MapTyped /\ GoTyped /\ ObjTyped /\ LoopTyped
      /\ DestTyped /\ ConnTyped /\ EndTyped
  BY TypeParts DEF IInv
<1>1. /\ UNCHANGED <<clientVars, removed, panicked, destVars, dropped, conn>> \/ HandleClose(p)
      /\ Arrives(p) /\ loop = Idle
  BY DEF HandleOpen, HandleData, HandleClose, LoopIdle
<1>2. NetTyped' /\ net' \subseteq net /\ p \in Packets
  BY <1>0, <1>1, ArrivesTyped
<1>3. p.s \in Streams /\ p.seq \in Seqs /\ p.v \in Payloads
  BY <1>2 DEF Packets
<1>4. CASE HandleOpen(p)
  <2>1. PICK g \in Openers : /\ opener[g] = "idle"
                             /\ opener' = [opener EXCEPT ![g] = "spawned"]
                             /\ sid' = [sid EXCEPT ![g] = p.s]
    BY <1>4 DEF HandleOpen
  <2>2. UNCHANGED <<clientVars, streams, nextSeq, srecv, writer, relay, writeCh, conn, loop,
                    removed, panicked, up, down, spent, dialled, dropped>>
    BY <1>4 DEF HandleOpen
  <2>3. MapTyped' /\ ObjTyped' /\ LoopTyped' /\ DestTyped'
    BY <1>0, <2>2 DEF MapTyped, ObjTyped, LoopTyped, DestTyped
  <2>4. EndTyped'
    BY <1>0, <2>2, Zenon DEF ConnTyped, EndTyped
  <2>5. /\ opener'[g] = "spawned" /\ sid'[g] = p.s
        /\ \A h \in Openers : h # g => opener'[h] = opener[h] /\ sid'[h] = sid[h]
    BY <1>0, <2>1 DEF GoTyped
  <2>6. GoTyped'
    BY <1>0, <1>3, <2>1, <2>2 DEF GoTyped, OpenerPlaces
  <2>7. g \notin dialled /\ relay[g] = "off" /\ \A s \in Streams : streams[s] # g
    <3>1. g # 0
      BY DEF Openers
    <3> QED
      BY <2>1, <3>1 DEF IInv, AfterDial, EntryOwned
  <2>8. \A s \in Streams : streams[s] # 0 => streams[s] \in Openers
    BY <1>0, StreamsAssumption DEF MapTyped, Openers
  <2>9. SidKnown' /\ WithinData' /\ LoopStream'
    BY <1>3, <2>2, <2>5 DEF IInv, SidKnown, WithinData, LoopStream, clientVars
  <2>10. EntryOwned'
    BY <2>2, <2>5, <2>7, <2>8 DEF IInv, EntryOwned
  <2>11. AfterDial'
    BY <2>2, <2>5, <2>7 DEF IInv, AfterDial
  <2>12. Unsent' \subseteq Unsent /\ \A s \in Streams : Holding(s)' \subseteq Holding(s)
    BY <2>1, <2>2, <2>5, <2>7 DEF Unsent, Holding
  <2>13. SeqRoom'
    BY <2>2, <2>3, <2>12, NumberTypes, RoomKept
  <2>14. \A h \in dialled : h \in dialled' /\ sid'[h] = sid[h]
    BY <1>0, <2>2, <2>5, <2>7 DEF DestTyped
  <2> QED
    BY <1>2, <2>2, <2>3, <2>4, <2>6, <2>9, <2>10, <2>11, <2>13, <2>14, ServerFrame
<1>5. CASE HandleData(p)
  <2>1. PICK out : out = Flushed(srecv[p.s], p.seq, p.v)
    OBVIOUS
  <2>2. /\ srecv' = [srecv EXCEPT ![p.s] = Inserted(srecv[p.s], p.seq, p.v)]
        /\ loop' = IF out = <<>> THEN Idle ELSE [s |-> p.s, g |-> 0, q |-> out]
        /\ UNCHANGED <<clientVars, streams, nextSeq, goVars, writeCh, conn, removed, panicked,
                       up, down, spent, dialled, dropped>>
    BY <1>5, <2>1 DEF HandleData
  <2>3. out \in Seq(Payloads) /\ Inserted(srecv[p.s], p.seq, p.v) \in Buffers
    BY <1>0, <1>3, <2>1, DataTypes, FlushedProperties, InsertedProperties DEF MapTyped
  <2>4. srecv' \in [Streams -> Buffers]
    BY <1>0, <2>2, <2>3 DEF MapTyped
  <2>5. MapTyped' /\ ObjTyped' /\ DestTyped'
    BY <1>0, <2>2, <2>4 DEF MapTyped, ObjTyped, DestTyped
  <2>6. 0 \in 0..MaxOpens /\ <<>> \in Seq(Payloads)
    BY StreamsAssumption
  <2>7. LoopTyped' /\ LoopStream'
    BY <1>3, <2>2, <2>3, <2>6 DEF LoopTyped, LoopStream, Idle
  <2>8. EndTyped'
    BY <1>0, <2>2, Zenon DEF ConnTyped, EndTyped
  <2> QED
    BY <1>2, <2>2, <2>5, <2>7, <2>8, NumberTypes, DataFrame
<1>6. CASE HandleClose(p)
  <2>1. /\ RemoveStream(p.s)
        /\ UNCHANGED <<clientVars, goVars, loop, removed, panicked, up, down, spent, dialled, dropped>>
    BY <1>6 DEF HandleClose
  <2>2. /\ MapTyped' /\ ObjTyped'
        /\ \A s \in Streams : /\ streams'[s] \in {0, streams[s]}
                              /\ nextSeq'[s] \in {0, nextSeq[s]}
    BY <1>3, <2>1, RemoveProperties
  <2>3. \A s \in Streams : nextSeq'[s] <= nextSeq[s]
    BY <1>0, <2>2 DEF MapTyped, Seqs
  <2>4. LoopTyped' /\ LoopStream' /\ DestTyped'
    BY <1>0, <2>1 DEF IInv, LoopTyped, LoopStream, DestTyped
  <2>5. EndTyped'
    BY <1>0, <2>1, Zenon DEF ConnTyped, EndTyped
  <2> QED
    BY <1>2, <2>1, <2>2, <2>3, <2>4, <2>5, DataFrame
<1> QED
  BY <1>4, <1>5, <1>6

\* The session is removed with all its entries.
LEMMA RemoveSessionStep ==
    ASSUME IInv, RemoveSession
    PROVE  IInv'
<1>0. /\ NetTyped /\ MapTyped /\ ObjTyped /\ LoopTyped /\ DestTyped /\ EndTyped
  BY TypeParts DEF IInv
<1>1. /\ UNCHANGED <<clientVars, net, goVars, loop, up, down, spent, dialled, dropped>>
      /\ faults < MaxFaults /\ faults' = faults + 1
      /\ streams' = [s \in Streams |-> 0] /\ nextSeq' = [s \in Streams |-> 0]
      /\ srecv' = [s \in Streams |-> NoBuffer]
  BY DEF RemoveSession, Fault, destVars
<1>2. PICK entries : /\ writeCh' = [g \in Openers |->
                          IF g \in entries THEN [writeCh[g] EXCEPT !.st = "closed"] ELSE writeCh[g]]
                     /\ conn' = [g \in Openers |->
                          IF g \in entries /\ conn[g] = "open" THEN "closed" ELSE conn[g]]
  BY DEF RemoveSession
<1>3. NetTyped' /\ LoopTyped' /\ LoopStream' /\ DestTyped'
  BY <1>0, <1>1, StreamsAssumption DEF NetTyped, LoopTyped, LoopStream, DestTyped, IInv
<1>4. MapTyped' /\ \A s \in Streams : streams'[s] = 0 /\ nextSeq'[s] <= nextSeq[s]
  <2>1. 0 \in 0..MaxOpens /\ 0 \in Seqs /\ \A k \in Seqs : 0 <= k
    BY StreamsAssumption DEF Seqs
  <2>2. \A s \in Streams : nextSeq[s] \in Seqs
    BY <1>0 DEF MapTyped
  <2>3. srecv' \in [Streams -> Buffers]
    BY <1>1, DataTypes
  <2> QED
    BY <1>1, <2>1, <2>2, <2>3 DEF MapTyped
<1>5. ObjTyped'
  <2>1. \A g \in Openers :
          /\ writeCh[g] \in Channels /\ Len(writeCh[g].q) <= ChanCap
          /\ [writeCh[g] EXCEPT !.st = "closed"] \in Channels
          /\ [writeCh[g] EXCEPT !.st = "closed"].q = writeCh[g].q
          /\ conn[g] \in {"none", "open", "closed"}
    BY <1>0 DEF ObjTyped, Channels
  <2>2. writeCh' \in [Openers -> Channels] /\ \A g \in Openers : Len(writeCh'[g].q) <= ChanCap
    BY <1>2, <2>1
  <2>3. conn' \in [Openers -> {"none", "open", "closed"}]
    BY <1>2, <2>1
  <2> QED
    BY <2>2, <2>3 DEF ObjTyped
<1>6. EndTyped'
  BY Zenon DEF EndTyped, RemoveSession
<1> QED
  BY <1>1, <1>3, <1>4, <1>5, <1>6, DataFrame

\* processLoop delivers what the packet has released.
LEMMA DeliverStep ==
    ASSUME IInv, DeliverLookup \/ DeliverSend
    PROVE  IInv'
<1> USE DEF mapVars, objVars, netVars, destVars, endVars
<1>0. /\ NetTyped /\ MapTyped /\ ObjTyped /\ LoopTyped /\ DestTyped /\ ConnTyped /\ EndTyped
  BY TypeParts DEF IInv
<1>1. /\ UNCHANGED <<clientVars, netVars, mapVars, goVars, conn, destVars>>
      /\ loop.q # <<>> /\ loop.s \in Streams
  BY DEF DeliverLookup, DeliverSend, IInv, LoopStream
<1>2. PICK rest : rest = Tail(loop.q)
  OBVIOUS
<1>3. /\ loop.q \in Seq(Payloads) /\ loop.g \in 0..MaxOpens
      /\ rest \in Seq(Payloads) /\ Head(loop.q) \in Payloads
  <2>1. loop.q \in Seq(Payloads) /\ loop.g \in 0..MaxOpens
    BY <1>0 DEF LoopTyped
  <2> QED
    BY <1>1, <1>2, <2>1, HeadTailProperties
<1>4. 0 \in 0..MaxOpens /\ <<>> \in Seq(Payloads)
  BY StreamsAssumption
<1>5. LoopTyped' /\ LoopStream'
  <2>1. \/ loop' = Idle
        \/ rest # <<>> /\ loop' = [loop EXCEPT !.q = rest] /\ loop.g = 0
        \/ rest # <<>> /\ loop' = [loop EXCEPT !.g = 0, !.q = rest]
        \/ loop' = [loop EXCEPT !.g = streams[loop.s]]
    BY <1>2 DEF DeliverLookup, DeliverSend
  <2>2. streams[loop.s] \in 0..MaxOpens
    BY <1>0, <1>1 DEF MapTyped
  <2>3. LoopTyped'
    <3> USE DEF LoopTyped
    <3>1. CASE loop' = Idle
      BY <1>4, <3>1 DEF Idle
    <3>2. CASE loop' = [loop EXCEPT !.q = rest]
      BY <1>0, <1>3, <3>2
    <3>3. CASE loop' = [loop EXCEPT !.g = 0, !.q = rest]
      BY <1>0, <1>3, <1>4, <3>3
    <3>4. CASE loop' = [loop EXCEPT !.g = streams[loop.s]]
      BY <1>0, <2>2, <3>4
    <3> QED
      BY <2>1, <3>1, <3>2, <3>3, <3>4
  <2>4. CASE loop' = Idle
    BY <2>3, <2>4 DEF LoopStream, Idle
  <2>5. CASE loop' # Idle
    <3>1. loop'.s = loop.s /\ loop'.q # <<>>
      BY <1>0, <1>1, <2>1, <2>5 DEF LoopTyped
    <3> QED
      BY <1>1, <2>3, <3>1 DEF LoopStream
  <2> QED
    BY <2>4, <2>5, <2>3
<1>6. NetTyped' /\ MapTyped'
  BY <1>0, <1>1 DEF NetTyped, MapTyped
<1>7. dropped' \in {dropped, dropped \cup {loop.s}}
  BY DEF DeliverLookup, DeliverSend
<1>8. DestTyped'
  BY <1>0, <1>1, <1>7 DEF DestTyped
<1>9. EndTyped'
  BY <1>0, Zenon DEF ConnTyped, EndTyped, DeliverLookup, DeliverSend
<1>10. ObjTyped'
  <2>1. CASE writeCh' = writeCh
    BY <1>0, <1>1, <2>1 DEF ObjTyped
  <2>2. CASE writeCh' # writeCh
    <3>1. PICK g \in Openers : g = loop.g
      BY <1>3, <2>2, StreamsAssumption DEF DeliverLookup, DeliverSend, Openers
    <3>2. PICK q : q = Pushed(writeCh[g].q, <<Head(loop.q)>>)
      OBVIOUS
    <3>3. writeCh' = [writeCh EXCEPT ![g] = [writeCh[g] EXCEPT !.q = q]]
      BY <2>2, <3>1, <3>2 DEF DeliverLookup, DeliverSend
    <3>4. writeCh[g].q \in Seq(Payloads) /\ Len(writeCh[g].q) <= ChanCap
      BY <1>0 DEF ObjTyped, Channels
    <3>5. <<Head(loop.q)>> \in Seq(Payloads)
      BY <1>3
    <3>6. q \in Seq(Payloads) /\ Len(q) <= ChanCap
      BY <3>2, <3>4, <3>5, PushedProperties
    <3>7. /\ [writeCh[g] EXCEPT !.q = q] \in Channels
          /\ [writeCh[g] EXCEPT !.q = q].q = q
      BY <1>0, <3>6 DEF ObjTyped, Channels
    <3> QED
      BY <1>0, <1>1, <3>3, <3>6, <3>7 DEF ObjTyped
  <2> QED
    BY <2>1, <2>2
<1> QED
  BY <1>1, <1>5, <1>6, <1>8, <1>9, <1>10, NumberTypes, DataFrame

-----------------------------------------------------------------------------
(* The goroutines of the server. *)

\* The streams of the openers, and the openers of the entries.
LEMMA OpenerFacts ==
    ASSUME IInv
    PROVE  /\ \A g \in Openers : opener[g] # "idle" => sid[g] \in Streams
           /\ \A g \in dialled : sid[g] \in Streams /\ g \in Openers
           /\ \A s \in Streams : streams[s] # 0 => streams[s] \in Openers
           /\ \A g \in Openers : g # 0 /\ g \in 0..MaxOpens
<1>1. MapTyped /\ DestTyped
  BY TypeParts DEF IInv
<1>2. \A s \in Streams : streams[s] # 0 => streams[s] \in Openers
  BY <1>1, StreamsAssumption DEF MapTyped, Openers
<1>3. \A g \in Openers : g # 0 /\ g \in 0..MaxOpens
  BY StreamsAssumption DEF Openers
<1>4. \A g \in dialled : g \in Openers /\ opener[g] # "idle"
  BY <1>1 DEF DestTyped, IInv, AfterDial
<1> QED
  BY <1>2, <1>3, <1>4 DEF IInv, SidKnown

\* A goroutine removes the stream it serves and returns.
LEMMA RemovingStep ==
    ASSUME IInv, NEW g \in Openers, sid[g] \in Streams, RemoveStream(sid[g]),
           UNCHANGED <<clientVars, faults, sid, loop, removed, panicked, destVars, dropped>>,
           NEW pkt \in Packets, net' = net \/ net' = net \cup {pkt},
           pkt.type = "close" \/ pkt.v = Fail,
           GoTyped',
           \A h \in Openers : h # g => /\ opener'[h] = opener[h] /\ relay'[h] = relay[h]
                                       /\ writer'[h] = writer[h],
           opener'[g] = "done" \/ opener'[g] = opener[g],
           (relay'[g] = "done" /\ relay[g] # "off") \/ relay'[g] = relay[g],
           writer'[g] # "off" => writer[g] # "off",
           opener[g] = "connected" => opener'[g] = "connected",
           g \in dialled => opener'[g] \in {"connected", "done"}
    PROVE  IInv'
<1> USE DEF destVars
<1>0. /\ NetTyped /\ MapTyped /\ GoTyped /\ ObjTyped /\ LoopTyped /\ DestTyped /\ ConnTyped /\ EndTyped
  BY TypeParts DEF IInv
<1>1. /\ MapTyped' /\ ObjTyped'
      /\ \A s \in Streams : /\ streams'[s] = IF s = sid[g] THEN 0 ELSE streams[s]
                            /\ nextSeq'[s] = IF s = sid[g] THEN 0 ELSE nextSeq[s]
  BY RemoveProperties
<1>2. \A s \in Streams : nextSeq'[s] <= nextSeq[s]
  BY <1>0, <1>1 DEF MapTyped, Seqs
<1>3. NetTyped' /\ LoopTyped' /\ DestTyped'
  BY <1>0 DEF NetTyped, LoopTyped, DestTyped
<1>4. EndTyped'
  BY <1>0, Zenon DEF ConnTyped, EndTyped
<1>5. WithinData' /\ LoopStream'
  BY DEF IInv, WithinData, LoopStream, clientVars
<1>6. SidKnown'
  BY DEF IInv, SidKnown
<1>7. EntryOwned'
  BY <1>1, OpenerFacts DEF IInv, EntryOwned
<1>8. AfterDial'
  BY DEF IInv, AfterDial
<1>9. Unsent' \subseteq Unsent /\ \A s \in Streams : Holding(s)' \subseteq Holding(s)
  BY DEF Unsent, Holding
<1>10. SeqRoom'
  BY <1>1, <1>2, <1>9, RoomKept
<1> QED
  BY <1>1, <1>3, <1>4, <1>5, <1>6, <1>7, <1>8, <1>10, ServerFrame

\* handleStreamOpen enters the stream, or finds that a duplicate has.
LEMMA EnterStep ==
    ASSUME IInv, NEW g \in Openers, EnterStream(g) \/ CreateRecvBuffer(g)
    PROVE  IInv'
<1> USE DEF destVars, netVars, objVars, endVars, OpenerTo
<1>0. /\ NetTyped /\ MapTyped /\ GoTyped /\ ObjTyped /\ LoopTyped /\ DestTyped /\ ConnTyped /\ EndTyped
  BY TypeParts DEF IInv
<1>1. /\ UNCHANGED <<clientVars, netVars, sid, writer, relay, conn, loop, removed, panicked, destVars,
                     dropped>>
      /\ opener[g] \in {"spawned", "entered"}
  BY DEF EnterStream, CreateRecvBuffer
<1>2. PICK q \in {"entered", "dial", "done"} :
        /\ opener' = [opener EXCEPT ![g] = q]
        /\ q = "dial" <=> opener[g] = "entered"
        /\ q = "done" => opener[g] = "spawned" /\ UNCHANGED <<streams, nextSeq, writeCh, srecv>>
        /\ q = "dial" => UNCHANGED <<streams, nextSeq, writeCh>>
        /\ q = "dial" => srecv' = srecv \/ srecv' = [srecv EXCEPT ![sid[g]] = NewBuffer]
        /\ q = "entered" => /\ srecv' = srecv /\ streams[sid[g]] = 0
                            /\ streams' = [streams EXCEPT ![sid[g]] = g]
                            /\ nextSeq' = [nextSeq EXCEPT ![sid[g]] = 0]
                            /\ writeCh' = [writeCh EXCEPT ![g] =
                                             [writeCh[g] EXCEPT !.st = "open"]]
  BY DEF EnterStream, CreateRecvBuffer
<1>3. /\ sid[g] \in Streams /\ opener'[g] = q
      /\ \A h \in Openers : h # g => opener'[h] = opener[h]
      /\ g \notin dialled /\ relay[g] = "off"
  BY <1>0, <1>1, <1>2, OpenerFacts DEF GoTyped, IInv, AfterDial
<1>4. GoTyped'
  BY <1>0, <1>1, <1>2 DEF GoTyped, OpenerPlaces
<1>5. MapTyped'
  <2>1. srecv' \in [Streams -> Buffers]
    BY <1>0, <1>2, DataTypes DEF MapTyped
  <2>2. g \in 0..MaxOpens /\ 0 \in Seqs
    BY OpenerFacts, DataTypes
  <2>3. streams' \in [Streams -> 0..MaxOpens] /\ nextSeq' \in [Streams -> Seqs]
    BY <1>0, <1>2, <2>2 DEF MapTyped
  <2> QED
    BY <2>1, <2>3 DEF MapTyped
<1>6. ObjTyped'
  <2>1. /\ [writeCh[g] EXCEPT !.st = "open"] \in Channels
        /\ [writeCh[g] EXCEPT !.st = "open"].q = writeCh[g].q
    BY <1>0 DEF ObjTyped, Channels
  <2> QED
    BY <1>0, <1>1, <1>2, <2>1 DEF ObjTyped
<1>7. NetTyped' /\ LoopTyped' /\ DestTyped'
  BY <1>0, <1>1 DEF NetTyped, LoopTyped, DestTyped
<1>8. EndTyped'
  BY <1>0, <1>1, Zenon DEF ConnTyped, EndTyped
<1>9. WithinData' /\ LoopStream' /\ SidKnown'
  BY <1>1, <1>3, OpenerFacts DEF IInv, WithinData, LoopStream, SidKnown, clientVars
<1>10. AfterDial'
  BY <1>1, <1>2, <1>3 DEF IInv, AfterDial
<1>11. EntryOwned'
  <2>1. q = "done" => \A s \in Streams : streams[s] # g
    BY <1>2, <1>3, OpenerFacts DEF IInv, EntryOwned
  <2>2. CASE q \in {"dial", "done"}
    BY <1>1, <1>2, <1>3, <2>1, <2>2, OpenerFacts DEF IInv, EntryOwned
  <2>3. CASE q = "entered"
    <3>1. \A s \in Streams : streams'[s] = IF s = sid[g] THEN g ELSE streams[s]
      BY <1>0, <1>2, <2>3 DEF MapTyped
    <3>2. \A s \in Streams : streams[s] # g
      BY <1>1, <1>2, <1>3, <2>3, OpenerFacts DEF IInv, EntryOwned
    <3> QED
      BY <1>1, <1>3, <2>3, <3>1, <3>2, OpenerFacts DEF IInv, EntryOwned
  <2> QED
    BY <2>2, <2>3
<1>12. Unsent' \subseteq Unsent /\ \A s \in Streams : Holding(s)' \subseteq Holding(s)
  BY <1>1, <1>2, <1>3 DEF Unsent, Holding
<1>13. \A s \in Streams : nextSeq'[s] <= nextSeq[s]
  BY <1>0, <1>2, <1>3 DEF MapTyped, Seqs
<1>14. SeqRoom'
  BY <1>1, <1>5, <1>12, <1>13, RoomKept
<1> QED
  BY <1>1, <1>4, <1>5, <1>6, <1>7, <1>8, <1>9, <1>10, <1>11, <1>14, ServerFrame

\* The dial, and goroutines that give a stream up.
LEMMA DialStep ==
    ASSUME IInv, NEW g \in Openers,
           DialFails(g) \/ WriterFails(g) \/ RelayExits(g) \/ DialSucceeds(g)
    PROVE  IInv'
<1> USE DEF OpenerTo, WriterTo, RelayTo, endVars
<1>0. /\ NetTyped /\ MapTyped /\ GoTyped /\ ObjTyped /\ LoopTyped /\ DestTyped /\ ConnTyped /\ EndTyped
  BY TypeParts DEF IInv
<1>1. sid[g] \in Streams
  BY OpenerFacts DEF DialFails, WriterFails, RelayExits, DialSucceeds, IInv, AfterDial
<1>2. CASE DialFails(g)
  <2>1. /\ RemoveStream(sid[g]) /\ opener[g] = "dial" /\ opener' = [opener EXCEPT ![g] = "done"]
        /\ UNCHANGED <<clientVars, faults, sid, writer, relay, loop, removed, panicked, destVars, dropped>>
        /\ \/ net' = net
           \/ net' = net \cup {Packet("down", "data", sid[g], NextSeq(sid[g]), Fail)}
    BY <1>2 DEF DialFails, Transmit
  <2>2. /\ Packet("down", "data", sid[g], NextSeq(sid[g]), Fail) \in Packets
        /\ Packet("down", "data", sid[g], NextSeq(sid[g]), Fail).v = Fail
    BY <1>1, NumberTypes, DataTypes, PacketTypes
  <2>3. GoTyped'
    BY <1>0, <2>1 DEF GoTyped, OpenerPlaces
  <2>4. opener'[g] = "done" /\ \A h \in Openers : h # g => opener'[h] = opener[h]
    BY <1>0, <2>1 DEF GoTyped
  <2> QED
    BY <1>1, <2>1, <2>2, <2>3, <2>4, RemovingStep
<1>3. CASE WriterFails(g)
  <2>1. /\ RemoveStream(sid[g]) /\ writer[g] = "range" /\ writer' = [writer EXCEPT ![g] = "done"]
        /\ UNCHANGED <<clientVars, faults, opener, sid, relay, loop, removed, panicked, destVars, dropped>>
        /\ net' = net \/ net' = net \cup {CloseDown(sid[g])}
    BY <1>3 DEF WriterFails, Transmit
  <2>2. CloseDown(sid[g]) \in Packets /\ CloseDown(sid[g]).type = "close"
    BY <1>1, DataTypes, PacketTypes DEF CloseDown
  <2>3. GoTyped' /\ \A h \in Openers : h # g => writer'[h] = writer[h]
    BY <1>0, <2>1 DEF GoTyped
  <2>4. g \in dialled => opener[g] \in {"connected", "done"}
    BY DEF IInv, AfterDial
  <2> QED
    BY <1>1, <2>1, <2>2, <2>3, <2>4, RemovingStep
<1>4. CASE RelayExits(g)
  <2>1. /\ RemoveStream(sid[g]) /\ relay[g] = "exit" /\ relay' = [relay EXCEPT ![g] = "done"]
        /\ UNCHANGED <<clientVars, faults, opener, sid, writer, loop, removed, panicked, destVars, dropped>>
        /\ net' = net \/ net' = net \cup {CloseDown(sid[g])}
    BY <1>4 DEF RelayExits, Transmit
  <2>2. CloseDown(sid[g]) \in Packets /\ CloseDown(sid[g]).type = "close"
    BY <1>1, DataTypes, PacketTypes DEF CloseDown
  <2>3. GoTyped' /\ relay'[g] = "done" /\ \A h \in Openers : h # g => relay'[h] = relay[h]
    BY <1>0, <2>1 DEF GoTyped
  <2>4. g \in dialled => opener[g] \in {"connected", "done"}
    BY DEF IInv, AfterDial
  <2> QED
    BY <1>1, <2>1, <2>2, <2>3, <2>4, RemovingStep
<1>5. CASE DialSucceeds(g)
  <2> USE DEF netVars, mapVars
  <2>1. /\ opener[g] = "dial" /\ opener' = [opener EXCEPT ![g] = "connected"]
        /\ conn' = [conn EXCEPT ![g] = "open"] /\ dialled' = dialled \cup {g}
        /\ writer' = [writer EXCEPT ![g] = "start"]
        /\ UNCHANGED <<clientVars, netVars, mapVars, sid, relay, writeCh, loop, removed, panicked,
                       up, down, spent, dropped>>
    BY <1>5 DEF DialSucceeds
  <2>2. /\ opener'[g] = "connected" /\ \A h \in Openers : h # g => opener'[h] = opener[h]
        /\ \A h \in Openers : h # g => writer'[h] = writer[h]
    BY <1>0, <2>1 DEF GoTyped
  <2>3. GoTyped'
    BY <1>0, <2>1 DEF GoTyped, OpenerPlaces
  <2>4. NetTyped' /\ MapTyped' /\ LoopTyped' /\ DestTyped'
    BY <1>0, <2>1 DEF NetTyped, MapTyped, LoopTyped, DestTyped
  <2>5. ObjTyped'
    BY <1>0, <2>1 DEF ObjTyped
  <2>6. EndTyped'
    BY <1>0, <2>1, Zenon DEF ConnTyped, EndTyped
  <2>7. WithinData' /\ LoopStream' /\ SidKnown'
    BY <1>1, <2>1, <2>2 DEF IInv, WithinData, LoopStream, SidKnown, clientVars
  <2>8. AfterDial' /\ EntryOwned'
    BY <2>1, <2>2, OpenerFacts DEF IInv, AfterDial, EntryOwned
  <2>9. Unsent' \subseteq Unsent /\ \A s \in Streams : Holding(s)' \subseteq Holding(s)
    BY <2>1, <2>2 DEF Unsent, Holding
  <2>10. SeqRoom'
    BY <2>1, <2>4, <2>9, NumberTypes, RoomKept
  <2> QED
    BY <2>1, <2>3, <2>4, <2>5, <2>6, <2>7, <2>8, <2>10, ServerFrame
<1> QED
  BY <1>2, <1>3, <1>4, <1>5

\* A payload is numbered and sent for a stream that was dialled; with it goes
\* an opener that had not sent its result, or a relay that held a payload.
LEMMA NumberingStep ==
    ASSUME IInv, NEW g \in Openers, NEW v \in Payloads,
           SendNumbered(sid[g], v) \/ UNCHANGED <<net, nextSeq>>,
           UNCHANGED <<clientVars, faults, streams, srecv, sid, writer, objVars, loop, removed, panicked,
                       destVars, dropped>>,
           g \in dialled, GoTyped', SidKnown', EntryOwned', AfterDial',
           \/ /\ g \in Unsent /\ Unsent' = Unsent \ {g}
              /\ \A s \in Streams : Holding(s)' \subseteq Holding(s)
           \/ /\ Unsent' = Unsent /\ g \in Holding(sid[g])
              /\ \A s \in Streams : Holding(s)' = Holding(s) \ {g}
    PROVE  IInv'
<1> USE DEF destVars, objVars
<1>0. /\ NetTyped /\ MapTyped /\ GoTyped /\ ObjTyped /\ LoopTyped /\ DestTyped /\ ConnTyped /\ EndTyped
  BY TypeParts DEF IInv
<1>1. sid[g] \in Streams
  BY OpenerFacts
<1>2. \A s \in Streams : /\ nextSeq[s] \in Nat /\ down[s] \in 0..MaxData
                         /\ nextSeq'[s] \in Nat /\ nextSeq'[s] <= nextSeq[s] + 1
                         /\ s # sid[g] => nextSeq'[s] = nextSeq[s]
  <2>1. /\ nextSeq \in [Streams -> Nat] /\ down \in [Streams -> 0..MaxData]
        /\ \/ nextSeq' = nextSeq
           \/ nextSeq' = [nextSeq EXCEPT ![sid[g]] = nextSeq[sid[g]] + 1]
    BY <1>0 DEF MapTyped, DestTyped, SendNumbered, Seqs
  <2> QED
    BY <1>1, <2>1
<1>3. \A s \in Streams :
        /\ nextSeq'[s] + Cardinality(Holding(s)') + Cardinality(Unsent') <= down'[s] + MaxOpens
        /\ nextSeq'[s] <= down'[s] + MaxOpens
  <2> TAKE s \in Streams
  <2>1. nextSeq'[s] \in Nat /\ down'[s] \in Nat /\ down'[s] = down[s]
    BY <1>2
  <2>2. CASE /\ g \in Unsent /\ Unsent' = Unsent \ {g}
             /\ \A t \in Streams : Holding(t)' \subseteq Holding(t)
    BY <1>2, <2>1, <2>2, RoomStep
  <2>3. CASE /\ Unsent' = Unsent /\ g \in Holding(sid[g])
             /\ \A t \in Streams : Holding(t)' = Holding(t) \ {g}
    <3>1. CASE s = sid[g]
      BY <1>2, <2>1, <2>3, <3>1, RoomStep
    <3>2. CASE s # sid[g]
      <4>1. nextSeq'[s] <= nextSeq[s] /\ Holding(s)' \subseteq Holding(s)
        BY <1>2, <2>3, <3>2
      <4> QED
        BY <2>1, <2>3, <4>1, RoomStep
    <3> QED
      BY <3>1, <3>2
  <2> QED
    BY <2>2, <2>3
<1>4. SeqRoom'
  BY <1>3 DEF SeqRoom
<1>5. MapTyped'
  <2>1. \A s \in Streams : nextSeq'[s] \in Seqs
    BY <1>2, <1>3, StreamsAssumption DEF Seqs
  <2>2. nextSeq' \in [Streams -> Nat]
    BY <1>0, <1>1 DEF MapTyped, SendNumbered, Seqs
  <2>3. nextSeq' \in [Streams -> Seqs]
    BY <2>1, <2>2
  <2> QED
    BY <1>0, <2>3 DEF MapTyped
<1>6. /\ Packet("down", "data", sid[g], NextSeq(sid[g]), v) \in Packets
      /\ Packet("down", "data", sid[g], NextSeq(sid[g]), v).s = sid[g]
  BY <1>1, NumberTypes, PacketTypes
<1>7. Dialled(sid[g])'
  BY DEF Dialled
<1>8. /\ NetTyped'
      /\ \A p \in net' : p \in net \/ Dialled(p.s)'
  BY <1>0, <1>6, <1>7 DEF NetTyped, SendNumbered, Transmit
<1>9. ObjTyped' /\ LoopTyped' /\ DestTyped'
  BY <1>0 DEF ObjTyped, LoopTyped, DestTyped
<1>10. EndTyped'
  BY <1>0, Zenon DEF ConnTyped, EndTyped
<1>11. WithinData' /\ LoopStream'
  BY DEF IInv, WithinData, LoopStream, clientVars
<1> QED
  BY <1>4, <1>5, <1>8, <1>9, <1>10, <1>11, ServerFrame

\* The result of the dial, and what the relay has read.
LEMMA SendingStep ==
    ASSUME IInv, NEW g \in Openers, Connected(g) \/ RelaySends(g)
    PROVE  IInv'
<1> USE DEF OpenerTo, RelayTo, endVars
<1>0. GoTyped /\ DestTyped
  BY TypeParts DEF IInv
<1>1. CASE Connected(g)
  <2>1. /\ opener[g] = "connected"
        /\ SendNumbered(sid[g], Ok) \/ UNCHANGED <<net, nextSeq>>
        /\ relay' = [relay EXCEPT ![g] = "read"] /\ opener' = [opener EXCEPT ![g] = "done"]
        /\ UNCHANGED <<clientVars, faults, streams, srecv, sid, writer, objVars, loop, removed, panicked,
                       destVars, dropped>>
    BY <1>1 DEF Connected, SendResult
  <2>2. g \in dialled /\ relay[g] = "off"
    BY <2>1 DEF IInv, AfterDial
  <2>3. /\ opener'[g] = "done" /\ relay'[g] = "read"
        /\ \A h \in Openers : h # g => opener'[h] = opener[h] /\ relay'[h] = relay[h]
    BY <1>0, <2>1 DEF GoTyped
  <2>4. GoTyped'
    BY <1>0, <2>1 DEF GoTyped, OpenerPlaces
  <2>5. SidKnown' /\ EntryOwned' /\ AfterDial'
    BY <2>1, <2>2, <2>3, OpenerFacts DEF IInv, SidKnown, EntryOwned, AfterDial, destVars
  <2>6. /\ g \in Unsent /\ Unsent' = Unsent \ {g}
        /\ \A s \in Streams : Holding(s)' \subseteq Holding(s)
    BY <2>1, <2>3 DEF Unsent, Holding
  <2> QED
    BY <2>1, <2>2, <2>4, <2>5, <2>6, DataTypes, NumberingStep
<1>2. CASE RelaySends(g)
  <2>1. /\ relay[g] = "got" /\ SendNumbered(sid[g], Data(down[sid[g]]))
        /\ relay' = [relay EXCEPT ![g] = "read"]
        /\ UNCHANGED <<clientVars, faults, streams, srecv, opener, sid, writer, objVars, loop,
                       removed, panicked, destVars, dropped>>
    BY <1>2 DEF RelaySends
  <2>2. g \in dialled /\ sid[g] \in Streams /\ down[sid[g]] >= 1
    BY <2>1, OpenerFacts DEF IInv, AfterDial
  <2>3. Data(down[sid[g]]) \in Payloads
    <3>1. down[sid[g]] \in 0..MaxData
      BY <1>0, <2>2 DEF DestTyped
    <3>2. down[sid[g]] \in 1..MaxData
      BY <2>2, <3>1
    <3> QED
      BY <3>2, DataTypes
  <2>4. relay'[g] = "read" /\ \A h \in Openers : h # g => relay'[h] = relay[h]
    BY <1>0, <2>1 DEF GoTyped
  <2>5. GoTyped'
    BY <1>0, <2>1 DEF GoTyped
  <2>6. SidKnown' /\ EntryOwned' /\ AfterDial'
    BY <2>1, <2>2, <2>4, OpenerFacts DEF IInv, SidKnown, EntryOwned, AfterDial, destVars
  <2>7. /\ Unsent' = Unsent /\ g \in Holding(sid[g])
        /\ \A s \in Streams : Holding(s)' = Holding(s) \ {g}
    BY <2>1, <2>4 DEF Unsent, Holding
  <2> QED
    BY <2>1, <2>2, <2>3, <2>5, <2>6, <2>7, NumberingStep
<1> QED
  BY <1>1, <1>2

\* streamWriter.
LEMMA WriterStep ==
    ASSUME IInv, NEW g \in Openers, WriterStarts(g) \/ WriterWrites(g) \/ WriterEnds(g)
    PROVE  IInv'
<1> USE DEF WriterTo, netVars, mapVars, goVars, objVars, destVars, endVars
<1>0. /\ NetTyped /\ MapTyped /\ GoTyped /\ ObjTyped /\ LoopTyped /\ DestTyped /\ ConnTyped /\ EndTyped
  BY TypeParts DEF IInv
<1>1. /\ writer[g] # "off"
      /\ UNCHANGED <<clientVars, net, faults, streams, nextSeq, srecv, opener, sid, relay, conn,
                     loop, removed, panicked, down, spent, dialled, dropped>>
      /\ \/ writer' = writer
         \/ \E q \in {"range", "stuck", "done"} : writer' = [writer EXCEPT ![g] = q]
  BY DEF WriterStarts, WriterWrites, WriterEnds
<1>2. sid[g] \in Streams
  BY <1>1, OpenerFacts DEF IInv, AfterDial
<1>3. GoTyped' /\ \A h \in Openers : writer'[h] # "off" => writer[h] # "off"
  BY <1>0, <1>1 DEF GoTyped
<1>4. NetTyped' /\ MapTyped' /\ LoopTyped'
  BY <1>0, <1>1 DEF NetTyped, MapTyped, LoopTyped
<1>5. EndTyped'
  BY <1>0, <1>1, Zenon DEF ConnTyped, EndTyped
<1>6. ObjTyped' /\ DestTyped'
  <2>1. CASE UNCHANGED <<writeCh, up>>
    BY <1>0, <1>1, <2>1 DEF ObjTyped, DestTyped
  <2>2. CASE WriterWrites(g)
    <3>1. PICK q : q = writeCh[g].q
      OBVIOUS
    <3>2. /\ q # <<>> /\ writeCh' = [writeCh EXCEPT ![g] = [writeCh[g] EXCEPT !.q = Tail(q)]]
          /\ up' = [up EXCEPT ![sid[g]] = Append(up[sid[g]], Head(q))]
      BY <2>2, <3>1 DEF WriterWrites
    <3>3. q \in Seq(Payloads) /\ Len(q) <= ChanCap /\ up[sid[g]] \in Seq(Payloads)
      BY <1>0, <1>2, <3>1 DEF ObjTyped, Channels, DestTyped
    <3>4. /\ Tail(q) \in Seq(Payloads) /\ Len(Tail(q)) = Len(q) - 1 /\ Len(q) \in Nat
          /\ Append(up[sid[g]], Head(q)) \in Seq(Payloads)
      BY <3>2, <3>3, HeadTailProperties, LenProperties, AppendProperties
    <3>5. Len(Tail(q)) <= ChanCap
      BY <3>3, <3>4, StreamsAssumption
    <3>6. /\ [writeCh[g] EXCEPT !.q = Tail(q)] \in Channels
          /\ [writeCh[g] EXCEPT !.q = Tail(q)].q = Tail(q)
      BY <1>0, <3>4 DEF ObjTyped, Channels
    <3>7. ObjTyped'
      BY <1>0, <1>1, <3>2, <3>5, <3>6 DEF ObjTyped
    <3>8. DestTyped'
      BY <1>0, <1>1, <3>2, <3>4 DEF DestTyped
    <3> QED
      BY <3>7, <3>8
  <2> QED
    BY <2>1, <2>2 DEF WriterStarts, WriterEnds
<1>7. WithinData' /\ LoopStream' /\ SidKnown' /\ EntryOwned' /\ AfterDial'
  BY <1>1, <1>3 DEF IInv, WithinData, LoopStream, SidKnown, EntryOwned, AfterDial, clientVars
<1>8. Unsent' \subseteq Unsent /\ \A s \in Streams : Holding(s)' \subseteq Holding(s)
  BY <1>1 DEF Unsent, Holding
<1>9. SeqRoom'
  BY <1>1, <1>4, <1>8, NumberTypes, RoomKept
<1> QED
  BY <1>1, <1>3, <1>4, <1>5, <1>6, <1>7, <1>9, ServerFrame

\* relayFromDest reads, or ends.
LEMMA RelayStep ==
    ASSUME IInv, NEW g \in Openers, RelayReads(g) \/ RelayEnds(g)
    PROVE  IInv'
<1> USE DEF RelayTo, netVars, mapVars, objVars, endVars
<1>0. /\ ClientTyped /\ NetTyped /\ MapTyped /\ GoTyped /\ ObjTyped /\ LoopTyped
      /\ DestTyped /\ ConnTyped /\ EndTyped
  BY TypeParts DEF IInv
<1>1. /\ relay[g] = "read"
      /\ UNCHANGED <<clientVars, netVars, mapVars, opener, sid, writer, objVars, loop, removed, panicked,
                     up, dialled, dropped>>
  BY DEF RelayReads, RelayEnds, destVars
<1>2. PICK q \in {"exit", "got"} : relay' = [relay EXCEPT ![g] = q] /\ (q = "got" => RelayReads(g))
  BY DEF RelayReads, RelayEnds
<1>3. /\ sid[g] \in Streams /\ g \in dialled /\ opener[g] = "done" /\ relay'[g] = q
      /\ \A h \in Openers : h # g => relay'[h] = relay[h]
  BY <1>0, <1>1, <1>2, OpenerFacts DEF GoTyped, IInv, AfterDial
<1>4. /\ \A s \in Streams : down[s] \in 0..MaxData /\ down'[s] \in 0..MaxData
      /\ \A s \in Streams : s # sid[g] => down'[s] = down[s]
      /\ down'[sid[g]] = down[sid[g]] \/ (RelayReads(g) /\ down'[sid[g]] = down[sid[g]] + 1)
      /\ q = "got" => down'[sid[g]] = down[sid[g]] + 1
      /\ \A s \in Streams : wrote[s] <= spent' /\ down'[s] <= spent'
      /\ spent' \in 0..MaxData /\ down' \in [Streams -> 0..MaxData]
  <2>0. /\ spent \in 0..MaxData /\ MaxData \in Nat /\ down \in [Streams -> 0..MaxData]
        /\ \A s \in Streams : /\ wrote[s] \in 0..MaxData /\ down[s] \in 0..MaxData
                              /\ wrote[s] <= spent /\ down[s] <= spent
    BY <1>0, StreamsAssumption DEF ClientTyped, DestTyped, IInv, WithinData
  <2>1. CASE RelayReads(g)
    <3>1. /\ down' = [down EXCEPT ![sid[g]] = down[sid[g]] + 1]
          /\ spent < MaxData /\ spent' = spent + 1
      BY <2>1 DEF RelayReads, Spend
    <3>2. down[sid[g]] + 1 \in 0..MaxData /\ spent' \in 0..MaxData
      BY <1>3, <2>0, <3>1
    <3>3. down' \in [Streams -> 0..MaxData] /\ down'[sid[g]] = down[sid[g]] + 1
          /\ \A s \in Streams : s # sid[g] => down'[s] = down[s]
      BY <1>3, <2>0, <3>1, <3>2
    <3>4. \A s \in Streams : wrote[s] <= spent' /\ down'[s] <= spent'
      BY <2>0, <3>1, <3>3
    <3> QED
      BY <2>0, <2>1, <3>2, <3>3, <3>4
  <2>2. CASE ~RelayReads(g)
    <3>1. down' = down /\ spent' = spent /\ q # "got"
      BY <1>2, <2>2 DEF RelayEnds, destVars
    <3> QED
      BY <2>0, <3>1
  <2> QED
    BY <2>1, <2>2
<1>5. NetTyped' /\ MapTyped' /\ ObjTyped' /\ LoopTyped' /\ DestTyped'
  BY <1>0, <1>1, <1>4 DEF NetTyped, MapTyped, ObjTyped, LoopTyped, DestTyped
<1>6. GoTyped'
  BY <1>0, <1>1, <1>2 DEF GoTyped
<1>7. EndTyped'
  BY <1>0, <1>1, Zenon DEF ConnTyped, EndTyped
<1>8. WithinData'
  BY <1>1, <1>4 DEF IInv, WithinData, clientVars
<1>9. LoopStream' /\ SidKnown'
  BY <1>1 DEF IInv, LoopStream, SidKnown
<1>10. EntryOwned'
  BY <1>1, <1>3, OpenerFacts DEF IInv, EntryOwned
<1>11. AfterDial'
  <2>1. \A s \in Streams : down[s] >= 1 => down'[s] >= 1
    BY <1>3, <1>4
  <2>2. q = "got" => down'[sid[g]] >= 1
    BY <1>3, <1>4
  <2> QED
    BY <1>1, <1>3, <2>1, <2>2, OpenerFacts DEF IInv, AfterDial
<1>12. SeqRoom'
  <2> SUFFICES ASSUME NEW s \in Streams
               PROVE  nextSeq'[s] + Cardinality(Holding(s)') + Cardinality(Unsent')
                        <= down'[s] + MaxOpens
    BY DEF SeqRoom
  <2>1. nextSeq'[s] \in Nat /\ down'[s] \in Nat /\ nextSeq'[s] <= nextSeq[s] /\ Unsent' = Unsent
    BY <1>0, <1>1, <1>4 DEF MapTyped, Seqs, Unsent
  <2>2. CASE s = sid[g] /\ down'[s] = down[s] + 1
    <3>1. Holding(s)' \subseteq Holding(s) \cup {g}
      BY <1>1, <1>3 DEF Holding
    <3> QED
      BY <2>1, <2>2, <3>1, RoomStep
  <2>3. CASE ~(s = sid[g] /\ down'[s] = down[s] + 1)
    <3>1. down'[s] = down[s] /\ Holding(s)' \subseteq Holding(s)
      BY <1>1, <1>2, <1>3, <1>4, <2>3 DEF Holding
    <3> QED
      BY <2>1, <3>1, RoomStep
  <2> QED
    BY <2>2, <2>3
<1> QED
  BY <1>1, <1>5, <1>6, <1>7, <1>8, <1>9, <1>10, <1>11, <1>12, ServerFrame

-----------------------------------------------------------------------------
(* The theorems. *)

\* Init satisfies the invariant.
LEMMA InitIInv == Init => IInv
<1> SUFFICES ASSUME Init PROVE IInv
  OBVIOUS
<1>1. /\ 0 \in 0..MaxOpens /\ 0 \in 0..MaxData /\ 0 \in 0..MaxFaults /\ MaxOpens \in Nat
      /\ 0 \in Nat /\ 0 <= ChanCap /\ MaxData \in Nat
  BY StreamsAssumption
<1>2. \A P : <<>> \in Seq(P) /\ Len(<<>>) = 0
  BY EmptySeq
<1>3. ClientTyped
  BY <1>1, <1>2, DataTypes DEF Init, ClientTyped, ClientPlaces
<1>4. NetTyped /\ DestTyped
  BY <1>1, <1>2 DEF Init, NetTyped, DestTyped
<1>5. MapTyped
  BY <1>1, DataTypes DEF Init, MapTyped
<1>6. GoTyped
  BY DEF Init, GoTyped, OpenerPlaces
<1>7. ObjTyped
  BY <1>1, <1>2 DEF Init, ObjTyped, Channels
<1>8. LoopTyped
  BY <1>1, <1>2 DEF Init, LoopTyped, Idle
<1>9. ConnTyped /\ EndTyped
  BY Zenon DEF Init, ConnTyped, EndTyped
<1>10. TypeOK
  BY <1>3, <1>4, <1>5, <1>6, <1>7, <1>8, <1>9, TypeParts
<1>11. WithinData /\ SidKnown /\ EntryOwned /\ AfterDial /\ LoopStream
  BY <1>1 DEF Init, WithinData, SidKnown, EntryOwned, AfterDial, LoopStream, Idle
<1>12. SeqRoom
  <2>1. Unsent = 1..MaxOpens
    BY DEF Init, Unsent, Openers
  <2>2. Cardinality(Unsent) = MaxOpens
    BY <1>1, <2>1, FS_Interval
  <2>3. \A s \in Streams : Holding(s) = {} /\ nextSeq[s] = 0 /\ down[s] = 0
    BY DEF Init, Holding
  <2> QED
    BY <1>1, <2>2, <2>3, FS_EmptySet DEF SeqRoom
<1>13. StillRegistered /\ OpenedMeansDialled
  BY DEF Init, StillRegistered, OpenedMeansDialled
<1>14. OnlyFailures
  <2>1. \A s \in Streams : recvCh[s] = <<>> /\ crecv[s].held = {}
    BY DataTypes DEF Init
  <2>2. net = {}
    BY DEF Init
  <2> QED
    BY <1>2, <2>1, <2>2 DEF OnlyFailures, FailSlots
<1> QED
  BY <1>10, <1>11, <1>12, <1>13, <1>14 DEF IInv

\* Every step preserves the invariant.
LEMMA NextIInv == ASSUME IInv, [Next]_vars PROVE IInv'
<1>1. ASSUME NEW s \in Streams, Client(s) PROVE IInv'
  BY <1>1, OpeningStep, TakingStep, WritingStep DEF Client
<1>2. ASSUME NEW p \in net, Arrival(p) PROVE IInv'
  BY <1>2, RecvStep, HandleStep DEF Arrival
<1>3. ASSUME NEW g \in Openers, Goroutines(g) PROVE IInv'
  BY <1>3, EnterStep, DialStep, SendingStep, WriterStep, RelayStep DEF Goroutines
<1>4. CASE UNCHANGED vars
  <2> USE DEF vars, endVars, clientVars, netVars, serverVars, mapVars, goVars, objVars, destVars
  <2>0. /\ NetTyped /\ MapTyped /\ ObjTyped /\ LoopTyped /\ DestTyped /\ ConnTyped /\ EndTyped
    BY TypeParts DEF IInv
  <2>1. NetTyped' /\ MapTyped' /\ ObjTyped' /\ LoopTyped' /\ DestTyped' /\ LoopStream'
    BY <1>4, <2>0 DEF NetTyped, MapTyped, ObjTyped, LoopTyped, DestTyped, IInv, LoopStream
  <2>2. EndTyped'
    BY <1>4, <2>0, Zenon DEF ConnTyped, EndTyped
  <2>3. UNCHANGED <<clientVars, goVars, down, spent, dialled, streams, nextSeq, net>>
    BY <1>4
  <2> QED
    BY <2>1, <2>2, <2>3, NumberTypes, DataFrame
<1> QED
  BY <1>1, <1>2, <1>3, <1>4, ClosingStep, RemoveSessionStep, DeliverStep DEF Next, Deliver

\* IInv is an invariant.
THEOREM Invariance == Spec => []IInv
  BY InitIInv, NextIInv, PTL DEF Spec

\* The variables of both ends keep their types: in particular the sequence
\* numbers of a stream, which results and any number of relays of duplicate
\* openers draw from one counter, stay within Seqs, and no channel exceeds
\* its capacity.
THEOREM TypeCorrect == Spec => []TypeOK
<1>1. IInv => TypeOK
  BY DEF IInv
<1> QED
  BY <1>1, Invariance, PTL

\* OpenStream reports a TCP stream as connected only if a dial of it succeeded.
THEOREM OpenedWasDialled == Spec => []OpenedMeansDialled
<1>1. IInv => OpenedMeansDialled
  BY DEF IInv
<1> QED
  BY <1>1, Invariance, PTL

\* Until Close sweeps the table, whoever waits in OpenStream or Read is in the
\* table or already woken.
THEOREM ReadersReachable == Spec => []ReaderReachable
<1>1. IInv => ReaderReachable
  BY DEF IInv, StillRegistered, ReaderReachable
<1> QED
  BY <1>1, Invariance, PTL

\* Every stream of the session has a goroutine that ends in RemoveStream.
THEOREM StreamsOwned == Spec => []StreamOwned
<1>1. IInv => StreamOwned
  BY DEF IInv, EntryOwned, StreamOwned
<1> QED
  BY <1>1, Invariance, PTL

=============================================================================
