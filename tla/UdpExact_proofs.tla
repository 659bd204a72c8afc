-------------------------- MODULE UdpExact_proofs --------------------------
(***************************************************************************)
(* For any streams, retransmissions and channel capacity: a TCP stream     *)
(* that was dialled once, is in place at both ends and met no full channel *)
(* carries both directions exactly (StreamExact), and a WriteCh is open    *)
(* exactly as long as its entry is in the map (WriteChOwned).              *)
(***************************************************************************)
EXTENDS UdpStreams_proofs

-----------------------------------------------------------------------------
(* The invariant, part by part. *)

\* The payload with number k of the server's direction: the result byte comes
\* first.  Those of the client's direction are the ones from 1 on.
Val(k) == IF k = 0 THEN Ok ELSE Data(k)

\* A sequence that holds the payloads from number o on.
Counted(q, o) == \A i \in 1..Len(q) : q[i] = Val(i - 1 + o)

\* The channel of an entry is open.
EntryOpen == \A s \in Streams : streams[s] # 0 => writeCh[streams[s]].st = "open"

\* What deliverFn has looked up was an entry of the stream it delivers to.
LoopEntry ==
    loop.g # 0 => sid[loop.g] = loop.s /\ opener[loop.g] \notin {"idle", "spawned"}

\* The client's payloads carry the number they were written with.
UpNumbered ==
    /\ \A p \in net : p.dir = "up" /\ p.type = "data" =>
         p.seq < wrote[p.s] /\ p.v = Val(p.seq + 1)
    /\ \A s \in Streams : \A p \in srecv[s].held :
         p.seq < wrote[s] /\ p.v = Val(p.seq + 1)

\* Nobody has heard of a stream before its StreamOpen is sent.
Unsaid == {"idle", "checked", "registered"}
Unopened ==
    \A s \in Streams : cpc[s] \in Unsaid =>
        /\ \A p \in net : p.s # s
        /\ \A g \in Openers : sid[g] # s
        /\ recvCh[s] = <<>> /\ got[s] = <<>>
        /\ cpc[s] = "registered" => crecv[s] = NewBuffer

\* Only the owner of a stream writes, and closes it for good.
Unwritten == \A s \in Streams : cpc[s] \notin {"open", "closed"} => wrote[s] = 0
CloseSent == \A p \in net : p.dir = "up" /\ p.type = "close" => cpc[p.s] = "closed"

\* A goroutine that has not entered its stream has used nothing.
NotEntered ==
    \A g \in Openers :
        /\ opener[g] = "idle" => sid[g] = 0
        /\ opener[g] \in {"idle", "spawned"} => writeCh[g].q = <<>>

\* Until a TCP stream is dialled no payload passes the session.
NotPassed ==
    \A s \in Streams \ Datagram : ~Dialled(s) =>
        up[s] = <<>> /\ down[s] = 0 /\ loop.s # s

\* A TCP stream that was dialled at most once, has the entry of that dial, met no
\* full channel and was not closed.
Sole(s) ==
    /\ s \notin Datagram /\ ~removed /\ s \notin dropped /\ cpc[s] # "closed"
    /\ \A h \in dialled : sid[h] = s => h = streams[s]

\* The opener that has work to do is the one that has the entry.
Placed(s) ==
    \A g \in Openers :
        sid[g] = s /\ opener[g] \in {"entered", "dial", "connected"} => g = streams[s]

\* The server's payloads are numbered as they are read, after the result; the
\* failures of dials before that have number 0.
DownData(p, s) == p.dir = "down" /\ p.type = "data" /\ p.s = s
Answered(s) == streams[s] # 0 /\ opener[streams[s]] = "done"
Failure(p) == p.seq = 0 /\ p.v = Fail
DownNumbered(s) ==
    /\ ~Answered(s) => nextSeq[s] = 0 /\ down[s] = 0
    /\ Answered(s) =>
         nextSeq[s] = IF relay[streams[s]] = "got" THEN down[s] ELSE down[s] + 1
    /\ \A p \in net : DownData(p, s) =>
         Failure(p) \/ (p.seq < nextSeq[s] /\ p.v = Val(p.seq))

\* The recv buffer rb holds payloads beyond the expected one, of those sent.
Holds(rb, n, o) ==
    /\ rb.expected <= n
    /\ \A p \in rb.held : rb.expected < p.seq /\ p.seq < n /\ p.v = Val(p.seq + o)

\* What the owner of the stream has taken and what it has not, in order.  The
\* result byte has been taken when the stream is open; an OpenStream that finds
\* a failure ends.
Taken(s) == IF cpc[s] = "open" THEN 1 ELSE 0
Rejected(s) == cpc[s] = "waiting" /\ recvCh[s] # <<>> /\ recvCh[s][1] = Fail
Receiving(s) == s \in registered /\ cpc[s] \in {"waiting", "open"} /\ ~Rejected(s)
DownContent(s) ==
    /\ Holds(crecv[s], nextSeq[s], 0)
    /\ crecv[s].expected = Taken(s) + Len(got[s]) + Len(recvCh[s])
    /\ Counted(got[s], Taken(s))
    /\ Counted(recvCh[s], Taken(s) + Len(got[s]))
    /\ cpc[s] = "waiting" => got[s] = <<>>

\* What the destination has received, what waits for the writer and what
\* processLoop has left to deliver, in order.
Queue(s) == IF streams[s] = 0 THEN <<>> ELSE writeCh[streams[s]].q
Pending(s) == IF loop.s = s THEN loop.q ELSE <<>>
UpContent(s) ==
    /\ Holds(srecv[s], wrote[s], 1)
    /\ srecv[s].expected = Len(up[s]) + Len(Queue(s)) + Len(Pending(s))
    /\ Counted(up[s], 1)
    /\ Counted(Queue(s), Len(up[s]) + 1)
    /\ Counted(Pending(s), Len(up[s]) + Len(Queue(s)) + 1)

\* The recv buffer comes after the entry, and deliverFn finds that entry.
BufferAfterEntry(s) ==
    streams[s] = 0 \/ opener[streams[s]] = "entered" => srecv[s] = NoBuffer
Found(s) == loop.g # 0 /\ loop.s = s => loop.g = streams[s]

\* The two directions of a stream.
ExactDown(s) == DownNumbered(s) /\ (Receiving(s) => DownContent(s))
ExactUp(s) == BufferAfterEntry(s) /\ Found(s) /\ UpContent(s)

\* The invariant: in a stream that was dialled at most once both are exact.
EInv ==
    /\ EntryOpen
    /\ LoopEntry
    /\ UpNumbered
    /\ Unopened
    /\ Unwritten
    /\ CloseSent
    /\ NotEntered
    /\ NotPassed
    /\ \A s \in Streams : Sole(s) => Placed(s) /\ ExactDown(s) /\ ExactUp(s)

-----------------------------------------------------------------------------
(* Sequences of numbered payloads. *)

\* Nothing has been counted yet.
LEMMA CountedEmpty == \A o : Counted(<<>>, o)
  BY DEF Counted

\* The next payload goes behind the others.
LEMMA CountedAppend ==
    ASSUME NEW q \in Seq(Payloads), NEW o \in Nat, Counted(q, o),
           NEW v \in Payloads, v = Val(Len(q) + o)
    PROVE  /\ Counted(Append(q, v), o)
           /\ Len(Append(q, v)) = Len(q) + 1 /\ Append(q, v) \in Seq(Payloads)
<1>1. /\ Append(q, v) \in Seq(Payloads) /\ Len(Append(q, v)) = Len(q) + 1
      /\ \A i \in 1..Len(q) : Append(q, v)[i] = q[i]
      /\ Append(q, v)[Len(q) + 1] = v /\ Len(q) \in Nat
  BY AppendProperties, LenProperties
<1>2. \A i \in 1..(Len(q) + 1) : i \in 1..Len(q) \/ (i = Len(q) + 1 /\ i - 1 + o = Len(q) + o)
  BY <1>1
<1> QED
  BY <1>1, <1>2 DEF Counted

\* The first payload is taken away.
LEMMA CountedTail ==
    ASSUME NEW q \in Seq(Payloads), NEW o \in Nat, Counted(q, o), q # <<>>
    PROVE  /\ Head(q) = Val(o) /\ Head(q) \in Payloads /\ Counted(Tail(q), o + 1)
           /\ Len(Tail(q)) + 1 = Len(q) /\ Tail(q) \in Seq(Payloads)
<1>1. /\ Head(q) \in Payloads /\ Tail(q) \in Seq(Payloads) /\ Len(Tail(q)) = Len(q) - 1
      /\ \A i \in 1..Len(Tail(q)) : Tail(q)[i] = q[i + 1]
      /\ Len(q) \in Nat \ {0}
  BY HeadTailProperties, EmptySeq
<1>2. Head(q) = q[1] /\ 1 \in 1..Len(q) /\ 1 - 1 + o = o
  BY <1>1
<1>3. \A i \in 1..(Len(q) - 1) : i + 1 \in 1..Len(q) /\ (i + 1) - 1 + o = i - 1 + (o + 1)
  BY <1>1
<1>4. Head(q) = Val(o)
  BY <1>2 DEF Counted
<1>5. Counted(Tail(q), o + 1)
  <2> SUFFICES ASSUME NEW i \in 1..(Len(q) - 1) PROVE Tail(q)[i] = Val(i - 1 + (o + 1))
    BY <1>1 DEF Counted
  <2>1. Tail(q)[i] = q[i + 1]
    BY <1>1
  <2>2. q[i + 1] = Val((i + 1) - 1 + o)
    BY <1>3 DEF Counted
  <2> QED
    BY <1>3, <2>1, <2>2
<1> QED
  BY <1>1, <1>4, <1>5

\* What follows is put behind.
LEMMA CountedConcat ==
    ASSUME NEW a \in Seq(Payloads), NEW b \in Seq(Payloads), NEW o \in Nat,
           Counted(a, o), Counted(b, o + Len(a))
    PROVE  /\ Counted(a \o b, o)
           /\ Len(a \o b) = Len(a) + Len(b) /\ a \o b \in Seq(Payloads)
<1>1. /\ a \o b \in Seq(Payloads) /\ Len(a \o b) = Len(a) + Len(b)
      /\ \A i \in 1..(Len(a) + Len(b)) :
           (a \o b)[i] = IF i <= Len(a) THEN a[i] ELSE b[i - Len(a)]
      /\ Len(a) \in Nat /\ Len(b) \in Nat
  BY ConcatProperties, LenProperties
<1>2. ASSUME NEW i \in 1..(Len(a) + Len(b)) PROVE (a \o b)[i] = Val(i - 1 + o)
  <2>1. CASE i <= Len(a)
    <3>1. i \in 1..Len(a)
      BY <1>1, <2>1
    <3> QED
      BY <1>1, <2>1, <3>1 DEF Counted
  <2>2. CASE i > Len(a)
    <3>1. i - Len(a) \in 1..Len(b) /\ (i - Len(a)) - 1 + (o + Len(a)) = i - 1 + o
      BY <1>1, <2>2
    <3>2. b[i - Len(a)] = Val((i - Len(a)) - 1 + (o + Len(a)))
      BY <3>1 DEF Counted
    <3>3. (a \o b)[i] = b[i - Len(a)]
      BY <1>1, <2>2
    <3> QED
      BY <3>1, <3>2, <3>3
  <2> QED
    BY <1>1, <2>1, <2>2
<1> QED
  BY <1>1, <1>2 DEF Counted

\* The data from 1 on are a prefix of all the data.
LEMMA CountedPrefix ==
    ASSUME NEW q \in Seq(Payloads), Counted(q, 1), NEW n \in 0..MaxData, Len(q) <= n
    PROVE  IsPrefix(q, Numbered(n))
<1>1. n \in Nat /\ MaxData \in Nat /\ Len(q) \in Nat
  BY StreamsAssumption, LenProperties
<1>2. /\ Numbered(n) \in Seq(Payloads) /\ Len(Numbered(n)) = n
      /\ \A i \in 1..n : Numbered(n)[i] = Data(i)
  <2>1. Numbered(n) \in [1..n -> Payloads] /\ \A i \in 1..n : Numbered(n)[i] = Data(i)
    <3>1. \A i \in 1..n : i \in 1..MaxData
      BY <1>1
    <3>2. \A i \in 1..n : Data(i) \in Payloads
      BY <3>1, DataTypes
    <3> QED
      BY <3>2 DEF Numbered
  <2>2. Numbered(n) \in Seq(Payloads)
    BY <1>1, <2>1, SeqDef
  <2> QED
    BY <1>1, <2>1, <2>2, LenProperties
<1>3. \A i \in 1..Len(q) : q[i] = Numbered(n)[i] /\ i \in 1..n
  <2> SUFFICES ASSUME NEW i \in 1..Len(q) PROVE q[i] = Numbered(n)[i] /\ i \in 1..n
    OBVIOUS
  <2>1. i \in 1..n /\ i - 1 + 1 = i /\ i # 0
    BY <1>1
  <2>2. q[i] = Val(i)
    BY <2>1 DEF Counted
  <2> QED
    BY <1>2, <2>1, <2>2 DEF Val
<1>4. /\ SubSeq(q, 1, Len(q)) = q
      /\ SubSeq(Numbered(n), 1, Len(q)) \in Seq(Payloads)
      /\ Len(SubSeq(Numbered(n), 1, Len(q))) = Len(q)
      /\ \A i \in 1..Len(q) : SubSeq(Numbered(n), 1, Len(q))[i] = Numbered(n)[i]
  <2>1. \A i \in 1..Len(q) : Numbered(n)[i] \in Payloads
    BY <1>2, <1>3, ElementOfSeq
  <2>2. /\ SubSeq(Numbered(n), 1, Len(q)) \in Seq(Payloads)
        /\ Len(SubSeq(Numbered(n), 1, Len(q))) = IF 1 <= Len(q) THEN Len(q) - 1 + 1 ELSE 0
        /\ \A i \in 1..(Len(q) - 1 + 1) : SubSeq(Numbered(n), 1, Len(q))[i] = Numbered(n)[1 + i - 1]
    BY <1>1, <2>1, SubSeqProperties
  <2>3. Len(q) - 1 + 1 = Len(q) /\ \A i \in 1..Len(q) : 1 + i - 1 = i
    BY <1>1
  <2> QED
    BY <1>1, <2>2, <2>3, SubSeqFull
<1>5. q = SubSeq(Numbered(n), 1, Len(q))
  BY <1>3, <1>4, SeqEqual
<1> QED
  BY <1>2, <1>4, <1>5 DEF IsPrefix

-----------------------------------------------------------------------------
(* The recv buffer. *)

\* Insert adds at most the payload that has come, and a buffer that was removed
\* takes nothing.
LEMMA InsertedHeld ==
    ASSUME NEW rb \in Buffers, NEW seq, NEW v
    PROVE  /\ Inserted(rb, seq, v).held \subseteq rb.held \cup {Slot(seq, v)}
           /\ ~rb.live => Inserted(rb, seq, v) = rb /\ Flushed(rb, seq, v) = <<>>
  BY DEF Inserted, Flushed, Buffers

\* What Insert hands over is what it holds, or what has come.
LEMMA FlushedPayloads ==
    ASSUME NEW rb \in Buffers, NEW seq \in Seqs, NEW v \in Payloads
    PROVE  /\ Flushed(rb, seq, v) \in Seq(Payloads)
           /\ Flushed(rb, seq, v) # <<>> => seq = rb.expected
           /\ \A i \in 1..Len(Flushed(rb, seq, v)) :
                \E p \in rb.held \cup {Slot(seq, v)} :
                    p.seq = seq + i - 1 /\ p.v = Flushed(rb, seq, v)[i]
<1>1. rb \in BuffersOf(Payloads)
  BY DataTypes
<1> QED
  BY <1>1, FlushedProperties

\* After a flush the next number is missing.
LEMMA FlushedMaximal ==
    ASSUME NEW rb \in Buffers, NEW seq \in Seqs, NEW v \in Payloads,
           rb.live, seq = rb.expected
    PROVE  /\ Len(Flushed(rb, seq, v)) \in Nat \ {0}
           /\ \A p \in rb.held : p.seq # seq + Len(Flushed(rb, seq, v))
<1>0. seq \in Nat
  BY DEF Seqs
<1>1. PICK held : held = rb.held \cup {Slot(seq, v)}
  OBVIOUS
<1>2. held \subseteq [seq : Seqs, v : Payloads]
  BY <1>1 DEF Slot, Buffers
<1>3. PICK R : R = {n \in {p.seq : p \in held} :
                      \A i \in seq..n : \E p \in held : p.seq = i}
  OBVIOUS
<1>4. seq \in R
  <2>1. Slot(seq, v) \in held /\ Slot(seq, v).seq = seq
    BY <1>1 DEF Slot
  <2>2. \A i \in seq..seq : i = seq
    BY <1>0
  <2> QED
    BY <1>3, <2>1, <2>2
<1>5. R \in SUBSET Nat /\ \A n \in R : n <= MaxData + MaxOpens
  BY <1>2, <1>3, MaxSeqs DEF Seqs
<1>6. PICK last : last = Max(R)
  OBVIOUS
<1>7. last \in R /\ \A n \in R : n <= last
  BY <1>4, <1>5, <1>6, MaxSeqs, MaxProperties
<1>8. last \in Nat /\ seq <= last /\ \A i \in seq..last : \E p \in held : p.seq = i
  BY <1>3, <1>4, <1>5, <1>7
<1>9. Flushed(rb, seq, v) = [i \in 1..(last - seq + 1) |->
                               (CHOOSE p \in held : p.seq = seq + i - 1).v]
  BY <1>1, <1>3, <1>6 DEF Flushed
<1>10. Len(Flushed(rb, seq, v)) = last - seq + 1 /\ last - seq + 1 \in Nat \ {0}
  <2>1. last - seq + 1 \in Nat \ {0}
    BY <1>0, <1>8
  <2>2. Flushed(rb, seq, v) \in Seq(Payloads)
    BY DataTypes, FlushedProperties
  <2>3. DOMAIN Flushed(rb, seq, v) = 1..(last - seq + 1)
    BY <1>9
  <2>4. DOMAIN Flushed(rb, seq, v) = 1..Len(Flushed(rb, seq, v))
        /\ Len(Flushed(rb, seq, v)) \in Nat
    BY <2>2, LenProperties
  <2> QED
    BY <2>1, <2>3, <2>4
<1>11. ASSUME NEW p \in rb.held, p.seq = last + 1 PROVE FALSE
  <2>1. p \in held /\ last + 1 \in {r.seq : r \in held}
    BY <1>1, <1>11
  <2>2. \A i \in seq..(last + 1) : i \in seq..last \/ i = last + 1
    BY <1>0, <1>8
  <2>3. \A i \in seq..(last + 1) : \E r \in held : r.seq = i
    BY <1>8, <1>11, <2>1, <2>2
  <2>4. last + 1 \in R
    BY <1>3, <2>1, <2>3
  <2> QED
    BY <1>7, <1>8, <2>4
<1>12. seq + (last - seq + 1) = last + 1
  BY <1>0, <1>8
<1> QED
  BY <1>10, <1>11, <1>12

\* Insert of one of n numbered payloads hands over those that follow without a
\* gap and keeps the others.
LEMMA InsertHolds ==
    ASSUME NEW rb \in Buffers, NEW n \in Nat, NEW o \in {0, 1}, Holds(rb, n, o),
           NEW seq \in Seqs, NEW v \in Payloads, seq < n, v = Val(seq + o)
    PROVE  /\ Flushed(rb, seq, v) \in Seq(Payloads)
           /\ Inserted(rb, seq, v).expected = rb.expected + Len(Flushed(rb, seq, v))
           /\ Counted(Flushed(rb, seq, v), rb.expected + o)
           /\ Holds(Inserted(rb, seq, v), n, o)
<1>0. /\ rb.expected \in Nat /\ seq \in Nat /\ rb \in BuffersOf(Payloads)
      /\ \A p \in rb.held : p.seq \in Nat
  <2>1. rb \in BuffersOf(Payloads)
    BY DataTypes
  <2>2. rb.expected \in Nat
    BY MaxSeqs DEF Buffers
  <2>3. seq \in Nat /\ \A p \in rb.held : p.seq \in Nat
    BY DEF Buffers, Seqs
  <2> QED
    BY <2>1, <2>2, <2>3
<1>1. PICK out : out = Flushed(rb, seq, v)
  OBVIOUS
<1>2. /\ out \in Seq(Payloads) /\ Len(out) \in Nat
      /\ out # <<>> => seq = rb.expected
      /\ \A i \in 1..Len(out) : \E p \in rb.held \cup {Slot(seq, v)} :
           p.seq = seq + i - 1 /\ p.v = out[i]
  <2>1. /\ Flushed(rb, seq, v) \in Seq(Payloads)
        /\ Flushed(rb, seq, v) # <<>> => seq = rb.expected
        /\ \A i \in 1..Len(Flushed(rb, seq, v)) :
             \E p \in rb.held \cup {Slot(seq, v)} :
                 p.seq = seq + i - 1 /\ p.v = Flushed(rb, seq, v)[i]
    BY FlushedPayloads
  <2> QED
    BY <1>1, <2>1, LenProperties
<1>3. \A p \in rb.held \cup {Slot(seq, v)} :
        p.seq \in Nat /\ p.seq < n /\ p.v = Val(p.seq + o)
  BY <1>0 DEF Holds, Slot
<1>4. Counted(out, rb.expected + o)
  <2> SUFFICES ASSUME NEW i \in 1..Len(out) PROVE out[i] = Val(i - 1 + (rb.expected + o))
    BY DEF Counted
  <2>1. out # <<>>
    BY <1>2, EmptySeq
  <2>2. seq + i - 1 + o = i - 1 + (rb.expected + o)
    BY <1>0, <1>2, <2>1
  <2> QED
    BY <1>2, <1>3, <2>2
<1>5. rb.expected + Len(out) <= n
  <2>1. CASE out = <<>>
    BY <1>0, <2>1, EmptySeq DEF Holds
  <2>2. CASE out # <<>>
    <3>1. Len(out) \in 1..Len(out)
      BY <1>2, <2>2, EmptySeq
    <3>2. PICK p \in rb.held \cup {Slot(seq, v)} : p.seq = seq + Len(out) - 1
      BY <1>2, <3>1
    <3>3. p.seq < n /\ seq = rb.expected
      BY <1>2, <1>3, <2>2
    <3> QED
      BY <1>0, <1>2, <3>2, <3>3
  <2> QED
    BY <2>1, <2>2
<1>6. CASE ~rb.live
  BY <1>1, <1>2, <1>4, <1>6, <1>0, InsertedHeld, EmptySeq
<1>7. CASE rb.live /\ (seq < rb.expected \/ \E p \in rb.held : p.seq = seq)
  <2>1. seq # rb.expected
    BY <1>0, <1>7 DEF Holds
  <2>2. out = <<>> /\ Inserted(rb, seq, v) = rb
    BY <1>1, <1>7, <2>1 DEF Flushed, Inserted
  <2>3. Len(out) = 0 /\ rb.expected + 0 = rb.expected
    BY <1>0, <2>2, EmptySeq
  <2> QED
    BY <1>1, <1>2, <1>4, <2>2, <2>3
<1>8. CASE rb.live /\ ~(seq < rb.expected) /\ ~(\E p \in rb.held : p.seq = seq)
  <2>1. PICK next : next = rb.expected + Len(out)
    OBVIOUS
  <2>2. Inserted(rb, seq, v) =
          [rb EXCEPT !.expected = next,
                     !.held = {p \in @ \cup {Slot(seq, v)} : p.seq >= next}]
    BY <1>1, <1>8, <2>1 DEF Inserted
  <2>3. /\ Inserted(rb, seq, v).expected = next
        /\ Inserted(rb, seq, v).held = {p \in rb.held \cup {Slot(seq, v)} : p.seq >= next}
    BY <2>2 DEF Buffers
  <2>4. next \in Nat /\ next <= n
    BY <1>0, <1>2, <1>5, <2>1
  <2>5. \A p \in rb.held \cup {Slot(seq, v)} : p.seq # next
    <3>1. CASE seq = rb.expected
      <4>1. Len(out) \in Nat \ {0} /\ \A p \in rb.held : p.seq # seq + Len(out)
        BY <1>1, <1>8, <3>1, FlushedMaximal
      <4>2. Slot(seq, v).seq = seq /\ seq # next
        BY <1>0, <2>1, <3>1, <4>1 DEF Slot
      <4> QED
        BY <2>1, <3>1, <4>1, <4>2
    <3>2. CASE seq # rb.expected
      <4>1. next = rb.expected
        BY <1>0, <1>2, <2>1, <3>2, EmptySeq
      <4>2. Slot(seq, v).seq = seq
        BY DEF Slot
      <4>3. \A p \in rb.held : rb.expected < p.seq
        BY DEF Holds
      <4> QED
        BY <1>0, <3>2, <4>1, <4>2, <4>3
    <3> QED
      BY <3>1, <3>2
  <2>6. Holds(Inserted(rb, seq, v), n, o)
    BY <1>3, <2>3, <2>4, <2>5 DEF Holds
  <2> QED
    BY <1>1, <1>2, <1>4, <2>1, <2>3, <2>6
<1> QED
  BY <1>6, <1>7, <1>8

-----------------------------------------------------------------------------
(* Frames. *)

\* The types the steps below need, of the state and the next one.
LEMMA ExactTypes ==
    ASSUME IInv, NEW s \in Streams
    PROVE  /\ nextSeq[s] \in Nat /\ wrote[s] \in Nat /\ wrote[s] <= MaxData /\ down[s] \in Nat
           /\ crecv[s] \in Buffers /\ srecv[s] \in Buffers
           /\ recvCh[s] \in Seq(Payloads) /\ got[s] \in Seq(Payloads)
           /\ Len(recvCh[s]) \in Nat /\ Len(got[s]) \in Nat
           /\ up[s] \in Seq(Payloads) /\ Len(up[s]) \in Nat
           /\ loop.q \in Seq(Payloads) /\ Len(loop.q) \in Nat
           /\ streams[s] # 0 => streams[s] \in Openers
           /\ \A g \in Openers : writeCh[g].q \in Seq(Payloads) /\ Len(writeCh[g].q) \in Nat
<1>1. ClientTyped /\ MapTyped /\ LoopTyped /\ DestTyped /\ ObjTyped
  BY TypeParts DEF IInv
<1>2. /\ nextSeq[s] \in Nat /\ wrote[s] \in Nat /\ wrote[s] <= MaxData /\ down[s] \in Nat
      /\ streams[s] # 0 => streams[s] \in Openers
  BY <1>1, StreamsAssumption DEF ClientTyped, MapTyped, DestTyped, Seqs, Openers
<1>3. /\ crecv[s] \in Buffers /\ srecv[s] \in Buffers
      /\ recvCh[s] \in Seq(Payloads) /\ got[s] \in Seq(Payloads)
      /\ up[s] \in Seq(Payloads) /\ loop.q \in Seq(Payloads)
  BY <1>1 DEF ClientTyped, MapTyped, DestTyped, LoopTyped
<1>4. \A g \in Openers : writeCh[g].q \in Seq(Payloads)
  BY <1>1 DEF ObjTyped, Channels
<1> QED
  BY <1>2, <1>3, <1>4, LenProperties

\* A stream that was dialled at most once was so before.
LEMMA SoleKept ==
    ASSUME NEW s \in Streams, Sole(s)', streams'[s] = streams[s],
           dialled \subseteq dialled', \A g \in dialled : sid'[g] = sid[g],
           removed => removed', dropped \subseteq dropped',
           cpc[s] = "closed" => cpc'[s] = "closed"
    PROVE  Sole(s)
  BY DEF Sole

\* An opener of the stream that was dialled has its entry.
LEMMA SoleOpener ==
    ASSUME IInv, NEW s \in Streams, Sole(s), NEW g \in Openers, g \in dialled, sid[g] = s
    PROVE  streams[s] = g /\ streams[s] # 0
  BY StreamsAssumption DEF Sole, Openers

\* A step that does not touch the server's direction of a stream, or in which
\* the client forgets the stream.
LEMMA DownFrame ==
    ASSUME NEW s \in Streams, ExactDown(s), nextSeq[s] \in Nat,
           streams'[s] = streams[s], nextSeq'[s] = nextSeq[s], down'[s] = down[s],
           streams[s] # 0 =>
               /\ opener'[streams[s]] = "done" <=> opener[streams[s]] = "done"
               /\ relay'[streams[s]] = "got" <=> relay[streams[s]] = "got",
           \A p \in net' : DownData(p, s) => p \in net,
           Receiving(s)' =>
               /\ Receiving(s) /\ cpc'[s] = cpc[s]
               /\ crecv'[s] = crecv[s] /\ recvCh'[s] = recvCh[s] /\ got'[s] = got[s]
    PROVE  ExactDown(s)'
<1>1. DownNumbered(s)'
  <2>1. Answered(s)' <=> Answered(s)
    BY DEF Answered
  <2>2. Answered(s) => (relay'[streams[s]] = "got" <=> relay[streams[s]] = "got")
    BY DEF Answered
  <2> QED
    BY <2>1, <2>2 DEF ExactDown, DownNumbered, DownData, Failure
<1>2. ASSUME Receiving(s)' PROVE DownContent(s)'
  <2>1. /\ crecv'[s] = crecv[s] /\ recvCh'[s] = recvCh[s] /\ got'[s] = got[s]
        /\ DownContent(s) /\ cpc'[s] = cpc[s]
    BY <1>2 DEF ExactDown
  <2>2. Taken(s)' = Taken(s)
    BY <2>1 DEF Taken
  <2> QED
    BY <2>1, <2>2 DEF DownContent, Counted, Holds
<1> QED
  BY <1>1, <1>2 DEF ExactDown

\* A step that touches the client's direction only to write more.
LEMMA UpFrame ==
    ASSUME NEW s \in Streams, ExactUp(s), wrote[s] \in Nat, wrote'[s] \in Nat,
           srecv[s] \in Buffers,
           streams'[s] = streams[s], wrote[s] <= wrote'[s], up'[s] = up[s],
           streams[s] # 0 =>
               /\ opener'[streams[s]] = "entered" => opener[streams[s]] = "entered"
               /\ writeCh'[streams[s]].q = writeCh[streams[s]].q,
           srecv'[s] = srecv[s], Pending(s)' = Pending(s), Found(s)'
    PROVE  ExactUp(s)'
<1>1. srecv[s].expected \in Nat /\ \A p \in srecv[s].held : p.seq \in Nat
  BY MaxSeqs DEF Buffers, Seqs
<1>2. BufferAfterEntry(s)'
  BY DEF ExactUp, BufferAfterEntry
<1>3. Holds(srecv[s], wrote[s], 1)'
  BY <1>1 DEF ExactUp, UpContent, Holds
<1>4. Queue(s)' = Queue(s)
  BY DEF Queue
<1>5. UpContent(s)'
  BY <1>3, <1>4 DEF ExactUp, UpContent, Counted
<1> QED
  BY <1>2, <1>5 DEF ExactUp

\* The server stands still.
LEMMA ClientExact ==
    ASSUME IInv, IInv', EInv, UNCHANGED <<serverVars, up, down, dialled>>,
           dropped \subseteq dropped', Unwritten',
           \A s \in Streams : wrote[s] <= wrote'[s],
           \A p \in net' :
               \/ p \in net
               \/ /\ p.dir = "up" /\ cpc'[p.s] \notin Unsaid
                  /\ p.type = "close" => cpc'[p.s] = "closed"
                  /\ p.type = "data" => p.seq < wrote'[p.s] /\ p.v = Val(p.seq + 1),
           \A s \in Streams : cpc'[s] \in Unsaid =>
               /\ cpc[s] \in Unsaid /\ recvCh'[s] = recvCh[s] /\ got'[s] = got[s]
               /\ cpc'[s] = "registered" => crecv'[s] = NewBuffer,
           \A s \in Streams : cpc[s] = "closed" => cpc'[s] = "closed",
           \A s \in Streams : Sole(s) /\ s \notin dropped' => ExactDown(s)'
    PROVE  EInv'
<1> USE DEF serverVars, mapVars, goVars, objVars, endVars
<1>1. EntryOpen' /\ LoopEntry' /\ NotEntered'
  BY DEF EInv, EntryOpen, LoopEntry, NotEntered
<1>2. UpNumbered'
  <2>1. \A p \in net : p.s \in Streams /\ p.seq \in Nat
    BY TypeParts DEF IInv, NetTyped, Packets, Seqs
  <2>2. \A s \in Streams : \A p \in srecv[s].held : p.seq \in Nat
    BY ExactTypes DEF Buffers, Seqs
  <2>3. \A s \in Streams : wrote[s] \in Nat /\ wrote'[s] \in Nat
    <3>1. wrote' \in [Streams -> 0..MaxData]
      BY TypePartsNext DEF IInv, ClientTyped
    <3> QED
      BY <3>1, ExactTypes, StreamsAssumption
  <2>4. \A s \in Streams : \A p \in srecv'[s].held : p.seq < wrote'[s] /\ p.v = Val(p.seq + 1)
    BY <2>2, <2>3 DEF EInv, UpNumbered
  <2>5. \A p \in net' : p.dir = "up" /\ p.type = "data" =>
          p.seq < wrote'[p.s] /\ p.v = Val(p.seq + 1)
    BY <2>1, <2>3 DEF EInv, UpNumbered
  <2> QED
    BY <2>4, <2>5 DEF UpNumbered
<1>3. Unopened'
  BY DEF EInv, Unopened
<1>4. CloseSent'
  <2>1. \A p \in net : p.s \in Streams
    BY TypeParts DEF IInv, NetTyped, Packets
  <2> QED
    BY <2>1 DEF EInv, CloseSent
<1>5. NotPassed'
  BY DEF EInv, NotPassed, Dialled
<1>6. ASSUME NEW s \in Streams, Sole(s)' PROVE Placed(s)' /\ ExactDown(s)' /\ ExactUp(s)'
  <2>1. Sole(s) /\ s \notin dropped'
    <3>1. s \notin dropped'
      BY <1>6 DEF Sole
    <3> QED
      BY <1>6, <3>1, SoleKept
  <2>2. Placed(s) /\ ExactUp(s)
    BY <2>1 DEF EInv
  <2>3. wrote'[s] \in Nat
    <3>1. wrote' \in [Streams -> 0..MaxData]
      BY TypePartsNext DEF IInv, ClientTyped
    <3> QED
      BY <3>1, StreamsAssumption
  <2>4. Found(s)' /\ Pending(s)' = Pending(s)
    BY <2>2 DEF ExactUp, Found, Pending
  <2>5. ExactUp(s)'
    BY <2>2, <2>3, <2>4, ExactTypes, UpFrame
  <2>6. Placed(s)'
    BY <2>2 DEF Placed
  <2> QED
    BY <2>1, <2>5, <2>6
<1> QED
  BY <1>1, <1>2, <1>3, <1>4, <1>5, <1>6 DEF EInv

\* The client stands still.
LEMMA ServerExact ==
    ASSUME IInv, IInv', EInv, UNCHANGED clientVars, EntryOpen', LoopEntry', NotEntered',
           NotPassed',
           \A p \in net' : p \in net \/ (p.dir = "down" /\ \E g \in Openers : sid[g] = p.s),
           \A s \in Streams : \A p \in srecv'[s].held :
               p \in srecv[s].held \/ (p.seq < wrote[s] /\ p.v = Val(p.seq + 1)),
           \A g \in Openers : \A s \in Streams : sid'[g] = s =>
               sid[g] = s \/ cpc[s] \notin Unsaid,
           \A s \in Streams : Sole(s)' => Placed(s)' /\ ExactDown(s)' /\ ExactUp(s)'
    PROVE  EInv'
<1> USE DEF clientVars
<1>1. UpNumbered'
  BY DEF EInv, UpNumbered
<1>2. Unopened'
  BY DEF EInv, Unopened
<1>3. Unwritten' /\ CloseSent'
  BY DEF EInv, Unwritten, CloseSent
<1> QED
  BY <1>1, <1>2, <1>3 DEF EInv

\* A step of the server that does not touch a stream.
LEMMA OtherExact ==
    ASSUME IInv, EInv, NEW s \in Streams, Sole(s), UNCHANGED clientVars,
           streams'[s] = streams[s], nextSeq'[s] = nextSeq[s], srecv'[s] = srecv[s],
           down'[s] = down[s], up'[s] = up[s],
           streams[s] # 0 =>
               /\ opener'[streams[s]] = "done" <=> opener[streams[s]] = "done"
               /\ opener'[streams[s]] = "entered" => opener[streams[s]] = "entered"
               /\ relay'[streams[s]] = "got" <=> relay[streams[s]] = "got"
               /\ writeCh'[streams[s]].q = writeCh[streams[s]].q,
           \A p \in net' : DownData(p, s) => p \in net,
           Pending(s)' = Pending(s), Found(s)'
    PROVE  ExactDown(s)' /\ ExactUp(s)'
<1>1. ExactDown(s) /\ ExactUp(s)
  BY DEF EInv
<1>2. /\ UNCHANGED <<cpc, registered, crecv, recvCh, got, wrote>>
      /\ wrote[s] \in Nat /\ wrote[s] <= wrote[s]
  BY ExactTypes DEF clientVars
<1>3. Receiving(s)' => Receiving(s)
  BY <1>2 DEF Receiving, Rejected
<1>4. ExactDown(s)'
  BY <1>1, <1>2, <1>3, ExactTypes, DownFrame
<1>5. ExactUp(s)'
  BY <1>1, <1>2, ExactTypes, UpFrame
<1> QED
  BY <1>4, <1>5

\* A goroutine of the server moves, one that has entered its stream or does so
\* now: the other streams stay as they are.
LEMMA GoExact ==
    ASSUME IInv, IInv', EInv, NEW g \in Openers, opener[g] # "idle", sid[g] \in Streams,
           UNCHANGED <<clientVars, sid, loop, removed, dropped>>, EntryOpen',
           dialled \subseteq dialled', dialled' \subseteq dialled \cup {g},
           opener'[g] \notin {"idle", "spawned"},
           \A h \in Openers : h # g =>
               /\ opener'[h] = opener[h] /\ writeCh'[h].q = writeCh[h].q
               /\ relay'[h] = relay[h],
           \A s \in Streams : s # sid[g] =>
               /\ streams'[s] = streams[s] /\ srecv'[s] = srecv[s] /\ nextSeq'[s] = nextSeq[s]
               /\ down'[s] = down[s] /\ up'[s] = up[s],
           g \in dialled \/ (down'[sid[g]] = down[sid[g]] /\ up'[sid[g]] = up[sid[g]]),
           srecv'[sid[g]].held \subseteq srecv[sid[g]].held,
           \A p \in net' : p \in net \/ (p.dir = "down" /\ p.s = sid[g]),
           Sole(sid[g])' => Placed(sid[g])' /\ ExactDown(sid[g])' /\ ExactUp(sid[g])'
    PROVE  EInv'
<1>1. LoopEntry'
  <2>1. loop.g # 0 => loop.g \in Openers
    BY TypeParts, StreamsAssumption DEF IInv, LoopTyped, Openers
  <2> QED
    BY <2>1 DEF EInv, LoopEntry
<1>2. NotEntered'
  BY DEF EInv, NotEntered
<1>3. NotPassed'
  <2> SUFFICES ASSUME NEW s \in Streams \ Datagram, ~Dialled(s)'
               PROVE  up'[s] = <<>> /\ down'[s] = 0 /\ loop'.s # s
    BY DEF NotPassed
  <2>1. ~Dialled(s)
    BY DEF Dialled
  <2>2. up[s] = <<>> /\ down[s] = 0 /\ loop.s # s
    BY <2>1 DEF EInv, NotPassed
  <2>3. s = sid[g] => g \notin dialled
    BY <2>1 DEF Dialled
  <2> QED
    BY <2>2, <2>3
<1>4. ASSUME NEW s \in Streams, Sole(s)' PROVE Placed(s)' /\ ExactDown(s)' /\ ExactUp(s)'
  <2>1. CASE s = sid[g]
    BY <1>4, <2>1
  <2>2. CASE s # sid[g]
    <3>1. cpc[s] = "closed" => cpc'[s] = "closed"
      BY DEF clientVars
    <3>2. Sole(s)
      BY <1>4, <2>2, <3>1, SoleKept
    <3>3. streams[s] # 0 => streams[s] \in Openers /\ streams[s] # g
      BY <2>2, ExactTypes DEF IInv, EntryOwned
    <3>4. Placed(s)'
      BY <2>2, <3>2 DEF EInv, Placed
    <3>5. Pending(s)' = Pending(s) /\ Found(s)'
      BY <2>2, <3>2 DEF EInv, ExactUp, Pending, Found
    <3>6. \A p \in net' : DownData(p, s) => p \in net
      BY <2>2 DEF DownData
    <3> QED
      BY <2>2, <3>2, <3>3, <3>4, <3>5, <3>6, OtherExact
  <2> QED
    BY <2>1, <2>2
<1> QED
  BY <1>1, <1>2, <1>3, <1>4, ServerExact


-----------------------------------------------------------------------------
(* The client. *)

\* A step that moves no payload of the client: a stream stays as it is, or its
\* caller leaves it, or begins to wait.
LEMMA QuietExact ==
    ASSUME IInv, IInv', EInv,
           UNCHANGED <<serverVars, up, down, dialled, recvCh, got, wrote, dropped>>,
           \A p \in net' :
               \/ p \in net
               \/ /\ p.dir = "up" /\ p.type # "data" /\ cpc'[p.s] \notin Unsaid
                  /\ p.type = "close" => cpc'[p.s] = "closed",
           \A s \in Streams : cpc'[s] \in Unsaid =>
               cpc[s] \in Unsaid /\ (cpc'[s] = "registered" => crecv'[s] = NewBuffer),
           \A s \in Streams : cpc[s] = "closed" => cpc'[s] = "closed",
           \A s \in Streams : cpc[s] = "open" => cpc'[s] \in {"open", "closed"},
           \A s \in Streams :
               \/ /\ crecv'[s] = crecv[s] /\ cpc'[s] = cpc[s]
                  /\ s \in registered' => s \in registered
               \/ cpc'[s] \notin {"waiting", "open"} \/ s \notin registered'
               \/ /\ cpc[s] = "registered" /\ crecv'[s] = crecv[s]
                  /\ s \in Datagram \/ cpc'[s] = "waiting"
    PROVE  EInv'
<1>1. \A s \in Streams : wrote[s] <= wrote'[s]
  BY ExactTypes
<1>2. Unwritten'
  BY DEF EInv, Unwritten
<1>3. ASSUME NEW s \in Streams, Sole(s) PROVE ExactDown(s)'
  <2>1. ExactDown(s) /\ nextSeq[s] \in Nat /\ s \notin Datagram
    BY <1>3, ExactTypes DEF EInv, Sole
  <2>2. UNCHANGED <<streams, nextSeq, opener, relay>>
    BY DEF serverVars, mapVars, goVars
  <2>3. \A p \in net' : DownData(p, s) => p \in net
    BY DEF DownData
  <2>4. CASE Receiving(s)' => Receiving(s) /\ cpc'[s] = cpc[s] /\ crecv'[s] = crecv[s]
    BY <2>1, <2>2, <2>3, <2>4, DownFrame
  <2>5. CASE /\ cpc[s] = "registered" /\ cpc'[s] = "waiting" /\ crecv'[s] = crecv[s]
    <3>1. crecv'[s] = NewBuffer /\ recvCh'[s] = <<>> /\ got'[s] = <<>>
      BY <2>5 DEF EInv, Unopened, Unsaid
    <3>2. Taken(s)' = 0 /\ Len(<<>>) = 0 /\ 0 + 0 + 0 = 0 /\ 0 + 0 = 0
      BY <2>5, EmptySeq DEF Taken
    <3>3. Holds(crecv[s], nextSeq[s], 0)'
      BY <2>1, <2>2, <3>1 DEF Holds, NewBuffer
    <3>4. crecv'[s].expected = 0
      BY <3>1 DEF NewBuffer
    <3>5. DownContent(s)'
      BY <3>1, <3>2, <3>3, <3>4, CountedEmpty DEF DownContent
    <3>6. ~Receiving(s)
      BY <2>5 DEF Receiving
    <3>7. DownNumbered(s)'
      BY <2>1, <2>2, <2>3 DEF ExactDown, DownNumbered, DownData, Answered, Failure
    <3> QED
      BY <3>5, <3>7 DEF ExactDown
  <2>6. \/ Receiving(s)' => Receiving(s) /\ cpc'[s] = cpc[s] /\ crecv'[s] = crecv[s]
        \/ cpc[s] = "registered" /\ cpc'[s] = "waiting" /\ crecv'[s] = crecv[s]
    BY <2>1 DEF Receiving, Rejected
  <2> QED
    BY <2>4, <2>5, <2>6
<1> QED
  BY <1>1, <1>2, <1>3, ClientExact

\* OpenStream up to the packet it sends, its ends, and the end of the stream.
LEMMA OpeningExact ==
    ASSUME IInv, IInv', EInv, NEW s \in Streams,
           OpenStream(s) \/ Register(s) \/ SendOpen(s) \/ OpenGivesUp(s) \/ CloseStream(s)
    PROVE  EInv'
<1> USE DEF Goto, Forget
<1>1. UNCHANGED <<serverVars, up, down, dialled, recvCh, got, wrote, dropped>>
  BY DEF OpenStream, Register, SendOpen, OpenGivesUp, CloseStream, destVars
<1>2. PICK place \in ClientPlaces : cpc' = [cpc EXCEPT ![s] = place]
  BY DEF OpenStream, Register, SendOpen, OpenGivesUp, CloseStream, ClientPlaces
<1>3. PICK b \in {crecv[s], NoBuffer, NewBuffer} : crecv' = [crecv EXCEPT ![s] = b]
  <2>1. crecv = [crecv EXCEPT ![s] = crecv[s]]
    BY TypeParts DEF IInv, ClientTyped
  <2> QED
    BY <2>1 DEF OpenStream, Register, SendOpen, OpenGivesUp, CloseStream
<1>4. registered' \in {registered, registered \cup {s}, registered \ {s}}
  BY DEF OpenStream, Register, SendOpen, OpenGivesUp, CloseStream
<1>5. /\ cpc \in [Streams -> ClientPlaces] /\ crecv \in [Streams -> Buffers]
  BY TypeParts DEF IInv, ClientTyped
<1>6. /\ cpc'[s] = place /\ crecv'[s] = b
      /\ \A t \in Streams : t # s => cpc'[t] = cpc[t] /\ crecv'[t] = crecv[t]
  BY <1>2, <1>3, <1>5
<1>7. \/ place = "checked" /\ cpc[s] = "idle"
      \/ place = "registered" /\ cpc[s] = "checked" /\ crecv'[s] = NewBuffer
      \/ place = "failed" /\ cpc[s] \in {"idle", "checked", "registered", "waiting"}
      \/ place = "closed" /\ cpc[s] = "open"
      \/ /\ place \in {"waiting", "open"} /\ cpc[s] = "registered" /\ crecv'[s] = crecv[s]
         /\ s \in Datagram \/ place = "waiting"
  BY <1>2, <1>5 DEF OpenStream, Register, SendOpen, OpenGivesUp, CloseStream
<1>8. \A p \in net' :
        \/ p \in net
        \/ /\ p.dir = "up" /\ p.type # "data" /\ cpc'[p.s] \notin Unsaid
           /\ p.type = "close" => cpc'[p.s] = "closed"
  <2>1. /\ Open(s).type = "open" /\ Open(s).s = s /\ Open(s).dir = "up"
        /\ CloseUp(s).type = "close" /\ CloseUp(s).s = s /\ CloseUp(s).dir = "up"
    BY DEF Open, CloseUp, Packet
  <2>2. CASE OpenStream(s) \/ Register(s) \/ OpenGivesUp(s)
    BY <2>2 DEF OpenStream, Register, OpenGivesUp, netVars
  <2>3. CASE SendOpen(s)
    <3>1. net' \subseteq net \cup {Open(s)} /\ cpc'[s] \in {"open", "waiting", "failed"}
      BY <1>5, <2>3 DEF SendOpen, Send
    <3> QED
      BY <2>1, <3>1 DEF Unsaid
  <2>4. CASE CloseStream(s)
    <3>1. net' \subseteq net \cup {CloseUp(s)} /\ cpc'[s] = "closed"
      BY <1>5, <2>4 DEF CloseStream, Send
    <3> QED
      BY <2>1, <3>1 DEF Unsaid
  <2> QED
    BY <2>2, <2>3, <2>4
<1>9. \A t \in Streams :
        /\ cpc'[t] \in Unsaid =>
             cpc[t] \in Unsaid /\ (cpc'[t] = "registered" => crecv'[t] = NewBuffer)
        /\ cpc[t] = "closed" => cpc'[t] = "closed"
        /\ cpc[t] = "open" => cpc'[t] \in {"open", "closed"}
  BY <1>6, <1>7 DEF EInv, Unopened, Unsaid
<1>10. \A t \in Streams :
         \/ /\ crecv'[t] = crecv[t] /\ cpc'[t] = cpc[t]
            /\ t \in registered' => t \in registered
         \/ cpc'[t] \notin {"waiting", "open"} \/ t \notin registered'
         \/ /\ cpc[t] = "registered" /\ crecv'[t] = crecv[t]
            /\ t \in Datagram \/ cpc'[t] = "waiting"
  BY <1>4, <1>6, <1>7
<1> QED
  BY <1>1, <1>8, <1>9, <1>10, QuietExact

\* The transport is closed, recvLoop ends, or the server closes the stream.
LEMMA ClosingExact ==
    ASSUME IInv, IInv', EInv,
           \/ CloseTransport \/ CloseSweeps \/ CloseSocket \/ RecvLoopEnds
           \/ \E p \in net : RecvClose(p)
    PROVE  EInv'
<1>1. /\ UNCHANGED <<serverVars, up, down, dialled, cpc, recvCh, got, wrote, dropped>>
      /\ net' \subseteq net
  BY DEF CloseTransport, CloseSweeps, CloseSocket, RecvLoopEnds, RecvClose, Arrives, netVars,
     destVars
<1>2. \A t \in Streams :
        /\ \/ crecv'[t] = crecv[t] /\ (t \in registered' => t \in registered)
           \/ t \notin registered'
        /\ cpc[t] = "registered" => crecv'[t] = crecv[t]
  <2>1. CASE CloseTransport \/ CloseSweeps \/ CloseSocket \/ RecvLoopEnds
    BY <2>1 DEF CloseTransport, CloseSweeps, CloseSocket, RecvLoopEnds, Sweep
  <2>2. ASSUME NEW p \in net, RecvClose(p)
        PROVE  \A t \in Streams :
                 /\ \/ crecv'[t] = crecv[t] /\ (t \in registered' => t \in registered)
                    \/ t \notin registered'
                 /\ cpc[t] = "registered" => crecv'[t] = crecv[t]
    <3>1. crecv' = [crecv EXCEPT ![p.s] = NoBuffer] /\ registered' = registered \ {p.s}
      BY <2>2 DEF RecvClose, Forget
    <3>2. crecv \in [Streams -> Buffers]
      BY TypeParts DEF IInv, ClientTyped
    <3>3. \A t \in Streams : cpc[t] = "registered" => p.s # t
      BY DEF EInv, Unopened, Unsaid
    <3> QED
      BY <3>1, <3>2, <3>3
  <2> QED
    BY <2>1, <2>2
<1>3. \A t \in Streams : cpc'[t] = "registered" => crecv'[t] = NewBuffer
  BY <1>1, <1>2 DEF EInv, Unopened, Unsaid
<1> QED
  BY <1>1, <1>2, <1>3, QuietExact

\* The result of the open: the first payload is the result byte.
LEMMA ResultExact ==
    ASSUME IInv, IInv', EInv, NEW s \in Streams, OpenResult(s)
    PROVE  EInv'
<1>1. /\ UNCHANGED <<got, wrote, net, serverVars, up, down, dialled, dropped>>
      /\ cpc[s] = "waiting" /\ recvCh[s] # <<>> /\ recvCh' = [recvCh EXCEPT ![s] = Tail(recvCh[s])]
  BY DEF OpenResult, netVars, destVars
<1>2. \/ /\ cpc' = [cpc EXCEPT ![s] = "open"] /\ UNCHANGED <<registered, crecv>>
         /\ Accepted(Head(recvCh[s]), TRUE)
      \/ /\ cpc' = [cpc EXCEPT ![s] = "failed"] /\ registered' = registered \ {s}
         /\ crecv' = [crecv EXCEPT ![s] = NoBuffer]
  BY DEF OpenResult, Goto, Forget
<1>3. /\ cpc \in [Streams -> ClientPlaces] /\ crecv \in [Streams -> Buffers]
      /\ recvCh \in [Streams -> Seq(Payloads)]
  BY TypeParts DEF IInv, ClientTyped
<1>4. /\ \A t \in Streams : t # s =>
           /\ cpc'[t] = cpc[t] /\ crecv'[t] = crecv[t] /\ recvCh'[t] = recvCh[t]
           /\ t \in registered' => t \in registered
      /\ recvCh'[s] = Tail(recvCh[s])
      /\ \/ /\ cpc'[s] = "open" /\ crecv'[s] = crecv[s] /\ registered' = registered
            /\ Accepted(Head(recvCh[s]), TRUE)
         \/ cpc'[s] = "failed" /\ crecv'[s] = NoBuffer
  BY <1>1, <1>2, <1>3
<1>5. \A t \in Streams : wrote[t] <= wrote'[t]
  BY <1>1, ExactTypes
<1>6. Unwritten'
  BY <1>1, <1>4 DEF EInv, Unwritten
<1>7. ASSUME NEW t \in Streams, Sole(t) PROVE ExactDown(t)'
  <2>1. ExactDown(t) /\ nextSeq[t] \in Nat
    BY <1>7, ExactTypes DEF EInv
  <2>2. UNCHANGED <<streams, nextSeq, down, opener, relay>>
    BY <1>1 DEF serverVars, mapVars, goVars
  <2>3. CASE t # s \/ ~Receiving(t)'
    <3>1. Receiving(t)' =>
            /\ Receiving(t) /\ cpc'[t] = cpc[t]
            /\ crecv'[t] = crecv[t] /\ recvCh'[t] = recvCh[t] /\ got'[t] = got[t]
      BY <1>1, <1>4, <2>3 DEF Receiving, Rejected
    <3> QED
      BY <1>1, <2>1, <2>2, <3>1, DownFrame
  <2>4. CASE t = s /\ Receiving(t)'
    <3>1. /\ cpc'[s] = "open" /\ crecv'[s] = crecv[s] /\ registered' = registered
          /\ Accepted(Head(recvCh[s]), TRUE) /\ Taken(s) = 0 /\ Taken(s)' = 1
      BY <1>1, <1>4, <2>4 DEF Receiving, Taken
    <3>2. Receiving(s)
      <4>1. Head(recvCh[s]) # Fail
        BY <3>1 DEF Accepted, Fail, Ok
      <4>2. recvCh[s][1] = Head(recvCh[s])
        BY <1>1, <1>3
      <4> QED
        BY <1>1, <2>4, <3>1, <4>1, <4>2 DEF Receiving, Rejected
    <3>3. got[s] = <<>> /\ crecv[s].expected = Len(recvCh[s]) /\ Counted(recvCh[s], 0)
      <4>1. /\ crecv[s].expected = 0 + Len(got[s]) + Len(recvCh[s])
            /\ Counted(recvCh[s], 0 + Len(got[s])) /\ got[s] = <<>>
        BY <1>1, <2>1, <2>4, <3>1, <3>2 DEF ExactDown, DownContent
      <4>2. Len(got[s]) = 0 /\ Len(recvCh[s]) \in Nat
        BY <4>1, EmptySeq, ExactTypes
      <4> QED
        BY <4>1, <4>2
    <3>4. Counted(Tail(recvCh[s]), 1) /\ Len(Tail(recvCh[s])) + 1 = Len(recvCh[s])
          /\ Len(Tail(recvCh[s])) \in Nat
      <4>1. recvCh[s] \in Seq(Payloads) /\ 0 \in Nat /\ 0 + 1 = 1
        BY <1>3
      <4>2. /\ Counted(Tail(recvCh[s]), 0 + 1) /\ Len(Tail(recvCh[s])) + 1 = Len(recvCh[s])
            /\ Tail(recvCh[s]) \in Seq(Payloads)
        BY <1>1, <3>3, <4>1, CountedTail
      <4> QED
        BY <4>1, <4>2, LenProperties
    <3>5. Holds(crecv[s], nextSeq[s], 0)'
      BY <2>1, <2>2, <2>4, <3>1, <3>2 DEF ExactDown, DownContent, Holds
    <3>6. DownContent(s)'
      <4>1. Len(<<>>) = 0 /\ 1 + 0 + Len(Tail(recvCh[s])) = Len(recvCh[s]) /\ 1 + 0 = 1
        BY <3>4, EmptySeq
      <4>2. /\ crecv'[s].expected = 1 + Len(got'[s]) + Len(recvCh'[s])
            /\ Counted(got'[s], 1) /\ Counted(recvCh'[s], 1 + Len(got'[s]))
        BY <1>1, <1>4, <3>1, <3>3, <3>4, <4>1, CountedEmpty
      <4> QED
        BY <3>1, <3>5, <4>2 DEF DownContent, Counted
    <3>7. DownNumbered(s)'
      BY <1>1, <2>1, <2>2, <2>4 DEF ExactDown, DownNumbered, DownData, Answered, Failure
    <3> QED
      BY <2>4, <3>6, <3>7 DEF ExactDown
  <2> QED
    BY <2>3, <2>4
<1>8. \A t \in Streams :
        /\ cpc'[t] \in Unsaid =>
             /\ cpc[t] \in Unsaid /\ recvCh'[t] = recvCh[t]
             /\ cpc'[t] = "registered" => crecv'[t] = NewBuffer
        /\ cpc[t] = "closed" => cpc'[t] = "closed"
  BY <1>1, <1>4 DEF EInv, Unopened, Unsaid
<1> QED
  BY <1>1, <1>5, <1>6, <1>7, <1>8, ClientExact

\* Read moves a payload from the channel to its caller.
LEMMA ReadExact ==
    ASSUME IInv, IInv', EInv, NEW s \in Streams, Read(s)
    PROVE  EInv'
<1>1. /\ UNCHANGED <<cpc, registered, crecv, wrote, net, serverVars, up, down, dialled, dropped>>
      /\ recvCh[s] # <<>> /\ recvCh' = [recvCh EXCEPT ![s] = Tail(recvCh[s])]
      /\ got' = [got EXCEPT ![s] = Append(got[s], Head(recvCh[s]))]
  BY DEF Read, netVars, destVars
<1>2. recvCh \in [Streams -> Seq(Payloads)] /\ got \in [Streams -> Seq(Payloads)]
  BY TypeParts DEF IInv, ClientTyped
<1>3. /\ \A t \in Streams : t # s => recvCh'[t] = recvCh[t] /\ got'[t] = got[t]
      /\ recvCh'[s] = Tail(recvCh[s]) /\ got'[s] = Append(got[s], Head(recvCh[s]))
  BY <1>1, <1>2
<1>4. \A t \in Streams : wrote[t] <= wrote'[t]
  BY <1>1, ExactTypes
<1>5. Unwritten' /\ \A t \in Streams :
        /\ cpc'[t] \in Unsaid =>
             /\ cpc[t] \in Unsaid /\ recvCh'[t] = recvCh[t] /\ got'[t] = got[t]
             /\ cpc'[t] = "registered" => crecv'[t] = NewBuffer
        /\ cpc[t] = "closed" => cpc'[t] = "closed"
  BY <1>1, <1>3 DEF EInv, Unopened, Unsaid, Unwritten
<1>6. ASSUME NEW t \in Streams, Sole(t) PROVE ExactDown(t)'
  <2>1. ExactDown(t) /\ nextSeq[t] \in Nat
    BY <1>6, ExactTypes DEF EInv
  <2>2. UNCHANGED <<streams, nextSeq, down, opener, relay>>
    BY <1>1 DEF serverVars, mapVars, goVars
  <2>3. Receiving(t)' => Receiving(t)
    BY <1>1, <1>3 DEF Receiving, Rejected, Read
  <2>4. CASE t # s \/ ~Receiving(t)
    BY <1>1, <1>3, <2>1, <2>2, <2>3, <2>4, DownFrame
  <2>5. CASE t = s /\ Receiving(t)
    <3>1. PICK o : o = Taken(s)
      OBVIOUS
    <3>2. o \in Nat /\ Taken(s)' = o /\ cpc[s] = "open"
      BY <1>1, <3>1 DEF Taken, Read
    <3>3. /\ crecv[s].expected = o + Len(got[s]) + Len(recvCh[s])
          /\ Counted(got[s], o) /\ Counted(recvCh[s], o + Len(got[s]))
      BY <2>1, <2>5, <3>1 DEF ExactDown, DownContent
    <3>4. /\ got[s] \in Seq(Payloads) /\ recvCh[s] \in Seq(Payloads)
          /\ Len(got[s]) \in Nat /\ Len(recvCh[s]) \in Nat
      BY ExactTypes
    <3>5. /\ Head(recvCh[s]) = Val(o + Len(got[s])) /\ Head(recvCh[s]) \in Payloads
          /\ Counted(Tail(recvCh[s]), o + Len(got[s]) + 1)
          /\ Len(Tail(recvCh[s])) + 1 = Len(recvCh[s]) /\ Tail(recvCh[s]) \in Seq(Payloads)
      <4>1. o + Len(got[s]) \in Nat
        BY <3>2, <3>4
      <4> QED
        BY <1>1, <3>3, <3>4, <4>1, CountedTail
    <3>6. /\ Counted(got'[s], o) /\ Len(got'[s]) = Len(got[s]) + 1
      <4>1. Head(recvCh[s]) = Val(Len(got[s]) + o)
        <5>1. o + Len(got[s]) = Len(got[s]) + o
          BY <3>2, <3>4
        <5> QED
          BY <3>5, <5>1
      <4> QED
        BY <1>3, <3>2, <3>3, <3>4, <3>5, <4>1, CountedAppend
    <3>7. /\ crecv'[s].expected = o + Len(got'[s]) + Len(recvCh'[s])
          /\ Counted(recvCh'[s], o + Len(got'[s]))
      <4>1. Len(Tail(recvCh[s])) \in Nat
        BY <3>5, LenProperties
      <4>2. /\ o + Len(got[s]) + 1 = o + (Len(got[s]) + 1)
            /\ o + (Len(got[s]) + 1) + Len(Tail(recvCh[s])) = o + Len(got[s]) + Len(recvCh[s])
        <5>1. \A a, b, c \in Nat : /\ a + b + 1 = a + (b + 1)
                                   /\ a + (b + 1) + c = a + b + (c + 1)
          OBVIOUS
        <5>2. PICK b, c \in Nat : b = Len(got[s]) /\ c = Len(Tail(recvCh[s]))
          BY <3>4, <4>1
        <5>3. c + 1 = Len(recvCh[s])
          BY <3>5, <5>2
        <5>4. o + b + 1 = o + (b + 1) /\ o + (b + 1) + c = o + b + (c + 1)
          <6>1. o \in Nat /\ b \in Nat /\ c \in Nat
            BY <3>2, <5>2
          <6> QED
            BY <5>1, <6>1
        <5> QED
          BY <5>2, <5>3, <5>4
      <4> QED
        BY <1>1, <1>3, <3>3, <3>5, <3>6, <4>2
    <3>8. Holds(crecv[s], nextSeq[s], 0)'
      BY <1>1, <2>1, <2>2, <2>5 DEF ExactDown, DownContent, Holds
    <3>9. DownContent(s)'
      BY <1>1, <3>2, <3>6, <3>7, <3>8 DEF DownContent, Counted
    <3>10. DownNumbered(s)'
      BY <1>1, <2>1, <2>2, <2>5 DEF ExactDown, DownNumbered, DownData, Answered, Failure
    <3> QED
      BY <2>5, <3>9, <3>10 DEF ExactDown
  <2> QED
    BY <2>4, <2>5
<1> QED
  BY <1>1, <1>4, <1>5, <1>6, ClientExact

\* Write numbers a payload and sends it.
LEMMA WriteExact ==
    ASSUME IInv, IInv', EInv, NEW s \in Streams, Write(s)
    PROVE  EInv'
<1>1. /\ UNCHANGED <<cpc, registered, crecv, recvCh, got, serverVars, up, down, dialled, dropped>>
      /\ wrote' = [wrote EXCEPT ![s] = wrote[s] + 1] /\ cpc[s] = "open"
      /\ net' \subseteq net \cup {Packet("up", "data", s, wrote[s], Data(wrote[s] + 1))}
  BY DEF Write, Send
<1>2. wrote \in [Streams -> 0..MaxData] /\ \A t \in Streams : wrote[t] \in Nat
  BY TypeParts, ExactTypes DEF IInv, ClientTyped
<1>3. wrote'[s] = wrote[s] + 1 /\ \A t \in Streams : t # s => wrote'[t] = wrote[t]
  BY <1>1, <1>2
<1>4. \A t \in Streams : wrote[t] <= wrote'[t]
  BY <1>2, <1>3
<1>5. ASSUME NEW p \in net'
      PROVE  \/ p \in net
             \/ /\ p.dir = "up" /\ p.type = "data" /\ cpc'[p.s] \notin Unsaid
                /\ p.seq < wrote'[p.s] /\ p.v = Val(p.seq + 1)
  <2>1. CASE p \notin net
    <3>1. /\ p.dir = "up" /\ p.type = "data" /\ p.s = s /\ p.seq = wrote[s]
          /\ p.v = Data(wrote[s] + 1)
      BY <1>1, <1>5, <2>1 DEF Packet
    <3>2. wrote[s] < wrote[s] + 1 /\ wrote[s] + 1 # 0
      BY <1>2
    <3> QED
      BY <1>1, <1>3, <3>1, <3>2 DEF Val, Unsaid
  <2> QED
    BY <2>1
<1>6. Unwritten' /\ \A t \in Streams :
        /\ cpc'[t] \in Unsaid =>
             cpc[t] \in Unsaid /\ (cpc'[t] = "registered" => crecv'[t] = NewBuffer)
        /\ cpc[t] = "closed" => cpc'[t] = "closed"
  BY <1>1, <1>3 DEF EInv, Unopened, Unsaid, Unwritten
<1>7. ASSUME NEW t \in Streams, Sole(t) PROVE ExactDown(t)'
  <2>1. ExactDown(t) /\ nextSeq[t] \in Nat
    BY <1>7, ExactTypes DEF EInv
  <2>2. UNCHANGED <<streams, nextSeq, down, opener, relay>>
    BY <1>1 DEF serverVars, mapVars, goVars
  <2>3. \A p \in net' : DownData(p, t) => p \in net
    BY <1>5 DEF DownData
  <2>4. Receiving(t)' => Receiving(t)
    BY <1>1 DEF Receiving, Rejected
  <2> QED
    BY <1>1, <2>1, <2>2, <2>3, <2>4, DownFrame
<1> QED
  BY <1>1, <1>4, <1>5, <1>6, <1>7, ClientExact

\* recvLoop puts a payload into the recv buffer and what is in order into the
\* channel.
LEMMA RecvDataExact ==
    ASSUME IInv, IInv', EInv, NEW p \in net, RecvData(p)
    PROVE  EInv'
<1>1. /\ UNCHANGED <<cpc, registered, got, wrote, serverVars, up, down, dialled>>
      /\ net' \subseteq net /\ dropped \subseteq dropped' /\ p.dir = "down" /\ p.type = "data"
      /\ recvCh' = [recvCh EXCEPT ![p.s] = Pushed(@, Flushed(crecv[p.s], p.seq, p.v))]
      /\ crecv' = [crecv EXCEPT ![p.s] = Inserted(@, p.seq, p.v)]
      /\ p.s \notin dropped' =>
           Len(recvCh[p.s]) + Len(Flushed(crecv[p.s], p.seq, p.v)) <= ChanCap
  BY DEF RecvData, Arrives, destVars
<1>2. p.s \in Streams /\ p.seq \in Seqs /\ p.v \in Payloads
  BY TypeParts DEF IInv, NetTyped, Packets
<1>3. /\ crecv \in [Streams -> Buffers] /\ recvCh \in [Streams -> Seq(Payloads)]
      /\ \A t \in Streams : Len(recvCh[t]) <= ChanCap
  BY TypeParts DEF IInv, ClientTyped
<1>4. PICK s \in Streams : s = p.s
  BY <1>2
<1>5. PICK out : out = Flushed(crecv[s], p.seq, p.v)
  OBVIOUS
<1>6. /\ \A t \in Streams : t # s => recvCh'[t] = recvCh[t] /\ crecv'[t] = crecv[t]
      /\ recvCh'[s] = Pushed(recvCh[s], out) /\ crecv'[s] = Inserted(crecv[s], p.seq, p.v)
  BY <1>1, <1>3, <1>4, <1>5
<1>7. \A t \in Streams : wrote[t] <= wrote'[t]
  BY <1>1, ExactTypes
<1>8. Unwritten' /\ \A t \in Streams :
        /\ cpc'[t] \in Unsaid =>
             /\ cpc[t] \in Unsaid /\ recvCh'[t] = recvCh[t]
             /\ cpc'[t] = "registered" => crecv'[t] = NewBuffer
        /\ cpc[t] = "closed" => cpc'[t] = "closed"
  <2>1. \A t \in Streams : cpc[t] \in Unsaid => t # s
    BY <1>4 DEF EInv, Unopened
  <2> QED
    BY <1>1, <1>6, <2>1 DEF EInv, Unopened, Unsaid, Unwritten
<1>9. ASSUME NEW t \in Streams, Sole(t), t \notin dropped' PROVE ExactDown(t)'
  <2>1. ExactDown(t) /\ nextSeq[t] \in Nat
    BY <1>9, ExactTypes DEF EInv
  <2>2. UNCHANGED <<streams, nextSeq, down, opener, relay>>
    BY <1>1 DEF serverVars, mapVars, goVars
  <2>3. CASE t # s
    <3>1. Receiving(t)' => Receiving(t)
      BY <1>1, <1>6, <2>3 DEF Receiving, Rejected
    <3> QED
      BY <1>1, <1>6, <2>1, <2>2, <2>3, <3>1, DownFrame
  <2>4. CASE t = s
    <3>1. recvCh'[s] = recvCh[s] \o out /\ out \in Seq(Payloads)
      <4>1. recvCh[s] \in Seq(Payloads) /\ Len(recvCh[s]) <= ChanCap
        BY <1>3
      <4>2. Len(recvCh[s]) + Len(out) <= ChanCap
        BY <1>1, <1>4, <1>5, <1>9, <2>4
      <4>3. out \in Seq(Payloads)
        BY <1>2, <1>3, <1>5, FlushedPayloads
      <4> QED
        BY <1>6, <4>1, <4>2, <4>3, PushedProperties
    <3>2. Receiving(s)' => Receiving(s)
      <4> SUFFICES ASSUME Rejected(s) PROVE Rejected(s)'
        BY <1>1 DEF Receiving, Rejected
      <4>1. recvCh[s] \in Seq(Payloads) /\ recvCh[s] # <<>>
        BY <1>3 DEF Rejected
      <4>2. (recvCh[s] \o out)[1] = recvCh[s][1] /\ recvCh[s] \o out # <<>>
        BY <3>1, <4>1
      <4> QED
        BY <1>1, <3>1, <4>2 DEF Rejected
    <3>3. DownNumbered(s)'
      BY <1>1, <2>1, <2>2, <2>4 DEF ExactDown, DownNumbered, DownData, Answered, Failure
    <3>4. ASSUME Receiving(s)' PROVE DownContent(s)'
      <4>1. PICK o : o = Taken(s)
        OBVIOUS
      <4>2. o \in Nat /\ Taken(s)' = o
        BY <1>1, <4>1 DEF Taken
      <4>3. /\ crecv[s].expected = o + Len(got[s]) + Len(recvCh[s])
            /\ Counted(got[s], o) /\ Counted(recvCh[s], o + Len(got[s]))
            /\ cpc[s] = "waiting" => got[s] = <<>>
            /\ Holds(crecv[s], nextSeq[s], 0)
        BY <2>1, <2>4, <3>2, <3>4, <4>1 DEF ExactDown, DownContent
      <4>4. /\ recvCh[s] \in Seq(Payloads) /\ Len(got[s]) \in Nat /\ Len(recvCh[s]) \in Nat
            /\ Len(out) \in Nat /\ crecv[s] \in Buffers /\ crecv[s].expected \in Nat
        <5>1. /\ recvCh[s] \in Seq(Payloads) /\ Len(got[s]) \in Nat /\ Len(recvCh[s]) \in Nat
              /\ crecv[s] \in Buffers
          BY ExactTypes
        <5>2. Len(out) \in Nat
          BY <3>1, LenProperties
        <5>3. crecv[s].expected \in Nat
          BY <5>1, MaxSeqs DEF Buffers
        <5> QED
          BY <5>1, <5>2, <5>3
      <4>5. \/ Failure(p) \/ (p.seq < nextSeq[s] /\ p.v = Val(p.seq))
        BY <1>1, <1>4, <2>1, <2>4 DEF ExactDown, DownNumbered, DownData
      <4>6. CASE Failure(p) /\ crecv[s].expected # 0
        <5>1. out = <<>> /\ Inserted(crecv[s], p.seq, p.v) = crecv[s]
          BY <1>5, <4>4, <4>6 DEF Flushed, Inserted, Failure
        <5>2. recvCh'[s] = recvCh[s] /\ crecv'[s] = crecv[s]
          BY <1>6, <3>1, <4>4, <5>1, ConcatEmptySeq
        <5> QED
          BY <1>1, <2>2, <4>2, <4>3, <5>2 DEF DownContent, Counted, Holds
      <4>7. CASE Failure(p) /\ crecv[s].expected = 0 /\ crecv[s].live
        <5>1. o = 0 /\ cpc[s] = "waiting" /\ recvCh[s] = <<>>
          <6>1. o = 0 /\ Len(recvCh[s]) = 0
            BY <4>2, <4>3, <4>4, <4>7
          <6> QED
            BY <1>1, <3>4, <4>1, <4>4, <6>1, EmptySeq DEF Taken, Receiving
        <5>2. Len(out) \in Nat \ {0}
          BY <1>2, <1>5, <4>4, <4>7, FlushedMaximal DEF Failure
        <5>3. PICK r \in crecv[s].held \cup {Slot(p.seq, p.v)} :
                r.seq = p.seq + 1 - 1 /\ r.v = out[1]
          <6>1. 1 \in 1..Len(out)
            BY <5>2
          <6> QED
            BY <1>2, <1>5, <4>4, <6>1, FlushedPayloads
        <5>4. r = Slot(p.seq, p.v)
          <6>1. r.seq = 0
            BY <4>7, <5>3 DEF Failure
          <6>2. \A q \in crecv[s].held : q.seq # 0
            BY <4>3, <4>7 DEF Holds
          <6> QED
            BY <5>3, <6>1, <6>2
        <5>5. out[1] = Fail /\ out # <<>>
          BY <4>7, <5>2, <5>3, <5>4, EmptySeq DEF Slot, Failure
        <5>6. recvCh'[s] = out
          BY <3>1, <5>1, ConcatEmptySeq
        <5> QED
          BY <1>1, <3>4, <5>1, <5>5, <5>6 DEF Receiving, Rejected
      <4>8. CASE ~crecv[s].live
        <5>1. out = <<>> /\ crecv'[s] = crecv[s]
          BY <1>5, <1>6, <4>4, <4>8, InsertedHeld
        <5>2. recvCh'[s] = recvCh[s]
          BY <3>1, <4>4, <5>1, ConcatEmptySeq
        <5> QED
          BY <1>1, <2>2, <4>2, <4>3, <5>1, <5>2 DEF DownContent, Counted, Holds
      <4>9. CASE p.seq < nextSeq[s] /\ p.v = Val(p.seq)
        <5>1. /\ crecv'[s].expected = crecv[s].expected + Len(out)
              /\ Counted(out, crecv[s].expected + 0)
              /\ Holds(crecv'[s], nextSeq[s], 0)
          <6>1. p.v = Val(p.seq + 0)
            BY <1>2, <4>9 DEF Seqs
          <6> QED
            BY <1>2, <1>5, <1>6, <2>1, <2>4, <4>3, <4>4, <4>9, <6>1, InsertHolds
        <5>2. crecv[s].expected + 0 = (o + Len(got[s])) + Len(recvCh[s]) /\ o + Len(got[s]) \in Nat
          BY <4>2, <4>3, <4>4
        <5>3. /\ Counted(recvCh[s] \o out, o + Len(got[s]))
              /\ Len(recvCh[s] \o out) = Len(recvCh[s]) + Len(out)
          BY <3>1, <4>3, <4>4, <5>1, <5>2, CountedConcat
        <5>4. /\ crecv'[s].expected = o + Len(got[s]) + Len(recvCh'[s])
              /\ Counted(recvCh'[s], o + Len(got[s]))
          <6>1. PICK a \in Nat, b \in Nat, c \in Nat :
                  a = Len(got[s]) /\ b = Len(recvCh[s]) /\ c = Len(out)
            BY <4>4
          <6>2. (o + a + b) + c = o + a + (b + c)
            BY <4>2
          <6>3. crecv'[s].expected = (o + a + b) + c /\ Len(recvCh'[s]) = b + c
            BY <3>1, <4>3, <5>1, <5>3, <6>1
          <6> QED
            BY <3>1, <5>3, <6>1, <6>2, <6>3
        <5>5. Holds(crecv[s], nextSeq[s], 0)'
          BY <2>2, <5>1 DEF Holds
        <5> QED
          BY <1>1, <4>2, <4>3, <5>4, <5>5 DEF DownContent, Counted
      <4> QED
        BY <4>5, <4>6, <4>7, <4>8, <4>9
    <3> QED
      BY <2>4, <3>3, <3>4 DEF ExactDown
  <2> QED
    BY <2>3, <2>4
<1> QED
  BY <1>1, <1>7, <1>8, <1>9, ClientExact

-----------------------------------------------------------------------------
(* The session. *)

\* RemoveStream takes the entry of its stream and leaves the others.
LEMMA RemoveExact ==
    ASSUME IInv, EInv, NEW s \in Streams, RemoveStream(s)
    PROVE  /\ EntryOpen'
           /\ \A g \in Openers : writeCh'[g].q = writeCh[g].q
           /\ streams'[s] = 0 /\ srecv'[s] = NoBuffer /\ nextSeq'[s] = 0
           /\ \A t \in Streams : t # s =>
                streams'[t] = streams[t] /\ nextSeq'[t] = nextSeq[t] /\ srecv'[t] = srecv[t]
<1>1. MapTyped /\ ObjTyped
  BY TypeParts DEF IInv
<1>2. /\ streams'[s] = 0 /\ srecv'[s] = NoBuffer /\ nextSeq'[s] = 0
      /\ \A t \in Streams : t # s =>
           streams'[t] = streams[t] /\ nextSeq'[t] = nextSeq[t] /\ srecv'[t] = srecv[t]
  BY <1>1 DEF RemoveStream, MapTyped
<1>3. \A g \in Openers :
        /\ writeCh'[g].q = writeCh[g].q
        /\ g # streams[s] => writeCh'[g] = writeCh[g]
  BY <1>1 DEF RemoveStream, ObjTyped, Channels
<1>4. EntryOpen'
  <2> SUFFICES ASSUME NEW t \in Streams, streams'[t] # 0
               PROVE  writeCh'[streams'[t]].st = "open"
    BY DEF EntryOpen
  <2>1. t # s /\ streams'[t] = streams[t] /\ streams[t] \in Openers
    BY <1>2, ExactTypes
  <2>2. streams[t] # streams[s]
    BY <2>1 DEF IInv, EntryOwned
  <2> QED
    BY <1>3, <2>1, <2>2 DEF EInv, EntryOpen
<1> QED
  BY <1>2, <1>3, <1>4

\* A StreamOpen spawns an opener that has done nothing yet.
LEMMA HandleOpenExact ==
    ASSUME IInv, IInv', EInv, NEW p \in net, HandleOpen(p)
    PROVE  EInv'
<1>1. /\ UNCHANGED <<clientVars, mapVars, writer, relay, objVars, loop, endVars, destVars,
                     dropped>>
      /\ net' \subseteq net /\ p.dir = "up" /\ p.type = "open"
  BY DEF HandleOpen, Arrives
<1>2. PICK g \in Openers : /\ opener[g] = "idle" /\ opener' = [opener EXCEPT ![g] = "spawned"]
                           /\ sid' = [sid EXCEPT ![g] = p.s]
  BY DEF HandleOpen
<1>3. p.s \in Streams
  BY TypeParts DEF IInv, NetTyped, Packets
<1>4. /\ opener'[g] = "spawned" /\ sid'[g] = p.s /\ sid[g] = 0
      /\ \A h \in Openers : h # g => opener'[h] = opener[h] /\ sid'[h] = sid[h]
  BY <1>2, TypeParts DEF IInv, GoTyped, EInv, NotEntered
<1>5. EntryOpen'
  BY <1>1 DEF EInv, EntryOpen, mapVars, objVars
<1>6. LoopEntry'
  <2>1. loop.g # 0 => loop.g \in Openers
    BY TypeParts, StreamsAssumption DEF IInv, LoopTyped, Openers
  <2> QED
    BY <1>1, <1>2, <1>4, <2>1 DEF EInv, LoopEntry
<1>7. NotEntered'
  BY <1>1, <1>2, <1>4 DEF EInv, NotEntered, objVars
<1>8. \A h \in Openers : \A s \in Streams : sid'[h] = s =>
        sid[h] = s \/ cpc[s] \notin Unsaid
  BY <1>1, <1>4 DEF EInv, Unopened
<1>9. dialled' = dialled /\ \A h \in dialled : h # g /\ h \in Openers /\ sid'[h] = sid[h]
  <2>1. \A h \in dialled : h # g /\ h \in Openers
    BY <1>2, TypeParts DEF IInv, DestTyped, AfterDial
  <2> QED
    BY <1>1, <1>4, <2>1 DEF destVars
<1>10. NotPassed'
  <2>1. \A s \in Streams : Dialled(s) => Dialled(s)'
    BY <1>9 DEF Dialled
  <2> QED
    BY <1>1, <2>1 DEF EInv, NotPassed, destVars
<1>11. ASSUME NEW s \in Streams, Sole(s)' PROVE Placed(s)' /\ ExactDown(s)' /\ ExactUp(s)'
  <2>1. Sole(s)
    BY <1>1, <1>9, <1>11, SoleKept DEF mapVars, endVars, clientVars
  <2>2. streams[s] # 0 => streams[s] \in Openers /\ streams[s] # g
    BY <1>4, ExactTypes, StreamsAssumption DEF IInv, EntryOwned
  <2>3. Placed(s)'
    <3>1. streams'[s] = streams[s]
      BY <1>1 DEF mapVars
    <3> QED
      BY <1>4, <2>1, <3>1 DEF EInv, Placed
  <2>4. Pending(s)' = Pending(s) /\ Found(s)'
    BY <1>1, <2>1 DEF EInv, ExactUp, Pending, Found, mapVars
  <2>5. ExactDown(s)' /\ ExactUp(s)'
    BY <1>1, <1>4, <2>1, <2>2, <2>4, OtherExact DEF mapVars, objVars, destVars
  <2> QED
    BY <2>3, <2>5
<1> QED
  BY <1>1, <1>5, <1>6, <1>7, <1>8, <1>10, <1>11, ServerExact DEF mapVars

\* StreamClose comes from an owner that is done with the stream.
LEMMA HandleCloseExact ==
    ASSUME IInv, IInv', EInv, NEW p \in net, HandleClose(p)
    PROVE  EInv'
<1>1. /\ UNCHANGED <<clientVars, goVars, loop, endVars, destVars, dropped>>
      /\ net' \subseteq net /\ RemoveStream(p.s) /\ p.dir = "up" /\ p.type = "close"
  BY DEF HandleClose, Arrives
<1>2. PICK s \in Streams : s = p.s
  BY TypeParts DEF IInv, NetTyped, Packets
<1>3. /\ EntryOpen'
      /\ \A g \in Openers : writeCh'[g].q = writeCh[g].q
      /\ streams'[s] = 0 /\ srecv'[s] = NoBuffer
      /\ \A t \in Streams : t # s =>
           streams'[t] = streams[t] /\ nextSeq'[t] = nextSeq[t] /\ srecv'[t] = srecv[t]
  BY <1>1, <1>2, RemoveExact
<1>4. LoopEntry' /\ NotEntered' /\ NotPassed'
  BY <1>1, <1>3 DEF EInv, LoopEntry, NotEntered, NotPassed, Dialled, goVars, destVars
<1>5. ASSUME NEW t \in Streams, Sole(t)' PROVE Placed(t)' /\ ExactDown(t)' /\ ExactUp(t)'
  <2>1. t # s
    <3>1. cpc'[s] = "closed"
      BY <1>1, <1>2 DEF EInv, CloseSent, clientVars
    <3> QED
      BY <1>5, <3>1 DEF Sole
  <2>2. Sole(t)
    BY <1>1, <1>3, <1>5, <2>1, SoleKept DEF goVars, endVars, clientVars, destVars
  <2>3. Placed(t)'
    BY <1>1, <1>3, <2>1, <2>2 DEF EInv, Placed, goVars
  <2>4. Pending(t)' = Pending(t) /\ Found(t)'
    BY <1>1, <1>3, <2>1, <2>2 DEF EInv, ExactUp, Pending, Found
  <2>5. streams[t] # 0 => streams[t] \in Openers
    BY ExactTypes
  <2>6. ExactDown(t)' /\ ExactUp(t)'
    BY <1>1, <1>3, <2>1, <2>2, <2>4, <2>5, OtherExact DEF goVars, destVars
  <2> QED
    BY <2>3, <2>6
<1>6. \A t \in Streams : srecv'[t].held \subseteq srecv[t].held
  BY <1>3 DEF NoBuffer
<1> QED
  BY <1>1, <1>3, <1>4, <1>5, <1>6, ServerExact DEF goVars

\* The session is removed with everything in it.
LEMMA RemoveSessionExact ==
    ASSUME IInv, IInv', EInv, RemoveSession
    PROVE  EInv'
<1>1. /\ UNCHANGED <<clientVars, net, goVars, loop, destVars>>
      /\ streams' = [s \in Streams |-> 0] /\ srecv' = [s \in Streams |-> NoBuffer]
  BY DEF RemoveSession
<1>2. removed'
  BY DEF RemoveSession
<1>3. \A g \in Openers : writeCh'[g].q = writeCh[g].q
  <2>1. writeCh \in [Openers -> Channels]
    BY TypeParts DEF IInv, ObjTyped
  <2> QED
    BY <2>1 DEF RemoveSession, Channels
<1>4. EntryOpen' /\ LoopEntry' /\ NotEntered' /\ NotPassed'
  BY <1>1, <1>3
  DEF EInv, EntryOpen, LoopEntry, NotEntered, NotPassed, Dialled, goVars, destVars
<1>5. \A s \in Streams : ~Sole(s)'
  BY <1>2 DEF Sole
<1>6. \A s \in Streams : srecv'[s].held \subseteq srecv[s].held
  BY <1>1 DEF NoBuffer
<1> QED
  BY <1>1, <1>4, <1>5, <1>6, ServerExact DEF goVars

\* processLoop inserts a payload and takes out what is in order.
LEMMA HandleDataExact ==
    ASSUME IInv, IInv', EInv, NEW p \in net, HandleData(p)
    PROVE  EInv'
<1>1. /\ UNCHANGED <<clientVars, streams, nextSeq, goVars, objVars, endVars, destVars, dropped>>
      /\ net' \subseteq net /\ p.dir = "up" /\ p.type = "data" /\ loop = Idle
      /\ srecv' = [srecv EXCEPT ![p.s] = Inserted(@, p.seq, p.v)]
      /\ LET out == Flushed(srecv[p.s], p.seq, p.v)
         IN  loop' = IF out = <<>> THEN Idle ELSE [s |-> p.s, g |-> 0, q |-> out]
  BY DEF HandleData, Arrives, LoopIdle
<1>2. p.s \in Streams /\ p.seq \in Seqs /\ p.v \in Payloads
  BY TypeParts DEF IInv, NetTyped, Packets
<1>3. PICK s \in Streams : s = p.s
  BY <1>2
<1>4. PICK out : out = Flushed(srecv[s], p.seq, p.v)
  OBVIOUS
<1>5. srecv \in [Streams -> Buffers]
  BY TypeParts DEF IInv, MapTyped
<1>6. /\ srecv'[s] = Inserted(srecv[s], p.seq, p.v)
      /\ \A t \in Streams : t # s => srecv'[t] = srecv[t]
      /\ loop' = IF out = <<>> THEN Idle ELSE [s |-> s, g |-> 0, q |-> out]
      /\ loop.s = 0 /\ loop.g = 0
  BY <1>1, <1>3, <1>4, <1>5 DEF Idle
<1>7. loop'.g = 0 /\ loop'.s \in {0, s} /\ 0 # s
      /\ (out = <<>> => loop'.s = 0) /\ (out # <<>> => loop'.s = s /\ loop'.q = out)
  BY <1>6, StreamsAssumption DEF Idle
<1>8. p.seq < wrote[s] /\ p.v = Val(p.seq + 1)
  BY <1>1, <1>3 DEF EInv, UpNumbered
<1>9. \A t \in Streams : \A r \in srecv'[t].held :
        r \in srecv[t].held \/ (r.seq < wrote[t] /\ r.v = Val(r.seq + 1))
  <2>1. srecv'[s].held \subseteq srecv[s].held \cup {Slot(p.seq, p.v)}
    BY <1>5, <1>6, InsertedHeld
  <2>2. Slot(p.seq, p.v).seq = p.seq /\ Slot(p.seq, p.v).v = p.v
    BY DEF Slot
  <2> QED
    BY <1>6, <1>8, <2>1, <2>2
<1>10. EntryOpen' /\ LoopEntry' /\ NotEntered'
  BY <1>1, <1>7 DEF EInv, EntryOpen, LoopEntry, NotEntered, goVars, objVars
<1>11. srecv[s] = NoBuffer => srecv'[s] = NoBuffer /\ out = <<>>
  <2>1. ~NoBuffer.live
    BY DEF NoBuffer
  <2> QED
    BY <1>4, <1>5, <1>6, <2>1, InsertedHeld
<1>12. NotPassed'
  <2> SUFFICES ASSUME NEW t \in Streams \ Datagram, ~Dialled(t)'
               PROVE  up'[t] = <<>> /\ down'[t] = 0 /\ loop'.s # t
    BY DEF NotPassed
  <2>1. ~Dialled(t)
    BY <1>1 DEF Dialled, goVars, destVars
  <2>2. up[t] = <<>> /\ down[t] = 0
    BY <2>1 DEF EInv, NotPassed
  <2>3. wrote[t] = 0
    BY <2>1 DEF IInv, OpenedMeansDialled, Dialled, EInv, Unwritten
  <2>4. t # s
    BY <1>2, <1>8, <2>3 DEF Seqs
  <2> QED
    BY <1>1, <1>7, <2>2, <2>4, StreamsAssumption DEF destVars
<1>13. ASSUME NEW t \in Streams, Sole(t)' PROVE Placed(t)' /\ ExactDown(t)' /\ ExactUp(t)'
  <2>1. Sole(t)
    BY <1>1, <1>13, SoleKept DEF goVars, endVars, clientVars, destVars
  <2>2. Placed(t) /\ ExactDown(t) /\ ExactUp(t)
    BY <2>1 DEF EInv
  <2>3. Placed(t)' /\ Found(t)'
    BY <1>1, <1>7, <2>2 DEF Placed, Found, goVars
  <2>4. Pending(t) = <<>>
    BY <1>6, StreamsAssumption DEF Pending
  <2>5. CASE t # s
    <3>1. Pending(t)' = Pending(t)
      BY <1>7, <2>4, <2>5, StreamsAssumption DEF Pending
    <3> QED
      BY <1>1, <1>6, <2>1, <2>3, <2>5, <3>1, OtherExact DEF goVars, objVars, destVars
  <2>6. CASE t = s
    <3>1. ExactDown(s)'
      <4>1. Receiving(s)' => Receiving(s)
        BY <1>1 DEF Receiving, Rejected, clientVars
      <4> QED
        BY <1>1, <2>2, <2>6, <4>1, ExactTypes, DownFrame DEF goVars, clientVars, destVars
    <3>2. PICK n \in Nat : n = wrote[s]
      BY ExactTypes
    <3>3. /\ out \in Seq(Payloads)
          /\ srecv'[s].expected = srecv[s].expected + Len(out)
          /\ Counted(out, srecv[s].expected + 1)
          /\ Holds(srecv'[s], n, 1)
      <4>1. srecv[s] \in Buffers /\ Holds(srecv[s], n, 1) /\ 1 \in {0, 1}
        BY <1>5, <2>2, <2>6, <3>2 DEF ExactUp, UpContent
      <4> QED
        BY <1>2, <1>4, <1>6, <1>8, <3>2, <4>1, InsertHolds
    <3>4. Pending(s)' = out
      BY <1>7 DEF Pending
    <3>5. BufferAfterEntry(s)'
      BY <1>1, <1>11, <2>2, <2>6 DEF ExactUp, BufferAfterEntry, goVars
    <3>6. Holds(srecv[s], wrote[s], 1)'
      BY <1>1, <3>2, <3>3 DEF Holds, clientVars
    <3>7. UpContent(s)'
      <4>1. PICK q : q = Queue(s)
        OBVIOUS
      <4>2. Queue(s)' = q
        BY <1>1, <4>1 DEF Queue, objVars
      <4>3. /\ srecv[s].expected = Len(up[s]) + Len(q) + Len(<<>>)
            /\ Counted(up[s], 1) /\ Counted(q, Len(up[s]) + 1)
        BY <2>2, <2>4, <2>6, <4>1 DEF ExactUp, UpContent
      <4>4. Len(up[s]) \in Nat /\ Len(q) \in Nat /\ Len(<<>>) = 0 /\ Len(out) \in Nat
        BY <3>3, <4>1, ExactTypes, EmptySeq, LenProperties DEF Queue
      <4>5. /\ srecv[s].expected = Len(up[s]) + Len(q)
            /\ srecv'[s].expected = Len(up[s]) + Len(q) + Len(out)
        BY <3>3, <4>3, <4>4
      <4>6. Counted(out, Len(up[s]) + Len(q) + 1)
        BY <3>3, <4>5
      <4> QED
        BY <1>1, <3>4, <3>6, <4>2, <4>3, <4>5, <4>6 DEF UpContent, Counted, destVars
    <3> QED
      BY <2>3, <2>6, <3>1, <3>5, <3>7 DEF ExactUp
  <2> QED
    BY <2>5, <2>6
<1> QED
  BY <1>1, <1>9, <1>10, <1>12, <1>13, ServerExact DEF goVars

\* deliverFn looks the stream up: an entry, if there is one, is the stream's.
LEMMA DeliverLookupExact ==
    ASSUME IInv, IInv', EInv, DeliverLookup
    PROVE  EInv'
<1>1. /\ UNCHANGED <<clientVars, netVars, mapVars, goVars, objVars, endVars, destVars, dropped>>
      /\ loop.q # <<>> /\ loop.g = 0
  BY DEF DeliverLookup
<1>2. PICK s \in Streams : s = loop.s
  BY <1>1 DEF IInv, LoopStream
<1>3. /\ streams[s] # 0 => loop' = [loop EXCEPT !.g = streams[s]]
      /\ streams[s] = 0 => loop' = Idle \/ loop' = [loop EXCEPT !.q = Tail(loop.q)]
  BY <1>2 DEF DeliverLookup
<1>4. /\ loop'.s \in {loop.s, 0}
      /\ streams[s] # 0 => loop'.s = s /\ loop'.g = streams[s] /\ loop'.q = loop.q
      /\ streams[s] = 0 => loop'.g = 0
  <2>1. LoopTyped
    BY TypeParts DEF IInv
  <2> QED
    BY <1>1, <1>2, <1>3, <2>1 DEF LoopTyped, Idle
<1>5. streams[s] # 0 =>
        sid[streams[s]] = s /\ opener[streams[s]] \notin {"idle", "spawned"}
  <2>1. streams[s] # 0 => streams[s] \in Openers
    BY ExactTypes
  <2> QED
    BY <2>1 DEF IInv, EntryOwned, AfterDial
<1>6. LoopEntry'
  BY <1>1, <1>4, <1>5 DEF LoopEntry, goVars
<1>7. EntryOpen' /\ NotEntered'
  BY <1>1 DEF EInv, EntryOpen, NotEntered, mapVars, goVars, objVars
<1>8. NotPassed'
  BY <1>1, <1>4, StreamsAssumption DEF EInv, NotPassed, Dialled, goVars, destVars
<1>9. ASSUME NEW t \in Streams, Sole(t)' PROVE Placed(t)' /\ ExactDown(t)' /\ ExactUp(t)'
  <2>1. Sole(t)
    BY <1>1, <1>9, SoleKept DEF goVars, mapVars, endVars, clientVars, destVars
  <2>2. Placed(t) /\ Found(t)
    BY <2>1 DEF EInv, ExactUp
  <2>3. Placed(t)'
    BY <1>1, <2>2 DEF Placed, goVars, mapVars
  <2>4. t = s => streams[s] # 0
    <3> SUFFICES ASSUME t = s PROVE streams[s] # 0
      OBVIOUS
    <3>1. PICK g \in dialled : sid[g] = s
      BY <1>2, <2>1 DEF EInv, NotPassed, Dialled, Sole
    <3>2. g \in Openers
      BY TypeParts DEF IInv, DestTyped
    <3> QED
      BY <2>1, <3>1, <3>2, SoleOpener
  <2>5. Pending(t)' = Pending(t) /\ Found(t)'
    <3>1. CASE t = s
      BY <1>1, <1>2, <1>4, <2>4, <3>1 DEF Pending, Found, mapVars
    <3>2. CASE t # s
      BY <1>2, <1>4, <3>2, StreamsAssumption DEF Pending, Found
    <3> QED
      BY <3>1, <3>2
  <2>6. ExactDown(t)' /\ ExactUp(t)'
    BY <1>1, <2>1, <2>5, OtherExact DEF goVars, mapVars, netVars, objVars, destVars
  <2> QED
    BY <2>3, <2>6
<1> QED
  BY <1>1, <1>6, <1>7, <1>8, <1>9, ServerExact DEF goVars, mapVars, netVars

\* deliverFn sends on the channel of the entry, which is open.
LEMMA DeliverSendExact ==
    ASSUME IInv, IInv', EInv, DeliverSend
    PROVE  EInv'
<1>1. /\ UNCHANGED <<clientVars, netVars, mapVars, goVars, conn, removed, destVars>>
      /\ loop.g # 0 /\ loop.q # <<>> /\ dropped \subseteq dropped'
  BY DEF DeliverSend, IInv, LoopStream
<1>2. PICK s \in Streams : s = loop.s
  BY <1>1 DEF IInv, LoopStream
<1>3. PICK g \in Openers : g = loop.g
  BY <1>1, TypeParts, StreamsAssumption DEF IInv, LoopTyped, Openers
<1>4. PICK rest : rest = Tail(loop.q)
  OBVIOUS
<1>5. PICK q : q = writeCh[g].q
  OBVIOUS
<1>6. sid[g] = s /\ opener[g] \notin {"idle", "spawned"}
  BY <1>1, <1>2, <1>3 DEF EInv, LoopEntry
<1>7. /\ loop'.g = 0 /\ loop'.s \in {loop.s, 0}
      /\ rest = <<>> => loop'.s = 0
      /\ rest # <<>> => loop'.s = s /\ loop'.q = rest
  <2>1. loop' = IF rest = <<>> THEN Idle ELSE [loop EXCEPT !.g = 0, !.q = rest]
    BY <1>4 DEF DeliverSend
  <2>2. LoopTyped
    BY TypeParts DEF IInv
  <2> QED
    BY <1>2, <2>1, <2>2 DEF LoopTyped, Idle
<1>8. writeCh \in [Openers -> Channels] /\ Len(q) <= ChanCap /\ q \in Seq(Payloads)
  BY <1>5, TypeParts DEF IInv, ObjTyped, Channels
<1>9. /\ \A h \in Openers : writeCh'[h].st = writeCh[h].st
      /\ \A h \in Openers : h # g => writeCh'[h] = writeCh[h]
      /\ writeCh[g].st = "open" =>
           /\ writeCh'[g].q = Pushed(q, <<Head(loop.q)>>)
           /\ Len(q) < ChanCap \/ s \in dropped'
  BY <1>2, <1>3, <1>5, <1>8 DEF DeliverSend, Channels
<1>10. LoopEntry'
  BY <1>7 DEF LoopEntry
<1>11. NotEntered'
  BY <1>1, <1>6, <1>9 DEF EInv, NotEntered, goVars
<1>12. EntryOpen'
  <2>1. \A t \in Streams : streams[t] # 0 => streams[t] \in Openers
    BY ExactTypes
  <2> QED
    BY <1>1, <1>9, <2>1 DEF EInv, EntryOpen, mapVars
<1>13. NotPassed'
  BY <1>1, <1>7, StreamsAssumption DEF EInv, NotPassed, Dialled, goVars, destVars
<1>14. ASSUME NEW t \in Streams, Sole(t)', t = s
       PROVE  Placed(t)' /\ ExactDown(t)' /\ ExactUp(t)'
  <2>1. Sole(t)
    BY <1>1, <1>14, SoleKept DEF goVars, mapVars, clientVars, destVars
  <2>2. streams[s] = g /\ t = s /\ g # 0
    BY <1>1, <1>2, <1>3, <1>14, <2>1 DEF EInv, ExactUp, Found
  <2>3. Placed(t) /\ ExactDown(t) /\ ExactUp(t)
    BY <2>1 DEF EInv
  <2>4. s \notin dropped'
    BY <1>14 DEF Sole
  <2>5. Placed(t)' /\ Found(t)' /\ BufferAfterEntry(t)'
    BY <1>1, <1>7, <2>3 DEF ExactUp, Placed, Found, BufferAfterEntry, goVars, mapVars
  <2>6. writeCh[g].st = "open"
    BY <2>2 DEF EInv, EntryOpen
  <2>7. UpContent(t)'
    <3>1. PICK n \in Nat : n = Len(up[s])
      BY ExactTypes
    <3>2. PICK m \in Nat : m = Len(q)
      BY <1>8, LenProperties
    <3>3. loop.q \in Seq(Payloads)
      BY ExactTypes
    <3>4. /\ srecv[s].expected = n + m + Len(loop.q)
          /\ Counted(up[s], 1) /\ Counted(q, n + 1) /\ Counted(loop.q, n + m + 1)
      BY <1>1, <1>2, <1>5, <2>2, <2>3, <3>1, <3>2 DEF ExactUp, UpContent, Queue, Pending
    <3>5. /\ Head(loop.q) = Val(n + m + 1) /\ Head(loop.q) \in Payloads
          /\ Counted(rest, n + m + 1 + 1) /\ rest \in Seq(Payloads)
          /\ Len(rest) + 1 = Len(loop.q)
      <4>1. n + m + 1 \in Nat
        OBVIOUS
      <4> QED
        BY <1>1, <1>4, <3>3, <3>4, <4>1, CountedTail
    <3>6. PICK k \in Nat : k = Len(rest)
      BY <3>5, LenProperties
    <3>7. writeCh'[g].q = Append(q, Head(loop.q))
      <4>1. <<Head(loop.q)>> \in Seq(Payloads) /\ Len(<<Head(loop.q)>>) = 1
        BY <3>5
      <4>2. Len(q) + Len(<<Head(loop.q)>>) <= ChanCap
        BY <1>9, <2>4, <2>6, <3>2, <4>1, StreamsAssumption
      <4>3. Pushed(q, <<Head(loop.q)>>) = q \o <<Head(loop.q)>>
        BY <1>8, <4>1, <4>2, PushedProperties
      <4> QED
        BY <1>8, <1>9, <2>6, <3>5, <4>3, AppendIsConcat
    <3>8. /\ Counted(writeCh'[g].q, n + 1) /\ Len(writeCh'[g].q) = m + 1
      <4>1. Head(loop.q) = Val(m + (n + 1)) /\ n + 1 \in Nat
        <5>1. n + m + 1 = m + (n + 1)
          OBVIOUS
        <5> QED
          BY <3>5, <5>1
      <4> QED
        BY <1>8, <3>2, <3>4, <3>5, <3>7, <4>1, CountedAppend
    <3>9. Pending(s)' = rest
      BY <1>7, StreamsAssumption DEF Pending
    <3>10. /\ srecv[s].expected = n + (m + 1) + k
           /\ Counted(rest, n + (m + 1) + 1)
      <4>1. n + m + 1 + 1 = n + (m + 1) + 1 /\ n + m + (k + 1) = n + (m + 1) + k
        OBVIOUS
      <4> QED
        BY <3>4, <3>5, <3>6, <4>1
    <3>11. streams' = streams /\ up' = up /\ srecv' = srecv /\ wrote' = wrote
      BY <1>1 DEF mapVars, destVars, clientVars
    <3>12. Queue(s)' = writeCh'[g].q
      BY <2>2, <3>11 DEF Queue
    <3>13. Holds(srecv[s], wrote[s], 1)'
      BY <2>2, <2>3, <3>11 DEF ExactUp, UpContent, Holds
    <3> QED
      BY <2>2, <3>1, <3>4, <3>6, <3>8, <3>9, <3>10, <3>11, <3>12, <3>13
      DEF UpContent, Counted
  <2>8. Receiving(t)' => Receiving(t)
    BY <1>1 DEF Receiving, Rejected, clientVars
  <2>9. ExactDown(t)'
    BY <1>1, <2>3, <2>8, ExactTypes, DownFrame DEF goVars, mapVars, netVars, clientVars, destVars
  <2> QED
    BY <2>5, <2>7, <2>9 DEF ExactUp
<1>15. ASSUME NEW t \in Streams, Sole(t)', t # s
       PROVE  Placed(t)' /\ ExactDown(t)' /\ ExactUp(t)'
  <2>1. Sole(t)
    BY <1>1, <1>15, SoleKept DEF goVars, mapVars, clientVars, destVars
  <2>2. Placed(t)'
    BY <1>1, <2>1 DEF EInv, Placed, goVars, mapVars
  <2>3. Pending(t)' = Pending(t) /\ Found(t)'
    BY <1>2, <1>7, <1>15, StreamsAssumption DEF Pending, Found
  <2>4. streams[t] # 0 => streams[t] \in Openers /\ streams[t] # g
    BY <1>6, <1>15, ExactTypes DEF IInv, EntryOwned
  <2>5. ExactDown(t)' /\ ExactUp(t)'
    BY <1>1, <1>9, <2>1, <2>3, <2>4, OtherExact DEF goVars, mapVars, netVars, destVars
  <2> QED
    BY <2>2, <2>5
<1> QED
  BY <1>1, <1>10, <1>11, <1>12, <1>13, <1>14, <1>15, ServerExact DEF goVars, mapVars, netVars

-----------------------------------------------------------------------------
(* The goroutines of the server. *)

\* A goroutine that ends in RemoveStream leaves no entry of its stream.
LEMMA GoRemoveExact ==
    ASSUME IInv, IInv', EInv, NEW g \in Openers, opener[g] \notin {"idle", "spawned"},
           UNCHANGED <<clientVars, sid, loop, destVars, removed, dropped>>,
           RemoveStream(sid[g]),
           opener' = opener \/ opener' = [opener EXCEPT ![g] = "done"],
           \A h \in Openers : h # g => relay'[h] = relay[h],
           \A p \in net' : p \in net \/ (p.dir = "down" /\ p.s = sid[g]),
           Sole(sid[g])' => Placed(sid[g])' /\ ExactDown(sid[g])' /\ ExactUp(sid[g])'
    PROVE  EInv'
<1>1. PICK s \in Streams : s = sid[g]
  BY DEF IInv, SidKnown
<1>2. /\ EntryOpen'
      /\ \A h \in Openers : writeCh'[h].q = writeCh[h].q
      /\ streams'[s] = 0 /\ srecv'[s] = NoBuffer
      /\ \A t \in Streams : t # s =>
           streams'[t] = streams[t] /\ nextSeq'[t] = nextSeq[t] /\ srecv'[t] = srecv[t]
  BY <1>1, RemoveExact
<1>3. /\ opener'[g] \notin {"idle", "spawned"}
      /\ \A h \in Openers : h # g => opener'[h] = opener[h]
  BY TypeParts DEF IInv, GoTyped
<1>4. srecv'[s].held \subseteq srecv[s].held
  BY <1>2 DEF NoBuffer
<1> QED
  BY <1>1, <1>2, <1>3, <1>4, GoExact DEF destVars

\* The dial fails: the stream is as it was before its opener came, but for the
\* failure that is sent.
LEMMA DialFailsExact ==
    ASSUME IInv, IInv', EInv, NEW g \in Openers, DialFails(g)
    PROVE  EInv'
<1>1. /\ UNCHANGED <<clientVars, sid, writer, relay, loop, destVars, removed, dropped>>
      /\ RemoveStream(sid[g]) /\ opener[g] = "dial" /\ opener' = [opener EXCEPT ![g] = "done"]
      /\ net' \subseteq net \cup {Packet("down", "data", sid[g], NextSeq(sid[g]), Fail)}
  BY DEF DialFails, OpenerTo, Transmit, endVars
<1>2. PICK s \in Streams : s = sid[g]
  BY <1>1 DEF IInv, SidKnown
<1>3. \A p \in net' : \/ p \in net
                      \/ p.dir = "down" /\ p.s = s /\ p.seq = NextSeq(s) /\ p.v = Fail
  BY <1>1, <1>2 DEF Packet
<1>4. ASSUME Sole(s)' PROVE Placed(s)' /\ ExactDown(s)' /\ ExactUp(s)'
  <2>1. /\ streams'[s] = 0 /\ srecv'[s] = NoBuffer /\ nextSeq'[s] = 0
    BY <1>1, <1>2, RemoveExact
  <2>2. ~Dialled(s) /\ dialled \subseteq Openers
    <3>1. dialled \subseteq Openers /\ \A h \in Openers : h # 0
      BY TypeParts DEF IInv, DestTyped, Openers
    <3> QED
      BY <1>1, <1>4, <2>1, <3>1 DEF Sole, Dialled, destVars
  <2>3. Sole(s)
    BY <1>1, <1>4, <2>2 DEF Sole, Dialled, clientVars
  <2>4. /\ Placed(s) /\ ExactDown(s) /\ ExactUp(s)
        /\ up[s] = <<>> /\ down[s] = 0 /\ loop.s # s
    BY <2>2, <2>3 DEF EInv, NotPassed, Sole
  <2>5. streams[s] = g
    BY <1>1, <1>2, <2>4 DEF Placed
  <2>6. nextSeq[s] = 0 /\ NextSeq(s) = 0
    BY <1>1, <2>4, <2>5 DEF ExactDown, DownNumbered, Answered, NextSeq
  <2>7. Placed(s)'
    <3>1. opener'[g] = "done" /\ \A h \in Openers : h # g => opener'[h] = opener[h]
      BY <1>1, TypeParts DEF IInv, GoTyped
    <3> QED
      BY <1>1, <2>4, <2>5, <3>1 DEF Placed
  <2>8. DownNumbered(s)'
    <3>1. \A p \in net : DownData(p, s) => Failure(p)
      <4>1. \A p \in net : p.seq \in Nat
        BY TypeParts DEF IInv, NetTyped, Packets, Seqs
      <4> QED
        BY <2>4, <2>6, <4>1 DEF ExactDown, DownNumbered
    <3>2. \A p \in net' : DownData(p, s) => Failure(p)
      BY <1>3, <2>6, <3>1 DEF Failure
    <3>3. ~Answered(s)' /\ down'[s] = 0
      BY <1>1, <2>1, <2>4 DEF Answered, destVars
    <3> QED
      BY <2>1, <3>2, <3>3 DEF DownNumbered, DownData, Failure
  <2>9. Receiving(s)' => DownContent(s)'
    <3> SUFFICES ASSUME Receiving(s)' PROVE DownContent(s)'
      OBVIOUS
    <3>1. DownContent(s)
      BY <1>1, <2>4 DEF ExactDown, Receiving, Rejected, clientVars
    <3>2. nextSeq'[s] = nextSeq[s] /\ UNCHANGED <<cpc, crecv, recvCh, got>>
      BY <1>1, <2>1, <2>6 DEF clientVars
    <3> QED
      BY <3>1, <3>2 DEF DownContent, Holds, Counted, Taken
  <2>10. ExactUp(s)'
    <3>1. Queue(s)' = <<>> /\ Pending(s)' = <<>> /\ up'[s] = <<>> /\ Found(s)'
      BY <1>1, <2>1, <2>4 DEF Queue, Pending, Found, destVars
    <3>2. srecv'[s].expected = 0 /\ srecv'[s].held = {} /\ Len(<<>>) = 0 /\ 0 + 0 + 0 = 0
      BY <2>1, EmptySeq DEF NoBuffer
    <3>3. Holds(srecv[s], wrote[s], 1)'
      <4>1. 0 <= wrote[s] /\ wrote'[s] = wrote[s]
        BY <1>1, ExactTypes DEF clientVars
      <4> QED
        BY <3>2, <4>1 DEF Holds
    <3>4. UpContent(s)'
      BY <3>1, <3>2, <3>3 DEF UpContent, Counted
    <3> QED
      BY <2>1, <3>1, <3>4 DEF ExactUp, BufferAfterEntry
  <2> QED
    BY <2>7, <2>8, <2>9, <2>10 DEF ExactDown
<1> QED
  BY <1>1, <1>2, <1>3, <1>4, GoRemoveExact

\* The writer fails or the relay ends: the stream was dialled and has no entry
\* any more.
LEMMA EndingExact ==
    ASSUME IInv, IInv', EInv, NEW g \in Openers, WriterFails(g) \/ RelayExits(g)
    PROVE  EInv'
<1>1. /\ UNCHANGED <<clientVars, sid, opener, loop, destVars, removed, dropped>>
      /\ RemoveStream(sid[g]) /\ net' \subseteq net \cup {CloseDown(sid[g])}
  BY DEF WriterFails, RelayExits, Transmit, endVars
<1>2. opener[g] \in {"connected", "done"} /\ g \in dialled
  BY DEF WriterFails, RelayExits, IInv, AfterDial
<1>3. PICK s \in Streams : s = sid[g]
  BY <1>2 DEF IInv, SidKnown
<1>4. \A h \in Openers : h # g => relay'[h] = relay[h]
  BY TypeParts DEF WriterFails, RelayExits, RelayTo, IInv, GoTyped
<1>5. \A p \in net' : p \in net \/ (p.dir = "down" /\ p.s = sid[g])
  BY <1>1 DEF CloseDown, Packet
<1>6. ~Sole(s)'
  <2>1. streams'[s] = 0 /\ g # 0
    BY <1>1, <1>3, RemoveExact DEF Openers
  <2> QED
    BY <1>1, <1>2, <1>3, <2>1 DEF Sole, destVars
<1> QED
  BY <1>1, <1>2, <1>3, <1>4, <1>5, <1>6, GoRemoveExact

\* A goroutine goes on without touching the session or a payload.
LEMMA GoStillExact ==
    ASSUME IInv, IInv', EInv, NEW g \in Openers, opener[g] \notin {"idle", "spawned"},
           UNCHANGED <<clientVars, netVars, mapVars, sid, writeCh, loop, up, down, removed,
                       dropped>>,
           dialled \subseteq dialled', dialled' \subseteq dialled \cup {g},
           opener'[g] = opener[g] \/ (opener[g] = "dial" /\ opener'[g] = "connected"),
           \A h \in Openers : h # g => opener'[h] = opener[h] /\ relay'[h] = relay[h],
           relay'[g] = "got" <=> relay[g] = "got"
    PROVE  EInv'
<1>1. PICK s \in Streams : s = sid[g]
  BY DEF IInv, SidKnown
<1>2. EntryOpen'
  BY DEF EInv, EntryOpen, mapVars
<1>3. ASSUME Sole(s)' PROVE Placed(s)' /\ ExactDown(s)' /\ ExactUp(s)'
  <2>1. Sole(s)
    BY <1>3, SoleKept DEF mapVars, clientVars
  <2>2. Placed(s)'
    BY <2>1 DEF EInv, Placed, mapVars
  <2>3. Pending(s)' = Pending(s) /\ Found(s)'
    BY <2>1 DEF EInv, ExactUp, Pending, Found, mapVars
  <2>4. streams[s] # 0 =>
          /\ opener'[streams[s]] = "done" <=> opener[streams[s]] = "done"
          /\ opener'[streams[s]] = "entered" => opener[streams[s]] = "entered"
          /\ relay'[streams[s]] = "got" <=> relay[streams[s]] = "got"
    BY ExactTypes
  <2>5. ExactDown(s)' /\ ExactUp(s)'
    BY <2>1, <2>3, <2>4, OtherExact DEF mapVars, netVars
  <2> QED
    BY <2>2, <2>5
<1> QED
  BY <1>1, <1>2, <1>3, GoExact DEF mapVars, netVars

\* The dial succeeds, the writer starts or ends, the relay stops reading.
LEMMA StillExact ==
    ASSUME IInv, IInv', EInv, NEW g \in Openers,
           DialSucceeds(g) \/ WriterStarts(g) \/ WriterEnds(g) \/ RelayEnds(g)
    PROVE  EInv'
<1>1. UNCHANGED <<clientVars, netVars, mapVars, sid, writeCh, loop, up, down, removed, dropped>>
  BY DEF DialSucceeds, WriterStarts, WriterEnds, RelayEnds, objVars, destVars, endVars
<1>2. GoTyped
  BY TypeParts DEF IInv
<1>3. opener[g] \notin {"idle", "spawned"}
  BY DEF DialSucceeds, WriterStarts, WriterEnds, RelayEnds, IInv, AfterDial
<1>4. /\ opener'[g] = opener[g] \/ (opener[g] = "dial" /\ opener'[g] = "connected")
      /\ \A h \in Openers : h # g => opener'[h] = opener[h] /\ relay'[h] = relay[h]
      /\ relay'[g] = "got" <=> relay[g] = "got"
  BY <1>2 DEF DialSucceeds, WriterStarts, WriterEnds, RelayEnds, OpenerTo, RelayTo, GoTyped
<1>5. dialled \subseteq dialled' /\ dialled' \subseteq dialled \cup {g}
  BY DEF DialSucceeds, WriterStarts, WriterEnds, RelayEnds, destVars
<1> QED
  BY <1>1, <1>3, <1>4, <1>5, GoStillExact

\* An opener enters its stream, which has no entry and was not dialled, or finds
\* the entry of another and returns.
LEMMA EnterExact ==
    ASSUME IInv, IInv', EInv, NEW g \in Openers, EnterStream(g)
    PROVE  EInv'
<1>1. /\ UNCHANGED <<clientVars, netVars, srecv, sid, writer, relay, conn, loop, endVars,
                     destVars, dropped>>
      /\ opener[g] = "spawned"
  BY DEF EnterStream
<1>2. PICK s \in Streams : s = sid[g]
  BY <1>1 DEF IInv, SidKnown
<1>3. MapTyped /\ GoTyped /\ ObjTyped
  BY TypeParts DEF IInv
<1>4. /\ opener'[g] \in {"done", "entered"}
      /\ \A h \in Openers : h # g => opener'[h] = opener[h]
  BY <1>3 DEF EnterStream, OpenerTo, GoTyped
<1>5. \A h \in Openers : writeCh'[h].q = writeCh[h].q
  <2>1. writeCh' = writeCh \/ writeCh' = [writeCh EXCEPT ![g].st = "open"]
    BY DEF EnterStream
  <2>2. writeCh \in [Openers -> [st : {"none", "open", "closed"}, q : Seq(Payloads)]]
    BY <1>3 DEF ObjTyped, Channels
  <2>3. [writeCh[g] EXCEPT !.st = "open"].q = writeCh[g].q
    BY <2>2
  <2> QED
    BY <2>1, <2>2, <2>3
<1>6. \A t \in Streams : t # s => streams'[t] = streams[t]
  BY <1>2, <1>3 DEF EnterStream, MapTyped
<1>7. EntryOpen'
  <2>1. \A t \in Streams : streams'[t] # 0 => streams'[t] = streams[t] \/ streams'[t] = g
    BY <1>2, <1>3, <1>6 DEF EnterStream, MapTyped
  <2>2. \A h \in Openers : writeCh[h].st = "open" => writeCh'[h].st = "open"
    <3>1. writeCh' = writeCh \/ writeCh' = [writeCh EXCEPT ![g].st = "open"]
      BY DEF EnterStream
    <3> QED
      BY <1>3, <3>1 DEF ObjTyped, Channels
  <2>3. \A t \in Streams : streams[t] # 0 => streams[t] \in Openers
    BY ExactTypes
  <2>4. CASE streams[s] # 0
    BY <1>2, <2>2, <2>3, <2>4 DEF EnterStream, EInv, EntryOpen
  <2>5. CASE streams[s] = 0
    <3>1. writeCh'[g].st = "open"
      BY <1>2, <1>3, <2>5 DEF EnterStream, ObjTyped, Channels
    <3> QED
      BY <2>1, <2>2, <2>3, <3>1 DEF EInv, EntryOpen
  <2> QED
    BY <2>4, <2>5
<1>8. g \notin dialled /\ dialled \subseteq Openers
  BY <1>1, TypeParts DEF IInv, DestTyped, AfterDial
<1>9. ASSUME Sole(s)', streams[s] # 0 PROVE Placed(s)' /\ ExactDown(s)' /\ ExactUp(s)'
  <2>1. UNCHANGED <<streams, nextSeq>> /\ opener'[g] = "done"
    BY <1>2, <1>3, <1>9 DEF EnterStream, OpenerTo, GoTyped
  <2>2. Sole(s)
    BY <1>1, <1>9, <2>1, SoleKept DEF endVars, destVars, clientVars
  <2>3. Placed(s)'
    BY <1>1, <1>4, <2>1, <2>2 DEF EInv, Placed
  <2>4. Pending(s)' = Pending(s) /\ Found(s)'
    BY <1>1, <2>1, <2>2 DEF EInv, ExactUp, Pending, Found
  <2>5. streams[s] \in Openers /\ streams[s] # g
    BY <1>1, <1>9, ExactTypes DEF IInv, EntryOwned, AfterDial
  <2>6. ExactDown(s)' /\ ExactUp(s)'
    BY <1>1, <1>4, <1>5, <2>1, <2>2, <2>4, <2>5, OtherExact DEF netVars, destVars
  <2> QED
    BY <2>3, <2>6
<1>10. ASSUME Sole(s)', streams[s] = 0 PROVE Placed(s)' /\ ExactDown(s)' /\ ExactUp(s)'
  <2>1. streams'[s] = g /\ nextSeq'[s] = 0 /\ opener'[g] = "entered"
    BY <1>2, <1>3, <1>10 DEF EnterStream, MapTyped, GoTyped, OpenerTo
  <2>2. ~Dialled(s)
    BY <1>1, <1>8, <1>10, <2>1 DEF Sole, Dialled, destVars
  <2>3. Sole(s)
    BY <1>1, <1>10, <2>2 DEF Sole, Dialled, clientVars, endVars
  <2>4. /\ Placed(s) /\ ExactDown(s) /\ ExactUp(s)
        /\ up[s] = <<>> /\ down[s] = 0 /\ loop.s # s
    BY <2>2, <2>3 DEF EInv, NotPassed, Sole
  <2>5. Placed(s)'
    <3>1. \A h \in Openers : h # 0
      BY DEF Openers
    <3> QED
      BY <1>1, <1>4, <1>10, <2>1, <2>4, <3>1 DEF Placed
  <2>6. nextSeq[s] = 0
    BY <1>10, <2>4 DEF ExactDown, DownNumbered, Answered
  <2>7. DownNumbered(s)'
    <3>1. ~Answered(s)' /\ down'[s] = 0 /\ nextSeq'[s] = nextSeq[s] /\ net' = net
      BY <1>1, <2>1, <2>4, <2>6 DEF Answered, destVars, netVars
    <3>2. \A p \in net' : DownData(p, s) =>
            Failure(p) \/ (p.seq < nextSeq'[s] /\ p.v = Val(p.seq))
      BY <2>4, <3>1 DEF ExactDown, DownNumbered
    <3> QED
      BY <2>1, <3>1, <3>2 DEF DownNumbered, DownData, Failure
  <2>8. Receiving(s)' => DownContent(s)'
    <3> SUFFICES ASSUME Receiving(s)' PROVE DownContent(s)'
      OBVIOUS
    <3>1. DownContent(s)
      BY <1>1, <2>4 DEF ExactDown, Receiving, Rejected, clientVars
    <3>2. nextSeq'[s] = nextSeq[s] /\ UNCHANGED <<cpc, crecv, recvCh, got>>
      BY <1>1, <2>1, <2>6 DEF clientVars
    <3> QED
      BY <3>1, <3>2 DEF DownContent, Holds, Counted, Taken
  <2>9. srecv'[s] = NoBuffer
    BY <1>1, <1>10, <2>4 DEF ExactUp, BufferAfterEntry
  <2>10. Queue(s)' = <<>>
    <3>1. writeCh'[g].q = <<>> /\ g # 0
      BY <1>1, <1>5 DEF EInv, NotEntered, Openers
    <3> QED
      BY <2>1, <3>1 DEF Queue
  <2>11. ExactUp(s)'
    <3>1. Pending(s)' = <<>> /\ up'[s] = <<>> /\ Found(s)'
      BY <1>1, <2>4 DEF Pending, Found, destVars
    <3>2. srecv'[s].expected = 0 /\ srecv'[s].held = {} /\ Len(<<>>) = 0 /\ 0 + 0 + 0 = 0
      BY <2>9, EmptySeq DEF NoBuffer
    <3>3. Holds(srecv[s], wrote[s], 1)'
      <4>1. 0 <= wrote[s] /\ wrote'[s] = wrote[s]
        BY <1>1, ExactTypes DEF clientVars
      <4> QED
        BY <3>2, <4>1 DEF Holds
    <3>4. UpContent(s)'
      BY <2>10, <3>1, <3>2, <3>3 DEF UpContent, Counted
    <3> QED
      BY <2>9, <3>1, <3>4 DEF ExactUp, BufferAfterEntry
  <2> QED
    BY <2>5, <2>7, <2>8, <2>11 DEF ExactDown
<1>11. \A t \in Streams : t # s => nextSeq'[t] = nextSeq[t]
  BY <1>2, <1>3 DEF EnterStream, MapTyped
<1>12. UNCHANGED <<removed, dropped, up, down, dialled, net, relay>>
  BY <1>1 DEF endVars, destVars, netVars
<1> QED
  BY <1>1, <1>2, <1>4, <1>5, <1>6, <1>7, <1>9, <1>10, <1>11, <1>12, GoExact

\* The recv buffer of the entry is new and takes up where it was, or there is
\* none and it takes nothing.
LEMMA CreateExact ==
    ASSUME IInv, IInv', EInv, NEW g \in Openers, CreateRecvBuffer(g)
    PROVE  EInv'
<1>1. /\ UNCHANGED <<clientVars, net, streams, nextSeq, sid, writer, relay, writeCh, loop,
                     up, down, dialled, removed, dropped>>
      /\ opener[g] = "entered"
  BY DEF CreateRecvBuffer, netVars, objVars, destVars, endVars
<1>2. PICK s \in Streams : s = sid[g]
  BY <1>1 DEF IInv, SidKnown
<1>3. MapTyped /\ GoTyped
  BY TypeParts DEF IInv
<1>4. /\ opener'[g] = "dial" /\ \A h \in Openers : h # g => opener'[h] = opener[h]
      /\ srecv'[s] = srecv[s] \/ srecv'[s] = NewBuffer
      /\ \A t \in Streams : t # s => srecv'[t] = srecv[t]
  BY <1>2, <1>3 DEF CreateRecvBuffer, OpenerTo, GoTyped, MapTyped
<1>5. EntryOpen'
  BY <1>1 DEF EInv, EntryOpen
<1>6. srecv'[s].held \subseteq srecv[s].held
  BY <1>4 DEF NewBuffer
<1>7. ASSUME Sole(s)' PROVE Placed(s)' /\ ExactDown(s)' /\ ExactUp(s)'
  <2>1. Sole(s)
    BY <1>1, <1>7, SoleKept DEF clientVars
  <2>2. Placed(s) /\ ExactDown(s) /\ ExactUp(s)
    BY <2>1 DEF EInv
  <2>3. streams[s] = g /\ g # 0
    BY <1>1, <1>2, <2>2 DEF Placed, Openers
  <2>4. Placed(s)'
    BY <1>1, <1>4, <2>2, <2>3 DEF Placed
  <2>5. ExactDown(s)'
    <3>1. Receiving(s)' => Receiving(s)
      BY <1>1 DEF Receiving, Rejected, clientVars
    <3> QED
      BY <1>1, <1>4, <2>2, <2>3, <3>1, ExactTypes, DownFrame DEF clientVars
  <2>6. srecv[s] = NoBuffer
    BY <1>1, <2>2, <2>3 DEF ExactUp, BufferAfterEntry
  <2>7. srecv'[s].expected = srecv[s].expected /\ srecv'[s].held = srecv[s].held
    BY <1>4, <2>6 DEF NoBuffer, NewBuffer
  <2>8. BufferAfterEntry(s)' /\ Found(s)'
    BY <1>1, <1>4, <2>2, <2>3 DEF ExactUp, BufferAfterEntry, Found
  <2>9. Holds(srecv[s], wrote[s], 1)'
    BY <1>1, <2>2, <2>7 DEF ExactUp, UpContent, Holds, clientVars
  <2>10. Pending(s)' = Pending(s) /\ Queue(s)' = Queue(s)
    BY <1>1 DEF Pending, Queue
  <2>11. UpContent(s)'
    BY <1>1, <2>2, <2>7, <2>9, <2>10 DEF ExactUp, UpContent, Counted
  <2> QED
    BY <2>4, <2>5, <2>8, <2>11 DEF ExactUp
<1> QED
  BY <1>1, <1>2, <1>4, <1>5, <1>6, <1>7, GoExact

\* A goroutine whose dial succeeded sends the payload with the next number.
LEMMA GoSendExact ==
    ASSUME IInv, IInv', EInv, NEW g \in Openers, NEW s \in Streams, s = sid[g], NEW k \in Nat,
           UNCHANGED <<clientVars, sid, streams, srecv, writeCh, loop, up, down, dialled, removed,
                       dropped>>,
           g \in dialled, opener[g] \in {"connected", "done"}, opener'[g] = "done",
           \A h \in Openers : h # g => opener'[h] = opener[h] /\ relay'[h] = relay[h],
           \E v \in Payloads :
               /\ SendNumbered(s, v) \/ (removed /\ UNCHANGED <<net, nextSeq>>)
               /\ Sole(s) => v = Val(k) /\ k = nextSeq[s] /\ k = down[s],
           relay'[g] # "got"
    PROVE  EInv'
<1>1. PICK v \in Payloads :
        /\ SendNumbered(s, v) \/ (removed /\ UNCHANGED <<net, nextSeq>>)
        /\ Sole(s) => v = Val(k) /\ k = nextSeq[s] /\ k = down[s]
  OBVIOUS
<1>2. PICK p : p = Packet("down", "data", s, NextSeq(s), v)
  OBVIOUS
<1>3. /\ p.dir = "down" /\ p.type = "data" /\ p.s = s /\ p.v = v /\ p.seq = NextSeq(s)
      /\ net' \subseteq net \cup {p}
      /\ \A t \in Streams : t # s => nextSeq'[t] = nextSeq[t]
  <2>1. nextSeq \in [Streams -> Seqs]
    BY TypeParts DEF IInv, MapTyped
  <2> QED
    BY <1>1, <1>2, <2>1 DEF Packet, SendNumbered, Transmit
<1>4. EntryOpen'
  BY DEF EInv, EntryOpen
<1>5. ASSUME Sole(s)' PROVE Placed(s)' /\ ExactDown(s)' /\ ExactUp(s)'
  <2>1. Sole(s)
    BY <1>5, SoleKept DEF clientVars
  <2>2. Placed(s) /\ ExactDown(s) /\ ExactUp(s) /\ ~removed
    BY <2>1 DEF EInv, Sole
  <2>3. streams[s] = g /\ streams[s] # 0
    BY <2>1, SoleOpener
  <2>4. k = nextSeq[s] /\ k = down[s] /\ p.seq = k /\ p.v = Val(k) /\ nextSeq'[s] = k + 1
    <3>1. nextSeq \in [Streams -> Seqs] /\ SendNumbered(s, v)
      BY <1>1, <2>2, TypeParts DEF IInv, MapTyped
    <3> QED
      BY <1>1, <1>3, <2>1, <2>3, <3>1 DEF NextSeq, SendNumbered
  <2>5. DownNumbered(s)'
    <3>1. \A r \in net : r.seq \in Nat
      BY TypeParts DEF IInv, NetTyped, Packets, Seqs
    <3>2. \A r \in net' : DownData(r, s) =>
            Failure(r) \/ (r.seq < k + 1 /\ r.v = Val(r.seq))
      BY <1>3, <2>2, <2>4, <3>1 DEF ExactDown, DownNumbered, DownData
    <3> QED
      BY <2>3, <2>4, <3>2 DEF DownNumbered, DownData, Answered, Failure
  <2>6. Receiving(s)' => DownContent(s)'
    <3> SUFFICES ASSUME Receiving(s)' PROVE DownContent(s)'
      OBVIOUS
    <3>1. DownContent(s)
      BY <2>2 DEF ExactDown, Receiving, Rejected, clientVars
    <3>2. Holds(crecv[s], nextSeq[s], 0)'
      <4>1. crecv[s] \in Buffers /\ crecv'[s] = crecv[s]
        BY ExactTypes DEF clientVars
      <4>2. crecv[s].expected \in Nat /\ \A r \in crecv[s].held : r.seq \in Nat
        BY <4>1, MaxSeqs DEF Buffers, Seqs
      <4> QED
        BY <2>4, <3>1, <4>1, <4>2 DEF DownContent, Holds
    <3> QED
      BY <3>1, <3>2 DEF DownContent, Taken, Counted, clientVars
  <2>7. /\ Pending(s)' = Pending(s) /\ wrote'[s] = wrote[s] /\ wrote[s] <= wrote[s]
        /\ Found(s)'
    BY <2>2, ExactTypes DEF ExactUp, Pending, Found, clientVars
  <2>8. ExactUp(s)'
    BY <2>2, <2>3, <2>7, ExactTypes, UpFrame
  <2>9. Placed(s)'
    BY <2>2, <2>3 DEF Placed
  <2> QED
    BY <2>5, <2>6, <2>8, <2>9 DEF ExactDown
<1> QED
  BY <1>3, <1>4, <1>5, GoExact

\* The result of the dial is the payload with number 0.
LEMMA ConnectedExact ==
    ASSUME IInv, IInv', EInv, NEW g \in Openers, Connected(g)
    PROVE  EInv'
<1>1. /\ UNCHANGED <<clientVars, sid, streams, srecv, writeCh, loop, up, down, dialled, removed,
                     dropped>>
      /\ opener[g] = "connected" /\ g \in dialled
      /\ SendNumbered(sid[g], Ok) \/ (removed /\ UNCHANGED <<net, nextSeq>>)
  BY DEF Connected, SendResult, objVars, destVars, endVars, IInv, AfterDial
<1>2. PICK s \in Streams : s = sid[g]
  BY <1>1 DEF IInv, SidKnown
<1>3. /\ opener'[g] = "done" /\ relay'[g] # "got"
      /\ \A h \in Openers : h # g => opener'[h] = opener[h] /\ relay'[h] = relay[h]
  BY TypeParts DEF Connected, OpenerTo, IInv, GoTyped
<1>4. Sole(s) => nextSeq[s] = 0 /\ down[s] = 0
  <2> SUFFICES ASSUME Sole(s) PROVE nextSeq[s] = 0 /\ down[s] = 0
    OBVIOUS
  <2>1. streams[s] = g
    BY <1>1, <1>2, SoleOpener
  <2> QED
    BY <1>1, <2>1 DEF EInv, ExactDown, DownNumbered, Answered
<1>5. Val(0) = Ok /\ Ok \in Payloads /\ 0 \in Nat
  BY DataTypes DEF Val
<1> QED
  BY <1>1, <1>2, <1>3, <1>4, <1>5, GoSendExact

\* The relay sends the payload it has read with the number it has among those
\* read.
LEMMA RelaySendsExact ==
    ASSUME IInv, IInv', EInv, NEW g \in Openers, RelaySends(g)
    PROVE  EInv'
<1>1. /\ UNCHANGED <<clientVars, sid, streams, srecv, opener, writeCh, loop, up, down, dialled,
                     removed, dropped>>
      /\ relay[g] = "got" /\ SendNumbered(sid[g], Data(down[sid[g]]))
  BY DEF RelaySends, objVars, destVars, endVars
<1>2. opener[g] = "done" /\ down[sid[g]] >= 1 /\ g \in dialled
  BY <1>1 DEF IInv, AfterDial
<1>3. PICK s \in Streams : s = sid[g]
  BY <1>2 DEF IInv, SidKnown
<1>4. relay'[g] = "read" /\ \A h \in Openers : h # g => relay'[h] = relay[h]
  BY TypeParts DEF RelaySends, RelayTo, IInv, GoTyped
<1>5. PICK k \in Nat : k = down[s]
  BY ExactTypes
<1>6. k # 0 /\ Data(k) \in Payloads
  <2>1. down[s] \in 0..MaxData /\ MaxData \in Nat
    BY TypeParts, StreamsAssumption DEF IInv, DestTyped
  <2>2. k \in 1..MaxData /\ k # 0
    BY <1>2, <1>3, <1>5, <2>1
  <2> QED
    BY <2>2, DataTypes
<1>7. Val(k) = Data(k)
  BY <1>6 DEF Val
<1>8. Sole(s) => k = nextSeq[s]
  <2> SUFFICES ASSUME Sole(s) PROVE k = nextSeq[s]
    OBVIOUS
  <2>1. streams[s] = g /\ streams[s] # 0
    BY <1>2, <1>3, SoleOpener
  <2> QED
    BY <1>1, <1>2, <1>5, <2>1 DEF EInv, ExactDown, DownNumbered, Answered
<1>9. SendNumbered(s, Data(k)) /\ (Sole(s) => Data(k) = Val(k) /\ k = nextSeq[s] /\ k = down[s])
  BY <1>1, <1>3, <1>5, <1>7, <1>8
<1>10. /\ opener[g] \in {"connected", "done"} /\ opener'[g] = "done" /\ relay'[g] # "got"
       /\ \A h \in Openers : h # g => opener'[h] = opener[h] /\ relay'[h] = relay[h]
  BY <1>1, <1>2, <1>4
<1> QED
  BY <1>1, <1>2, <1>3, <1>6, <1>9, <1>10, GoSendExact

\* The relay reads the next payload and finds the entry.
LEMMA RelayReadsExact ==
    ASSUME IInv, IInv', EInv, NEW g \in Openers, RelayReads(g)
    PROVE  EInv'
<1>1. /\ UNCHANGED <<clientVars, net, mapVars, opener, sid, writeCh, loop, up, dialled, removed,
                     dropped>>
      /\ relay[g] = "read" /\ opener[g] = "done" /\ g \in dialled
  BY DEF RelayReads, IInv, AfterDial, netVars, objVars, endVars
<1>2. PICK s \in Streams : s = sid[g]
  BY <1>1 DEF IInv, SidKnown
<1>3. /\ down'[s] = down[s] + 1 /\ \A t \in Streams : t # s => down'[t] = down[t]
      /\ streams[s] # 0 => relay'[g] = "got"
      /\ \A h \in Openers : h # g => relay'[h] = relay[h]
  BY <1>2, TypeParts DEF RelayReads, RelayTo, IInv, GoTyped, DestTyped
<1>4. EntryOpen'
  BY <1>1 DEF EInv, EntryOpen, mapVars
<1>5. ASSUME Sole(s)' PROVE Placed(s)' /\ ExactDown(s)' /\ ExactUp(s)'
  <2>1. Sole(s)
    BY <1>1, <1>5, SoleKept DEF mapVars, clientVars
  <2>2. Placed(s) /\ ExactDown(s) /\ ExactUp(s)
    BY <2>1 DEF EInv
  <2>3. streams[s] = g /\ streams[s] # 0 /\ streams'[s] = g
    BY <1>1, <1>2, <2>1, SoleOpener DEF mapVars
  <2>4. nextSeq[s] = down[s] + 1
    BY <1>1, <2>2, <2>3 DEF ExactDown, DownNumbered, Answered
  <2>5. DownNumbered(s)'
    <3>1. \A p \in net : DownData(p, s) =>
            Failure(p) \/ (p.seq < nextSeq[s] /\ p.v = Val(p.seq))
      BY <2>2 DEF ExactDown, DownNumbered
    <3>2. nextSeq'[s] = down'[s] /\ relay'[g] = "got" /\ opener'[g] = "done"
      BY <1>1, <1>3, <2>3, <2>4 DEF mapVars
    <3> QED
      BY <1>1, <2>3, <3>1, <3>2 DEF DownNumbered, DownData, Answered, Failure, mapVars
  <2>6. Receiving(s)' => DownContent(s)'
    <3>1. Receiving(s)' => DownContent(s)
      BY <1>1, <2>2 DEF ExactDown, Receiving, Rejected, clientVars
    <3> QED
      BY <1>1, <3>1 DEF DownContent, Holds, Taken, Counted, clientVars, mapVars
  <2>7. /\ Pending(s)' = Pending(s) /\ wrote'[s] = wrote[s] /\ wrote[s] <= wrote[s]
        /\ Found(s)' /\ Placed(s)'
    BY <1>1, <2>2, ExactTypes DEF ExactUp, Pending, Found, Placed, clientVars, mapVars
  <2>8. ExactUp(s)'
    BY <1>1, <2>2, <2>3, <2>7, ExactTypes, UpFrame DEF mapVars
  <2> QED
    BY <2>5, <2>6, <2>7, <2>8 DEF ExactDown
<1> QED
  BY <1>1, <1>2, <1>3, <1>4, <1>5, GoExact DEF mapVars

\* The writer takes the next payload from the channel to the destination.
LEMMA WriterWritesExact ==
    ASSUME IInv, IInv', EInv, NEW g \in Openers, WriterWrites(g)
    PROVE  EInv'
<1>1. /\ UNCHANGED <<clientVars, net, mapVars, goVars, loop, down, dialled, removed, dropped>>
      /\ writer[g] = "range" /\ writeCh[g].q # <<>>
      /\ opener[g] \in {"connected", "done"} /\ g \in dialled
  BY DEF WriterWrites, IInv, AfterDial, netVars, endVars
<1>2. PICK s \in Streams : s = sid[g]
  BY <1>1 DEF IInv, SidKnown
<1>3. PICK q : q = writeCh[g].q
  OBVIOUS
<1>4. /\ up'[s] = Append(up[s], Head(q)) /\ \A t \in Streams : t # s => up'[t] = up[t]
      /\ writeCh'[g].q = Tail(q) /\ writeCh'[g].st = writeCh[g].st
      /\ \A h \in Openers : h # g => writeCh'[h] = writeCh[h]
  <2>1. writeCh \in [Openers -> Channels] /\ up \in [Streams -> Seq(Payloads)]
    BY TypeParts DEF IInv, ObjTyped, DestTyped
  <2> QED
    BY <1>2, <1>3, <2>1 DEF WriterWrites, Channels
<1>5. EntryOpen'
  <2>1. \A t \in Streams : streams[t] # 0 => streams[t] \in Openers
    BY ExactTypes
  <2> QED
    BY <1>1, <1>4, <2>1 DEF EInv, EntryOpen, mapVars
<1>6. ASSUME Sole(s)' PROVE Placed(s)' /\ ExactDown(s)' /\ ExactUp(s)'
  <2>1. Sole(s)
    BY <1>1, <1>6, SoleKept DEF mapVars, goVars, clientVars
  <2>2. Placed(s) /\ ExactDown(s) /\ ExactUp(s)
    BY <2>1 DEF EInv
  <2>3. streams[s] = g /\ streams[s] # 0 /\ streams'[s] = g
    BY <1>1, <1>2, <2>1, SoleOpener DEF mapVars
  <2>4. ExactDown(s)'
    <3>1. Receiving(s)' => Receiving(s)
      BY <1>1 DEF Receiving, Rejected, clientVars
    <3> QED
      BY <1>1, <2>2, <3>1, ExactTypes, DownFrame DEF goVars, mapVars, clientVars
  <2>5. Placed(s)' /\ BufferAfterEntry(s)' /\ Found(s)'
    BY <1>1, <2>2 DEF ExactUp, Placed, BufferAfterEntry, Found, goVars, mapVars
  <2>6. UpContent(s)'
    <3>1. q \in Seq(Payloads) /\ up[s] \in Seq(Payloads)
      BY <1>3, ExactTypes
    <3>2. PICK rest : rest = Tail(q)
      OBVIOUS
    <3>3. PICK n \in Nat : n = Len(up[s])
      BY ExactTypes
    <3>4. PICK w : w = Pending(s)
      OBVIOUS
    <3>5. Pending(s)' = w
      BY <1>1, <3>4 DEF Pending
    <3>6. PICK m \in Nat : m = Len(w)
      BY <3>4, ExactTypes, EmptySeq DEF Pending
    <3>7. /\ srecv[s].expected = n + Len(q) + m
          /\ Counted(up[s], 1) /\ Counted(q, n + 1) /\ Counted(w, n + Len(q) + 1)
      BY <1>3, <2>2, <2>3, <3>3, <3>4, <3>6 DEF ExactUp, UpContent, Queue
    <3>8. /\ Head(q) = Val(n + 1) /\ Head(q) \in Payloads
          /\ Counted(rest, n + 1 + 1) /\ rest \in Seq(Payloads)
          /\ Len(rest) + 1 = Len(q)
      <4>1. q \in Seq(Payloads) /\ q # <<>> /\ n + 1 \in Nat /\ Counted(q, n + 1)
        BY <1>1, <1>3, <3>1, <3>7
      <4> QED
        BY <3>2, <4>1, CountedTail
    <3>9. PICK k \in Nat : k = Len(rest)
      BY <3>8, LenProperties
    <3>10. Counted(up'[s], 1) /\ Len(up'[s]) = n + 1
      <4>1. /\ up[s] \in Seq(Payloads) /\ Counted(up[s], 1) /\ 1 \in Nat
            /\ Head(q) \in Payloads /\ Head(q) = Val(Len(up[s]) + 1)
        BY <3>1, <3>3, <3>7, <3>8
      <4>2. /\ Counted(Append(up[s], Head(q)), 1)
            /\ Len(Append(up[s], Head(q))) = Len(up[s]) + 1
        BY <4>1, CountedAppend
      <4> QED
        BY <1>4, <3>3, <4>2
    <3>11. srecv[s].expected = (n + 1) + k + m /\ Counted(w, (n + 1) + k + 1)
      <4>1. n + (k + 1) + m = (n + 1) + k + m /\ n + (k + 1) + 1 = (n + 1) + k + 1
        OBVIOUS
      <4> QED
        BY <3>7, <3>8, <3>9, <4>1
    <3>12. Queue(s)' = rest /\ srecv' = srecv /\ wrote' = wrote
      BY <1>1, <1>4, <2>3, <3>2 DEF Queue, mapVars, clientVars
    <3>13. Holds(srecv[s], wrote[s], 1)'
      BY <2>2, <3>12 DEF ExactUp, UpContent, Holds
    <3> QED
      BY <3>5, <3>6, <3>8, <3>9, <3>10, <3>11, <3>12, <3>13 DEF UpContent, Counted
  <2> QED
    BY <2>4, <2>5, <2>6 DEF ExactUp
<1> QED
  BY <1>1, <1>2, <1>4, <1>5, <1>6, GoExact DEF mapVars, goVars

-----------------------------------------------------------------------------
(* The theorem. *)

\* Init satisfies the invariant.
LEMMA InitEInv == Init => EInv
<1> SUFFICES ASSUME Init PROVE EInv
  OBVIOUS
<1>1. EntryOpen /\ LoopEntry /\ NotEntered
  BY DEF Init, EntryOpen, LoopEntry, NotEntered, Idle
<1>2. UpNumbered /\ Unopened
  BY StreamsAssumption DEF Init, UpNumbered, Unopened, Unsaid, NoBuffer
<1>3. Unwritten /\ CloseSent /\ NotPassed
  BY StreamsAssumption DEF Init, Unwritten, CloseSent, NotPassed, Idle
<1>4. ASSUME NEW s \in Streams PROVE Placed(s) /\ ExactDown(s) /\ ExactUp(s)
  <2>1. Placed(s)
    BY DEF Init, Placed
  <2>2. ExactDown(s)
    BY DEF Init, ExactDown, DownNumbered, Answered, Receiving
  <2>3. Queue(s) = <<>> /\ Pending(s) = <<>> /\ up[s] = <<>> /\ srecv[s] = NoBuffer
    BY StreamsAssumption DEF Init, Queue, Pending, Idle
  <2>4. NoBuffer.expected = 0 /\ NoBuffer.held = {} /\ wrote[s] = 0 /\ 0 <= 0
    BY DEF Init, NoBuffer
  <2>5. UpContent(s)
    BY <2>3, <2>4, EmptySeq DEF UpContent, Holds, Counted
  <2> QED
    BY <2>1, <2>2, <2>3, <2>5 DEF Init, ExactUp, BufferAfterEntry, Found, Idle
<1> QED
  BY <1>1, <1>2, <1>3, <1>4 DEF EInv

\* Every step preserves the invariant.
LEMMA NextEInv == ASSUME IInv, IInv', EInv, [Next]_vars PROVE EInv'
<1>1. ASSUME NEW s \in Streams, Client(s) PROVE EInv'
  BY <1>1, OpeningExact, ResultExact, ReadExact, WriteExact DEF Client
<1>2. ASSUME NEW p \in net, Arrival(p) PROVE EInv'
  BY <1>2, RecvDataExact, ClosingExact, HandleOpenExact, HandleDataExact, HandleCloseExact
  DEF Arrival
<1>3. ASSUME NEW g \in Openers, Goroutines(g) PROVE EInv'
  BY <1>3, EnterExact, CreateExact, DialFailsExact, EndingExact, StillExact, ConnectedExact,
     WriterWritesExact, RelayReadsExact, RelaySendsExact DEF Goroutines
<1>4. CASE UNCHANGED vars
  <2>1. UNCHANGED <<serverVars, up, down, dialled, recvCh, got, wrote, dropped, net, cpc, crecv,
                    registered>>
    BY <1>4 DEF vars, clientVars, netVars, destVars
  <2>2. \A s \in Streams : cpc[s] = "registered" => crecv[s] = NewBuffer
    BY DEF EInv, Unopened, Unsaid
  <2> QED
    BY <2>1, <2>2, QuietExact
<1> QED
  BY <1>1, <1>2, <1>3, <1>4, ClosingExact, RemoveSessionExact, DeliverLookupExact,
     DeliverSendExact DEF Next, Deliver

\* EInv is an invariant.
LEMMA ExactInvariance == Spec => []EInv
<1>1. IInv /\ IInv' /\ EInv /\ [Next]_vars => EInv'
  BY NextEInv
<1> QED
  BY <1>1, InitEInv, Invariance, PTL DEF Spec

\* In a stream in place the invariant says that what has been taken and what
\* waits are the first payloads of the peer.
LEMMA ExactStreams == ASSUME IInv, EInv PROVE StreamExact
<1> SUFFICES ASSUME NEW s \in Streams, InPlace(s)
             PROVE  /\ IsPrefix(got[s] \o recvCh[s], Numbered(down[s]))
                    /\ IsPrefix(up[s] \o writeCh[streams[s]].q, Numbered(wrote[s]))
  BY DEF StreamExact
<1>1. Sole(s) /\ Receiving(s) /\ Taken(s) = 1 /\ streams[s] # 0
  BY DEF InPlace, Sole, Receiving, Rejected, Taken
<1>2. ExactDown(s) /\ ExactUp(s)
  BY <1>1 DEF EInv
<1>3. down[s] \in 0..MaxData /\ wrote[s] \in 0..MaxData
  BY TypeParts DEF IInv, DestTyped, ClientTyped
<1>4. IsPrefix(got[s] \o recvCh[s], Numbered(down[s]))
  <2>1. /\ crecv[s].expected = 1 + Len(got[s]) + Len(recvCh[s])
        /\ Counted(got[s], 1) /\ Counted(recvCh[s], 1 + Len(got[s]))
    BY <1>1, <1>2 DEF ExactDown, DownContent
  <2>2. /\ got[s] \in Seq(Payloads) /\ recvCh[s] \in Seq(Payloads)
        /\ Len(got[s]) \in Nat /\ Len(recvCh[s]) \in Nat /\ nextSeq[s] \in Nat /\ down[s] \in Nat
    BY ExactTypes
  <2>3. Len(got[s]) + Len(recvCh[s]) <= down[s]
    <3>1. nextSeq[s] <= down[s] + 1
      BY <1>2, <2>2 DEF ExactDown, DownNumbered
    <3>2. crecv[s].expected <= nextSeq[s]
      BY <1>1, <1>2 DEF ExactDown, DownContent, Holds
    <3>3. PICK a \in Nat, b \in Nat : a = Len(got[s]) /\ b = Len(recvCh[s])
      BY <2>2
    <3>4. PICK n \in Nat, m \in Nat : n = nextSeq[s] /\ m = down[s]
      BY <2>2
    <3>5. 1 + a + b <= n /\ n <= m + 1
      BY <2>1, <3>1, <3>2, <3>3, <3>4
    <3>6. a + b <= m
      BY <3>5
    <3> QED
      BY <3>3, <3>4, <3>6
  <2>4. /\ Counted(got[s] \o recvCh[s], 1) /\ got[s] \o recvCh[s] \in Seq(Payloads)
        /\ Len(got[s] \o recvCh[s]) = Len(got[s]) + Len(recvCh[s])
    BY <2>1, <2>2, CountedConcat
  <2> QED
    BY <1>3, <2>3, <2>4, CountedPrefix
<1>5. IsPrefix(up[s] \o writeCh[streams[s]].q, Numbered(wrote[s]))
  <2>1. PICK q : q = writeCh[streams[s]].q
    OBVIOUS
  <2>2. PICK w : w = Pending(s)
    OBVIOUS
  <2>3. /\ srecv[s].expected = Len(up[s]) + Len(q) + Len(w)
        /\ Counted(up[s], 1) /\ Counted(q, Len(up[s]) + 1)
    BY <1>1, <1>2, <2>1, <2>2 DEF ExactUp, UpContent, Queue
  <2>4. /\ up[s] \in Seq(Payloads) /\ q \in Seq(Payloads)
        /\ Len(up[s]) \in Nat /\ Len(q) \in Nat /\ wrote[s] \in Nat
    BY <1>1, <2>1, ExactTypes
  <2>5. Len(w) \in Nat
    BY <2>2, ExactTypes, EmptySeq DEF Pending
  <2>6. Len(up[s]) + Len(q) <= wrote[s]
    <3>1. srecv[s].expected <= wrote[s]
      BY <1>2 DEF ExactUp, UpContent, Holds
    <3> QED
      BY <2>3, <2>4, <2>5, <3>1
  <2>7. /\ Counted(up[s] \o q, 1) /\ up[s] \o q \in Seq(Payloads)
        /\ Len(up[s] \o q) = Len(up[s]) + Len(q)
    <3>1. Len(up[s]) + 1 = 1 + Len(up[s])
      BY <2>4
    <3> QED
      BY <2>3, <2>4, <3>1, CountedConcat
  <2> QED
    BY <1>3, <2>1, <2>6, <2>7, CountedPrefix
<1> QED
  BY <1>4, <1>5

\* A TCP stream that was dialled once, is in place at both ends and met no full
\* channel carries both directions without a gap, a duplicate or a result byte
\* among the data: what Read has returned and recvCh holds is the beginning of
\* what the destination sent, and what the destination received and WriteCh
\* holds is the beginning of what Write was given.  Any number of other streams
\* may be open in the session, and copies of its StreamOpen may have been
\* ignored or may have failed to dial before.
THEOREM StreamsExact == Spec => []StreamExact
<1>1. IInv /\ EInv => StreamExact
  BY ExactStreams
<1> QED
  BY <1>1, Invariance, ExactInvariance, PTL

-----------------------------------------------------------------------------
(* Channels and entries. *)

\* An open channel belongs to an entry that is in the map.
OpenKept ==
    \A g \in Openers : writeCh[g].st = "open" => \E s \in Streams : streams[s] = g

\* A step that opens no channel and removes no entry.
LEMMA KeptFrame ==
    ASSUME OpenKept, UNCHANGED streams,
           \A g \in Openers : writeCh'[g].st = writeCh[g].st
    PROVE  OpenKept'
  BY DEF OpenKept

\* Removing an entry closes its channel and no other.
LEMMA KeptRemove ==
    ASSUME IInv, OpenKept, NEW s \in Streams, RemoveStream(s)
    PROVE  OpenKept'
<1>1. MapTyped /\ ObjTyped
  BY TypeParts DEF IInv
<1>2. \A t \in Streams : t # s => streams'[t] = streams[t]
  BY <1>1 DEF RemoveStream, MapTyped
<1>3. \A g \in Openers : IF g = streams[s] THEN writeCh'[g].st = "closed"
                                           ELSE writeCh'[g] = writeCh[g]
  BY <1>1, StreamsAssumption DEF RemoveStream, ObjTyped, Channels, Openers
<1> QED
  BY <1>2, <1>3 DEF OpenKept

\* An opener that enters a stream finds no entry there, and opens its own.
LEMMA KeptEnter ==
    ASSUME IInv, OpenKept, NEW g \in Openers, EnterStream(g)
    PROVE  OpenKept'
<1>1. MapTyped /\ ObjTyped
  BY TypeParts DEF IInv
<1>2. PICK s \in Streams : s = sid[g]
  BY DEF EnterStream, IInv, SidKnown
<1>3. CASE streams[s] # 0
  BY <1>2, <1>3, KeptFrame DEF EnterStream
<1>4. CASE streams[s] = 0
  <2>1. streams' = [streams EXCEPT ![s] = g]
    BY <1>2, <1>4 DEF EnterStream
  <2>2. \A t \in Streams : streams'[t] = IF t = s THEN g ELSE streams[t]
    BY <1>1, <2>1 DEF MapTyped
  <2>3. \A h \in Openers : h # g => writeCh'[h] = writeCh[h]
    BY <1>1, <1>2, <1>4 DEF EnterStream, ObjTyped
  <2>4. \A h \in Openers : h # 0
    BY DEF Openers
  <2> QED
    BY <1>4, <2>2, <2>3, <2>4 DEF OpenKept
<1> QED
  BY <1>3, <1>4

\* Filling and emptying a channel leaves it open or closed as it is.
LEMMA KeptContent ==
    ASSUME IInv, OpenKept,
           DeliverSend \/ \E g \in Openers : WriterWrites(g)
    PROVE  OpenKept'
<1>1. ObjTyped /\ UNCHANGED streams
  BY TypeParts DEF IInv, DeliverSend, WriterWrites, mapVars
<1>2. writeCh' = writeCh
      \/ \E g \in Openers : \E q : writeCh' = [writeCh EXCEPT ![g].q = q]
  <2>1. CASE DeliverSend
    <3>1. loop.g \in Openers
      BY <2>1, TypeParts, StreamsAssumption DEF DeliverSend, IInv, LoopTyped, Openers
    <3> QED
      BY <2>1, <3>1 DEF DeliverSend
  <2>2. CASE \E g \in Openers : WriterWrites(g)
    BY <2>2 DEF WriterWrites
  <2> QED
    BY <2>1, <2>2
<1>3. ASSUME NEW g \in Openers, NEW q, writeCh' = [writeCh EXCEPT ![g].q = q]
      PROVE  \A h \in Openers : writeCh'[h].st = writeCh[h].st
  <2>1. [writeCh[g] EXCEPT !.q = q].st = writeCh[g].st
    BY <1>1 DEF ObjTyped, Channels
  <2>2. writeCh'[g] = [writeCh[g] EXCEPT !.q = q]
    BY <1>1, <1>3 DEF ObjTyped
  <2>3. \A h \in Openers : h # g => writeCh'[h] = writeCh[h]
    BY <1>1, <1>3 DEF ObjTyped
  <2> QED
    BY <2>1, <2>2, <2>3
<1>4. \A g \in Openers : writeCh'[g].st = writeCh[g].st
  BY <1>2, <1>3
<1> QED
  BY <1>1, <1>4, KeptFrame

\* Removing the session closes the channel of every entry.
LEMMA KeptSession ==
    ASSUME IInv, OpenKept, RemoveSession
    PROVE  OpenKept'
<1>1. writeCh \in [Openers -> Channels]
  BY TypeParts DEF IInv, ObjTyped
<1>2. ASSUME NEW g \in Openers PROVE writeCh'[g].st # "open"
  <2>1. CASE g \in {streams[s] : s \in Streams}
    BY <1>1, <2>1 DEF RemoveSession, Channels
  <2>2. CASE g \notin {streams[s] : s \in Streams}
    BY <2>2 DEF RemoveSession, OpenKept
  <2> QED
    BY <2>1, <2>2
<1> QED
  BY <1>2 DEF OpenKept

\* Every step keeps the channels of removed entries closed.
LEMMA NextOpenKept == ASSUME IInv, OpenKept, [Next]_vars PROVE OpenKept'
<1>1. ASSUME NEW s \in Streams, Client(s) PROVE UNCHANGED <<streams, writeCh>>
  BY <1>1
  DEF Client, OpenStream, Register, SendOpen, OpenResult, OpenGivesUp, Read, Write,
      CloseStream, serverVars, mapVars, objVars
<1>2. CASE CloseTransport \/ CloseSweeps \/ CloseSocket \/ RecvLoopEnds
           \/ DeliverLookup \/ UNCHANGED vars
  BY <1>2, KeptFrame
  DEF CloseTransport, CloseSweeps, CloseSocket, RecvLoopEnds, DeliverLookup, vars, serverVars,
      mapVars, objVars
<1>3. ASSUME NEW p \in net, Arrival(p) PROVE OpenKept'
  <2>1. CASE HandleClose(p)
    <3>1. p.s \in Streams
      BY TypeParts DEF IInv, NetTyped, Packets
    <3> QED
      BY <2>1, <3>1, KeptRemove DEF HandleClose
  <2>2. CASE RecvData(p) \/ RecvClose(p) \/ HandleOpen(p) \/ HandleData(p)
    BY <2>2, KeptFrame
    DEF RecvData, RecvClose, HandleOpen, HandleData, serverVars, mapVars, objVars
  <2> QED
    BY <1>3, <2>1, <2>2 DEF Arrival
<1>4. ASSUME NEW g \in Openers, Goroutines(g) PROVE OpenKept'
  <2>1. CASE DialFails(g) \/ WriterFails(g) \/ RelayExits(g)
    <3>1. RemoveStream(sid[g])
      BY <2>1 DEF DialFails, WriterFails, RelayExits
    <3>2. sid[g] \in Streams
      <4>1. opener[g] # "idle"
        BY <2>1, TypeParts
        DEF DialFails, WriterFails, RelayExits, IInv, AfterDial
      <4> QED
        BY <4>1 DEF IInv, SidKnown
    <3> QED
      BY <3>1, <3>2, KeptRemove
  <2>2. CASE CreateRecvBuffer(g) \/ DialSucceeds(g) \/ Connected(g)
    BY <2>2, KeptFrame DEF CreateRecvBuffer, DialSucceeds, Connected, mapVars, objVars
  <2>3. CASE WriterStarts(g) \/ WriterEnds(g)
             \/ RelayReads(g) \/ RelaySends(g) \/ RelayEnds(g)
    BY <2>3, KeptFrame
    DEF WriterStarts, WriterEnds, RelayReads, RelaySends, RelayEnds, mapVars, objVars
  <2> QED
    BY <1>4, <2>1, <2>2, <2>3, KeptEnter, KeptContent DEF Goroutines
<1> QED
  BY <1>1, <1>2, <1>3, <1>4, KeptFrame, KeptContent, KeptSession DEF Next, Deliver

\* For any number of openers and removals a WriteCh is open exactly as long as
\* its entry is in the map.
THEOREM ChannelsOwned == Spec => []WriteChOwned
<1>1. Init => OpenKept
  BY DEF Init, OpenKept
<1>2. IInv /\ OpenKept /\ [Next]_vars => OpenKept'
  BY NextOpenKept
<1>3. IInv /\ EInv /\ OpenKept => WriteChOwned
  <2> SUFFICES ASSUME IInv, EInv, OpenKept, NEW g \in Openers
               PROVE  writeCh[g].st = "open" <=> \E s \in Streams : streams[s] = g
    BY DEF WriteChOwned
  <2>1. g # 0
    BY DEF Openers
  <2> QED
    BY <2>1 DEF OpenKept, EInv, EntryOpen
<1> QED
  BY <1>1, <1>2, <1>3, Invariance, ExactInvariance, PTL DEF Spec


=============================================================================
