----------------------------- MODULE UdpStreams -----------------------------
(***************************************************************************)
(* The streams of one UDP session, from the daemon's UDPTransport          *)
(* (daemon/internal/transport/udp.go) to the server's Listener and Session *)
(* (server/internal/udp): OpenStream with its result byte, Read, Write and *)
(* Close of a udpStream, handleStreamOpen with its dial, streamWriter,     *)
(* relayFromDest, RemoveStream and the removal of the whole session.       *)
(*                                                                         *)
(* A packet goes through the ARQ session (module ArqSession), so it        *)
(* arrives at least once, in any order; ARQ takes duplicates out of stream *)
(* data by their sequence number, and leaves StreamOpen and StreamClose    *)
(* alone.  Every retransmitted StreamOpen starts a goroutine of its own;   *)
(* the number of that goroutine also names the StreamState it creates.     *)
(***************************************************************************)
EXTENDS Naturals, Sequences, FiniteSets, FiniteSetsExt, SequencesExt

CONSTANTS
    Streams,   \* stream IDs the client allocates
    Datagram,  \* those it opens with StreamTypeUDP, the others are TCP
    MaxOpens,  \* model bound: StreamOpen packets that arrive
    MaxFaults, \* model bound: packets that arrive once more, and endings of
               \* the transport, its recvLoop and the session
    MaxData,   \* model bound: payloads of all streams in both directions
    ChanCap    \* capacity of recvCh and WriteCh

ASSUME StreamsAssumption ==
    /\ 0 \notin Streams /\ Datagram \subseteq Streams
    /\ MaxOpens \in Nat \ {0} /\ ChanCap \in Nat \ {0}
    /\ MaxFaults \in Nat /\ MaxData \in Nat

Openers == 1..MaxOpens

VARIABLES
    \* client
    cpc,         \* where the caller of OpenStream, then the owner, stands
    registered,  \* t.streams
    crecv,       \* recv buffers of the client's ARQ controller
    recvCh,      \* udpStream.recvCh
    done,        \* streams whose done channel is closed
    transport,   \* how far Close has come
    receiving,   \* recvLoop runs
    wrote,       \* udpStream.seq
    got,         \* history: payloads Read has returned
    \* network
    net,         \* packets in flight
    faults,
    \* server
    streams,     \* sess.streams: the opener that created the entry, 0 if none
    nextSeq,     \* sess.nextSeq
    srecv,       \* recv buffers of the session's ARQ controller
    opener,      \* handleStreamOpen goroutines
    sid,         \* the stream of an opener
    writeCh,     \* StreamState.WriteCh: state and content
    conn,        \* StreamState.Conn
    writer,      \* streamWriter goroutines
    relay,       \* relayFromDest goroutines
    loop,        \* what processLoop still has to deliver
    removed,     \* the session was removed and sess.ARQ is nil
    panicked,    \* the server process died
    \* destination and history
    up,          \* payloads the destination received
    down,        \* payloads the destination sent
    spent,       \* payloads written by both sides
    dialled,     \* openers whose dial succeeded
    dropped      \* streams that lost a payload to a full channel

connVars == <<transport, receiving>>
clientVars == <<cpc, registered, crecv, recvCh, done, connVars, wrote, got>>
netVars == <<net, faults>>
mapVars == <<streams, nextSeq, srecv>>
goVars == <<opener, sid, writer, relay>>
objVars == <<writeCh, conn>>
destVars == <<up, down, spent, dialled>>
endVars == <<removed, panicked>>
serverVars == <<mapVars, goVars, objVars, loop, endVars>>
vars == <<clientVars, netVars, serverVars, destVars, dropped>>

-----------------------------------------------------------------------------
(* Packets, payloads and recv buffers.                                     *)

Ok == <<"ok", 0>>
Fail == <<"fail", 0>>
Data(k) == <<"data", k>>
Payloads == {Ok, Fail} \cup {Data(k) : k \in 1..MaxData}

Seqs == 0..(MaxData + MaxOpens)
Packet(dir, type, s, seq, v) ==
    [dir |-> dir, type |-> type, s |-> s, seq |-> seq, v |-> v]
Open(s) == Packet("up", "open", s, 0, Ok)
CloseUp(s) == Packet("up", "close", s, 0, Ok)
CloseDown(s) == Packet("down", "close", s, 0, Ok)
Packets ==
    [dir : {"up", "down"}, type : {"open", "data", "close"}, s : Streams,
     seq : Seqs, v : Payloads]

NoBuffer == [live |-> FALSE, expected |-> 0, held |-> {}]
NewBuffer == [live |-> TRUE, expected |-> 0, held |-> {}]

Slot(seq, v) == [seq |-> seq, v |-> v]
Buffers == [live : BOOLEAN, expected : Seqs \cup {Max(Seqs) + 1},
            held : SUBSET [seq : Seqs, v : Payloads]]

\* The payloads Insert hands to deliver: the expected one and the buffered
\* ones that follow it without a gap.
Flushed(rb, seq, v) ==
    IF ~rb.live \/ seq # rb.expected THEN <<>>
    ELSE LET held == rb.held \cup {Slot(seq, v)}
             last == Max({n \in {p.seq : p \in held} :
                            \A i \in seq..n : \E p \in held : p.seq = i})
         IN  [i \in 1..(last - seq + 1) |->
                (CHOOSE p \in held : p.seq = seq + i - 1).v]

Inserted(rb, seq, v) ==
    LET next == rb.expected + Len(Flushed(rb, seq, v))
    IN  IF ~rb.live \/ seq < rb.expected \/ (\E p \in rb.held : p.seq = seq)
        THEN rb
        ELSE [rb EXCEPT
                !.expected = next,
                !.held = {p \in @ \cup {Slot(seq, v)} : p.seq >= next}]

\* Mutant: the channel has no bound.
PushedAll(ch, vs) == ch \o vs

\* A non-blocking send on a channel: what does not fit is dropped.
Pushed(ch, vs) == SubSeq(ch \o vs, 1, Min({Len(ch) + Len(vs), ChanCap}))

-----------------------------------------------------------------------------
ClientPlaces == {"idle", "checked", "registered", "waiting", "open",
                 "failed", "closed"}
OpenerPlaces == {"idle", "spawned", "entered", "dial", "connected", "done"}
Channels == [st : {"none", "open", "closed"}, q : Seq(Payloads)]

TypeOK ==
    /\ cpc \in [Streams -> ClientPlaces]
    /\ registered \subseteq Streams
    /\ crecv \in [Streams -> Buffers] /\ srecv \in [Streams -> Buffers]
    /\ recvCh \in [Streams -> Seq(Payloads)]
    /\ \A s \in Streams : Len(recvCh[s]) <= ChanCap
    /\ done \subseteq Streams
    /\ transport \in {"up", "stopped", "swept", "closed"}
    /\ receiving \in BOOLEAN /\ removed \in BOOLEAN /\ panicked \in BOOLEAN
    /\ wrote \in [Streams -> 0..MaxData]
    /\ got \in [Streams -> Seq(Payloads)]
    /\ net \subseteq Packets
    /\ faults \in 0..MaxFaults
    /\ streams \in [Streams -> 0..MaxOpens]
    /\ nextSeq \in [Streams -> Seqs]
    /\ opener \in [Openers -> OpenerPlaces]
    /\ sid \in [Openers -> Streams \cup {0}]
    /\ writeCh \in [Openers -> Channels]
    /\ \A g \in Openers : Len(writeCh[g].q) <= ChanCap
    /\ conn \in [Openers -> {"none", "open", "closed"}]
    /\ writer \in [Openers -> {"off", "start", "range", "stuck", "done"}]
    /\ relay \in [Openers -> {"off", "read", "got", "exit", "done"}]
    /\ loop \in [s : Streams \cup {0}, g : 0..MaxOpens, q : Seq(Payloads)]
    /\ up \in [Streams -> Seq(Payloads)]
    /\ down \in [Streams -> 0..MaxData]
    /\ spent \in 0..MaxData
    /\ dialled \subseteq Openers
    /\ dropped \subseteq Streams

Idle == [s |-> 0, g |-> 0, q |-> <<>>]

Init ==
    /\ cpc = [s \in Streams |-> "idle"]
    /\ registered = {} /\ done = {} /\ transport = "up" /\ receiving = TRUE
    /\ crecv = [s \in Streams |-> NoBuffer]
    /\ srecv = [s \in Streams |-> NoBuffer]
    /\ recvCh = [s \in Streams |-> <<>>]
    /\ got = [s \in Streams |-> <<>>] /\ up = [s \in Streams |-> <<>>]
    /\ wrote = [s \in Streams |-> 0] /\ down = [s \in Streams |-> 0]
    /\ net = {} /\ faults = 0 /\ spent = 0
    /\ streams = [s \in Streams |-> 0] /\ nextSeq = [s \in Streams |-> 0]
    /\ opener = [g \in Openers |-> "idle"] /\ sid = [g \in Openers |-> 0]
    /\ writeCh = [g \in Openers |-> [st |-> "none", q |-> <<>>]]
    /\ conn = [g \in Openers |-> "none"]
    /\ writer = [g \in Openers |-> "off"] /\ relay = [g \in Openers |-> "off"]
    /\ loop = Idle
    /\ removed = FALSE /\ panicked = FALSE
    /\ dialled = {} /\ dropped = {}

-----------------------------------------------------------------------------
(* Bounds of the model.                                                    *)

Fault == faults < MaxFaults /\ faults' = faults + 1
Spend == spent < MaxData /\ spent' = spent + 1

-----------------------------------------------------------------------------
(* The client.  A StreamOpen, payload or StreamClose whose arq.Send fails   *)
(* may still be retransmitted from the send buffer, so until the socket is *)
(* closed it counts as sent: nothing says that it ever arrives.            *)

Goto(s, place) == cpc' = [cpc EXCEPT ![s] = place]
Forget(s) ==
    /\ registered' = registered \ {s}
    /\ crecv' = [crecv EXCEPT ![s] = NoBuffer]
Send(p) == net' = IF transport = "closed" THEN net ELSE net \cup {p}

OpenStream(s) ==
    /\ cpc[s] = "idle"
    /\ Goto(s, IF transport = "up" THEN "checked" ELSE "failed")
    /\ UNCHANGED <<registered, crecv, recvCh, done, connVars, wrote, got,
                   netVars, serverVars, destVars, dropped>>

\* CreateRecvBuffer fails at the limit of recv buffers.
Register(s) ==
    /\ cpc[s] = "checked"
    /\ \/ /\ registered' = registered \cup {s}
          /\ crecv' = [crecv EXCEPT ![s] = NewBuffer]
          /\ Goto(s, "registered")
       \/ Goto(s, "failed") /\ UNCHANGED <<registered, crecv>>
    /\ UNCHANGED <<recvCh, done, connVars, wrote, got, netVars,
                   serverVars, destVars, dropped>>

\* AcquireSlot takes a slot or sees the controller closed, whichever its select
\* picks, so Send may succeed as long as the socket takes the packet.  A UDP
\* stream is handed out without waiting for the result.
SendOpen(s) ==
    /\ cpc[s] = "registered"
    /\ Send(Open(s))
    /\ \/ /\ transport # "closed"
          /\ Goto(s, IF s \in Datagram THEN "open" ELSE "waiting")
          /\ UNCHANGED <<registered, crecv>>
       \/ Goto(s, "failed") /\ Forget(s)
    /\ UNCHANGED <<recvCh, done, connVars, wrote, got, faults, serverVars,
                   destVars, dropped>>

\* The first payload is taken as the result; that of a late relay, which may
\* carry number 0 as well, can begin with any byte.
Accepted(v, okay) == v[1] = "data" \/ okay = (v = Ok)

OpenResult(s) ==
    /\ cpc[s] = "waiting"
    /\ recvCh[s] # <<>>
    /\ recvCh' = [recvCh EXCEPT ![s] = Tail(@)]
    /\ \E okay \in BOOLEAN :
         /\ Accepted(Head(recvCh[s]), okay)
         /\ \/ okay /\ Goto(s, "open") /\ UNCHANGED <<registered, crecv>>
            \/ ~okay /\ Goto(s, "failed") /\ Forget(s)
    /\ UNCHANGED <<done, connVars, wrote, got, netVars, serverVars,
                   destVars, dropped>>

\* s.done or the ten seconds timer; the server is not told.
OpenGivesUp(s) ==
    /\ cpc[s] = "waiting"
    /\ Goto(s, "failed")
    /\ Forget(s)
    /\ UNCHANGED <<recvCh, done, connVars, wrote, got, netVars,
                   serverVars, destVars, dropped>>

\* Read keeps draining recvCh after done.
Read(s) ==
    /\ cpc[s] = "open"
    /\ recvCh[s] # <<>>
    /\ recvCh' = [recvCh EXCEPT ![s] = Tail(@)]
    /\ got' = [got EXCEPT ![s] = Append(@, Head(recvCh[s]))]
    /\ UNCHANGED <<cpc, registered, crecv, done, connVars, wrote,
                   netVars,
                   serverVars, destVars, dropped>>

\* The number is used up also when Send fails.
Write(s) ==
    /\ cpc[s] = "open"
    /\ Spend
    /\ wrote' = [wrote EXCEPT ![s] = @ + 1]
    /\ Send(Packet("up", "data", s, wrote[s], Data(wrote[s] + 1)))
    /\ UNCHANGED <<cpc, registered, crecv, recvCh, done, connVars, got,
                   faults, serverVars, up, down, dialled, dropped>>

CloseStream(s) ==
    /\ cpc[s] = "open"
    /\ Goto(s, "closed")
    /\ done' = done \cup {s}
    /\ Forget(s)
    /\ Send(CloseUp(s))
    /\ UNCHANGED <<recvCh, connVars, wrote, got, faults, serverVars,
                   destVars, dropped>>

-----------------------------------------------------------------------------
(* Close of the transport, which sets closed and stops the controller,     *)
(* sweeps the table under t.mu, and closes the socket.                     *)

Sweep ==
    /\ done' = done \cup registered
    /\ registered' = {}

\* The server is silent, ends the session, or the owner rebuilds.
CloseTransport ==
    /\ transport = "up"
    /\ Fault
    /\ transport' = "stopped"
    /\ UNCHANGED <<cpc, registered, crecv, recvCh, done, receiving, wrote,
                   got, net, serverVars, destVars, dropped>>

CloseSweeps ==
    /\ transport = "stopped"
    /\ transport' = "swept"
    /\ Sweep
    /\ UNCHANGED <<cpc, crecv, recvCh, receiving, wrote, got, netVars,
                   serverVars, destVars, dropped>>

CloseSocket ==
    /\ transport = "swept"
    /\ transport' = "closed"
    /\ UNCHANGED <<cpc, registered, crecv, recvCh, done, receiving, wrote,
                   got, netVars, serverVars, destVars, dropped>>

\* Mutant: a read error drops the table and wakes nobody.
RecvLoopEndsQuietly ==
    /\ receiving
    /\ Fault
    /\ receiving' = FALSE
    /\ \/ transport = "up" /\ registered' = {} /\ UNCHANGED done
       \/ UNCHANGED <<registered, done>>
    /\ UNCHANGED <<cpc, crecv, recvCh, transport, wrote, got, net,
                   serverVars, destVars, dropped>>

\* A read error on a transport that is not closed sweeps the table and leaves
\* the transport up, without a reader.  MsgSessionClose ends the loop as well,
\* and the Close that it starts follows.
RecvLoopEnds ==
    /\ receiving
    /\ Fault
    /\ receiving' = FALSE
    /\ \/ transport = "up" /\ Sweep
       \/ UNCHANGED <<registered, done>>
    /\ UNCHANGED <<cpc, crecv, recvCh, transport, wrote, got, net,
                   serverVars, destVars, dropped>>

-----------------------------------------------------------------------------
(* The network.  A packet arrives and, when it is one that ARQ does not     *)
(* deduplicate, may still be to come once more.                            *)

Arrives(p) ==
    /\ p \in net
    /\ \/ net' = net \ {p} /\ UNCHANGED faults
       \/ /\ p.type # "data"
          /\ Fault
          /\ UNCHANGED net

\* recvLoop of the client.  What arrives for a stream that is not registered
\* changes nothing, so there is no step for it.
RecvData(p) ==
    /\ p.dir = "down" /\ p.type = "data"
    /\ receiving /\ transport = "up"
    /\ p.s \in registered
    /\ Arrives(p)
    /\ LET out == Flushed(crecv[p.s], p.seq, p.v)
           fits == Len(recvCh[p.s]) + Len(out) <= ChanCap
       IN  /\ recvCh' = [recvCh EXCEPT ![p.s] = Pushed(@, out)]
           /\ dropped' = IF fits THEN dropped ELSE dropped \cup {p.s}
    /\ crecv' = [crecv EXCEPT ![p.s] = Inserted(@, p.seq, p.v)]
    /\ UNCHANGED <<cpc, registered, done, connVars, wrote, got,
                   serverVars, destVars>>

\* Data of the stream that is still under way finds no recv buffer.
RecvClose(p) ==
    /\ p.dir = "down" /\ p.type = "close"
    /\ receiving /\ transport # "closed"
    /\ p.s \in registered
    /\ Arrives(p)
    /\ Forget(p.s)
    /\ done' = done \cup {p.s}
    /\ UNCHANGED <<cpc, recvCh, connVars, wrote, got, serverVars,
                   destVars, dropped>>

-----------------------------------------------------------------------------
(* The session: NextSeq and RemoveStream run under sess.mu.                *)

NextSeq(s) == IF streams[s] = 0 THEN 0 ELSE nextSeq[s]
Transmit(p) == net' = IF removed THEN net ELSE net \cup {p}
SendNumbered(s, v) ==
    /\ Transmit(Packet("down", "data", s, NextSeq(s), v))
    /\ nextSeq' = IF streams[s] = 0 THEN nextSeq
                  ELSE [nextSeq EXCEPT ![s] = @ + 1]

\* Mutant: the result is sent with number 0 and the counter left alone.
SendResultUnnumbered(s, v) ==
    /\ Transmit(Packet("down", "data", s, 0, v))
    /\ UNCHANGED nextSeq

\* sendResult takes no number when the controller is gone.
SendResult(s, v) ==
    \/ ~removed /\ SendNumbered(s, v)
    \/ removed /\ UNCHANGED <<net, nextSeq>>

\* Mutant: the channel is dropped without being closed.
RemoveStreamUnclosed(s) ==
    LET g == streams[s]
    IN  /\ UNCHANGED writeCh
        /\ conn' = IF g = 0 \/ conn[g] = "none" THEN conn
                   ELSE [conn EXCEPT ![g] = "closed"]
        /\ streams' = [streams EXCEPT ![s] = 0]
        /\ nextSeq' = [nextSeq EXCEPT ![s] = 0]
        /\ srecv' = [srecv EXCEPT ![s] = NoBuffer]

RemoveStream(s) ==
    LET g == streams[s]
    IN  /\ writeCh' = IF g = 0 THEN writeCh
                      ELSE [writeCh EXCEPT ![g].st = "closed"]
        /\ conn' = IF g = 0 \/ conn[g] = "none" THEN conn
                   ELSE [conn EXCEPT ![g] = "closed"]
        /\ streams' = [streams EXCEPT ![s] = 0]
        /\ nextSeq' = [nextSeq EXCEPT ![s] = 0]
        /\ srecv' = [srecv EXCEPT ![s] = NoBuffer]

\* Remove and Cleanup: CloseAllStreams closes the controller and sets sess.ARQ
\* to nil, and the session leaves the table.  Goroutines of its streams go on; one
\* that has compared sess.ARQ with nil, and now calls it, takes the server down.
RemoveSession ==
    /\ ~removed
    /\ Fault
    /\ removed' = TRUE
    /\ panicked' \in BOOLEAN
    /\ LET entries == {streams[s] : s \in Streams}
       IN  /\ writeCh' = [g \in Openers |->
                            IF g \in entries THEN [writeCh[g] EXCEPT !.st = "closed"]
                            ELSE writeCh[g]]
           /\ conn' = [g \in Openers |->
                         IF g \in entries /\ conn[g] = "open" THEN "closed"
                         ELSE conn[g]]
    /\ streams' = [s \in Streams |-> 0]
    /\ nextSeq' = [s \in Streams |-> 0]
    /\ srecv' = [s \in Streams |-> NoBuffer]
    /\ UNCHANGED <<clientVars, net, goVars, loop, destVars, dropped>>

-----------------------------------------------------------------------------
(* processLoop: one packet of a session in the table at a time, finished   *)
(* when its payloads are delivered.                                        *)

LoopIdle == ~removed /\ loop = Idle

HandleOpen(p) ==
    /\ p.dir = "up" /\ p.type = "open"
    /\ LoopIdle
    /\ \E g \in Openers :
         /\ opener[g] = "idle"
         /\ \A h \in Openers : h < g => opener[h] # "idle"
         /\ opener' = [opener EXCEPT ![g] = "spawned"]
         /\ sid' = [sid EXCEPT ![g] = p.s]
    /\ Arrives(p)
    /\ UNCHANGED <<clientVars, mapVars, writer, relay, objVars, loop,
                   endVars, destVars, dropped>>

\* No recv buffer: the number is acknowledged and the payload is gone.
HandleData(p) ==
    /\ p.dir = "up" /\ p.type = "data"
    /\ LoopIdle
    /\ Arrives(p)
    /\ srecv' = [srecv EXCEPT ![p.s] = Inserted(@, p.seq, p.v)]
    /\ LET out == Flushed(srecv[p.s], p.seq, p.v)
       IN  loop' = IF out = <<>> THEN Idle ELSE [s |-> p.s, g |-> 0, q |-> out]
    /\ UNCHANGED <<clientVars, streams, nextSeq, goVars, objVars, endVars,
                   destVars, dropped>>

HandleClose(p) ==
    /\ p.dir = "up" /\ p.type = "close"
    /\ LoopIdle
    /\ Arrives(p)
    /\ RemoveStream(p.s)
    /\ UNCHANGED <<clientVars, goVars, loop, endVars, destVars, dropped>>

\* deliverFn looks the stream up and releases sess.mu ...
DeliverLookup ==
    /\ loop.q # <<>> /\ loop.g = 0
    /\ LET g == streams[loop.s]
           rest == Tail(loop.q)
       IN  loop' = IF g # 0 THEN [loop EXCEPT !.g = g]
                   ELSE IF rest = <<>> THEN Idle ELSE [loop EXCEPT !.q = rest]
    /\ UNCHANGED <<clientVars, netVars, mapVars, goVars, objVars, endVars,
                   destVars, dropped>>

\* ... then sends on the WriteCh it has loaded.  A stream removed in between
\* leaves nil, which drops the payload, or a closed channel.
DeliverSend ==
    /\ loop.g # 0
    /\ LET g == loop.g
           ch == writeCh[g]
           rest == Tail(loop.q)
       IN  /\ loop' = IF rest = <<>> THEN Idle
                      ELSE [loop EXCEPT !.g = 0, !.q = rest]
           /\ \/ /\ ch.st = "open"
                 /\ writeCh' = [writeCh EXCEPT
                                  ![g].q = Pushed(@, <<Head(loop.q)>>)]
                 /\ dropped' = IF Len(ch.q) < ChanCap THEN dropped
                               ELSE dropped \cup {loop.s}
                 /\ UNCHANGED panicked
              \/ /\ ch.st = "closed"
                 /\ panicked' \in BOOLEAN
                 /\ UNCHANGED <<writeCh, dropped>>
    /\ UNCHANGED <<clientVars, netVars, mapVars, goVars, conn, removed, destVars>>

-----------------------------------------------------------------------------
(* handleStreamOpen.                                                       *)

OpenerTo(g, place) == opener' = [opener EXCEPT ![g] = place]

\* Dialing is never reset, so an entry that exists makes a duplicate return.
EnterStream(g) ==
    /\ opener[g] = "spawned"
    /\ \/ /\ streams[sid[g]] # 0
          /\ OpenerTo(g, "done")
          /\ UNCHANGED <<streams, nextSeq, writeCh>>
       \/ /\ streams[sid[g]] = 0
          /\ streams' = [streams EXCEPT ![sid[g]] = g]
          /\ nextSeq' = [nextSeq EXCEPT ![sid[g]] = 0]
          /\ writeCh' = [writeCh EXCEPT ![g].st = "open"]
          /\ OpenerTo(g, "entered")
    /\ UNCHANGED <<clientVars, netVars, srecv, sid, writer, relay, conn, loop,
                   endVars, destVars, dropped>>

\* A buffer that an opener whose stream was removed has left is replaced.  At
\* the limit of recv buffers there is none, and the opener goes on without it.
CreateRecvBuffer(g) ==
    /\ opener[g] = "entered"
    /\ \/ ~removed /\ srecv' = [srecv EXCEPT ![sid[g]] = NewBuffer]
       \/ ~srecv[sid[g]].live /\ UNCHANGED srecv
    /\ OpenerTo(g, "dial")
    /\ UNCHANGED <<clientVars, netVars, streams, nextSeq, sid, writer, relay,
                   objVars, loop, endVars, destVars, dropped>>

\* Mutant: a failed dial answers like a successful one.
DialFailsOk(g) ==
    /\ opener[g] = "dial"
    /\ Transmit(Packet("down", "data", sid[g], NextSeq(sid[g]), Ok))
    /\ RemoveStream(sid[g])
    /\ OpenerTo(g, "done")
    /\ UNCHANGED <<clientVars, faults, sid, writer, relay, loop, endVars,
                   destVars, dropped>>

DialFails(g) ==
    /\ opener[g] = "dial"
    /\ Transmit(Packet("down", "data", sid[g], NextSeq(sid[g]), Fail))
    /\ RemoveStream(sid[g])
    /\ OpenerTo(g, "done")
    /\ UNCHANGED <<clientVars, faults, sid, writer, relay, loop, endVars,
                   destVars, dropped>>

\* st.Conn is set even when the stream was removed while it was dialling.
DialSucceeds(g) ==
    /\ opener[g] = "dial"
    /\ conn' = [conn EXCEPT ![g] = "open"]
    /\ dialled' = dialled \cup {g}
    /\ writer' = [writer EXCEPT ![g] = "start"]
    /\ OpenerTo(g, "connected")
    /\ UNCHANGED <<clientVars, netVars, mapVars, sid, relay, writeCh, loop,
                   endVars, up, down, spent, dropped>>

Connected(g) ==
    /\ opener[g] = "connected"
    /\ SendResult(sid[g], Ok)
    /\ relay' = [relay EXCEPT ![g] = "read"]
    /\ OpenerTo(g, "done")
    /\ UNCHANGED <<clientVars, faults, streams, srecv, sid, writer, objVars,
                   loop, endVars, destVars, dropped>>

-----------------------------------------------------------------------------
(* streamWriter and relayFromDest.                                         *)

WriterTo(g, place) == writer' = [writer EXCEPT ![g] = place]
RelayTo(g, place) == relay' = [relay EXCEPT ![g] = place]

\* range evaluates st.WriteCh once: nil after a removal, and nil blocks.
WriterStarts(g) ==
    /\ writer[g] = "start"
    /\ WriterTo(g, IF writeCh[g].st = "open" THEN "range" ELSE "stuck")
    /\ UNCHANGED <<clientVars, netVars, mapVars, opener, sid, relay, objVars,
                   loop, endVars, destVars, dropped>>

WriterWrites(g) ==
    /\ writer[g] = "range"
    /\ writeCh[g].q # <<>>
    /\ conn[g] = "open"
    /\ writeCh' = [writeCh EXCEPT ![g].q = Tail(@)]
    /\ up' = [up EXCEPT ![sid[g]] = Append(@, Head(writeCh[g].q))]
    /\ UNCHANGED <<clientVars, netVars, mapVars, goVars, conn, loop, endVars,
                   down, spent, dialled, dropped>>

\* The destination is gone, or RemoveStream has closed the connection; the
\* entry removed is the one the stream ID has now.
WriterFails(g) ==
    /\ writer[g] = "range"
    /\ writeCh[g].q # <<>>
    /\ RemoveStream(sid[g])
    /\ Transmit(CloseDown(sid[g]))
    /\ WriterTo(g, "done")
    /\ UNCHANGED <<clientVars, faults, opener, sid, relay, loop, endVars,
                   destVars, dropped>>

WriterEnds(g) ==
    /\ writer[g] = "range"
    /\ writeCh[g].st = "closed" /\ writeCh[g].q = <<>>
    /\ WriterTo(g, "done")
    /\ UNCHANGED <<clientVars, netVars, mapVars, opener, sid, relay, objVars,
                   loop, endVars, destVars, dropped>>

\* Read from the destination, then GetStream.
RelayReads(g) ==
    /\ relay[g] = "read"
    /\ conn[g] = "open"
    /\ Spend
    /\ down' = [down EXCEPT ![sid[g]] = @ + 1]
    /\ RelayTo(g, IF streams[sid[g]] = 0 THEN "exit" ELSE "got")
    /\ UNCHANGED <<clientVars, netVars, mapVars, opener, sid, writer, objVars,
                   loop, endVars, up, dialled, dropped>>

\* The stream may have been removed since GetStream.
RelaySends(g) ==
    /\ relay[g] = "got"
    /\ SendNumbered(sid[g], Data(down[sid[g]]))
    /\ RelayTo(g, "read")
    /\ UNCHANGED <<clientVars, faults, streams, srecv, opener, sid, writer,
                   objVars, loop, endVars, destVars, dropped>>

\* EOF, an error, or sixty seconds without data.
RelayEnds(g) ==
    /\ relay[g] = "read"
    /\ RelayTo(g, "exit")
    /\ UNCHANGED <<clientVars, netVars, mapVars, opener, sid, writer, objVars,
                   loop, endVars, destVars, dropped>>

\* Mutant: only the client is told that the relay ended.
RelayExitsQuietly(g) ==
    /\ relay[g] = "exit"
    /\ Transmit(CloseDown(sid[g]))
    /\ RelayTo(g, "done")
    /\ UNCHANGED <<clientVars, faults, mapVars, opener, sid, writer, objVars,
                   loop, endVars, destVars, dropped>>

RelayExits(g) ==
    /\ relay[g] = "exit"
    /\ RemoveStream(sid[g])
    /\ Transmit(CloseDown(sid[g]))
    /\ RelayTo(g, "done")
    /\ UNCHANGED <<clientVars, faults, opener, sid, writer, loop, endVars,
                   destVars, dropped>>

-----------------------------------------------------------------------------
Client(s) ==
    \/ OpenStream(s) \/ Register(s) \/ SendOpen(s) \/ OpenResult(s)
    \/ OpenGivesUp(s) \/ Read(s) \/ Write(s) \/ CloseStream(s)

Arrival(p) ==
    RecvData(p) \/ RecvClose(p) \/ HandleOpen(p) \/ HandleData(p) \/ HandleClose(p)

Deliver == DeliverLookup \/ DeliverSend

Goroutines(g) ==
    \/ EnterStream(g) \/ CreateRecvBuffer(g)
    \/ DialFails(g) \/ DialSucceeds(g) \/ Connected(g)
    \/ WriterStarts(g) \/ WriterWrites(g) \/ WriterFails(g) \/ WriterEnds(g)
    \/ RelayReads(g) \/ RelaySends(g) \/ RelayEnds(g) \/ RelayExits(g)

\* A server that has died is a server that is silent, so behaviours are
\* followed until then.
Next ==
    /\ ~panicked
    /\ \/ \E s \in Streams : Client(s)
       \/ CloseTransport \/ CloseSweeps \/ CloseSocket \/ RecvLoopEnds
       \/ RemoveSession
       \/ \E p \in net : Arrival(p)
       \/ Deliver
       \/ \E g \in Openers : Goroutines(g)

Spec == Init /\ [][Next]_vars

-----------------------------------------------------------------------------
(* Properties.                                                             *)

\* OpenStream reports a TCP stream as connected only if the server's dial of
\* that stream succeeded, also when a late payload is taken for the result.
OpenedMeansDialled ==
    \A s \in Streams :
        s \notin Datagram /\ cpc[s] \in {"open", "closed"} =>
            \E g \in dialled : sid[g] = s

\* Until Close sweeps the table, whoever is in OpenStream or Read can still be
\* woken: the stream is in the table, or its done channel is closed.  A read
\* error of recvLoop, which sweeps as well, a StreamClose of the server and the
\* failures of OpenStream leave nobody behind.
ReaderReachable ==
    transport \in {"up", "stopped"} =>
        \A s \in Streams :
            cpc[s] \in {"waiting", "open"} => s \in registered \cup done

\* Close tears down the transport and all streams: nobody is left in OpenStream
\* or Read.  The code does not keep this when OpenStream overlaps with Close.
NoOrphanReader ==
    transport = "closed" =>
        \A s \in Streams : cpc[s] \in {"waiting", "open"} => s \in done

\* A TCP stream that is in place at both ends, was dialled once and met no full
\* channel carries both directions without a gap, a duplicate or a result byte
\* among the data, whatever duplicates of its StreamOpen were ignored or failed
\* to dial, and whatever other streams do.
InPlace(s) ==
    /\ s \notin Datagram /\ cpc[s] = "open" /\ s \in registered
    /\ ~removed /\ streams[s] # 0
    /\ \A g \in dialled : sid[g] = s => g = streams[s]
    /\ s \notin dropped
Numbered(n) == [i \in 1..n |-> Data(i)]
StreamExact ==
    \A s \in Streams :
        InPlace(s) =>
            /\ IsPrefix(got[s] \o recvCh[s], Numbered(down[s]))
            /\ IsPrefix(up[s] \o writeCh[streams[s]].q, Numbered(wrote[s]))

\* A stream of the session has a goroutine that still ends in RemoveStream:
\* the one that opened it or its relay, which has a read deadline.  So it is
\* removed also when the client gave up without a StreamClose, or when its
\* StreamClose came before the StreamOpen or a copy of it.
StreamOwned ==
    \A s \in Streams :
        LET g == streams[s]
        IN  g # 0 => \/ opener[g] \in {"entered", "dial", "connected"}
                     \/ relay[g] \in {"read", "got", "exit"}

\* A WriteCh is open exactly as long as its entry is in the session's map,
\* whichever goroutine removes the entry and although a retransmitted StreamOpen
\* puts another one under the same ID: no streamWriter is left ranging over a
\* channel that nobody can close any more, and none loses its channel early.
WriteChOwned ==
    \A g \in Openers :
        writeCh[g].st = "open" <=> \E s \in Streams : streams[s] = g

=============================================================================
