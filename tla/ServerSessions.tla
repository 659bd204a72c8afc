--------------------------- MODULE ServerSessions ---------------------------
(***************************************************************************)
(* The life of a UDP session, on both sides of a network that loses,       *)
(* duplicates and reorders datagrams: Connect, the keepalive loop and the  *)
(* dead timer of the daemon's UDPTransport, the listener and the session   *)
(* manager of the server with the retransmit limit, tombstones, the        *)
(* cleanup of idle sessions, graceful shutdown and crash; the TLS          *)
(* connections of server/internal/proxy; and the tracker both register in. *)
(*                                                                         *)
(* All clients share one device key.  Whether a handshake is admitted (key,*)
(* clock, machine id) is nondeterministic.  A socket is one UDPTransport:  *)
(* a client that reconnects uses the next one.  Time is abstracted to the  *)
(* events timers wait for: 20 s without a packet (DeadTimer), two minutes  *)
(* without one (Cleanup).                                                  *)
(***************************************************************************)
EXTENDS Naturals, FiniteSets

CONSTANTS
    MaxSockets,    \* model bound: transports the clients open
    MaxTokens,     \* model bound: sessions the server creates
    Conns,         \* TLS connections
    MaxDups,       \* model bound: handshakes the network duplicates
    MaxRestarts    \* model bound: restarts of the server

ASSUME SessionsAssumption ==
    /\ {MaxSockets, MaxTokens, MaxDups, MaxRestarts} \subseteq Nat
    /\ IsFiniteSet(Conns)

Sockets == 1..MaxSockets
Tokens == 1..MaxTokens

VARIABLES
    sock,      \* the transport of a socket: new, hello, up or closed
    tok,       \* its connID, 0 before the handshake
    net,       \* datagrams in flight: <<type, socket, token>>
    dups,
    used,      \* tokens drawn
    sessions,  \* keys of SessionManager.sessions
    home,      \* ClientAddr of a session
    loop,      \* sessionRetransmitLoop of a session
    tombs,     \* keys of Listener.tombstones
    hs,        \* token of the handshake that processLoop is in, or 0
    stopping,  \* the shutdown goroutine has broadcast
    restarts,
    tls,       \* proxy.Handler.Handle of a TLS connection
    conns      \* keys of Tracker.conns

clientVars == <<sock, tok>>
netVars == <<net, dups>>
sessionVars == <<used, sessions, home, loop, tombs, hs>>
serverVars == <<stopping, restarts, tls>>
vars == <<clientVars, netVars, sessionVars, conns, serverVars>>

Messages ==
    ({"hello"} \X Sockets \X {0})
        \cup ({"resp", "up", "down", "close"} \X Sockets \X Tokens)
ConnIDs == ({"udp"} \X Tokens) \cup ({"tls"} \X Conns)

TypeOK ==
    /\ sock \in [Sockets -> {"new", "hello", "up", "closed"}]
    /\ tok \in [Sockets -> 0..used]
    /\ net \subseteq Messages
    /\ dups \in 0..MaxDups
    /\ used \in 0..MaxTokens
    /\ sessions \subseteq 1..used
    /\ home \in [Tokens -> Sockets \cup {0}]
    /\ loop \in [Tokens -> {"off", "run", "dead", "notified"}]
    /\ tombs \subseteq 1..used
    /\ hs \in sessions \cup {0}
    /\ stopping \in BOOLEAN
    /\ restarts \in 0..MaxRestarts
    /\ tls \in [Conns -> {"off", "tcp", "udp"}]
    /\ conns \subseteq ConnIDs

Init ==
    /\ sock = [s \in Sockets |-> "new"]
    /\ tok = [s \in Sockets |-> 0]
    /\ net = {} /\ dups = 0
    /\ used = 0 /\ sessions = {}
    /\ home = [t \in Tokens |-> 0]
    /\ loop = [t \in Tokens |-> "off"]
    /\ tombs = {} /\ hs = 0
    /\ stopping = FALSE /\ restarts = 0
    /\ tls = [c \in Conns |-> "off"]
    /\ conns = {}

-----------------------------------------------------------------------------
(* The network.                                                            *)

\* A closed socket receives nothing.
Bound(ms) == {m \in ms : sock[m[2]] # "closed"}

\* m is received and ms is sent in answer.
Take(m, ms) ==
    /\ m \in net
    /\ net' = (net \ {m}) \cup Bound(ms)

\* A handshake may be received again: it is the message a copy of which has an
\* effect of its own.  The others are sent again and again by their senders.
TakeHello(s) ==
    \/ /\ Take(<<"hello", s, 0>>, {})
       /\ UNCHANGED dups
    \/ /\ <<"hello", s, 0>> \in net
       /\ dups < MaxDups
       /\ dups' = dups + 1
       /\ UNCHANGED net

Lose(m) ==
    /\ m \in net
    /\ net' = net \ {m}
    /\ UNCHANGED <<clientVars, dups, sessionVars, conns, serverVars>>

-----------------------------------------------------------------------------
(* The daemon's UDPTransport.                                              *)

\* Connect: the request; the previous transport has been closed.
Connect(s) ==
    /\ sock[s] = "new"
    /\ \A r \in 1..(s - 1) : sock[r] = "closed"
    /\ sock' = [sock EXCEPT ![s] = "hello"]
    /\ net' = net \cup {<<"hello", s, 0>>}
    /\ UNCHANGED <<tok, dups, sessionVars, conns, serverVars>>

\* Connect: the first response wins; the loops start.
HandshakeResponse(s, t) ==
    /\ Take(<<"resp", s, t>>, {})
    /\ \/ /\ sock[s] = "hello"
          /\ sock' = [sock EXCEPT ![s] = "up"]
          /\ tok' = [tok EXCEPT ![s] = t]
       \/ /\ sock[s] # "hello"
          /\ UNCHANGED <<sock, tok>>
    /\ UNCHANGED <<dups, sessionVars, conns, serverVars>>

\* Close: nothing reaches the socket any more; the server is not told.
CloseTransport(s) ==
    /\ sock' = [sock EXCEPT ![s] = "closed"]
    /\ net' = {m \in net : m[1] \in {"hello", "up"} \/ m[2] # s}

\* Connect: no response within udpHandshakeTO.
HandshakeTimeout(s) ==
    /\ sock[s] = "hello"
    /\ CloseTransport(s)
    /\ UNCHANGED <<tok, dups, sessionVars, conns, serverVars>>

\* The owner closes the transport, or its ARQ reached the retransmit limit.
Disconnect(s) ==
    /\ sock[s] = "up"
    /\ CloseTransport(s)
    /\ UNCHANGED <<tok, dups, sessionVars, conns, serverVars>>

\* A keepalive, or any packet of a stream.
Keepalive(s) ==
    /\ sock[s] = "up"
    /\ net' = net \cup {<<"up", s, tok[s]>>}
    /\ UNCHANGED <<clientVars, dups, sessionVars, conns, serverVars>>

\* A packet decrypts with the key of its own session only.
Accepts(s, t) == sock[s] = "up" /\ tok[s] = t

RecvPacket(s, t) ==
    /\ Take(<<"down", s, t>>, {})
    /\ UNCHANGED <<clientVars, dups, sessionVars, conns, serverVars>>

RecvSessionClose(s, t) ==
    /\ <<"close", s, t>> \in net
    /\ \/ /\ Accepts(s, t)
          /\ CloseTransport(s)
       \/ /\ ~Accepts(s, t)
          /\ Take(<<"close", s, t>>, {})
          /\ UNCHANGED sock
    /\ UNCHANGED <<tok, dups, sessionVars, conns, serverVars>>

\* Mutant: what the transport sends counts as activity, too.
DeadTimerSending(s) ==
    /\ sock[s] = "up"
    /\ net \cap ({"up", "down"} \X {s} \X {tok[s]}) = {}
    /\ CloseTransport(s)
    /\ UNCHANGED <<tok, dups, sessionVars, conns, serverVars>>

\* keepaliveLoop: nothing received for udpDeadTimeout.  No packet is in flight
\* for that long; one that arrives before the timer fires resets it.
DeadTimer(s) ==
    /\ sock[s] = "up"
    /\ net \cap ({"down"} \X {s} \X {tok[s]}) = {}
    /\ CloseTransport(s)
    /\ UNCHANGED <<tok, dups, sessionVars, conns, serverVars>>

-----------------------------------------------------------------------------
(* SessionManager.                                                         *)

\* Mutant: the connection stays registered.
RemoveSessionsUntracked(ts) ==
    /\ sessions' = sessions \ ts
    /\ UNCHANGED conns

\* Remove and Cleanup: the tracker entry goes with the session.
RemoveSessions(ts) ==
    /\ sessions' = sessions \ ts
    /\ conns' = conns \ ({"udp"} \X (ts \cap sessions))

\* Closing the ARQ of a session ends its retransmit loop, unless the loop has
\* already seen it die.
EndLoop(t) == loop' = [loop EXCEPT ![t] = IF @ = "run" THEN "off" ELSE @]

-----------------------------------------------------------------------------
(* The server's listener.  processLoop handles one packet at a time.       *)

Rejected(s) ==
    /\ hs = 0
    /\ TakeHello(s)
    /\ UNCHANGED <<clientVars, sessionVars, conns, serverVars>>

\* handleHandshake from Create to AddRemote, which nothing can tell apart but a
\* reader of the tracker in between: a duplicate gets a session of its own.
HandleHandshake(s) ==
    /\ hs = 0
    /\ used < MaxTokens
    /\ TakeHello(s)
    /\ LET t == used + 1
       IN  /\ used' = t
           /\ sessions' = sessions \cup {t}
           /\ home' = [home EXCEPT ![t] = s]
           /\ conns' = conns \cup {<<"udp", t>>}
           /\ hs' = t
    /\ UNCHANGED <<clientVars, loop, tombs, serverVars>>

\* handleHandshake from there on: the loops start, the response goes out.
SendHandshakeResponse ==
    /\ hs # 0
    /\ loop' = [loop EXCEPT ![hs] = "run"]
    /\ net' = net \cup Bound({<<"resp", home[hs], hs>>})
    /\ hs' = 0
    /\ UNCHANGED <<clientVars, dups, used, sessions, home, tombs, conns, serverVars>>

\* Mutant: the error path does not end the handshake.
HandshakeWriteFailsOn ==
    /\ hs # 0
    /\ RemoveSessions({hs})
    /\ UNCHANGED <<clientVars, netVars, used, home, loop, tombs, hs, serverVars>>

\* The write failed and the session is removed again; its loop ends.
HandshakeWriteFails ==
    /\ hs # 0
    /\ RemoveSessions({hs})
    /\ hs' = 0
    /\ UNCHANGED <<clientVars, netVars, used, home, loop, tombs, serverVars>>

\* handlePacket: a packet of a session, a keepalive is echoed; the packet of
\* a killed session is answered, not more than twice a second.
HandlePacket(s, t) ==
    /\ hs = 0
    /\ \/ /\ t \in sessions
          /\ \/ Take(<<"up", s, t>>, {<<"down", s, t>>})
             \/ Take(<<"up", s, t>>, {})
          /\ home' = [home EXCEPT ![t] = s]
       \/ /\ t \notin sessions
          /\ \/ t \in tombs /\ Take(<<"up", s, t>>, {<<"close", s, t>>})
             \/ Take(<<"up", s, t>>, {})
          /\ UNCHANGED home
    /\ UNCHANGED <<clientVars, dups, used, sessions, loop, tombs, hs, conns,
                   serverVars>>

\* Data, acknowledgements and retransmissions.
ServerSend(t) ==
    /\ t \in sessions /\ loop[t] = "run"
    /\ net' = net \cup Bound({<<"down", home[t], t>>})
    /\ UNCHANGED <<clientVars, dups, sessionVars, conns, serverVars>>

\* A packet reached the retransmit limit: the controller closes itself.
ArqDies(t) ==
    /\ loop[t] = "run"
    /\ loop' = [loop EXCEPT ![t] = "dead"]
    /\ UNCHANGED <<clientVars, netVars, used, sessions, home, tombs, hs,
                   conns, serverVars>>

\* killDeadSession tells the client and leaves a tombstone ...
NotifyDead(t) ==
    /\ loop[t] = "dead"
    /\ net' = net \cup Bound({<<"close", home[t], t>>})
    /\ tombs' = tombs \cup {t}
    /\ loop' = [loop EXCEPT ![t] = "notified"]
    /\ UNCHANGED <<clientVars, dups, used, sessions, home, hs,
                   conns, serverVars>>

\* Mutant: killDeadSession leaves the session to the cleanup.
RemoveDeadLater(t) ==
    /\ loop[t] = "notified"
    /\ loop' = [loop EXCEPT ![t] = "off"]
    /\ UNCHANGED <<clientVars, netVars, used, sessions, home, tombs, hs, conns,
                   serverVars>>

\* ... and removes the session, if the cleanup has not done so.
RemoveDead(t) ==
    /\ loop[t] = "notified"
    /\ RemoveSessions({t})
    /\ loop' = [loop EXCEPT ![t] = "off"]
    /\ UNCHANGED <<clientVars, netVars, used, home, tombs, hs, serverVars>>

ExpireTombstone(t) ==
    /\ t \in tombs
    /\ tombs' = tombs \ {t}
    /\ UNCHANGED <<clientVars, netVars, used, sessions, home, loop, hs,
                   conns, serverVars>>

\* Mutant: a session whose loops run is taken for a live one.
CleanupStopped(t) ==
    /\ t \in sessions \ {hs}
    /\ loop[t] # "run"
    /\ {m \in net : m[1] \in {"up", "resp"} /\ m[3] = t} = {}
    /\ RemoveSessions({t})
    /\ EndLoop(t)
    /\ UNCHANGED <<clientVars, netVars, used, home, tombs, hs, serverVars>>

\* Cleanup of a session for which nothing arrived in two minutes; no packet
\* is in flight for that long.
Cleanup(t) ==
    /\ t \in sessions \ {hs}
    /\ {m \in net : m[1] \in {"up", "resp"} /\ m[3] = t} = {}
    /\ RemoveSessions({t})
    /\ EndLoop(t)
    /\ UNCHANGED <<clientVars, netVars, used, home, tombs, hs, serverVars>>

-----------------------------------------------------------------------------
(* A TLS connection of proxy.Handler.                                      *)

\* A connection routed by its first byte and authenticated is registered; one
\* that fails before this point leaves no trace.
Registers(c, relay) ==
    /\ tls[c] = "off"
    /\ conns' = conns \cup {<<"tls", c>>}
    /\ tls' = [tls EXCEPT ![c] = relay]
    /\ UNCHANGED <<clientVars, netVars, sessionVars, stopping, restarts>>

Unregisters(c, relay) ==
    /\ tls[c] = relay
    /\ conns' = conns \ {<<"tls", c>>}
    /\ tls' = [tls EXCEPT ![c] = "off"]
    /\ UNCHANGED <<clientVars, netVars, sessionVars, stopping, restarts>>

\* handleTCP registers when it has dialled, and its relay ends when both
\* directions have; handleUDP registers at once and ends with the reader of
\* frames.  Both record the traffic then.
HandleTCP(c) == Registers(c, "tcp")
TCPRelayEnds(c) == Unregisters(c, "tcp")
HandleUDP(c) == Registers(c, "udp")
UDPRelayEnds(c) == Unregisters(c, "udp")

-----------------------------------------------------------------------------
(* The server process.                                                     *)

\* SIGTERM: every session of the snapshot is told, then the process exits.
BroadcastSessionClose ==
    /\ ~stopping
    /\ restarts < MaxRestarts
    /\ stopping' = TRUE
    /\ net' = net \cup Bound({<<"close", home[t], t>> : t \in sessions})
    /\ UNCHANGED <<clientVars, dups, sessionVars, conns, restarts, tls>>

\* The process exits, after a broadcast or by a crash, and is started again.
Restart ==
    /\ restarts < MaxRestarts
    /\ restarts' = restarts + 1
    /\ stopping' = FALSE
    /\ sessions' = {} /\ tombs' = {} /\ hs' = 0
    /\ loop' = [t \in Tokens |-> "off"]
    /\ tls' = [c \in Conns |-> "off"]
    /\ conns' = {}
    /\ UNCHANGED <<clientVars, netVars, used, home>>

-----------------------------------------------------------------------------
Client(s) ==
    \/ Connect(s) \/ HandshakeTimeout(s) \/ Disconnect(s) \/ Keepalive(s)
    \/ DeadTimer(s)

ClientReceives(s, t) ==
    HandshakeResponse(s, t) \/ RecvPacket(s, t) \/ RecvSessionClose(s, t)

Session(t) ==
    \/ ServerSend(t) \/ ArqDies(t) \/ NotifyDead(t) \/ RemoveDead(t)
    \/ ExpireTombstone(t) \/ Cleanup(t)

TlsConn(c) ==
    HandleTCP(c) \/ TCPRelayEnds(c) \/ HandleUDP(c) \/ UDPRelayEnds(c)

Next ==
    \/ \E s \in Sockets : Client(s) \/ Rejected(s) \/ HandleHandshake(s)
    \/ \E s \in Sockets, t \in Tokens : ClientReceives(s, t) \/ HandlePacket(s, t)
    \/ SendHandshakeResponse \/ HandshakeWriteFails
    \/ \E t \in Tokens : Session(t)
    \/ \E c \in Conns : TlsConn(c)
    \/ BroadcastSessionClose \/ Restart
    \/ \E m \in net : Lose(m)

Spec == Init /\ [][Next]_vars

\* The timers and loops of both sides run, and a datagram does not stay in the
\* network for ever.  Nobody has to connect, send, close or fail.
Fairness ==
    /\ \A s \in Sockets :
         /\ WF_vars(DeadTimer(s))
         /\ WF_vars(HandshakeTimeout(s))
         /\ WF_vars(Rejected(s) \/ HandleHandshake(s))
    /\ \A s \in Sockets, t \in Tokens :
         /\ WF_vars(HandshakeResponse(s, t)) /\ WF_vars(RecvPacket(s, t))
         /\ WF_vars(RecvSessionClose(s, t)) /\ WF_vars(HandlePacket(s, t))
    /\ WF_vars(SendHandshakeResponse \/ HandshakeWriteFails)
    /\ \A t \in Tokens : WF_vars(Cleanup(t))

FairSpec == Spec /\ Fairness

-----------------------------------------------------------------------------
(* Properties.                                                             *)

\* The tracker shows exactly the live sessions and relays: whichever of
\* cleanup, killDeadSession, a failed handshake or a restart ends a session,
\* its connection goes with it, once.
TrackerExact ==
    conns = ({"udp"} \X sessions)
              \cup ({"tls"} \X {c \in Conns : tls[c] # "off"})

\* A close message tears a transport down at once, with all its streams.  One
\* that is in flight, however late and from whichever path (the retransmit
\* limit, a tombstone, a shutdown), is for a session that is gone, that is being
\* removed, or that goes with the process: never for one that serves a client.
CloseIsTruthful ==
    \A s \in Sockets, t \in Tokens :
        <<"close", s, t>> \in net =>
            t \notin sessions \/ loop[t] = "notified" \/ stopping

\* A transport whose session the server no longer has is closed eventually,
\* by a close message or by the dead timer, so that its owner reconnects.
OrphanTransportCloses ==
    \A s \in Sockets :
        (sock[s] = "up" /\ tok[s] \notin sessions) ~> (sock[s] = "closed")

\* No transport uses t, or waits for the response that would name it.
Unused(t) ==
    \A s \in Sockets :
        sock[s] \in {"new", "closed"} \/ (sock[s] = "up" /\ tok[s] # t)

\* A session that no transport uses is removed eventually, by the cleanup or by
\* the retransmit limit: also the one a duplicated handshake created, and the
\* one whose response was lost.
OrphanSessionRemoved ==
    \A t \in Tokens : (t \in sessions /\ Unused(t)) ~> (t \notin sessions)

=============================================================================
