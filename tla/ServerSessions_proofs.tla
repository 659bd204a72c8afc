----------------------- MODULE ServerSessions_proofs -----------------------
(***************************************************************************)
(* For any number of transports, sessions, TLS connections, duplicated     *)
(* handshakes and restarts, and whatever the network loses: the tracker    *)
(* shows exactly the sessions and the relays that are alive.               *)
(***************************************************************************)
EXTENDS ServerSessions, TLAPS

-----------------------------------------------------------------------------
(* The inductive invariant. *)

\* A token that is anywhere has been drawn: in a datagram, in a session that
\* has an address to answer to, in a retransmit loop that runs or winds down.
TokensDrawn ==
    /\ \A m \in net : m[3] <= used
    /\ \A t \in 1..used : home[t] \in Sockets
    /\ \A t \in Tokens : loop[t] # "off" => t <= used

\* A transport that is up has been given its connID.
UpHasToken == \A s \in Sockets : sock[s] = "up" => tok[s] # 0

\* The loops of a session start at the end of its handshake.
HandshakeFirst == hs # 0 => loop[hs] = "off"

IInv ==
    /\ TypeOK
    /\ TokensDrawn
    /\ UpHasToken
    /\ HandshakeFirst
    /\ TrackerExact

-----------------------------------------------------------------------------
(* The tracker. *)

\* A connection is registered when its session is there, or its relay runs.
LEMMA Tracked ==
    TrackerExact <=>
        /\ \A k \in conns : k \in ({"udp"} \X sessions) \cup
                                  ({"tls"} \X {c \in Conns : tls[c] # "off"})
        /\ \A t \in sessions : <<"udp", t>> \in conns
        /\ \A c \in Conns : tls[c] # "off" => <<"tls", c>> \in conns
  BY DEF TrackerExact

\* Remove and Cleanup take the connections of the sessions they remove.
LEMMA RemovalExact ==
    ASSUME NEW ts, TypeOK, TrackerExact, RemoveSessions(ts), UNCHANGED tls
    PROVE  TrackerExact'
  BY DEF RemoveSessions, TrackerExact, TypeOK

\* A step that leaves sessions, relays and the tracker alone.
LEMMA TrackerFrame ==
    ASSUME TrackerExact, UNCHANGED <<sessions, tls, conns>>
    PROVE  TrackerExact'
  BY DEF TrackerExact

-----------------------------------------------------------------------------
(* The network. *)

\* Datagrams that may be put in the network: of tokens that have been drawn.
Sendable(ms) == ms \subseteq Messages /\ \A m \in ms : m[3] <= used

\* What clients and the listener send carries no token but a drawn one.
LEMMA Datagrams ==
    ASSUME TypeOK, NEW s \in Sockets
    PROVE  /\ Sendable({<<"hello", s, 0>>})
           /\ \A t \in 1..used :
                t \in Tokens /\ Sendable({<<"resp", s, t>>})
                /\ Sendable({<<"up", s, t>>}) /\ Sendable({<<"down", s, t>>})
                /\ Sendable({<<"close", s, t>>})
  BY SessionsAssumption DEF TypeOK, Sendable, Messages, Tokens

\* Losing datagrams and sending such ones keeps the network well formed.
LEMMA NetStep ==
    ASSUME TypeOK, TokensDrawn, NEW ms, Sendable(ms), net' \subseteq net \cup ms,
           used' \in Nat, used <= used'
    PROVE  net' \subseteq Messages /\ \A m \in net' : m[3] <= used'
<1>1. net' \subseteq Messages
  BY DEF TypeOK, Sendable
<1>2. \A m \in Messages : m[3] \in Nat
  BY SessionsAssumption DEF Messages, Tokens
<1>3. \A m \in net' : m[3] <= used
  BY DEF TokensDrawn, Sendable
<1> QED
  BY <1>1, <1>2, <1>3 DEF TypeOK

\* Receiving a datagram and answering with ms.
LEMMA TakeStep ==
    ASSUME NEW m, NEW ms, Take(m, ms)
    PROVE  m \in net /\ net' \subseteq net \cup ms
  BY DEF Take, Bound

-----------------------------------------------------------------------------
\* Nothing has been sent, drawn or registered at the start.
LEMMA InitIInv == Init => IInv
<1> SUFFICES ASSUME Init PROVE IInv
  OBVIOUS
<1>1. 0 \in 0..MaxDups /\ 0 \in 0..MaxTokens /\ 0 \in 0..MaxRestarts /\ 0 \in 0..0
  BY SessionsAssumption
<1>2. TypeOK
  BY <1>1 DEF Init, TypeOK
<1>3. TokensDrawn
  BY DEF Init, TokensDrawn
<1>4. UpHasToken /\ HandshakeFirst /\ TrackerExact
  BY DEF Init, UpHasToken, HandshakeFirst, TrackerExact
<1> QED
  BY <1>2, <1>3, <1>4 DEF IInv

\* The steps of the daemon's transport touch the transport and the network.
LEMMA ClientStep ==
    ASSUME IInv, NEW s \in Sockets, Client(s)
    PROVE  IInv'
<1> USE DEF IInv
<1>1. UNCHANGED <<tok, dups, sessionVars, conns, serverVars>>
  BY DEF Client, Connect, HandshakeTimeout, Disconnect, Keepalive, DeadTimer,
         clientVars
<1>2. /\ sock' \in [Sockets -> {"new", "hello", "up", "closed"}]
      /\ \A r \in Sockets : sock'[r] = "up" => sock[r] = "up"
  BY DEF Client, Connect, HandshakeTimeout, Disconnect, Keepalive, DeadTimer,
         CloseTransport, clientVars, TypeOK
<1>3. \E ms : Sendable(ms) /\ net' \subseteq net \cup ms
  <2>1. CASE Connect(s)
    BY <2>1, Datagrams DEF Connect
  <2>2. CASE Keepalive(s)
    <3>1. tok[s] \in 1..used
      BY <2>2, SessionsAssumption DEF Keepalive, UpHasToken, TypeOK
    <3> QED
      BY <2>2, <3>1, Datagrams DEF Keepalive
  <2>3. CASE HandshakeTimeout(s) \/ Disconnect(s) \/ DeadTimer(s)
    <3>1. Sendable({}) /\ net' \subseteq net \cup {}
      BY <2>3 DEF HandshakeTimeout, Disconnect, DeadTimer, CloseTransport, Sendable
    <3> QED
      BY <3>1
  <2> QED
    BY <2>1, <2>2, <2>3 DEF Client
<1>4. net' \subseteq Messages /\ \A m \in net' : m[3] <= used'
  BY <1>1, <1>3, NetStep DEF TypeOK, sessionVars
<1>5. TypeOK'
  BY <1>1, <1>2, <1>4 DEF TypeOK, sessionVars, serverVars
<1>6. TokensDrawn' /\ UpHasToken' /\ HandshakeFirst'
  BY <1>1, <1>2, <1>4 DEF TokensDrawn, UpHasToken, HandshakeFirst, sessionVars
<1>7. TrackerExact'
  BY <1>1, TrackerFrame DEF sessionVars, serverVars
<1> QED
  BY <1>5, <1>6, <1>7

\* A transport receives a response, a packet or a close.
LEMMA ClientReceivesStep ==
    ASSUME IInv, NEW s \in Sockets, NEW t \in Tokens, ClientReceives(s, t)
    PROVE  IInv'
<1> USE DEF IInv
<1>1. UNCHANGED <<dups, sessionVars, conns, serverVars>>
  BY DEF ClientReceives, HandshakeResponse, RecvPacket, RecvSessionClose, clientVars
<1>2. Sendable({})
  BY DEF Sendable
<1>3. net' \subseteq net \cup {}
  BY TakeStep
  DEF ClientReceives, HandshakeResponse, RecvPacket, RecvSessionClose, CloseTransport
<1>4. net' \subseteq Messages /\ \A m \in net' : m[3] <= used'
  BY <1>1, <1>2, <1>3, NetStep DEF TypeOK, sessionVars
<1>5. /\ sock' \in [Sockets -> {"new", "hello", "up", "closed"}]
      /\ tok' \in [Sockets -> 0..used]
      /\ UpHasToken'
  <2>1. CASE HandshakeResponse(s, t)
    <3>1. <<"resp", s, t>> \in net
      BY <2>1, TakeStep DEF HandshakeResponse
    <3>2. t \in 1..used
      <4>1. <<"resp", s, t>>[3] <= used
        BY <3>1 DEF TokensDrawn
      <4> QED
        BY <4>1, SessionsAssumption DEF Tokens, TypeOK
    <3> QED
      BY <2>1, <3>2 DEF HandshakeResponse, TypeOK, UpHasToken
  <2>2. CASE RecvPacket(s, t)
    BY <2>2 DEF RecvPacket, clientVars, TypeOK, UpHasToken
  <2>3. CASE RecvSessionClose(s, t)
    BY <2>3 DEF RecvSessionClose, CloseTransport, TypeOK, UpHasToken
  <2> QED
    BY <2>1, <2>2, <2>3 DEF ClientReceives
<1>6. TypeOK'
  BY <1>1, <1>4, <1>5 DEF TypeOK, sessionVars, serverVars
<1>7. TokensDrawn' /\ HandshakeFirst'
  BY <1>1, <1>4 DEF TokensDrawn, HandshakeFirst, sessionVars
<1>8. TrackerExact'
  BY <1>1, TrackerFrame DEF sessionVars, serverVars
<1> QED
  BY <1>5, <1>6, <1>7, <1>8

\* Losing a datagram, and refusing a handshake.
LEMMA LossStep ==
    ASSUME IInv, (\E m \in net : Lose(m)) \/ (\E s \in Sockets : Rejected(s))
    PROVE  IInv'
<1> USE DEF IInv
<1>1. UNCHANGED <<clientVars, sessionVars, conns, serverVars>>
  BY DEF Lose, Rejected
<1>2. net' \subseteq net \cup {} /\ dups' \in 0..MaxDups
  <2>1. CASE \E m \in net : Lose(m)
    BY <2>1 DEF Lose, TypeOK
  <2>2. ASSUME NEW s \in Sockets, TakeHello(s)
        PROVE  net' \subseteq net \cup {} /\ dups' \in 0..MaxDups
    BY <2>2, TakeStep, SessionsAssumption DEF TakeHello, TypeOK
  <2> QED
    BY <2>1, <2>2 DEF Rejected
<1>3. Sendable({})
  BY DEF Sendable
<1>4. net' \subseteq Messages /\ \A m \in net' : m[3] <= used'
  BY <1>1, <1>2, <1>3, NetStep DEF TypeOK, sessionVars
<1>5. TypeOK'
  BY <1>1, <1>2, <1>4 DEF TypeOK, clientVars, sessionVars, serverVars
<1>6. TokensDrawn' /\ UpHasToken' /\ HandshakeFirst'
  BY <1>1, <1>4
  DEF TokensDrawn, UpHasToken, HandshakeFirst, clientVars, sessionVars
<1>7. TrackerExact'
  BY <1>1, TrackerFrame DEF sessionVars, serverVars
<1> QED
  BY <1>5, <1>6, <1>7

\* handleHandshake draws a token that nothing refers to yet.
LEMMA HandshakeStep ==
    ASSUME IInv, NEW s \in Sockets, HandleHandshake(s)
    PROVE  IInv'
<1> USE DEF IInv
<1> DEFINE t == used + 1
<1>1. /\ used \in Nat /\ MaxTokens \in Nat /\ t \in Tokens /\ t \notin 1..used
      /\ 1..t = (1..used) \cup {t} /\ 0..used \subseteq 0..t
  BY SessionsAssumption DEF HandleHandshake, TypeOK, Tokens
<1>2. /\ used' = t /\ sessions' = sessions \cup {t}
      /\ home' = [home EXCEPT ![t] = s]
      /\ conns' = conns \cup {<<"udp", t>>}
      /\ hs' = t
      /\ UNCHANGED <<clientVars, loop, tombs, serverVars>>
  BY DEF HandleHandshake
<1> HIDE DEF t
<1>3. net' \subseteq net \cup {} /\ dups' \in 0..MaxDups
  BY SessionsAssumption DEF HandleHandshake, TakeHello, Take, Bound, TypeOK
<1>4. Sendable({})
  BY DEF Sendable
<1>5. used' \in Nat /\ used <= used' /\ used' \in 0..MaxTokens
  BY <1>1, <1>2, SessionsAssumption DEF t, HandleHandshake
<1>6. net' \subseteq Messages /\ \A m \in net' : m[3] <= used'
  BY <1>3, <1>4, <1>5, NetStep
<1>7. TypeOK'
  <2>1. tok' \in [Sockets -> 0..used']
    BY <1>1, <1>2 DEF TypeOK, clientVars
  <2>2. sessions' \subseteq 1..used' /\ tombs' \subseteq 1..used'
        /\ hs' \in sessions' \cup {0}
    BY <1>1, <1>2 DEF TypeOK
  <2>3. conns' \subseteq ConnIDs
    BY <1>1, <1>2 DEF TypeOK, ConnIDs
  <2>4. home' \in [Tokens -> Sockets \cup {0}]
    BY <1>1, <1>2 DEF TypeOK
  <2> QED
    BY <1>2, <1>3, <1>5, <1>6, <2>1, <2>2, <2>3, <2>4
    DEF TypeOK, clientVars, serverVars
<1>8. TokensDrawn'
  <2>1. \A r \in 1..used' : home'[r] \in Sockets
    BY <1>1, <1>2 DEF TokensDrawn, TypeOK
  <2>2. \A r \in Tokens : loop'[r] # "off" => r <= used'
    BY <1>1, <1>2, <1>5 DEF TokensDrawn, TypeOK, Tokens
  <2> QED
    BY <1>6, <2>1, <2>2 DEF TokensDrawn
<1>9. UpHasToken'
  BY <1>2 DEF UpHasToken, clientVars
<1>10. HandshakeFirst'
  <2>1. ~(t <= used)
    BY <1>1 DEF t
  <2> QED
    BY <1>1, <1>2, <2>1 DEF HandshakeFirst, TokensDrawn
<1>11. TrackerExact'
  BY <1>2 DEF TrackerExact, serverVars
<1> QED
  BY <1>7, <1>8, <1>9, <1>10, <1>11

\* A step that only starts, ends or moves retransmit loops, writes tombstones
\* and answers.
LEMMA AnswerFrame ==
    ASSUME IInv, NEW ms, Sendable(ms), net' \subseteq net \cup ms,
           UNCHANGED <<clientVars, dups, used, sessions, conns, serverVars>>,
           home' \in [Tokens -> Sockets \cup {0}],
           \A t \in 1..used : home'[t] \in Sockets,
           loop' \in [Tokens -> {"off", "run", "dead", "notified"}],
           \A t \in Tokens : loop'[t] # "off" => t <= used,
           tombs' \subseteq 1..used,
           hs' \in {0, hs},
           HandshakeFirst'
    PROVE  IInv'
<1> USE DEF IInv
<1>1. net' \subseteq Messages /\ \A m \in net' : m[3] <= used'
  BY NetStep DEF TypeOK
<1>2. TypeOK'
  BY <1>1 DEF TypeOK, clientVars, serverVars
<1>3. TokensDrawn' /\ UpHasToken'
  BY <1>1 DEF TokensDrawn, UpHasToken, clientVars
<1>4. TrackerExact'
  BY TrackerFrame DEF serverVars
<1> QED
  BY <1>2, <1>3, <1>4

\* The end of a handshake, the packets of a session, the retransmit limit and
\* tombstones.
LEMMA ListenerStep ==
    ASSUME IInv,
           \/ SendHandshakeResponse
           \/ \E s \in Sockets, t \in Tokens : HandlePacket(s, t)
           \/ \E t \in Tokens : \/ ServerSend(t) \/ ArqDies(t)
                                \/ NotifyDead(t) \/ ExpireTombstone(t)
           \/ BroadcastSessionClose
    PROVE  IInv'
<1> USE DEF IInv
<1>1. CASE SendHandshakeResponse
  <2>1. hs \in 1..used /\ hs \in Tokens
    BY <1>1, SessionsAssumption DEF SendHandshakeResponse, TypeOK, Tokens
  <2>2. Sendable({<<"resp", home[hs], hs>>})
    BY <2>1, Datagrams DEF TokensDrawn
  <2>3. net' \subseteq net \cup {<<"resp", home[hs], hs>>}
    BY <1>1 DEF SendHandshakeResponse, Bound
  <2> QED
    <3>1. /\ UNCHANGED <<clientVars, dups, used, sessions, home, tombs, conns,
                         serverVars>>
          /\ loop' = [loop EXCEPT ![hs] = "run"] /\ hs' = 0
      BY <1>1 DEF SendHandshakeResponse
    <3>2. /\ loop' \in [Tokens -> {"off", "run", "dead", "notified"}]
          /\ \A t \in Tokens : loop'[t] # "off" => t <= used
      BY <2>1, <3>1 DEF TypeOK, TokensDrawn
    <3>3. /\ home' \in [Tokens -> Sockets \cup {0}] /\ tombs' \subseteq 1..used
          /\ \A t \in 1..used : home'[t] \in Sockets
          /\ HandshakeFirst'
      BY <3>1 DEF TypeOK, TokensDrawn, HandshakeFirst
    <3> QED
      BY <2>2, <2>3, <3>1, <3>2, <3>3, AnswerFrame
<1>2. ASSUME NEW s \in Sockets, NEW t \in Tokens, HandlePacket(s, t)
      PROVE  IInv'
  <2>1. <<"up", s, t>> \in net
    BY <1>2, TakeStep DEF HandlePacket
  <2>2. t \in 1..used
    <3>1. <<"up", s, t>>[3] <= used
      BY <2>1 DEF TokensDrawn
    <3> QED
      BY <3>1, SessionsAssumption DEF Tokens, TypeOK
  <2>3. PICK ms \in {{}, {<<"down", s, t>>}, {<<"close", s, t>>}} :
           net' \subseteq net \cup ms
    BY <1>2, TakeStep DEF HandlePacket
  <2>4. Sendable(ms)
    BY <2>2, <2>3, Datagrams DEF Sendable
  <2> QED
    <3>1. UNCHANGED <<clientVars, dups, used, sessions, loop, tombs, hs, conns,
                      serverVars>>
      BY <1>2 DEF HandlePacket
    <3>2. /\ home' \in [Tokens -> Sockets \cup {0}]
          /\ \A r \in 1..used : home'[r] \in Sockets
      <4>1. home' = home \/ home' = [home EXCEPT ![t] = s]
        BY <1>2 DEF HandlePacket
      <4>2. home \in [Tokens -> Sockets \cup {0}] /\ 1..used \subseteq Tokens
        BY SessionsAssumption DEF TypeOK, Tokens
      <4> QED
        BY <4>1, <4>2 DEF TokensDrawn
    <3>3. /\ loop' \in [Tokens -> {"off", "run", "dead", "notified"}]
          /\ \A r \in Tokens : loop'[r] # "off" => r <= used
          /\ tombs' \subseteq 1..used
          /\ HandshakeFirst'
      BY <3>1 DEF TypeOK, TokensDrawn, HandshakeFirst
    <3> QED
      BY <2>3, <2>4, <3>1, <3>2, <3>3, AnswerFrame
<1>3. ASSUME NEW t \in Tokens, ServerSend(t)
      PROVE  IInv'
  <2>1. t \in 1..used
    BY <1>3 DEF ServerSend, TypeOK
  <2>2. Sendable({<<"down", home[t], t>>})
    BY <2>1, Datagrams DEF TokensDrawn
  <2>3. net' \subseteq net \cup {<<"down", home[t], t>>}
    BY <1>3 DEF ServerSend, Bound
  <2> QED
    BY <1>3, <2>2, <2>3, AnswerFrame
    DEF ServerSend, TypeOK, TokensDrawn, HandshakeFirst, sessionVars
<1>4. ASSUME NEW t \in Tokens, ArqDies(t)
      PROVE  IInv'
  <2>1. Sendable({}) /\ net' \subseteq net \cup {}
    BY <1>4 DEF ArqDies, Sendable, netVars
  <2> QED
    BY <1>4, <2>1, AnswerFrame
    DEF ArqDies, TypeOK, TokensDrawn, HandshakeFirst, netVars
<1>5. ASSUME NEW t \in Tokens, NotifyDead(t)
      PROVE  IInv'
  <2>1. t \in 1..used
    BY <1>5, SessionsAssumption DEF NotifyDead, TokensDrawn, TypeOK, Tokens
  <2>2. Sendable({<<"close", home[t], t>>})
    BY <2>1, Datagrams DEF TokensDrawn
  <2>3. net' \subseteq net \cup {<<"close", home[t], t>>}
    BY <1>5 DEF NotifyDead, Bound
  <2> QED
    <3>1. /\ UNCHANGED <<clientVars, dups, used, sessions, home, hs, conns,
                         serverVars>>
          /\ loop' = [loop EXCEPT ![t] = "notified"]
          /\ tombs' = tombs \cup {t} /\ loop[t] = "dead"
      BY <1>5 DEF NotifyDead
    <3>2. /\ loop' \in [Tokens -> {"off", "run", "dead", "notified"}]
          /\ \A r \in Tokens : loop'[r] # "off" => r <= used
          /\ tombs' \subseteq 1..used
      BY <2>1, <3>1 DEF TypeOK, TokensDrawn
    <3>3. /\ home' \in [Tokens -> Sockets \cup {0}]
          /\ \A r \in 1..used : home'[r] \in Sockets
          /\ HandshakeFirst'
      BY <3>1 DEF TypeOK, TokensDrawn, HandshakeFirst
    <3> QED
      BY <2>2, <2>3, <3>1, <3>2, <3>3, AnswerFrame
<1>6. ASSUME NEW t \in Tokens, ExpireTombstone(t)
      PROVE  IInv'
  <2>1. Sendable({}) /\ net' \subseteq net \cup {}
    BY <1>6 DEF ExpireTombstone, Sendable, netVars
  <2> QED
    BY <1>6, <2>1, AnswerFrame
    DEF ExpireTombstone, TypeOK, TokensDrawn, HandshakeFirst, netVars
<1>7. CASE BroadcastSessionClose
  <2> DEFINE ms == {<<"close", home[t], t>> : t \in sessions}
  <2>1. Sendable(ms)
    <3>1. \A t \in sessions : t \in 1..used
      BY DEF TypeOK
    <3>2. \A t \in sessions : Sendable({<<"close", home[t], t>>})
      BY <3>1, Datagrams DEF TokensDrawn
    <3> QED
      BY <3>2 DEF Sendable
  <2>2. net' \subseteq net \cup ms
    BY <1>7 DEF BroadcastSessionClose, Bound
  <2>3. net' \subseteq Messages /\ \A m \in net' : m[3] <= used'
    <3>1. used' = used /\ used \in Nat /\ used <= used
      BY <1>7 DEF BroadcastSessionClose, TypeOK, sessionVars
    <3> HIDE DEF IInv, ms
    <3> QED
      BY <2>1, <2>2, <3>1, NetStep DEF IInv
  <2>4. TypeOK'
    BY <1>7, <2>3 DEF BroadcastSessionClose, TypeOK, clientVars, sessionVars
  <2>5. TokensDrawn' /\ UpHasToken' /\ HandshakeFirst'
    BY <1>7, <2>3 DEF BroadcastSessionClose, TokensDrawn, UpHasToken,
                      HandshakeFirst, clientVars, sessionVars
  <2>6. TrackerExact'
    BY <1>7, TrackerFrame DEF BroadcastSessionClose, sessionVars
  <2> QED
    BY <2>4, <2>5, <2>6
<1> QED
  BY <1>1, <1>2, <1>3, <1>4, <1>5, <1>6, <1>7

\* Whichever removes a session, a failed handshake, the retransmit limit or the
\* cleanup, takes its connection out of the tracker.
LEMMA RemovalStep ==
    ASSUME IInv,
           \/ HandshakeWriteFails
           \/ \E t \in Tokens : RemoveDead(t) \/ Cleanup(t)
    PROVE  IInv'
<1> USE DEF IInv
<1>1. PICK ts : RemoveSessions(ts) /\ (hs' # 0 => hs \notin ts) /\ hs' \in {0, hs}
  BY DEF HandshakeWriteFails, RemoveDead, Cleanup, HandshakeFirst
<1>2. UNCHANGED <<clientVars, netVars, used, home, tombs, serverVars>>
  BY DEF HandshakeWriteFails, RemoveDead, Cleanup
<1>3. /\ loop' \in [Tokens -> {"off", "run", "dead", "notified"}]
      /\ \A t \in Tokens : loop'[t] = "off" \/ loop'[t] = loop[t]
  <2>1. loop \in [Tokens -> {"off", "run", "dead", "notified"}]
    BY DEF TypeOK
  <2>2. loop' = loop \/ \E t \in Tokens : \E place \in {"off", loop[t]} :
                           loop' = [loop EXCEPT ![t] = place]
    BY <2>1 DEF HandshakeWriteFails, RemoveDead, Cleanup, EndLoop
  <2> HIDE DEF IInv
  <2> QED
    BY <2>1, <2>2
<1>4. sessions' \subseteq sessions /\ conns' \subseteq conns
      /\ hs' \in sessions' \cup {0}
  BY <1>1 DEF RemoveSessions, TypeOK
<1>5. TypeOK'
  BY <1>2, <1>3, <1>4 DEF TypeOK, clientVars, netVars, serverVars
<1>6. TokensDrawn' /\ UpHasToken'
  BY <1>2, <1>3 DEF TokensDrawn, UpHasToken, clientVars, netVars
<1>7. HandshakeFirst'
  <2>1. hs' # 0 => hs' = hs /\ hs \in Tokens
    <3>1. 1..used \subseteq Tokens
      BY SessionsAssumption DEF TypeOK, Tokens
    <3> QED
      BY <1>1, <3>1 DEF TypeOK
  <2> QED
    BY <1>3, <2>1 DEF HandshakeFirst
<1>8. TrackerExact'
  BY <1>1, <1>2, RemovalExact DEF serverVars
<1> QED
  BY <1>5, <1>6, <1>7, <1>8

\* TLS connections, and the end of the process.
LEMMA TlsStep ==
    ASSUME IInv, NEW c \in Conns, TlsConn(c)
    PROVE  IInv'
<1> USE DEF IInv
<1>1. PICK relay \in {"tcp", "udp"} : Registers(c, relay) \/ Unregisters(c, relay)
  BY DEF TlsConn, HandleTCP, TCPRelayEnds, HandleUDP, UDPRelayEnds
<1>2. UNCHANGED <<clientVars, netVars, sessionVars, stopping, restarts>>
  BY <1>1 DEF Registers, Unregisters
<1>3. tls' \in [Conns -> {"off", "tcp", "udp"}] /\ conns' \subseteq ConnIDs
  BY <1>1 DEF Registers, Unregisters, TypeOK, ConnIDs
<1>4. TypeOK'
  BY <1>2, <1>3 DEF TypeOK, clientVars, netVars, sessionVars
<1>5. TokensDrawn' /\ UpHasToken' /\ HandshakeFirst'
  BY <1>2 DEF TokensDrawn, UpHasToken, HandshakeFirst, clientVars, netVars,
              sessionVars
<1>6. TrackerExact'
  <2>1. sessions' = sessions
    BY <1>2 DEF sessionVars
  <2>2. CASE Registers(c, relay)
    BY <2>1, <2>2 DEF Registers, TrackerExact, TypeOK
  <2>3. CASE Unregisters(c, relay)
    BY <2>1, <2>3 DEF Unregisters, TrackerExact, TypeOK
  <2> QED
    BY <1>1, <2>2, <2>3
<1> QED
  BY <1>4, <1>5, <1>6

\* A restart, or a crash, forgets sessions and tracker together.
LEMMA RestartStep ==
    ASSUME IInv, Restart
    PROVE  IInv'
<1> USE DEF IInv
<1>1. TypeOK'
  <2>1. restarts' \in 0..MaxRestarts
    BY SessionsAssumption DEF Restart, TypeOK
  <2> QED
    BY <2>1 DEF Restart, TypeOK, clientVars, netVars
<1>2. TokensDrawn' /\ UpHasToken' /\ HandshakeFirst'
  BY DEF Restart, TokensDrawn, UpHasToken, HandshakeFirst, clientVars, netVars
<1>3. TrackerExact'
  BY DEF Restart, TrackerExact
<1> QED
  BY <1>1, <1>2, <1>3

\* Every step of a client, the network or the server keeps the invariant.
LEMMA NextIInv == IInv /\ [Next]_vars => IInv'
<1> SUFFICES ASSUME IInv, [Next]_vars PROVE IInv'
  OBVIOUS
<1>1. CASE Next
  BY <1>1, ClientStep, ClientReceivesStep, LossStep, HandshakeStep, ListenerStep,
     RemovalStep, TlsStep, RestartStep
  DEF Next, Session
<1>2. CASE UNCHANGED vars
  BY <1>2
  DEF vars, clientVars, netVars, sessionVars, serverVars, IInv, TypeOK,
      TokensDrawn, UpHasToken, HandshakeFirst, TrackerExact
<1> QED
  BY <1>1, <1>2

-----------------------------------------------------------------------------
\* The invariant holds in every reachable state of clients, network and server.
THEOREM Invariance == Spec => []IInv
  BY InitIInv, NextIInv, PTL DEF Spec

\* Sessions, tombstones and the handshake in progress refer to drawn tokens.
THEOREM TypeCorrect == Spec => []TypeOK
<1>1. IInv => TypeOK
  BY DEF IInv
<1> QED
  BY <1>1, Invariance, PTL

\* The tracker is exact: cleanup, killDeadSession, a failed handshake and a
\* restart, in any order and number, leave neither a stale entry nor a gap.
THEOREM TrackerIsExact == Spec => []TrackerExact
<1>1. IInv => TrackerExact
  BY DEF IInv
<1> QED
  BY <1>1, Invariance, PTL

-----------------------------------------------------------------------------
(* Close messages. *)

\* A tombstone stands for a session that is gone or is being removed.
TombsDead == \A t \in tombs : t \notin sessions \/ loop[t] = "notified"

\* Inductive with IInv.
CInv == TombsDead /\ CloseIsTruthful

\* A step that sends no close and starts no session.
LEMMA CloseFrame ==
    ASSUME TypeOK, CInv, NEW ms, \A m \in ms : m[1] # "close",
           net' \subseteq net \cup ms,
           sessions' \subseteq sessions, tombs' \subseteq tombs, stopping' = stopping,
           \A t \in sessions' : loop[t] = "notified" => loop'[t] = "notified"
    PROVE  CInv'
<1>1. TombsDead'
  BY DEF CInv, TombsDead
<1>2. ASSUME NEW s \in Sockets, NEW t \in Tokens, <<"close", s, t>> \in net'
      PROVE  t \notin sessions' \/ loop'[t] = "notified" \/ stopping'
  <2>1. <<"close", s, t>>[1] = "close"
    OBVIOUS
  <2>2. <<"close", s, t>> \in net
    BY <1>2, <2>1
  <2> QED BY <2>2 DEF CInv, CloseIsTruthful
<1> QED BY <1>1, <1>2 DEF CInv, CloseIsTruthful

\* ... as one that sends nothing.
LEMMA CloseQuiet ==
    ASSUME TypeOK, CInv, net' \subseteq net,
           sessions' \subseteq sessions, tombs' \subseteq tombs, stopping' = stopping,
           \A t \in sessions' : loop[t] = "notified" => loop'[t] = "notified"
    PROVE  CInv'
<1> DEFINE ms == {}
<1>1. net' \subseteq net \cup ms /\ \A m \in ms : m[1] # "close"
  OBVIOUS
<1> HIDE DEF ms
<1> QED BY <1>1, CloseFrame

\* No close has been sent at the start.
LEMMA InitCInv == Init => CInv
  BY DEF Init, CInv, TombsDead, CloseIsTruthful

\* The transports send no close, and receive some.
LEMMA ClientClose ==
    ASSUME IInv, CInv, NEW s \in Sockets,
           \/ Client(s) \/ Rejected(s)
           \/ \E t \in Tokens : ClientReceives(s, t)
    PROVE  CInv'
<1>1. UNCHANGED <<sessions, tombs, loop, stopping>>
  BY DEF Client, Connect, HandshakeTimeout, Disconnect, Keepalive, DeadTimer,
         ClientReceives, HandshakeResponse, RecvPacket, RecvSessionClose, Rejected,
         sessionVars, serverVars
<1> DEFINE ms == {<<"hello", s, 0>>, <<"up", s, tok[s]>>}
<1>2. net' \subseteq net \cup ms
  BY DEF Client, Connect, HandshakeTimeout, Disconnect, Keepalive, DeadTimer,
         ClientReceives, HandshakeResponse, RecvPacket, RecvSessionClose, Rejected,
         CloseTransport, TakeHello, Take, Bound
<1>3. \A m \in ms : m[1] # "close"
  OBVIOUS
<1> HIDE DEF ms
<1> QED BY <1>1, <1>2, <1>3, CloseFrame DEF IInv

\* A new session has a token that no close message names.
LEMMA HandshakeClose ==
    ASSUME IInv, CInv, NEW s \in Sockets, HandleHandshake(s)
    PROVE  CInv'
<1> USE DEF IInv
<1>1. /\ net' \subseteq net
      /\ sessions' = sessions \cup {used + 1}
      /\ UNCHANGED <<tombs, loop, stopping>>
  BY DEF HandleHandshake, TakeHello, Take, Bound, serverVars
<1>2. \A t \in Nat : t <= used => t # used + 1
  BY DEF TypeOK
<1>3. TombsDead'
  BY <1>1, <1>2 DEF CInv, TombsDead, TypeOK
<1>4. ASSUME NEW r \in Sockets, NEW t \in Tokens, <<"close", r, t>> \in net'
      PROVE  t \notin sessions' \/ loop'[t] = "notified" \/ stopping'
  <2>1. <<"close", r, t>>[3] = t /\ <<"close", r, t>> \in net
    BY <1>1, <1>4
  <2>2. t \in Nat /\ t <= used
    BY <2>1, SessionsAssumption DEF TokensDrawn, Tokens
  <2> QED BY <1>1, <1>2, <2>1, <2>2 DEF CInv, CloseIsTruthful
<1> QED BY <1>3, <1>4 DEF CInv, CloseIsTruthful

\* A packet is answered with a close if its session is gone and has a tombstone.
LEMMA PacketClose ==
    ASSUME IInv, CInv, NEW s \in Sockets, NEW t \in Tokens, HandlePacket(s, t)
    PROVE  CInv'
<1>1. UNCHANGED <<sessions, tombs, loop, stopping>>
  BY DEF HandlePacket, serverVars
<1>2. CASE \E ms \in {{}, {<<"down", s, t>>}} : net' \subseteq net \cup ms
  <2>1. \A ms \in {{}, {<<"down", s, t>>}} : \A m \in ms : m[1] # "close"
    OBVIOUS
  <2> QED BY <1>1, <1>2, <2>1, CloseFrame DEF IInv
<1>3. CASE t \notin sessions /\ net' \subseteq net \cup {<<"close", s, t>>}
  <2>1. ASSUME NEW r \in Sockets, NEW u \in Tokens, <<"close", r, u>> \in net'
        PROVE  u \notin sessions' \/ loop'[u] = "notified" \/ stopping'
    <3>1. <<"close", r, u>> \in net \/ u = t
      BY <1>3, <2>1
    <3> QED BY <1>1, <1>3, <3>1 DEF CInv, CloseIsTruthful
  <2> QED BY <1>1, <2>1 DEF CInv, TombsDead, CloseIsTruthful
<1>4. \/ \E ms \in {{}, {<<"down", s, t>>}} : net' \subseteq net \cup ms
      \/ t \notin sessions /\ net' \subseteq net \cup {<<"close", s, t>>}
  BY DEF HandlePacket, Take, Bound
<1> QED BY <1>2, <1>3, <1>4

\* What the server does with its sessions on its own.
LEMMA SessionClose ==
    ASSUME IInv, CInv,
           \/ SendHandshakeResponse \/ HandshakeWriteFails
           \/ \E t \in Tokens : Session(t)
    PROVE  CInv'
<1> USE DEF IInv
<1>1. CASE SendHandshakeResponse
  <2>1. \A m \in {<<"resp", home[hs], hs>>} : m[1] # "close"
    OBVIOUS
  <2>2. net' \subseteq net \cup {<<"resp", home[hs], hs>>}
    BY <1>1 DEF SendHandshakeResponse, Bound
  <2>3. loop[hs] = "off" /\ sessions \subseteq Tokens
    BY <1>1, SessionsAssumption DEF SendHandshakeResponse, HandshakeFirst, TypeOK, Tokens
  <2>4. \A t \in sessions : loop[t] = "notified" => loop'[t] = "notified"
    BY <1>1, <2>3 DEF SendHandshakeResponse, TypeOK
  <2> QED BY <1>1, <2>1, <2>2, <2>4, CloseFrame DEF SendHandshakeResponse, serverVars
<1>2. CASE HandshakeWriteFails
  BY <1>2, CloseQuiet DEF HandshakeWriteFails, RemoveSessions, netVars, serverVars
<1>3. ASSUME NEW t \in Tokens, ServerSend(t)
      PROVE  CInv'
  <2> DEFINE ms == {<<"down", home[t], t>>}
  <2>1. \A m \in ms : m[1] # "close"
    OBVIOUS
  <2>2. /\ net' \subseteq net \cup ms
        /\ UNCHANGED <<sessions, tombs, loop, stopping>>
    BY <1>3 DEF ServerSend, Bound, sessionVars, serverVars
  <2> HIDE DEF ms
  <2> QED BY <2>1, <2>2, CloseFrame
<1>4. ASSUME NEW t \in Tokens, NotifyDead(t)
      PROVE  CInv'
  <2>1. /\ UNCHANGED <<sessions, stopping>>
        /\ loop' = [loop EXCEPT ![t] = "notified"]
        /\ tombs' = tombs \cup {t}
        /\ net' \subseteq net \cup {<<"close", home[t], t>>}
    BY <1>4 DEF NotifyDead, Bound, serverVars
  <2>2. \A r \in Tokens : (r = t \/ loop[r] = "notified") => loop'[r] = "notified"
    BY <2>1 DEF TypeOK
  <2>3. tombs \subseteq Tokens
    BY SessionsAssumption DEF TypeOK, Tokens
  <2>4. ASSUME NEW s \in Sockets, NEW r \in Tokens, <<"close", s, r>> \in net'
        PROVE  r \notin sessions' \/ loop'[r] = "notified" \/ stopping'
    <3>1. <<"close", s, r>> \in net \/ r = t
      BY <2>1, <2>4
    <3> QED BY <2>1, <2>2, <3>1 DEF CInv, CloseIsTruthful
  <2>5. TombsDead'
    BY <2>1, <2>2, <2>3 DEF CInv, TombsDead
  <2> QED BY <2>4, <2>5 DEF CInv, CloseIsTruthful
<1>5. ASSUME NEW t \in Tokens, ArqDies(t) \/ RemoveDead(t) \/ Cleanup(t)
      PROVE  CInv'
  <2>1. /\ UNCHANGED <<net, tombs, stopping>>
        /\ sessions' \subseteq sessions
    BY <1>5 DEF ArqDies, RemoveDead, Cleanup, RemoveSessions, netVars, serverVars
  <2>2. sessions \subseteq Tokens
    BY SessionsAssumption DEF TypeOK, Tokens
  <2>3. \A r \in sessions' : loop[r] = "notified" => loop'[r] = "notified"
    <3>1. CASE ArqDies(t)
      BY <2>1, <2>2, <3>1 DEF ArqDies, TypeOK
    <3>2. CASE RemoveDead(t)
      BY <2>1, <2>2, <3>2 DEF RemoveDead, RemoveSessions, TypeOK
    <3>3. CASE Cleanup(t)
      BY <2>1, <2>2, <3>3 DEF Cleanup, EndLoop, TypeOK
    <3> QED BY <1>5, <3>1, <3>2, <3>3
  <2> QED BY <2>1, <2>3, CloseQuiet
<1>6. ASSUME NEW t \in Tokens, ExpireTombstone(t)
      PROVE  CInv'
  BY <1>6, CloseQuiet DEF ExpireTombstone, netVars, serverVars
<1> QED BY <1>1, <1>2, <1>3, <1>4, <1>5, <1>6 DEF Session

\* Every step keeps the close messages truthful.
LEMMA NextCInv == IInv /\ CInv /\ [Next]_vars => CInv'
<1> SUFFICES ASSUME IInv, CInv, [Next]_vars PROVE CInv'
  OBVIOUS
<1>1. ASSUME NEW c \in Conns, TlsConn(c)
      PROVE  CInv'
  BY <1>1, CloseQuiet
     DEF IInv, TlsConn, HandleTCP, TCPRelayEnds, HandleUDP, UDPRelayEnds, Registers,
         Unregisters, netVars, sessionVars
<1>2. CASE BroadcastSessionClose
  BY <1>2 DEF BroadcastSessionClose, CInv, TombsDead, CloseIsTruthful, sessionVars
<1>3. CASE Restart
  BY <1>3 DEF Restart, CInv, TombsDead, CloseIsTruthful
<1>4. CASE UNCHANGED vars
  BY <1>4 DEF vars, netVars, sessionVars, serverVars, CInv, TombsDead, CloseIsTruthful
<1>5. ASSUME NEW m \in net, Lose(m)
      PROVE  CInv'
  BY <1>5, CloseQuiet DEF IInv, Lose, sessionVars, serverVars
<1> QED
  BY <1>1, <1>2, <1>3, <1>4, <1>5, ClientClose, HandshakeClose, PacketClose,
     SessionClose DEF Next

\* A close in flight is never for a session that serves a client.
THEOREM ClosesAreTruthful == Spec => []CloseIsTruthful
<1>1. CInv => CloseIsTruthful
  BY DEF CInv
<1> QED
  BY <1>1, Invariance, InitCInv, NextCInv, PTL DEF Spec


=============================================================================
