----------------------------- MODULE ServerRing -----------------------------
(***************************************************************************)
(* The ring of exit servers of daemon/internal/transport/servers.go:       *)
(* ConnectAny walks a fresh ring for /connect; after that the ring is      *)
(* shared by the reconnect loops of the tunnel (its health loop and the    *)
(* SOCKS handlers that rebuild a rejected transport), each of which dials  *)
(* Current() and reports the outcome.  Every method is one critical        *)
(* section of r.mu; NoteFailure is two.                                    *)
(***************************************************************************)
EXTENDS Naturals, FiniteSets

CONSTANTS
    N,       \* number of distinct servers in the ring
    Dialers  \* goroutines that run reconnectTransport on the ring

Servers == 0..(N - 1)

ASSUME RingAssumption == N \in Nat \ {0}

VARIABLES
    cur,       \* index of the server the next dial goes to
    rejected,  \* servers that answered "invalid key" since the last success
    call,      \* the ConnectAny call
    pc,        \* where each dialer is
    addr,      \* the server a dialer dials
    knows,     \* servers whose device table has the key: they never reject it
    healthy    \* servers that accept whenever the local link is up

world == <<knows, healthy>>
vars == <<cur, rejected, call, pc, addr, world>>

\* Why a dial failed: the local link is down, the key is rejected, the rest.
Errors == {"unreachable", "invalid key", "other"}
Results == {"connected", "unreachable", "invalid key", "other"}

TypeOK ==
    /\ cur \in Servers
    /\ rejected \subseteq Servers
    /\ call \in [i : 0..N, said : [Servers -> Errors \cup {"none"}],
                 lastErr : BOOLEAN, lastReject : BOOLEAN,
                 result : Results \cup {"running"}]
    /\ pc \in [Dialers -> {"off", "idle", "dialing", "advance", "rejected",
                           "judge", "connected", "revoked"}]
    /\ addr \in [Dialers -> Servers]
    /\ knows \subseteq Servers
    /\ healthy \subseteq knows

\* NewServerRing, and the call that /connect makes on it.
Init ==
    /\ cur = 0
    /\ rejected = {}
    /\ call = [i |-> 0, said |-> [s \in Servers |-> "none"],
               lastErr |-> FALSE, lastReject |-> FALSE,
               result |-> "running"]
    /\ pc = [d \in Dialers |-> "off"]
    /\ addr = [d \in Dialers |-> 0]
    /\ knows \in SUBSET Servers
    /\ healthy \in SUBSET knows

\* What a server may answer.
MayFailWith(s, e) ==
    /\ e \in Errors
    /\ e = "invalid key" => s \notin knows
    /\ e = "other" => s \notin healthy

\* Mutant: the index does not wrap.
AdvanceIndexNoWrap == IF N < 2 THEN cur ELSE cur + 1

AdvanceIndex == IF N < 2 THEN cur ELSE (cur + 1) % N

\* Mutant: one rejection is enough.
AnyRejected == rejected # {}

AllRejected == Servers \subseteq rejected

-----------------------------------------------------------------------------
(* ConnectAny, alone on its ring.                                          *)

ConnectAnyOk ==
    /\ call.result = "running"
    /\ call.i < N
    /\ rejected' = {}
    /\ call' = [call EXCEPT !.result = "connected"]
    /\ pc' = [d \in Dialers |-> "idle"]
    /\ UNCHANGED <<cur, addr, world>>

\* Mutant: any failure that is not a rejection ends the call.
ConnectAnyFailsFast(e) ==
    /\ call.result = "running"
    /\ call.i < N
    /\ MayFailWith(cur, e)
    /\ IF e # "invalid key"
         THEN /\ call' = [call EXCEPT !.result = e, !.said[cur] = e]
              /\ UNCHANGED <<cur, rejected>>
         ELSE /\ call' = [call EXCEPT !.i = @ + 1, !.said[cur] = e,
                            !.lastReject = TRUE]
              /\ rejected' = rejected \cup {cur}
              /\ cur' = AdvanceIndex
    /\ UNCHANGED <<pc, addr, world>>

\* A link that is down ends the call, anything else moves to the next server.
ConnectAnyFails(e) ==
    /\ call.result = "running"
    /\ call.i < N
    /\ MayFailWith(cur, e)
    /\ IF e = "unreachable"
         THEN /\ call' = [call EXCEPT !.result = "unreachable", !.said[cur] = e]
              /\ UNCHANGED <<cur, rejected>>
         ELSE /\ call' = [call EXCEPT !.i = @ + 1, !.said[cur] = e,
                            !.lastReject = @ \/ e = "invalid key",
                            !.lastErr = @ \/ e = "other"]
              /\ rejected' = IF e = "invalid key" THEN rejected \cup {cur}
                                                 ELSE rejected
              /\ cur' = AdvanceIndex
    /\ UNCHANGED <<pc, addr, world>>

\* Mutant: a rejection wins over every other failure.
ConnectAnyReturnReject ==
    /\ call.result = "running"
    /\ call.i = N
    /\ call' = [call EXCEPT !.result = IF call.lastReject THEN "invalid key"
                                                          ELSE "other"]
    /\ UNCHANGED <<cur, rejected, pc, addr, world>>

\* After the loop: the last failure that is not a rejection wins.
ConnectAnyReturn ==
    /\ call.result = "running"
    /\ call.i = N
    /\ call' = [call EXCEPT !.result = IF call.lastErr THEN "other"
                                                       ELSE "invalid key"]
    /\ UNCHANGED <<cur, rejected, pc, addr, world>>

-----------------------------------------------------------------------------
(* reconnectTransport and tryReconnectOnce on the shared ring.             *)

\* ring.Current().
Pick(d) ==
    /\ pc[d] = "idle"
    /\ addr' = [addr EXCEPT ![d] = cur]
    /\ pc' = [pc EXCEPT ![d] = "dialing"]
    /\ UNCHANGED <<cur, rejected, call, world>>

\* NoteSuccess.
DialOk(d) ==
    /\ pc[d] = "dialing"
    /\ rejected' = {}
    /\ pc' = [pc EXCEPT ![d] = "connected"]
    /\ UNCHANGED <<cur, call, addr, world>>

\* The first half of NoteFailure.
DialFails(d, e) ==
    /\ pc[d] = "dialing"
    /\ MayFailWith(addr[d], e)
    /\ rejected' = IF e = "invalid key" THEN rejected \cup {addr[d]}
                                        ELSE rejected
    /\ pc' = [pc EXCEPT ![d] = CASE e = "unreachable" -> "idle"
                                 [] e = "invalid key" -> "rejected"
                                 [] e = "other" -> "advance"]
    /\ UNCHANGED <<cur, call, addr, world>>

\* Mutant: a failure does not move the ring.
AdvanceStays(d) ==
    /\ pc[d] \in {"advance", "rejected"}
    /\ pc' = [pc EXCEPT ![d] = IF @ = "advance" THEN "idle" ELSE "judge"]
    /\ UNCHANGED <<cur, rejected, call, addr, world>>

\* Advance, the second half: it moves on from wherever the ring is by now.
Advance(d) ==
    /\ pc[d] \in {"advance", "rejected"}
    /\ cur' = AdvanceIndex
    /\ pc' = [pc EXCEPT ![d] = IF @ = "advance" THEN "idle" ELSE "judge"]
    /\ UNCHANGED <<rejected, call, addr, world>>

\* keyRejectedEverywhere decides whether a rejection is final.
KeyRejectedEverywhere(d) ==
    /\ pc[d] = "judge"
    /\ pc' = [pc EXCEPT ![d] = IF AllRejected THEN "revoked" ELSE "idle"]
    /\ UNCHANGED <<cur, rejected, call, addr, world>>

\* The transport dies and its owner reconnects.
Lost(d) ==
    /\ pc[d] = "connected"
    /\ pc' = [pc EXCEPT ![d] = "idle"]
    /\ UNCHANGED <<cur, rejected, call, addr, world>>

-----------------------------------------------------------------------------
ConnectAny ==
    \/ ConnectAnyOk
    \/ \E e \in Errors : ConnectAnyFails(e)
    \/ ConnectAnyReturn

Dial(d) == DialOk(d) \/ \E e \in Errors : DialFails(d, e)

Next ==
    \/ ConnectAny
    \/ \E d \in Dialers : \/ Pick(d) \/ Dial(d) \/ Advance(d)
                          \/ KeyRejectedEverywhere(d) \/ Lost(d)

Spec == Init /\ [][Next]_vars

\* Dialers are scheduled, a dial ends, and the local link is not down for ever.
Fairness ==
    \A d \in Dialers :
        /\ WF_vars(Pick(d) \/ Advance(d) \/ KeyRejectedEverywhere(d))
        /\ WF_vars(Dial(d))
        /\ SF_vars(DialOk(d) \/ \E e \in Errors \ {"unreachable"} : DialFails(d, e))

FairSpec == Spec /\ Fairness

-----------------------------------------------------------------------------
(* Properties.                                                             *)

\* ConnectAny reports "invalid key", which makes the client stop for good,
\* only when every server of the ring rejected the key in this call.
InvalidKeyIsUnanimous ==
    call.result = "invalid key" => \A s \in Servers : call.said[s] = "invalid key"

\* ConnectAny fails over completely: unless the link is down, an error means
\* that every server has been dialled (none twice, none skipped).
EveryServerTried ==
    call.result \in {"other", "invalid key"} =>
        \A s \in Servers : call.said[s] # "none"

\* A reconnect loop does not take a lagging server's rejection for a revoked
\* device: while one server knows the key, no loop gives up.
NeverRevoked == knows # {} => \A d \in Dialers : pc[d] # "revoked"

\* A dead exit is routed around: with a healthy server in the ring a dialer
\* reaches a connection, whatever the others answer.
FailoverReaches ==
    healthy # {} => \A d \in Dialers : pc[d] = "idle" ~> pc[d] = "connected"

=============================================================================
