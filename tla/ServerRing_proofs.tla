------------------------- MODULE ServerRing_proofs -------------------------
(***************************************************************************)
(* For a ring of any size and any set of dialers: ConnectAny dials every   *)
(* server before it gives up, calls a key invalid only when all servers    *)
(* did, and no reconnect loop takes a lagging server's rejection for a     *)
(* revoked device, however the dialers interleave.                         *)
(***************************************************************************)
EXTENDS ServerRing, TLAPS

-----------------------------------------------------------------------------
(* The inductive invariant. *)

\* ConnectAny has dialled the servers below call.i and stands at the next one;
\* when it has been round the ring, it is back at the first.
Walked ==
    /\ call.result = "running" => cur = IF call.i < N THEN call.i ELSE 0
    /\ \A s \in Servers : s < call.i => call.said[s] # "none"

\* lastErr remembers every failure that was not a rejection.
ErrRemembered ==
    ~call.lastErr => \A s \in Servers : s < call.i => call.said[s] = "invalid key"

\* The loop of ConnectAny is over when it returns one of these.
Returned ==
    /\ call.result \in {"other", "invalid key"} => call.i = N
    /\ call.result = "invalid key" => ~call.lastErr

\* A server that has the key is never marked, so a loop gives up only when no
\* server has it.
Rejections ==
    /\ rejected \cap knows = {}
    /\ \A d \in Dialers : pc[d] = "revoked" => knows = {}

\* Dialers start with the transport ConnectAny has connected.
DialersWait == call.result = "running" => \A d \in Dialers : pc[d] = "off"

IInv ==
    /\ TypeOK
    /\ DialersWait
    /\ Walked
    /\ ErrRemembered
    /\ Returned
    /\ Rejections

-----------------------------------------------------------------------------
\* Advance moves to the next server and wraps at the end of the ring.
LEMMA AdvanceWraps ==
    ASSUME cur \in Servers
    PROVE  /\ AdvanceIndex \in Servers
           /\ AdvanceIndex = IF cur + 1 < N THEN cur + 1 ELSE 0
<1>1. N \in Nat /\ N >= 1 /\ cur \in Nat /\ cur < N
  BY RingAssumption DEF Servers
<1>2. CASE cur + 1 < N
  <2>1. (cur + 1) % N = cur + 1
    BY <1>1, <1>2
  <2> QED
    BY <1>1, <1>2, <2>1 DEF AdvanceIndex, Servers
<1>3. CASE cur + 1 = N
  <2>1. N % N = 0
    BY <1>1
  <2> QED
    BY <1>1, <1>3, <2>1 DEF AdvanceIndex, Servers
<1> QED
  BY <1>1, <1>2, <1>3

\* NewServerRing and the start of ConnectAny.
LEMMA InitIInv == Init => IInv
<1> SUFFICES ASSUME Init PROVE IInv
  OBVIOUS
<1> USE RingAssumption
<1>1. /\ call.i = 0 /\ call.result = "running" /\ call.lastErr = FALSE
      /\ 0 \in Servers
  BY DEF Init, Servers
<1>2. TypeOK
  BY <1>1 DEF Init, TypeOK
<1>3. Walked /\ ErrRemembered
  BY <1>1 DEF Init, Walked, ErrRemembered, Servers
<1>4. Returned /\ Rejections /\ DialersWait
  BY <1>1 DEF Init, Returned, Rejections, DialersWait
<1> QED
  BY <1>2, <1>3, <1>4 DEF IInv

\* A failed dial of ConnectAny keeps the invariant: the server at cur is the one
\* numbered call.i.
LEMMA FailsStep ==
    ASSUME IInv, NEW e \in Errors, ConnectAnyFails(e)
    PROVE  IInv'
<1> USE RingAssumption
<1>1. call.i \in 0..N /\ call.i < N /\ cur = call.i /\ cur \in Servers
  BY DEF IInv, TypeOK, Walked, ConnectAnyFails, Servers
<1>2. /\ call.said \in [Servers -> Errors \cup {"none"}]
      /\ call.lastErr \in BOOLEAN /\ call.lastReject \in BOOLEAN
      /\ call.result = "running"
  BY DEF IInv, TypeOK, ConnectAnyFails
<1>3. CASE e = "unreachable"
  <2>1. /\ call' = [call EXCEPT !.result = "unreachable", !.said[cur] = e]
        /\ UNCHANGED <<cur, rejected, pc, addr, world>>
    BY <1>3 DEF ConnectAnyFails
  <2>2. /\ call'.i = call.i /\ call'.lastErr = call.lastErr
        /\ call'.result = "unreachable"
        /\ \A s \in Servers : s # cur => call'.said[s] = call.said[s]
    BY <1>1, <1>2, <2>1 DEF IInv, TypeOK
  <2>3. TypeOK'
    BY <1>1, <1>2, <2>1 DEF IInv, TypeOK, world, Results
  <2>4. \A s \in Servers : s < call.i => call'.said[s] = call.said[s]
    BY <1>1, <2>2 DEF Servers
  <2>5. Walked'
    BY <2>2, <2>4 DEF IInv, Walked
  <2>6. ErrRemembered'
    BY <2>2, <2>4 DEF IInv, ErrRemembered
  <2>7. Returned' /\ DialersWait'
    BY <2>2 DEF Returned, DialersWait
  <2>8. Rejections'
    BY <2>1 DEF IInv, Rejections, world
  <2> QED
    BY <2>3, <2>5, <2>6, <2>7, <2>8 DEF IInv
<1>4. CASE e # "unreachable"
  <2>1. /\ call' = [call EXCEPT !.i = @ + 1, !.said[cur] = e,
                      !.lastReject = @ \/ e = "invalid key",
                      !.lastErr = @ \/ e = "other"]
        /\ rejected' = IF e = "invalid key" THEN rejected \cup {cur} ELSE rejected
        /\ cur' = AdvanceIndex
        /\ UNCHANGED <<pc, addr, world>>
        /\ MayFailWith(cur, e)
    BY <1>4 DEF ConnectAnyFails
  <2>2. e \in {"invalid key", "other"}
    BY <1>4 DEF Errors
  <2>3. /\ call'.i = call.i + 1
        /\ call'.lastErr = (call.lastErr \/ e = "other")
        /\ call'.result = "running"
        /\ call'.said = [call.said EXCEPT ![cur] = e]
    BY <1>1, <1>2, <2>1 DEF IInv, TypeOK
  <2>4. cur' \in Servers /\ cur' = IF cur + 1 < N THEN cur + 1 ELSE 0
    BY <1>1, <2>1, AdvanceWraps
  <2>5. TypeOK'
    <3>1. call' \in [i : 0..N, said : [Servers -> Errors \cup {"none"}],
                     lastErr : BOOLEAN, lastReject : BOOLEAN,
                     result : Results \cup {"running"}]
      <4>1. (call.lastErr \/ e = "other") \in BOOLEAN
            /\ (call.lastReject \/ e = "invalid key") \in BOOLEAN
        OBVIOUS
      <4>2. call.i + 1 \in 0..N
        BY <1>1
      <4> QED
        BY <1>1, <1>2, <2>1, <4>1, <4>2 DEF IInv, TypeOK
    <3>2. rejected' \subseteq Servers
      BY <1>1, <2>1 DEF IInv, TypeOK
    <3> QED
      BY <2>1, <2>4, <3>1, <3>2 DEF IInv, TypeOK, world
  <2>6. \A s \in Servers :
          s < call'.i => \/ s = cur /\ call'.said[s] = e
                         \/ s < call.i /\ call'.said[s] = call.said[s]
    <3>1. \A s \in Servers :
            call'.said[s] = IF s = cur THEN e ELSE call.said[s]
      BY <1>1, <1>2, <2>3
    <3>2. \A s \in Servers : s < call'.i => s = cur \/ s < call.i
      BY <1>1, <2>3 DEF Servers
    <3> SUFFICES ASSUME NEW s \in Servers, s < call'.i
                 PROVE  \/ s = cur /\ call'.said[s] = e
                        \/ s < call.i /\ call'.said[s] = call.said[s]
      OBVIOUS
    <3>4. CASE s = cur
      BY <3>1, <3>4
    <3>5. CASE s # cur
      BY <3>1, <3>2, <3>5
    <3> QED
      BY <3>4, <3>5
  <2>7. Walked'
    BY <1>1, <2>2, <2>3, <2>4, <2>6 DEF IInv, Walked
  <2>8. ErrRemembered'
    BY <2>2, <2>3, <2>6 DEF IInv, ErrRemembered
  <2>9. Returned' /\ DialersWait'
    BY <2>1, <2>3 DEF IInv, Returned, DialersWait, TypeOK
  <2>10. Rejections'
    BY <1>1, <2>1 DEF IInv, Rejections, MayFailWith, world
  <2> QED
    BY <2>5, <2>7, <2>8, <2>9, <2>10 DEF IInv
<1> QED
  BY <1>3, <1>4

\* The other two ways ConnectAny goes on.
LEMMA ConnectAnyStep ==
    ASSUME IInv, ConnectAnyOk \/ ConnectAnyReturn
    PROVE  IInv'
<1> USE RingAssumption
<1>1. CASE ConnectAnyOk
  <2>1. /\ call'.i = call.i /\ call'.said = call.said
        /\ call'.lastErr = call.lastErr /\ call'.result = "connected"
    BY <1>1 DEF ConnectAnyOk, IInv, TypeOK
  <2>2. TypeOK'
    BY <1>1 DEF ConnectAnyOk, IInv, TypeOK, world, Results
  <2>3. Walked' /\ ErrRemembered' /\ Returned' /\ DialersWait'
    BY <2>1 DEF IInv, Walked, ErrRemembered, Returned, DialersWait
  <2>4. Rejections'
    BY <1>1 DEF ConnectAnyOk, IInv, Rejections, world
  <2> QED
    BY <2>2, <2>3, <2>4 DEF IInv
<1>2. CASE ConnectAnyReturn
  <2>1. /\ call'.i = call.i /\ call'.said = call.said /\ call.i = N
        /\ call'.lastErr = call.lastErr
        /\ call'.result = IF call.lastErr THEN "other" ELSE "invalid key"
    BY <1>2 DEF ConnectAnyReturn, IInv, TypeOK
  <2>2. TypeOK'
    BY <1>2 DEF ConnectAnyReturn, IInv, TypeOK, world, Results
  <2>3. Walked' /\ ErrRemembered' /\ Returned' /\ DialersWait'
    BY <2>1 DEF IInv, Walked, ErrRemembered, Returned, DialersWait
  <2>4. Rejections'
    BY <1>2 DEF ConnectAnyReturn, IInv, Rejections, world
  <2> QED
    BY <2>2, <2>3, <2>4 DEF IInv
<1> QED
  BY <1>1, <1>2

\* A dialer moves only after ConnectAny has returned, so of the invariant its
\* steps touch the type and Rejections.
LEMMA DialerStep ==
    ASSUME IInv, NEW d \in Dialers,
           Pick(d) \/ Dial(d) \/ Advance(d) \/ KeyRejectedEverywhere(d) \/ Lost(d)
    PROVE  IInv'
<1>1. UNCHANGED <<call, knows, healthy>> /\ pc[d] # "off"
  BY DEF Pick, Dial, DialOk, DialFails, Advance, KeyRejectedEverywhere, Lost, world
<1>2. call.result # "running"
  BY <1>1 DEF IInv, DialersWait
<1>3. Walked' /\ ErrRemembered' /\ Returned' /\ DialersWait'
  BY <1>1, <1>2 DEF IInv, Walked, ErrRemembered, Returned, DialersWait
<1> SUFFICES TypeOK' /\ Rejections'
  BY <1>3 DEF IInv
<1> USE DEF IInv, TypeOK, Rejections
<1>4. CASE Pick(d)
  BY <1>1, <1>4 DEF Pick
<1>5. CASE DialOk(d)
  BY <1>1, <1>5 DEF DialOk
<1>6. ASSUME NEW e \in Errors, DialFails(d, e)
      PROVE  TypeOK' /\ Rejections'
  <2>1. addr[d] \in Servers
    OBVIOUS
  <2>2. rejected' \subseteq Servers /\ rejected' \cap knows = {}
    <3>1. e = "invalid key" => addr[d] \notin knows
      BY <1>6 DEF DialFails, MayFailWith
    <3>2. rejected' = IF e = "invalid key" THEN rejected \cup {addr[d]} ELSE rejected
      BY <1>6 DEF DialFails
    <3>3. CASE e = "invalid key"
      <4>1. addr[d] \notin knows /\ rejected' = rejected \cup {addr[d]}
        BY <3>1, <3>2, <3>3
      <4>2. rejected \subseteq Servers /\ rejected \cap knows = {}
        OBVIOUS
      <4> HIDE DEF IInv, TypeOK, Rejections
      <4> QED
        BY <2>1, <4>1, <4>2
    <3>4. CASE e # "invalid key"
      BY <3>2, <3>4
    <3> QED
      BY <3>3, <3>4
  <2>3. \E p \in {"idle", "rejected", "advance"} : pc' = [pc EXCEPT ![d] = p]
    BY <1>6 DEF DialFails, Errors
  <2>4. UNCHANGED <<cur, addr>>
    BY <1>6 DEF DialFails
  <2> QED
    BY <1>1, <2>2, <2>3, <2>4
<1>7. CASE Advance(d)
  BY <1>1, <1>7, AdvanceWraps DEF Advance
<1>8. CASE KeyRejectedEverywhere(d)
  BY <1>1, <1>8 DEF KeyRejectedEverywhere, AllRejected
<1>9. CASE Lost(d)
  BY <1>1, <1>9 DEF Lost
<1> QED
  BY <1>4, <1>5, <1>6, <1>7, <1>8, <1>9 DEF Dial

\* Every step of ConnectAny or of a dialer keeps the invariant.
LEMMA NextIInv == IInv /\ [Next]_vars => IInv'
<1> SUFFICES ASSUME IInv, [Next]_vars PROVE IInv'
  OBVIOUS
<1>1. CASE ConnectAny
  BY <1>1, FailsStep, ConnectAnyStep DEF ConnectAny
<1>2. CASE \E d \in Dialers : \/ Pick(d) \/ Dial(d) \/ Advance(d)
                               \/ KeyRejectedEverywhere(d) \/ Lost(d)
  BY <1>2, DialerStep
<1>3. CASE UNCHANGED vars
  BY <1>3
  DEF vars, world, IInv, TypeOK, DialersWait, Walked, ErrRemembered, Returned,
      Rejections
<1> QED
  BY <1>1, <1>2, <1>3 DEF Next

-----------------------------------------------------------------------------
\* The invariant holds in every reachable state of the ring.
THEOREM Invariance == Spec => []IInv
  BY InitIInv, NextIInv, PTL DEF Spec

\* The ring stays well formed: cur never leaves it.
THEOREM TypeCorrect == Spec => []TypeOK
<1>1. IInv => TypeOK
  BY DEF IInv
<1> QED
  BY <1>1, Invariance, PTL

\* ConnectAny calls a key invalid only when every server rejected it.
THEOREM InvalidKeyUnanimous == Spec => []InvalidKeyIsUnanimous
<1>1. IInv => InvalidKeyIsUnanimous
  <2>1. \A s \in Servers : s < N
    BY RingAssumption DEF Servers
  <2> QED
    BY <2>1 DEF IInv, Returned, ErrRemembered, InvalidKeyIsUnanimous
<1> QED
  BY <1>1, Invariance, PTL

\* ConnectAny skips no server of the ring, of whatever size, before it gives up.
THEOREM AllServersTried == Spec => []EveryServerTried
<1>1. IInv => EveryServerTried
  <2>1. \A s \in Servers : s < N
    BY RingAssumption DEF Servers
  <2> QED
    BY <2>1 DEF IInv, Returned, Walked, EveryServerTried
<1> QED
  BY <1>1, Invariance, PTL

\* Any number of reconnect loops on one ring: none takes the key for revoked
\* while a server has it.
THEOREM RejectionIsNotRevocation == Spec => []NeverRevoked
<1>1. IInv => NeverRevoked
  BY DEF IInv, Rejections, NeverRevoked
<1> QED
  BY <1>1, Invariance, PTL

=============================================================================
