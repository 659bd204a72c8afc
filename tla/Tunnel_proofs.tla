--------------------------- MODULE Tunnel_proofs ---------------------------
(***************************************************************************)
(* For any number of SOCKS connections and restarts and any thresholds:    *)
(* nothing escapes the kill switch, an engaged kill switch has somebody    *)
(* who will release it, and a tunnel that is up has its own health loop.   *)
(***************************************************************************)
EXTENDS Tunnel, TLAPS

-----------------------------------------------------------------------------
(* The inductive invariant, part by part. *)

\* The loop of a Start exists from that Start on.
LoopsStarted == \A l \in Loops : pc[l] = "off" <=> l > gen

\* A process that sweeps knows where it goes on.
SweepResumes == \A p \in Procs : At(p, "sweep") => after[p] # "off"

\* Whoever is inside stopLocked has given up, or is the API.
StopHolder == mu \in Procs => At(mu, "giveup")

\* t.stopHealth is the channel of the last Start, or nil; outside stopLocked
\* that of a tunnel that is up is open.
StopChannel ==
    /\ stopHealth \in {0, gen}
    /\ status # "Disconnected" /\ MuFree =>
         gen > 0 /\ stopHealth = gen /\ gen \notin closedCh

\* Only a select is parked on a channel, and never on that of an earlier Start
\* than its own.
SelectChannel ==
    \A l \in Loops : sel[l] = 0 \/ (At(l, "select") /\ sel[l] >= l)

\* A loop that has used up its budget of failures gives up.
FailureBudget ==
    \A l \in Loops : fails[l] >= MaxHealthFailures => pc[l] \in {"giveup", "exit"}

\* Whoever engaged the kill switch, or has taken it over, is not about to see
\* an old stop: a loop that counts failures is not parked on a closed channel.
Owner(p) ==
    \/ Rebuilding(p)
    \/ p \in Loops /\ CountingFailures(p) /\ sel[p] \notin closedCh
Owned == status = "Reconnecting" /\ MuFree => \E p \in Procs : Owner(p)

\* trackConn comes before the check of the status.
TrackedFirst ==
    \A c \in Conns : pc[c] \in Passed \cup {"tracked"} => c \in tracked

IInv ==
    /\ TypeOK
    /\ LoopsStarted
    /\ SweepResumes
    /\ StopHolder
    /\ StopChannel
    /\ SelectChannel
    /\ FailureBudget
    /\ SupervisorAlive
    /\ Owned
    /\ TrackedFirst
    /\ KillSwitchHolds

-----------------------------------------------------------------------------
(* Frames: what the steps of different actions have in common. *)

\* The variables that only say which transport somebody refers to.
DataTyped ==
    /\ transport \in {"nil", "open", "closed"}
    /\ apiTr \in References
    /\ watch \in [Loops -> References]
    /\ tick \in [Loops -> [live : BOOLEAN, tr : References]]

\* Init satisfies the invariant.
LEMMA InitIInv == Init => IInv
<1> SUFFICES ASSUME Init PROVE IInv
  OBVIOUS
<1>1. 0 \in 0..MaxStarts /\ 0 \in 0..MaxHealthFailures /\ 0 \in 0..0
  BY TunnelAssumption
<1>2. NoTick \in [live : BOOLEAN, tr : References]
  BY DEF NoTick, References
<1>3. TypeOK
  BY <1>1, <1>2 DEF Init, TypeOK, Places, References
<1>4. LoopsStarted /\ SweepResumes /\ SelectChannel
  BY DEF Init, LoopsStarted, SweepResumes, SelectChannel, Loops, Procs, At
<1>5. StopHolder /\ StopChannel /\ FailureBudget
  BY TunnelAssumption DEF Init, StopHolder, StopChannel, FailureBudget
<1>6. SupervisorAlive /\ Owned /\ KillSwitchHolds
  BY DEF Init, SupervisorAlive, Owned, KillSwitchHolds
<1>7. TrackedFirst
  BY DEF Init, TrackedFirst, Procs, Passed
<1> QED
  BY <1>3, <1>4, <1>5, <1>6, <1>7 DEF IInv

\* A step that replaces or loses a transport and moves no process.
LEMMA TransportFrame ==
    ASSUME IInv, DataTyped',
           UNCHANGED <<status, stopVars, pc, after, sel, fails, connVars>>
    PROVE  IInv'
<1> USE DEF IInv, stopVars, connVars
<1>1. TypeOK'
  BY DEF TypeOK, DataTyped
<1>2. LoopsStarted' /\ SweepResumes' /\ StopHolder' /\ StopChannel'
  BY DEF LoopsStarted, SweepResumes, StopHolder, StopChannel, MuFree, At
<1>3. SelectChannel' /\ FailureBudget' /\ SupervisorAlive' /\ TrackedFirst'
  BY DEF SelectChannel, FailureBudget, SupervisorAlive, TrackedFirst, MuFree, At
<1>4. Owned'
  BY DEF Owned, Owner, Rebuilding, CountingFailures, MuFree, At
<1>5. KillSwitchHolds'
  BY DEF KillSwitchHolds, At
<1> QED
  BY <1>1, <1>2, <1>3, <1>4, <1>5

\* A process moves, outside stopLocked: what is left to show.
LEMMA Moves ==
    ASSUME IInv, NEW p \in Procs, NEW q \in Places,
           Goto(p, q), pc[p] # "giveup",
           p \in Loops => pc[p] # "off" /\ q # "off",
           UNCHANGED stopVars, DataTyped',
           status' \in {"Disconnected", "Connected", "Reconnecting"},
           status = "Disconnected" => status' = "Disconnected",
           after' \in [Procs -> {"off", "begin", "d3", "top"}], SweepResumes',
           sel' \in [Loops -> 0..gen], SelectChannel',
           fails' \in [Loops -> 0..MaxHealthFailures], FailureBudget',
           tracked' \subseteq Conns, swept' \subseteq Conns, TrackedFirst',
           SupervisorAlive', Owned', KillSwitchHolds'
    PROVE  IInv'
<1> USE DEF IInv, Goto, stopVars
<1>1. TypeOK'
  BY DEF TypeOK, DataTyped
<1>2. LoopsStarted'
  BY DEF LoopsStarted, TypeOK, Procs
<1>3. StopHolder'
  BY DEF StopHolder, TypeOK, At
<1>4. StopChannel'
  BY DEF StopChannel, MuFree
<1> QED
  BY <1>1, <1>2, <1>3, <1>4

\* A process moves and leaves the status, the counters and the connections
\* alone; a rebuild goes on, and a handler does not get past the check.
LEMMA QuietMove ==
    ASSUME IInv, NEW p \in Procs, NEW q \in Places,
           Goto(p, q), DataTyped',
           UNCHANGED <<status, stopVars, after, sel, fails, connVars>>,
           pc[p] \notin {"off", "exit", "giveup", "sweep", "select"},
           q \notin {"off", "exit", "sweep", "tracked"},
           Rebuilding(p) => Rebuilding(p)',
           q \in Passed => pc[p] \in Passed
    PROVE  IInv'
<1> USE DEF IInv, stopVars, connVars
<1>1. pc' = [pc EXCEPT ![p] = q] /\ pc'[p] = q /\ \A r \in Procs : r # p => pc'[r] = pc[r]
  BY DEF Goto, TypeOK
<1>2. SweepResumes' /\ SelectChannel' /\ FailureBudget'
  BY <1>1 DEF SweepResumes, SelectChannel, FailureBudget, At, Procs
<1>3. TrackedFirst'
  BY <1>1 DEF TrackedFirst, Procs
<1>4. SupervisorAlive'
  <2> SUFFICES ASSUME status # "Disconnected", MuFree PROVE pc'[gen] \notin {"off", "exit"}
    BY DEF SupervisorAlive, MuFree
  <2>1. gen \in Procs
    BY TunnelAssumption DEF StopChannel, TypeOK, Procs, Loops
  <2> QED
    BY <1>1, <2>1 DEF SupervisorAlive
<1>5. Owned'
  <2> SUFFICES ASSUME status = "Reconnecting", MuFree
               PROVE  \E o \in Procs : Owner(o)'
    BY DEF Owned, MuFree
  <2>1. PICK o \in Procs : Owner(o)
    BY DEF Owned
  <2>2. Rebuilding(o) => Rebuilding(o)'
    BY <1>1 DEF Rebuilding, At
  <2>3. Owner(o)'
    BY <1>1, <2>1, <2>2 DEF Owner, CountingFailures
  <2> QED
    BY <2>3
<1>6. KillSwitchHolds'
  BY <1>1 DEF KillSwitchHolds, At, Procs
<1> QED
  BY <1>2, <1>3, <1>4, <1>5, <1>6, Moves DEF TypeOK

-----------------------------------------------------------------------------
(* The transport. *)

\* Replacing t.transport turns references to it into references to an old or
\* a closed transport.
LEMMA ReplaceTyped ==
    ASSUME DataTyped, NEW new \in {"nil", "open", "closed"},
           NEW fate \in {"old", "dead"}, Replace(new, fate)
    PROVE  /\ transport' \in {"nil", "open", "closed"}
           /\ watch' \in [Loops -> References]
           /\ tick' \in [Loops -> [live : BOOLEAN, tr : References]]
           /\ Demoted(apiTr, fate) \in References
<1>1. \A r \in References : Demoted(r, fate) \in References
  BY DEF Demoted, References
<1>2. \A l \in Loops : tick[l] \in [live : BOOLEAN, tr : References]
  BY DEF DataTyped
<1>3. \A t \in [live : BOOLEAN, tr : References] :
        [t EXCEPT !.tr = Demoted(@, fate)] \in [live : BOOLEAN, tr : References]
  BY <1>1
<1>4. tick' \in [Loops -> [live : BOOLEAN, tr : References]]
  BY <1>2, <1>3 DEF Replace
<1> QED
  BY <1>1, <1>4 DEF Replace, DataTyped

\* What a goroutine reads and what becomes of an overwritten transport.
LEMMA ReferenceTypes ==
    /\ Read \in References /\ Overwritten \in {"old", "dead"}
    /\ Closed \in {"old", "dead"} /\ NoTick \in [live : BOOLEAN, tr : References]
  BY DEF Read, Overwritten, Closed, NoTick, References

\* The type invariant holds of the references.
LEMMA Typed == IInv => DataTyped
  BY DEF IInv, TypeOK, DataTyped

\* SetTransport, a Start that fails, and the ways a transport dies.
LEMMA TransportStep ==
    ASSUME IInv,
           \/ SetTransport \/ StartFails \/ WakeReconnect \/ TransportDies
           \/ \E l \in Loops : OldTransportDies(l)
    PROVE  IInv'
<1> USE Typed, ReferenceTypes, TransportFrame
<1>1. CASE SetTransport
  <2>1. DataTyped'
    BY <1>1, ReplaceTyped DEF SetTransport, DataTyped, References
  <2> QED
    BY <1>1, <2>1 DEF SetTransport
<1>2. CASE StartFails
  <2>1. PICK fate \in {"old", "dead"} : Replace("nil", fate)
    BY <1>2 DEF StartFails
  <2>2. DataTyped'
    BY <1>2, <2>1, ReplaceTyped DEF StartFails, DataTyped, References
  <2> QED
    BY <1>2, <2>2 DEF StartFails
<1>3. CASE WakeReconnect \/ TransportDies
  <2>1. UNCHANGED <<status, stopVars, pc, after, sel, fails, connVars>>
    BY <1>3 DEF WakeReconnect, TransportDies, loopVars
  <2>2. DataTyped'
    BY <1>3 DEF WakeReconnect, TransportDies, loopVars, DataTyped
  <2> QED
    BY <2>1, <2>2
<1>4. ASSUME NEW l \in Loops, OldTransportDies(l) PROVE IInv'
  <2>1. UNCHANGED <<transport, apiTr>>
    BY <1>4 DEF OldTransportDies
  <2>2. watch' \in [Loops -> References]
    BY <1>4 DEF OldTransportDies, DataTyped, References
  <2>3. tick' \in [Loops -> [live : BOOLEAN, tr : References]]
    BY <1>4 DEF OldTransportDies, DataTyped, References
  <2>4. DataTyped'
    BY <2>1, <2>2, <2>3 DEF DataTyped
  <2> QED
    BY <1>4, <2>4 DEF OldTransportDies
<1> QED
  BY <1>1, <1>2, <1>3, <1>4

-----------------------------------------------------------------------------
(* Start and stopLocked. *)

\* Start: the channel and the loop are new.
LEMMA StartStep == ASSUME IInv, Start PROVE IInv'
<1> USE DEF IInv, loopVars, connVars
<1>1. /\ gen \in Nat /\ gen + 1 \in Loops /\ gen + 1 \in Procs
      /\ gen' = gen + 1 /\ mu = NoProc /\ mu' = mu /\ status' = "Connected"
      /\ stopHealth' = gen + 1 /\ closedCh' = closedCh
  BY TunnelAssumption DEF Start, TypeOK, Loops, Procs, MuFree
<1>2. /\ pc' = [pc EXCEPT ![gen + 1] = "start"] /\ pc'[gen + 1] = "start"
      /\ \A p \in Procs : p # gen + 1 => pc'[p] = pc[p]
  BY <1>1 DEF Start, Goto, TypeOK
<1>3. pc[gen + 1] = "off"
  BY <1>1 DEF LoopsStarted
<1>4. \A p \in Procs : pc'[p] # pc[p] => p \in Loops /\ pc[p] = "off" /\ pc'[p] = "start"
  BY <1>1, <1>2, <1>3
<1>5. TypeOK'
  <2>1. gen' \in 0..MaxStarts /\ stopHealth' \in 0..gen' /\ closedCh' \subseteq 1..gen'
    BY <1>1, TunnelAssumption DEF Start, TypeOK
  <2>2. pc' \in [Procs -> Places]
    BY <1>1, <1>2 DEF TypeOK, Places
  <2>3. sel' \in [Loops -> 0..gen']
    BY <1>1 DEF Start, TypeOK
  <2>4. apiTr' \in References
    BY DEF Start, References
  <2> QED
    BY <1>1, <2>1, <2>2, <2>3, <2>4 DEF Start, TypeOK
<1>6. LoopsStarted'
  BY <1>1, <1>2, TunnelAssumption DEF LoopsStarted, Loops, Procs
<1>7. SweepResumes' /\ SelectChannel'
  BY <1>4 DEF Start, SweepResumes, SelectChannel, At, Procs
<1>8. StopHolder'
  BY <1>1, TunnelAssumption DEF StopHolder
<1>9. StopChannel'
  BY <1>1 DEF StopChannel, TypeOK
<1>10. FailureBudget'
  BY <1>4, <1>2 DEF Start, FailureBudget, Procs
<1>11. SupervisorAlive' /\ Owned' /\ KillSwitchHolds'
  BY <1>1, <1>2 DEF SupervisorAlive, Owned, KillSwitchHolds
<1>12. TrackedFirst'
  BY <1>1, <1>2 DEF Start, TrackedFirst, Procs, Passed
<1> QED
  BY <1>5, <1>6, <1>7, <1>8, <1>9, <1>10, <1>11, <1>12

\* The first half of stopLocked closes the channel; t.mu is then held.
LEMMA StopBeginStep ==
    ASSUME IInv, NEW p \in Procs \cup {Api}, StopBegin(p),
           p \in Procs => At(p, "giveup"),
           UNCHANGED <<status, gen, stopHealth, transport, apiTr, pc, after,
                       loopVars, connVars>>
    PROVE  IInv'
<1> USE DEF IInv, loopVars, connVars, StopBegin
<1>1. ~MuFree'
  BY TunnelAssumption DEF MuFree
<1>2. closedCh' \subseteq 1..gen
  BY DEF TypeOK
<1>3. TypeOK'
  BY <1>2 DEF TypeOK
<1>4. LoopsStarted' /\ SweepResumes' /\ SelectChannel' /\ FailureBudget'
  BY DEF LoopsStarted, SweepResumes, SelectChannel, FailureBudget, At
<1>5. StopHolder'
  BY DEF StopHolder, At
<1>6. StopChannel' /\ SupervisorAlive' /\ Owned'
  BY <1>1 DEF StopChannel, SupervisorAlive, Owned
<1>7. TrackedFirst' /\ KillSwitchHolds'
  BY DEF TrackedFirst, KillSwitchHolds, At
<1> QED
  BY <1>3, <1>4, <1>5, <1>6, <1>7

\* The second half drops the channel and the transport and releases t.mu.
LEMMA StopLockedStep == ASSUME IInv, StopLocked PROVE IInv'
<1> USE DEF IInv
<1>1. /\ stopHealth' = 0 /\ status' = "Disconnected" /\ mu' = NoProc
      /\ UNCHANGED <<gen, closedCh, after, sel, fails>>
      /\ tracked' = tracked \ {mu} /\ swept' = swept \ {mu}
  BY DEF StopLocked, StopEnd
<1>2. \A p \in Procs :
        \/ p # mu /\ pc'[p] = pc[p]
        \/ p = mu /\ pc[p] = "giveup" /\ p \in Loops /\ pc'[p] = "exit"
        \/ p = mu /\ pc[p] = "giveup" /\ p \in Conns /\ p \notin Loops /\ pc'[p] = "off"
  BY TunnelAssumption DEF StopLocked, StopEnd, StopHolder, Procs, At
<1>3. DataTyped'
  BY Typed, ReferenceTypes, ReplaceTyped DEF StopLocked, StopEnd, DataTyped
<1>4. TypeOK'
  <2>1. pc' \in [Procs -> Places]
    BY DEF StopLocked, StopEnd, TypeOK, Places
  <2>2. stopHealth' \in 0..gen'
    BY <1>1 DEF TypeOK
  <2> QED
    BY <1>1, <1>3, <2>1, <2>2 DEF TypeOK, DataTyped
<1>5. LoopsStarted'
  BY <1>1, <1>2 DEF LoopsStarted, Procs
<1>6. SweepResumes' /\ SelectChannel' /\ FailureBudget'
  BY <1>1, <1>2 DEF SweepResumes, SelectChannel, FailureBudget, At, Procs
<1>7. StopHolder' /\ StopChannel' /\ SupervisorAlive' /\ Owned' /\ KillSwitchHolds'
  BY <1>1, TunnelAssumption DEF StopHolder, StopChannel, SupervisorAlive, Owned, KillSwitchHolds
<1>8. TrackedFirst'
  BY <1>1, <1>2 DEF TrackedFirst, Procs, Passed
<1> QED
  BY <1>4, <1>5, <1>6, <1>7, <1>8

-----------------------------------------------------------------------------
(* The kill switch. *)

\* setReconnecting: whoever calls it becomes an owner of the engaged switch,
\* as a rebuild (next is "begin" or "d3") or as a loop that counts failures.
LEMMA EngageStep ==
    ASSUME IInv, NEW p \in Procs, NEW next \in {"begin", "d3", "top"},
           SetReconnecting(p, next), UNCHANGED <<stopVars, connVars>>, DataTyped',
           pc[p] \notin {"off", "exit", "giveup", "sweep"},
           sel' \in [Loops -> 0..gen], SelectChannel',
           fails' \in [Loops -> 0..MaxHealthFailures], FailureBudget',
           next = "top" => p \in Loops /\ fails'[p] >= KillSwitchThreshold
    PROVE  IInv'
<1> USE DEF IInv, stopVars, connVars
<1>1. PICK q \in {"sweep", next} : Goto(p, q)
  BY DEF SetReconnecting
<1>2. q \in Places /\ q \notin {"off", "exit", "tracked", "select"} /\ q \notin Passed
  BY <1>1 DEF Places, Passed, Reconnecting
<1>3. pc'[p] = q /\ \A r \in Procs : r # p => pc'[r] = pc[r]
  BY <1>1 DEF Goto, TypeOK
<1>4. /\ after' \in [Procs -> {"off", "begin", "d3", "top"}]
      /\ \A r \in Procs : r # p => after'[r] = after[r]
      /\ q = "sweep" => after'[p] = next
  BY <1>1, <1>3 DEF SetReconnecting, Goto, TypeOK
<1>5. /\ status' \in {"Disconnected", "Connected", "Reconnecting"}
      /\ status = "Disconnected" => status' = "Disconnected"
  BY DEF SetReconnecting, TypeOK
<1>6. SweepResumes'
  BY <1>3, <1>4 DEF SweepResumes, At
<1>7. TrackedFirst'
  BY <1>2, <1>3 DEF TrackedFirst, Procs
<1>8. SupervisorAlive'
  <2> SUFFICES ASSUME status # "Disconnected", MuFree PROVE pc'[gen] \notin {"off", "exit"}
    BY <1>5 DEF SupervisorAlive, MuFree
  <2>1. gen \in Procs
    BY TunnelAssumption DEF StopChannel, TypeOK, Procs, Loops
  <2> QED
    BY <1>2, <1>3, <2>1 DEF SupervisorAlive
<1>9. Owner(p)'
  <2>1. CASE next # "top"
    BY <1>1, <1>3, <1>4, <2>1 DEF Owner, Rebuilding, Reconnecting, At
  <2>2. CASE next = "top"
    <3>1. sel'[p] = 0
      BY <1>2, <1>3, <2>2 DEF SelectChannel, At
    <3>2. 0 \notin closedCh'
      BY DEF TypeOK
    <3> QED
      BY <1>2, <1>3, <2>2, <3>1, <3>2 DEF Owner, CountingFailures
  <2> QED
    BY <2>1, <2>2
<1>10. Owned'
  BY <1>9 DEF Owned
<1>11. KillSwitchHolds'
  <2>1. CASE status = "Connected"
    <3>1. pc'[p] = "sweep"
      BY <2>1 DEF SetReconnecting, Goto, TypeOK
    <3> QED
      BY <3>1 DEF KillSwitchHolds, At
  <2>2. CASE status # "Connected"
    <3>1. status' = status
      BY <2>2 DEF SetReconnecting
    <3> QED
      BY <1>2, <1>3, <3>1 DEF KillSwitchHolds, At, Procs
  <2> QED
    BY <2>1, <2>2
<1>12. p \in Loops => pc[p] # "off" /\ q # "off"
  BY <1>2
<1> QED
  BY <1>1, <1>2, <1>4, <1>5, <1>6, <1>7, <1>8, <1>10, <1>11, <1>12, Moves DEF TypeOK

\* CloseAllConns as a part of setReconnecting, and on its own.
LEMMA SweepStep ==
    ASSUME IInv, CloseAllConns \/ \E p \in Procs : Sweep(p)
    PROVE  IInv'
<1> USE DEF IInv, stopVars, connVars, loopVars
<1>1. ASSUME NEW p \in Procs, Sweep(p) PROVE IInv'
  <2> DEFINE q == after[p]
  <2>1. q \in {"begin", "d3", "top"} /\ q \in Places /\ q \notin Passed /\ pc[p] = "sweep"
    BY <1>1 DEF Sweep, SweepResumes, TypeOK, At, Places, Passed, Reconnecting
  <2>2. /\ Goto(p, q) /\ after' = [after EXCEPT ![p] = "off"]
        /\ UNCHANGED <<status, stopVars, transport, apiTr, loopVars, tracked>>
        /\ swept' = swept \cup tracked
    BY <1>1 DEF Sweep
  <2>3. pc'[p] = q /\ \A r \in Procs : r # p => pc'[r] = pc[r] /\ after'[r] = after[r]
    BY <2>2 DEF Goto, TypeOK
  <2>4. after' \in [Procs -> {"off", "begin", "d3", "top"}]
    BY <2>2 DEF TypeOK
  <2>5. SweepResumes' /\ SelectChannel' /\ FailureBudget'
    BY <2>1, <2>2, <2>3 DEF SweepResumes, SelectChannel, FailureBudget, At, Procs
  <2>6. TrackedFirst'
    BY <2>1, <2>2, <2>3 DEF TrackedFirst, Procs
  <2>7. SupervisorAlive'
    <3> SUFFICES ASSUME status # "Disconnected", MuFree PROVE pc'[gen] \notin {"off", "exit"}
      BY <2>2 DEF SupervisorAlive, MuFree
    <3>1. gen \in Procs
      BY TunnelAssumption DEF StopChannel, TypeOK, Procs, Loops
    <3> QED
      BY <2>1, <2>3, <3>1 DEF SupervisorAlive
  <2>8. Owned'
    <3> SUFFICES ASSUME status = "Reconnecting", MuFree
                 PROVE  \E o \in Procs : Owner(o)'
      BY <2>2 DEF Owned, MuFree
    <3>1. PICK o \in Procs : Owner(o)
      BY DEF Owned
    <3>2. Rebuilding(o) => Rebuilding(o)'
      BY <2>1, <2>3 DEF Rebuilding, At, Reconnecting
    <3>3. Owner(o)'
      BY <2>1, <2>2, <2>3, <3>1, <3>2 DEF Owner, CountingFailures
    <3> QED
      BY <3>3
  <2>9. KillSwitchHolds'
    BY <2>1, <2>2, <2>3 DEF KillSwitchHolds, TrackedFirst, Procs
  <2>10. DataTyped' /\ swept' \subseteq Conns
    BY <2>2, Typed DEF DataTyped, TypeOK
  <2>11. p \in Loops => pc[p] # "off" /\ q # "off"
    BY <2>1
  <2> HIDE DEF q
  <2> QED
    BY <2>1, <2>2, <2>4, <2>5, <2>6, <2>7, <2>8, <2>9, <2>10, <2>11, Moves DEF TypeOK
<1>2. CASE CloseAllConns
  <2> USE DEF CloseAllConns
  <2>1. TypeOK'
    BY <1>2 DEF TypeOK
  <2>2. LoopsStarted' /\ SweepResumes' /\ StopHolder' /\ StopChannel'
    BY <1>2 DEF LoopsStarted, SweepResumes, StopHolder, StopChannel, MuFree, At
  <2>3. SelectChannel' /\ FailureBudget' /\ SupervisorAlive' /\ TrackedFirst'
    BY <1>2 DEF SelectChannel, FailureBudget, SupervisorAlive, TrackedFirst, MuFree, At
  <2>4. Owned'
    BY <1>2 DEF Owned, Owner, Rebuilding, CountingFailures, MuFree, At
  <2>5. KillSwitchHolds'
    BY <1>2 DEF KillSwitchHolds, At
  <2> QED
    BY <2>1, <2>2, <2>3, <2>4, <2>5
<1> QED
  BY <1>1, <1>2

-----------------------------------------------------------------------------
(* reconnectTransport. *)

\* A loop returns because it saw a closed stop channel.  The tunnel is then
\* stopped or somebody is stopping it, or the loop is not its supervisor; and
\* the loop owned the kill switch only if the tunnel is stopped.
LEMMA LoopExits ==
    ASSUME IInv, NEW l \in Loops, Goto(l, "exit"),
           pc[l] \in {"head", "select"},
           status # "Disconnected" /\ MuFree => l # gen /\ ~Owner(l),
           UNCHANGED <<status, stopVars, after, fails, connVars>>, DataTyped',
           sel' = [sel EXCEPT ![l] = 0]
    PROVE  IInv'
<1> USE DEF IInv, stopVars, connVars
<1>1. l \in Procs /\ "exit" \in Places
  BY DEF Procs, Places
<1>2. pc'[l] = "exit" /\ \A r \in Procs : r # l => pc'[r] = pc[r]
  BY <1>1 DEF Goto, TypeOK
<1>3. sel' \in [Loops -> 0..gen] /\ sel'[l] = 0 /\ \A k \in Loops : k # l => sel'[k] = sel[k]
  BY DEF TypeOK
<1>4. SweepResumes' /\ SelectChannel' /\ FailureBudget'
  BY <1>1, <1>2, <1>3 DEF SweepResumes, SelectChannel, FailureBudget, At, Procs
<1>5. TrackedFirst'
  BY <1>1, <1>2 DEF TrackedFirst, Procs, Passed
<1>6. SupervisorAlive'
  <2> SUFFICES ASSUME status # "Disconnected", MuFree PROVE pc'[gen] \notin {"off", "exit"}
    BY DEF SupervisorAlive, MuFree
  <2>1. gen \in Procs
    BY TunnelAssumption DEF StopChannel, TypeOK, Procs, Loops
  <2> QED
    BY <1>2, <2>1 DEF SupervisorAlive
<1>7. Owned'
  <2> SUFFICES ASSUME status = "Reconnecting", MuFree
               PROVE  \E o \in Procs : Owner(o)'
    BY DEF Owned, MuFree
  <2>1. PICK o \in Procs : Owner(o)
    BY DEF Owned
  <2>2. o # l
    BY <2>1
  <2>3. Owner(o)'
    BY <1>2, <1>3, <2>1, <2>2 DEF Owner, CountingFailures, Rebuilding, At
  <2> QED
    BY <2>3
<1>8. KillSwitchHolds'
  BY <1>1, <1>2 DEF KillSwitchHolds, At, Procs, Passed
<1>9. pc[l] # "giveup" /\ (l \in Loops => pc[l] # "off" /\ "exit" # "off")
  OBVIOUS
<1> QED
  BY <1>1, <1>3, <1>4, <1>5, <1>6, <1>7, <1>8, <1>9, Moves DEF TypeOK

\* The attempts to rebuild the transport, up to the announcement.
LEMMA ReconnectStepIInv ==
    ASSUME IInv, NEW p \in Procs,
           \/ ReconnectBegin(p) \/ ReconnectHead(p) \/ TryReconnectOnce(p)
           \/ AttemptFails(p) \/ KeyRejected(p)
    PROVE  IInv'
<1> USE Typed, ReferenceTypes DEF loopVars
<1>1. CASE ReconnectBegin(p)
  <2>1. DataTyped'
    BY <1>1, ReplaceTyped DEF ReconnectBegin, DataTyped
  <2>2. pc[p] = "begin" /\ Goto(p, "head") /\ "head" \in Places
    BY <1>1 DEF ReconnectBegin, At, Places, Reconnecting
  <2>3. Rebuilding(p)'
    BY <2>2 DEF Rebuilding, Goto, IInv, TypeOK, Reconnecting
  <2>4. UNCHANGED <<status, stopVars, after, sel, fails, connVars>>
    BY <1>1 DEF ReconnectBegin
  <2>5. "head" \notin Passed
    BY DEF Passed
  <2> QED
    BY <2>1, <2>2, <2>3, <2>4, <2>5, QuietMove
<1>2. CASE ReconnectHead(p)
  <2>1. /\ pc[p] = "head" /\ DataTyped'
        /\ UNCHANGED <<status, stopVars, after, sel, fails, connVars>>
    BY <1>2 DEF ReconnectHead, At, DataTyped
  <2>2. CASE stopHealth \notin closedCh \/ p \notin Loops
    <3>1. PICK q \in {"attempt", "giveup"} : Goto(p, q)
      BY <1>2, <2>2 DEF ReconnectHead
    <3>2. q \in Places /\ q \notin Passed
      BY DEF Places, Passed, Reconnecting
    <3>3. Rebuilding(p)'
      BY <3>1 DEF Rebuilding, Goto, IInv, TypeOK, Reconnecting
    <3> QED
      BY <2>1, <3>1, <3>2, <3>3, QuietMove
  <2>3. CASE stopHealth \in closedCh /\ p \in Loops
    <3>1. Goto(p, "exit")
      BY <1>2, <2>3 DEF ReconnectHead
    <3>2. ~(status # "Disconnected" /\ MuFree)
      BY <2>3 DEF IInv, StopChannel
    <3>3. sel' = [sel EXCEPT ![p] = 0]
      BY <2>1, <2>3 DEF IInv, SelectChannel, TypeOK, At
    <3> QED
      BY <2>1, <2>3, <3>1, <3>2, <3>3, LoopExits
  <2> QED
    BY <2>2, <2>3
<1>3. CASE TryReconnectOnce(p)
  <2>1. DataTyped'
    BY <1>3, ReplaceTyped DEF TryReconnectOnce, DataTyped
  <2>2. PICK q \in {"recovered", "announce"} : Goto(p, q)
    BY <1>3 DEF TryReconnectOnce
  <2>3. pc[p] = "attempt" /\ q \in Places /\ q \notin Passed
    BY <1>3 DEF TryReconnectOnce, At, Places, Passed
  <2>4. Rebuilding(p)'
    BY <2>2 DEF Rebuilding, Goto, IInv, TypeOK
  <2>5. UNCHANGED <<status, stopVars, after, sel, fails, connVars>>
    BY <1>3 DEF TryReconnectOnce
  <2> QED
    BY <2>1, <2>2, <2>3, <2>4, <2>5, QuietMove
<1>4. CASE AttemptFails(p) \/ KeyRejected(p)
  <2>1. PICK q \in {"head", "giveup"} : Goto(p, q)
    BY <1>4 DEF AttemptFails, KeyRejected
  <2>2. pc[p] = "attempt" /\ q \in Places /\ q \notin Passed
    BY <1>4 DEF AttemptFails, KeyRejected, At, Places, Passed, Reconnecting
  <2>3. Rebuilding(p)'
    BY <2>1 DEF Rebuilding, Goto, IInv, TypeOK, Reconnecting
  <2>4. DataTyped' /\ UNCHANGED <<status, stopVars, after, sel, fails, connVars>>
    BY <1>4 DEF AttemptFails, KeyRejected, DataTyped
  <2> QED
    BY <2>1, <2>2, <2>3, <2>4, QuietMove
<1> QED
  BY <1>1, <1>2, <1>3, <1>4

\* setConnected after a rebuild: a loop goes on, a handler is done.
LEMMA AnnounceStep == ASSUME IInv, NEW p \in Procs, Announce(p) PROVE IInv'
<1> USE DEF IInv, connVars, loopVars
<1>1. /\ pc[p] = "announce" /\ DataTyped' /\ UNCHANGED <<stopVars, after, sel, fails>>
      /\ tracked' = tracked \ {p} /\ swept' = swept \ {p}
  BY Typed DEF Announce, At, DataTyped
<1>2. /\ status' # "Reconnecting"
      /\ status' \in {"Disconnected", "Connected", "Reconnecting"}
      /\ status = "Disconnected" <=> status' = "Disconnected"
  BY DEF Announce, SetConnected, TypeOK
<1>3. PICK q \in {"top", "off"} : Goto(p, q) /\ (p \in Loops => q = "top")
  BY DEF Announce
<1>4. q \in Places /\ q \notin Passed
  BY DEF Places, Passed
<1>5. pc'[p] = q /\ \A r \in Procs : r # p => pc'[r] = pc[r]
  BY <1>3 DEF Goto, TypeOK
<1>6. SweepResumes' /\ SelectChannel'
  BY <1>1, <1>5 DEF SweepResumes, SelectChannel, At, Procs
<1>7. FailureBudget' /\ TrackedFirst'
  BY <1>1, <1>4, <1>5 DEF FailureBudget, TrackedFirst, Procs
<1>8. SupervisorAlive'
  <2> SUFFICES ASSUME status # "Disconnected", MuFree PROVE pc'[gen] \notin {"off", "exit"}
    BY <1>1, <1>2 DEF SupervisorAlive, MuFree, stopVars
  <2>1. gen \in Procs /\ gen \in Loops
    BY TunnelAssumption DEF StopChannel, TypeOK, Procs, Loops
  <2> QED
    BY <1>3, <1>5, <2>1 DEF SupervisorAlive
<1>9. Owned' /\ KillSwitchHolds'
  BY <1>2 DEF Owned, KillSwitchHolds
<1>10. tracked' \subseteq Conns /\ swept' \subseteq Conns
  BY <1>1 DEF TypeOK
<1>11. p \in Loops => pc[p] # "off" /\ q # "off"
  BY <1>1, <1>3
<1> QED
  BY <1>1, <1>2, <1>3, <1>4, <1>6, <1>7, <1>8, <1>9, <1>10, <1>11, Moves DEF TypeOK

-----------------------------------------------------------------------------
(* healthLoop. *)

\* A loop moves on without returning: what is left to show is that it keeps
\* its hold of the kill switch and its budget of failures.
LEMMA LoopMove ==
    ASSUME IInv, NEW l \in Loops, NEW q \in Places, Goto(l, q),
           pc[l] \notin {"off", "exit", "giveup", "sweep"},
           q \notin {"off", "exit", "sweep"}, q \notin Passed,
           UNCHANGED <<stopVars, after, connVars>>, DataTyped',
           status' \in {"Disconnected", "Connected", "Reconnecting"},
           status = "Disconnected" <=> status' = "Disconnected",
           status' = "Reconnecting" => status = "Reconnecting",
           NEW ch \in 0..gen, sel' = [sel EXCEPT ![l] = ch],
           ch = 0 \/ (q = "select" /\ ch >= l),
           NEW f \in 0..MaxHealthFailures, fails' = [fails EXCEPT ![l] = f],
           f >= MaxHealthFailures => q = "giveup",
           status' = "Reconnecting" /\ MuFree /\ Owner(l) => Owner(l)'
    PROVE  IInv'
<1> USE DEF IInv, stopVars, connVars
<1>1. l \in Procs
  BY DEF Procs
<1>2. pc'[l] = q /\ \A r \in Procs : r # l => pc'[r] = pc[r]
  BY <1>1 DEF Goto, TypeOK
<1>3. /\ sel' \in [Loops -> 0..gen] /\ sel'[l] = ch
      /\ \A k \in Loops : k # l => sel'[k] = sel[k]
  BY DEF TypeOK
<1>4. /\ fails' \in [Loops -> 0..MaxHealthFailures] /\ fails'[l] = f
      /\ \A k \in Loops : k # l => fails'[k] = fails[k]
  BY DEF TypeOK
<1>5. SweepResumes' /\ SelectChannel'
  BY <1>1, <1>2, <1>3 DEF SweepResumes, SelectChannel, At, Procs
<1>6. FailureBudget'
  BY <1>1, <1>2, <1>4 DEF FailureBudget, Procs
<1>7. TrackedFirst'
  BY <1>1, <1>2, TunnelAssumption DEF TrackedFirst, Procs
<1>8. SupervisorAlive'
  <2> SUFFICES ASSUME status # "Disconnected", MuFree PROVE pc'[gen] \notin {"off", "exit"}
    BY DEF SupervisorAlive, MuFree
  <2>1. gen \in Procs
    BY TunnelAssumption DEF StopChannel, TypeOK, Procs, Loops
  <2> QED
    BY <1>2, <2>1 DEF SupervisorAlive
<1>9. Owned'
  <2> SUFFICES ASSUME status' = "Reconnecting", MuFree
               PROVE  \E o \in Procs : Owner(o)'
    BY DEF Owned, MuFree
  <2>1. PICK o \in Procs : Owner(o)
    BY DEF Owned
  <2>2. o # l => Owner(o)'
    BY <1>2, <1>3, <1>4, <2>1 DEF Owner, CountingFailures, Rebuilding, At
  <2> QED
    BY <1>1, <2>1, <2>2
<1>10. KillSwitchHolds'
  BY <1>1, <1>2, TunnelAssumption DEF KillSwitchHolds, At, Procs
<1>11. l \in Loops => pc[l] # "off" /\ q # "off"
  OBVIOUS
<1> QED
  BY <1>1, <1>3, <1>4, <1>5, <1>6, <1>7, <1>8, <1>9, <1>10, <1>11, Moves DEF TypeOK

\* The steps of a loop that read the transport, swap it or dial another.
LEMMA LoopQuietStep ==
    ASSUME IInv, NEW l \in Loops,
           \/ LoopStart(l) \/ Upgraded(l) \/ NoStall(l) \/ MaybeUpgradeToUDP(l)
           \/ TryFallback(l) \/ SwapDone(l) \/ SwapFails(l)
    PROVE  IInv'
<1> USE Typed, ReferenceTypes
<1>1. UNCHANGED <<status, stopVars, after, sel, fails, connVars>>
  BY DEF LoopStart, Upgraded, NoStall, MaybeUpgradeToUDP, TryFallback, SwapDone, SwapFails
<1>2. l \in Procs
  BY DEF Procs
<1>3. PICK q \in {"top", "upgrade", "begin", "fallback", "recovered", "upgraded"} :
        /\ Goto(l, q)
        /\ pc[l] \in {"start", "upgraded", "healthy", "upgrade", "d3", "fallback"}
        /\ pc[l] \in {"d3", "fallback"} => q \in {"begin", "fallback", "recovered"}
  <2>1. CASE LoopStart(l) \/ Upgraded(l) \/ NoStall(l) \/ MaybeUpgradeToUDP(l)
    BY <2>1 DEF LoopStart, Upgraded, NoStall, MaybeUpgradeToUDP, At
  <2>2. CASE TryFallback(l)
    BY <2>2 DEF TryFallback, At
  <2>3. CASE SwapDone(l) \/ SwapFails(l)
    BY <2>3 DEF SwapDone, SwapFails, At
  <2> QED
    BY <2>1, <2>2, <2>3
<1>4. q \in Places /\ q \notin Passed
  BY DEF Places, Passed, Reconnecting
<1>5. Rebuilding(l) => Rebuilding(l)'
  BY <1>2, <1>3 DEF Rebuilding, Goto, IInv, TypeOK, Reconnecting, At
<1>6. apiTr' = apiTr /\ transport' \in {"nil", "open", "closed"}
  BY DEF LoopStart, Upgraded, NoStall, MaybeUpgradeToUDP, TryFallback, SwapDone,
         SwapFails, SwapActive, DataTyped
<1>7. watch' \in [Loops -> References]
  <2>1. \A r \in References : Demoted(r, Closed) \in References
    BY DEF Demoted, References, Closed
  <2> QED
    BY <2>1 DEF LoopStart, Upgraded, NoStall, MaybeUpgradeToUDP, TryFallback, SwapDone,
       SwapFails, SwapActive, DataTyped
<1>8. tick' \in [Loops -> [live : BOOLEAN, tr : References]]
  <2>1. CASE LoopStart(l) \/ Upgraded(l)
    BY <2>1 DEF LoopStart, Upgraded, DataTyped
  <2>2. CASE NoStall(l) \/ SwapDone(l) \/ SwapFails(l)
    BY <2>2 DEF NoStall, SwapDone, SwapFails, DataTyped
  <2>3. CASE MaybeUpgradeToUDP(l)
    BY <2>3 DEF MaybeUpgradeToUDP, DataTyped
  <2>4. CASE TryFallback(l)
    BY <2>4 DEF TryFallback, DataTyped
  <2> QED
    BY <2>1, <2>2, <2>3, <2>4
<1>9. DataTyped'
  BY <1>6, <1>7, <1>8 DEF DataTyped
<1> QED
  BY <1>1, <1>2, <1>3, <1>4, <1>5, <1>9, QuietMove

\* The select, the tick, and the recovery that resets the failures.
LEMMA LoopSelectStep ==
    ASSUME IInv, NEW l \in Loops,
           EnterSelect(l) \/ OnStopHealth(l) \/ OnTick(l) \/ Recovered(l)
    PROVE  IInv'
<1> USE Typed, ReferenceTypes
<1>0. /\ l \in Procs /\ l \in Nat /\ 0 \in 0..gen /\ sel[l] \in 0..gen /\ gen \in Nat
      /\ fails[l] \in 0..MaxHealthFailures /\ 0 \in 0..MaxHealthFailures
      /\ sel = [sel EXCEPT ![l] = sel[l]] /\ fails = [fails EXCEPT ![l] = fails[l]]
      /\ status \in {"Disconnected", "Connected", "Reconnecting"}
      /\ 0 \notin closedCh
  <2>1. /\ gen \in Nat /\ closedCh \subseteq 1..gen
        /\ sel \in [Loops -> 0..gen] /\ fails \in [Loops -> 0..MaxHealthFailures]
        /\ status \in {"Disconnected", "Connected", "Reconnecting"}
    BY TunnelAssumption DEF IInv, TypeOK
  <2>2. l \in Procs /\ l \in Nat
    BY DEF Procs, Loops
  <2>3. 0 \in 0..gen /\ 0 \in 0..MaxHealthFailures /\ 0 \notin closedCh
    BY <2>1, TunnelAssumption
  <2> QED
    BY <2>1, <2>2, <2>3
<1>1. CASE EnterSelect(l)
  <2>1. /\ pc[l] = "top" /\ Goto(l, "select") /\ sel' = [sel EXCEPT ![l] = stopHealth]
        /\ UNCHANGED <<status, stopVars, after, fails, connVars>> /\ DataTyped'
        /\ "select" \in Places /\ "select" \notin Passed
    BY <1>1 DEF EnterSelect, At, DataTyped, Places, Passed
  <2>2. l <= gen
    BY <1>0, <2>1 DEF IInv, LoopsStarted
  <2>3. stopHealth \in 0..gen /\ (stopHealth = 0 \/ stopHealth >= l)
    BY <1>0, <2>2 DEF IInv, StopChannel, TypeOK
  <2>4. fails[l] < MaxHealthFailures
    BY <1>0, <2>1, TunnelAssumption DEF IInv, FailureBudget
  <2>5. ASSUME status' = "Reconnecting", MuFree, Owner(l) PROVE Owner(l)'
    <3>1. CountingFailures(l)
      BY <2>1, <2>5 DEF Owner, Rebuilding, At, Reconnecting
    <3>2. stopHealth \notin closedCh
      BY <2>1, <2>5 DEF IInv, StopChannel
    <3>3. sel'[l] = stopHealth /\ pc'[l] = "select"
      BY <1>0, <2>1 DEF IInv, TypeOK, Goto
    <3> QED
      BY <2>1, <3>1, <3>2, <3>3 DEF Owner, CountingFailures, stopVars
  <2>6. fails' = [fails EXCEPT ![l] = fails[l]]
    BY <1>0, <2>1
  <2>7. fails[l] >= MaxHealthFailures => "select" = "giveup"
    BY <1>0, <2>4, TunnelAssumption
  <2>8. status' \in {"Disconnected", "Connected", "Reconnecting"}
    BY <1>0, <2>1
  <2> QED
    BY <1>0, <2>1, <2>3, <2>5, <2>6, <2>7, <2>8, LoopMove
<1>2. CASE OnStopHealth(l)
  <2>1. /\ pc[l] = "select" /\ Goto(l, "exit") /\ sel' = [sel EXCEPT ![l] = 0]
        /\ UNCHANGED <<status, stopVars, after, fails, connVars>> /\ DataTyped'
        /\ sel[l] \in closedCh
    BY <1>2 DEF OnStopHealth, LeaveSelect, At, DataTyped
  <2>2. sel[l] >= l
    BY <1>0, <2>1 DEF IInv, SelectChannel
  <2>3. ASSUME status # "Disconnected", MuFree PROVE l # gen
    BY <1>0, <2>1, <2>2, <2>3 DEF IInv, StopChannel
  <2>4. ~Owner(l)
    BY <2>1 DEF Owner, Rebuilding, At, Reconnecting
  <2> QED
    BY <2>1, <2>3, <2>4, LoopExits
<1>3. CASE OnTick(l)
  <2>1. /\ pc[l] = "select" /\ sel' = [sel EXCEPT ![l] = 0]
        /\ UNCHANGED <<status, stopVars, after, fails, connVars>>
    BY <1>3 DEF OnTick, LeaveSelect, At
  <2>2. PICK q \in {"top", "judge"} : Goto(l, q)
    BY <1>3 DEF OnTick
  <2>3. q \in Places /\ q \notin Passed
    BY DEF Places, Passed
  <2>4. DataTyped'
    <3>1. [live |-> status = "Connected", tr |-> Read] \in [live : BOOLEAN, tr : References]
      OBVIOUS
    <3>2. \/ tick' = tick
          \/ tick' = [tick EXCEPT ![l] = [live |-> status = "Connected", tr |-> Read]]
      BY <1>3, Zenon DEF OnTick
    <3>3. tick' \in [Loops -> [live : BOOLEAN, tr : References]]
      BY <3>1, <3>2 DEF DataTyped
    <3> QED
      BY <1>3, <3>3 DEF OnTick, DataTyped
  <2>5. fails[l] < MaxHealthFailures
    BY <1>0, <2>1, TunnelAssumption DEF IInv, FailureBudget
  <2>6. ASSUME Owner(l) PROVE Owner(l)'
    <3>1. CountingFailures(l)
      BY <2>1, <2>6 DEF Owner, Rebuilding, At, Reconnecting
    <3>2. sel'[l] = 0 /\ pc'[l] = q
      BY <1>0, <2>1, <2>2 DEF IInv, TypeOK, Goto
    <3> QED
      BY <1>0, <2>1, <3>1, <3>2 DEF Owner, CountingFailures, stopVars
  <2>7. fails' = [fails EXCEPT ![l] = fails[l]]
    BY <1>0, <2>1
  <2>8. fails[l] >= MaxHealthFailures => q = "giveup"
    BY <1>0, <2>5, TunnelAssumption
  <2>9. status' \in {"Disconnected", "Connected", "Reconnecting"}
    BY <1>0, <2>1
  <2> QED
    BY <1>0, <2>1, <2>2, <2>3, <2>4, <2>6, <2>7, <2>8, <2>9, LoopMove
<1>4. CASE Recovered(l)
  <2>1. /\ pc[l] = "recovered" /\ Goto(l, "announce") /\ fails' = [fails EXCEPT ![l] = 0]
        /\ UNCHANGED <<status, stopVars, after, sel, connVars>> /\ DataTyped'
        /\ "announce" \in Places /\ "announce" \notin Passed
    BY <1>4 DEF Recovered, At, DataTyped, Places, Passed
  <2>2. Owner(l)'
    BY <1>0, <2>1 DEF Owner, Rebuilding, Goto, IInv, TypeOK
  <2>3. sel[l] = 0
    BY <2>1 DEF IInv, SelectChannel, At
  <2>4. sel' = [sel EXCEPT ![l] = 0]
    BY <1>0, <2>1, <2>3
  <2>5. ~(0 >= MaxHealthFailures)
    BY TunnelAssumption
  <2>6. status' \in {"Disconnected", "Connected", "Reconnecting"}
    BY <1>0, <2>1
  <2> QED
    BY <1>0, <2>1, <2>2, <2>4, <2>5, <2>6, LoopMove
<1> QED
  BY <1>1, <1>2, <1>3, <1>4

\* The three detectors.
LEMMA DetectorStep ==
    ASSUME IInv, NEW l \in Loops,
           \/ OnTransportDone(l) \/ HealthCheckFails(l) \/ HealthCheckPasses(l)
           \/ StallDetected(l)
    PROVE  IInv'
<1> USE Typed, ReferenceTypes
<1>0. /\ l \in Procs /\ 0 \in 0..gen /\ gen \in Nat /\ 0 \notin closedCh
      /\ fails[l] \in 0..MaxHealthFailures /\ 0 \in 0..MaxHealthFailures
      /\ status \in {"Disconnected", "Connected", "Reconnecting"}
  <2>1. /\ gen \in Nat /\ closedCh \subseteq 1..gen
        /\ fails \in [Loops -> 0..MaxHealthFailures]
        /\ status \in {"Disconnected", "Connected", "Reconnecting"}
    BY TunnelAssumption DEF IInv, TypeOK
  <2>2. 0 \in 0..gen /\ 0 \in 0..MaxHealthFailures /\ 0 \notin closedCh
    BY <2>1, TunnelAssumption
  <2> QED
    BY <2>1, <2>2 DEF Procs
<1>1. CASE OnTransportDone(l)
  <2>1. /\ pc[l] = "select" /\ SetReconnecting(l, "begin")
        /\ sel' = [sel EXCEPT ![l] = 0]
        /\ UNCHANGED <<stopVars, fails, connVars>> /\ DataTyped'
    BY <1>1 DEF OnTransportDone, LeaveSelect, At, DataTyped
  <2>2. \A k \in Loops : k # l => pc'[k] = pc[k]
    BY <1>0, <2>1 DEF SetReconnecting, Goto, IInv, TypeOK, Procs
  <2>3. sel' \in [Loops -> 0..gen] /\ SelectChannel'
    BY <2>1, <2>2, <1>0 DEF IInv, TypeOK, SelectChannel, At
  <2>4. fails' \in [Loops -> 0..MaxHealthFailures] /\ FailureBudget'
    BY <2>1, <2>2 DEF IInv, TypeOK, FailureBudget
  <2> QED
    BY <1>0, <2>1, <2>3, <2>4, EngageStep
<1>2. CASE StallDetected(l)
  <2>1. /\ pc[l] = "healthy" /\ SetReconnecting(l, "d3")
        /\ UNCHANGED <<stopVars, sel, fails, connVars>> /\ DataTyped'
    BY <1>2 DEF StallDetected, At, DataTyped
  <2>2. \A k \in Loops : k # l => pc'[k] = pc[k]
    BY <1>0, <2>1 DEF SetReconnecting, Goto, IInv, TypeOK, Procs
  <2>3. sel' \in [Loops -> 0..gen] /\ SelectChannel'
    BY <2>1, <2>2, <1>0 DEF IInv, TypeOK, SelectChannel, At
  <2>4. fails' \in [Loops -> 0..MaxHealthFailures] /\ FailureBudget'
    BY <2>1, <2>2 DEF IInv, TypeOK, FailureBudget
  <2> QED
    BY <1>0, <2>1, <2>3, <2>4, EngageStep
<1>3. CASE HealthCheckFails(l)
  <2> DEFINE f == fails[l] + 1
  <2>1. /\ pc[l] = "judge" /\ fails' = [fails EXCEPT ![l] = f]
        /\ UNCHANGED <<stopVars, sel, connVars>> /\ DataTyped'
    BY <1>3 DEF HealthCheckFails, At, DataTyped
  <2>2. fails[l] < MaxHealthFailures
    BY <1>0, <2>1, TunnelAssumption DEF IInv, FailureBudget
  <2>3. f \in 0..MaxHealthFailures /\ f \in Nat
    BY <1>0, <2>2, TunnelAssumption
  <2>4. sel[l] = 0
    BY <2>1 DEF IInv, SelectChannel, At
  <2>5. fails' \in [Loops -> 0..MaxHealthFailures] /\ fails'[l] = f
    BY <2>1, <2>3 DEF IInv, TypeOK
  <2>6. CASE f = KillSwitchThreshold
    <3>1. SetReconnecting(l, "top")
      BY <1>3, <2>6 DEF HealthCheckFails
    <3>2. \A k \in Loops : k # l => pc'[k] = pc[k]
      BY <1>0, <3>1 DEF SetReconnecting, Goto, IInv, TypeOK, Procs
    <3>3. sel' \in [Loops -> 0..gen] /\ SelectChannel'
      BY <2>1, <2>4, <3>2 DEF IInv, TypeOK, SelectChannel, At
    <3>4. FailureBudget'
      BY <2>1, <2>5, <2>6, <3>2, TunnelAssumption DEF IInv, TypeOK, FailureBudget
    <3>5. fails'[l] >= KillSwitchThreshold
      BY <2>3, <2>5, <2>6
    <3> HIDE DEF f
    <3> QED
      BY <1>0, <2>1, <2>5, <3>1, <3>3, <3>4, <3>5, EngageStep
  <2>7. CASE f # KillSwitchThreshold
    <3>1. PICK q \in {"giveup", "top"} : Goto(l, q) /\ (f >= MaxHealthFailures => q = "giveup")
      BY <1>3, <2>7 DEF HealthCheckFails
    <3>2. q \in Places /\ q \notin Passed
      BY DEF Places, Passed
    <3>3. UNCHANGED <<status, after>>
      BY <1>3, <2>7 DEF HealthCheckFails
    <3>4. sel' = [sel EXCEPT ![l] = 0]
      BY <2>1, <2>4 DEF IInv, TypeOK
    <3>5. ASSUME Owner(l) PROVE Owner(l)'
      <4>1. CountingFailures(l)
        BY <2>1, <3>5 DEF Owner, Rebuilding, At, Reconnecting
      <4>2. pc'[l] = q
        BY <1>0, <3>1 DEF IInv, TypeOK, Goto
      <4>3. CountingFailures(l)'
        BY <1>0, <2>5, <4>1, <4>2, TunnelAssumption DEF CountingFailures
      <4>4. sel'[l] \notin closedCh'
        BY <1>0, <2>1, <2>4 DEF stopVars
      <4> QED
        BY <4>3, <4>4 DEF Owner
    <3>6. status' \in {"Disconnected", "Connected", "Reconnecting"}
      BY <1>0, <3>3
    <3> HIDE DEF f
    <3> QED
      BY <1>0, <2>1, <2>3, <3>1, <3>2, <3>3, <3>4, <3>5, <3>6, LoopMove
  <2> QED
    BY <2>6, <2>7
<1>4. CASE HealthCheckPasses(l)
  <2>1. /\ pc[l] = "judge" /\ fails' = [fails EXCEPT ![l] = 0] /\ Goto(l, "healthy")
        /\ UNCHANGED <<stopVars, after, sel, connVars>> /\ DataTyped'
        /\ "healthy" \in Places /\ "healthy" \notin Passed
    BY <1>4 DEF HealthCheckPasses, At, DataTyped, Places, Passed
  <2>2. sel' = [sel EXCEPT ![l] = 0]
    BY <2>1 DEF IInv, SelectChannel, At, TypeOK
  <2>3. /\ status' \in {"Disconnected", "Connected", "Reconnecting"}
        /\ status = "Disconnected" <=> status' = "Disconnected"
        /\ status' = "Reconnecting" => status = "Reconnecting" /\ fails[l] = 0
    BY <1>0, <1>4 DEF HealthCheckPasses, SetConnected
  <2>4. fails[l] = 0 => ~Owner(l)
    BY <2>1, TunnelAssumption DEF Owner, Rebuilding, CountingFailures, At, Reconnecting
  <2>5. ~(0 >= MaxHealthFailures)
    BY TunnelAssumption
  <2> QED
    BY <1>0, <2>1, <2>2, <2>3, <2>4, <2>5, LoopMove
<1> QED
  BY <1>1, <1>2, <1>3, <1>4

-----------------------------------------------------------------------------
(* handleSOCKS. *)

\* A handler that has not failed yet owns nothing: its steps between accept
\* and close disturb the sweep only through the connections themselves.
LEMMA HandlerMove ==
    ASSUME IInv, NEW c \in Conns, NEW q \in {"off", "tracked", "checked"}, Goto(c, q),
           pc[c] \in Passed \cup {"off", "tracked"},
           UNCHANGED <<status, stopVars, transport, apiTr, after, loopVars>>,
           tracked' \subseteq Conns, swept' \subseteq Conns,
           q # "off" => c \in tracked',
           q = "checked" => status # "Reconnecting",
           \A d \in Conns : d # c => /\ d \in tracked' <=> d \in tracked
                                     /\ d \in swept' <=> d \in swept
    PROVE  IInv'
<1> USE DEF IInv, stopVars, loopVars
<1>1. /\ c \in Procs /\ c \notin Loops /\ q \in Places
      /\ pc[c] \notin {"giveup", "sweep", "exit"}
  BY TunnelAssumption DEF Procs, Places, Passed
<1>2. pc'[c] = q /\ \A r \in Procs : r # c => pc'[r] = pc[r]
  BY <1>1 DEF Goto, TypeOK
<1>3. SweepResumes' /\ SelectChannel' /\ FailureBudget'
  BY <1>1, <1>2 DEF SweepResumes, SelectChannel, FailureBudget, At, Procs
<1>4. TrackedFirst'
  BY <1>2 DEF TrackedFirst, Procs, Passed
<1>5. SupervisorAlive'
  <2> SUFFICES ASSUME status # "Disconnected", MuFree PROVE pc'[gen] \notin {"off", "exit"}
    BY DEF SupervisorAlive, MuFree
  <2>1. gen \in Procs /\ gen \in Loops
    BY TunnelAssumption DEF StopChannel, TypeOK, Procs, Loops
  <2> QED
    BY <1>1, <1>2, <2>1 DEF SupervisorAlive
<1>6. Owned'
  <2> SUFFICES ASSUME status = "Reconnecting", MuFree
               PROVE  \E o \in Procs : Owner(o)'
    BY DEF Owned, MuFree
  <2>1. PICK o \in Procs : Owner(o)
    BY DEF Owned
  <2>2. o # c
    BY <1>1, <2>1 DEF Owner, Rebuilding, Reconnecting, At, Passed
  <2>3. Owner(o)'
    BY <1>2, <2>1, <2>2 DEF Owner, CountingFailures, Rebuilding, At
  <2> QED
    BY <2>3
<1>7. KillSwitchHolds'
  BY <1>1, <1>2 DEF KillSwitchHolds, At, Procs, Passed
<1>8. DataTyped'
  BY Typed DEF DataTyped
<1>9. status' \in {"Disconnected", "Connected", "Reconnecting"}
  BY DEF TypeOK
<1> QED
  BY <1>1, <1>3, <1>4, <1>5, <1>6, <1>7, <1>8, <1>9, Moves DEF TypeOK

\* The steps of a handler.
LEMMA HandlerStep ==
    ASSUME IInv, NEW c \in Conns, Accept(c) \/ HandleSOCKS(c)
    PROVE  IInv'
<1>0. c \in Procs /\ tracked \subseteq Conns /\ swept \subseteq Conns /\ DataTyped
  BY Typed DEF Procs, IInv, TypeOK
<1>1. CASE Accept(c)
  <2>1. /\ pc[c] = "off" /\ Goto(c, "tracked") /\ tracked' = tracked \cup {c}
        /\ swept' = swept
        /\ UNCHANGED <<status, stopVars, transport, apiTr, after, loopVars>>
    BY <1>1 DEF Accept, At
  <2> QED
    BY <1>0, <2>1, HandlerMove
<1>2. CASE CheckStatus(c)
  <2>1. /\ pc[c] = "tracked"
        /\ UNCHANGED <<status, stopVars, transport, apiTr, after, loopVars>>
    BY <1>2 DEF CheckStatus, At
  <2>2. CASE Finish(c)
    BY <1>0, <2>1, <2>2, HandlerMove DEF Finish
  <2>3. CASE status # "Reconnecting" /\ Goto(c, "checked") /\ UNCHANGED connVars
    <3>1. c \in tracked
      BY <2>1 DEF IInv, TrackedFirst
    <3> QED
      BY <1>0, <2>1, <2>3, <3>1, HandlerMove DEF connVars
  <2> QED
    BY <1>2, <2>2, <2>3 DEF CheckStatus
<1>3. CASE CloseConn(c) \/ RelayEnds(c)
  <2>1. /\ pc[c] \in {"tracked", "open", "legacy", "relaying"} /\ Finish(c)
        /\ UNCHANGED <<status, stopVars, transport, apiTr, after, loopVars>>
    BY <1>3 DEF CloseConn, RelayEnds, At
  <2> QED
    BY <1>0, <2>1, HandlerMove DEF Finish, Passed
<1>4. CASE ReadTransport(c) \/ OpenStream(c) \/ LegacyConnect(c) \/ LegacyRejected(c)
  <2>1. PICK q \in {"legacy", "open", "relaying", "giveup"} : Goto(c, q)
    BY <1>4 DEF ReadTransport, OpenStream, LegacyConnect, LegacyRejected
  <2>2. /\ pc[c] \in {"checked", "open", "legacy"} /\ pc[c] \in Passed /\ q \in Places
        /\ ~Rebuilding(c)
    BY <1>4 DEF ReadTransport, OpenStream, LegacyConnect, LegacyRejected, At, Passed,
       Places, Rebuilding, Reconnecting
  <2>3. /\ UNCHANGED <<status, stopVars, after, sel, fails, connVars>> /\ DataTyped'
    BY <1>0, <1>4 DEF ReadTransport, OpenStream, LegacyConnect, LegacyRejected, loopVars,
       DataTyped
  <2> QED
    BY <1>0, <2>1, <2>2, <2>3, QuietMove
<1>5. CASE MachineIDRejected(c)
  <2>1. /\ pc[c] = "open" /\ SetReconnecting(c, "begin")
        /\ UNCHANGED <<stopVars, sel, fails, connVars>> /\ DataTyped'
    BY <1>0, <1>5 DEF MachineIDRejected, At, loopVars, DataTyped
  <2>2. \A k \in Loops : pc'[k] = pc[k]
    BY <1>0, <2>1, TunnelAssumption DEF SetReconnecting, Goto, IInv, TypeOK, Procs
  <2>3. sel' \in [Loops -> 0..gen] /\ SelectChannel'
    BY <2>1, <2>2 DEF IInv, TypeOK, SelectChannel, At
  <2>4. fails' \in [Loops -> 0..MaxHealthFailures] /\ FailureBudget'
    BY <2>1, <2>2 DEF IInv, TypeOK, FailureBudget
  <2> QED
    BY <1>0, <2>1, <2>3, <2>4, EngageStep
<1> QED
  BY <1>1, <1>2, <1>3, <1>4, <1>5 DEF HandleSOCKS

-----------------------------------------------------------------------------

\* Every step of the tunnel preserves the invariant.
LEMMA NextIInv == IInv /\ [Next]_vars => IInv'
<1> SUFFICES ASSUME IInv, [Next]_vars PROVE IInv'
  OBVIOUS
<1>1. CASE SetTransport \/ StartFails \/ WakeReconnect \/ TransportDies
  BY <1>1, TransportStep
<1>2. CASE Start
  BY <1>2, StartStep
<1>3. CASE Stop
  BY <1>3, StopBeginStep, TunnelAssumption DEF Stop
<1>4. CASE StopLocked
  BY <1>4, StopLockedStep
<1>5. CASE CloseAllConns
  BY <1>5, SweepStep
<1>6. ASSUME NEW p \in Procs, ReconnectStep(p) PROVE IInv'
  <2>1. CASE GiveUp(p)
    BY <2>1, StopBeginStep DEF GiveUp
  <2> QED
    BY <1>6, <2>1, SweepStep, AnnounceStep, ReconnectStepIInv DEF ReconnectStep
<1>7. ASSUME NEW l \in Loops, HealthLoop(l) \/ OldTransportDies(l) PROVE IInv'
  BY <1>7, LoopQuietStep, LoopSelectStep, DetectorStep, TransportStep DEF HealthLoop
<1>8. ASSUME NEW c \in Conns, Accept(c) \/ HandleSOCKS(c) PROVE IInv'
  BY <1>8, HandlerStep
<1>9. CASE UNCHANGED vars
  <2>1. DataTyped' /\ UNCHANGED <<status, stopVars, pc, after, sel, fails, connVars>>
    BY <1>9, Typed DEF vars, stopVars, connVars, DataTyped
  <2> QED
    BY <2>1, TransportFrame
<1> QED
  BY <1>1, <1>2, <1>3, <1>4, <1>5, <1>6, <1>7, <1>8, <1>9 DEF Next

\* The invariant holds in every reachable state.
THEOREM Invariance == Spec => []IInv
<1>1. Init => IInv
  BY InitIInv
<1>2. IInv /\ [Next]_vars => IInv'
  BY NextIInv
<1> QED
  BY <1>1, <1>2, PTL DEF Spec

\* Type correctness: among it, the failures of a health loop never exceed
\* maxHealthFailures.
THEOREM TypeCorrect == Spec => []TypeOK
<1>1. IInv => TypeOK
  BY DEF IInv
<1> QED
  BY <1>1, Invariance, PTL

\* The kill switch: no connection that passed the status check survives a flip
\* to Reconnecting and its sweep, for any number of racing handlers.
THEOREM NothingEscapes == Spec => []KillSwitchHolds
<1>1. IInv => KillSwitchHolds
  BY DEF IInv
<1> QED
  BY <1>1, Invariance, PTL

\* A tunnel that is up has the health loop of its own Start, however many
\* earlier loops are still winding down.
THEOREM Supervised == Spec => []SupervisorAlive
<1>1. IInv => SupervisorAlive
  BY DEF IInv
<1> QED
  BY <1>1, Invariance, PTL

\* While the kill switch is engaged somebody is rebuilding the transport or
\* counting the failures that end in recovery or in giving up.
THEOREM KillSwitchOwned == Spec => []ReconnectOwned
<1>1. IInv => ReconnectOwned
  BY DEF IInv, Owned, Owner, ReconnectOwned
<1> QED
  BY <1>1, Invariance, PTL

=============================================================================
