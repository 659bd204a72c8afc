--------------------------- MODULE Engine_proofs ---------------------------
(***************************************************************************)
(* For any number of flows and restarts and any thresholds: a TUN engine   *)
(* that is up has its own health loop, an engaged kill switch has a loop   *)
(* that will release it, the stream failure counter is bounded, and flows  *)
(* that a rebuild kept do not outlive a change of the link.                *)
(***************************************************************************)
EXTENDS Engine, FiniteSetTheorems, TLAPS

-----------------------------------------------------------------------------
(* The inductive invariant, part by part. *)

\* The loop of a Start exists from that Start on.
LoopsStarted == \A l \in Loops : pc[l] = "off" <=> l > gen

\* A /tun/start in progress has a Start left to do.
StartLeft == apiTr # "nil" => gen < MaxStarts

\* The channel of an engine that is up is open.
StopChannel == status # "Inactive" => gen > 0 /\ gen \notin closedCh

\* A select is never parked on the channel of an earlier Start than its own.
SelectChannel == \A l \in Loops : At(l, "select") => sel[l] >= l

\* A loop that has used up its budget of failures has returned.
FailureBudget == \A l \in Loops : fails[l] >= MaxFailures => At(l, "exit")

\* A loop that owns the kill switch is not about to see an old stop.
Owner(l) ==
    \/ pc[l] \in Rebuilding
    \/ /\ fails[l] >= KillSwitchThreshold /\ pc[l] # "exit"
       /\ At(l, "select") => sel[l] \notin closedCh
Owned == status = "Reconnecting" => \E l \in Loops : Owner(l)

\* A flow is tracked before it dials or relays.
FlowsTracked == \A f \in Flows : fpc[f] \in {"dial", "note", "relaying"} => f \in tracked

\* Flows past the gate are the only ones that can still raise the counter.
Dialling == {f \in Flows : fpc[f] \in {"dial", "note"}}
FailureRoom == streamOpenFailures + Cardinality(Dialling) <= MostFailures

\* Nothing is kept across a stop.
NothingKept == status = "Inactive" => kept = {}

\* Loops of earlier Starts have returned, or are parked on a closed channel.
Quitting(l) ==
    pc[l] \in {"off", "exit"} \/ (At(l, "select") /\ sel[l] \in closedCh)
AlmostAlone == \A l \in Loops : l = gen \/ Quitting(l)

\* Then the rebuild of the engine's own loop goes with the engaged switch, and
\* flows that it kept are either closed or remembered as kept; a change of
\* the link is remembered until they are closed.
Sweeping == {"sweep1", "sweep2", "sweep3"}
KeepPlaces == {"d3", "fallback", "begin", "head", "attempt", "recovered"}
RebuildEngaged == pc[gen] \in Rebuilding \cup {"sweep2"} => status # "Active"
KeptKnown ==
    status = "Reconnecting" =>
        \/ kept \subseteq swept
        \/ pc[gen] \in Sweeping
        \/ keepConns[gen] /\ pc[gen] \in KeepPlaces \cup {"announce"}
StrandedKnown ==
    \/ stranded \subseteq swept
    \/ /\ status = "Reconnecting" /\ keepConns[gen] /\ rebuildSawUnreach
       /\ pc[gen] \in KeepPlaces
KeptHandled ==
    status # "Inactive" /\ AlmostAlone => RebuildEngaged /\ KeptKnown /\ StrandedKnown

IInv ==
    /\ TypeOK
    /\ LoopsStarted
    /\ StartLeft
    /\ StopChannel
    /\ SelectChannel
    /\ FailureBudget
    /\ EngineSupervised
    /\ Owned
    /\ FlowsTracked
    /\ FailureRoom
    /\ NothingKept
    /\ KeptHandled

-----------------------------------------------------------------------------
(* Types, and the flows past the gate. *)

\* The variables that say which transport somebody refers to.
RefTyped ==
    /\ transport \in Modes \cup {"nil"}
    /\ trOpen \in BOOLEAN
    /\ apiTr \in References
    /\ watch \in [Loops -> References]
    /\ swap \subseteq Loops
    /\ ftr \in [Flows -> References]

\* The flows.
FlowTyped ==
    /\ fpc \in [Flows -> {"off", "checked", "dial", "note", "relaying"}]
    /\ tracked \subseteq Flows
    /\ swept \subseteq tracked
    /\ kept \subseteq tracked
    /\ stranded \subseteq kept

\* The locals of the loops.
LoopTyped ==
    /\ pc \in [Loops -> Places]
    /\ sel \in [Loops -> 0..gen]
    /\ bwatch \in [Loops -> 0..gen]
    /\ fails \in [Loops -> 0..MaxFailures]
    /\ keepConns \in [Loops -> BOOLEAN]

\* The rest of the type invariant.
LifeTyped ==
    /\ status \in {"Inactive", "Active", "Reconnecting"}
    /\ gen \in 0..MaxStarts
    /\ closedCh \subseteq 1..gen
    /\ lost \subseteq 1..gen
    /\ streakSawUnreach \in BOOLEAN
    /\ rebuildSawUnreach \in BOOLEAN

\* The parts make up the whole.
LEMMA TypeParts ==
    TypeOK <=> /\ RefTyped /\ FlowTyped /\ LoopTyped /\ LifeTyped
               /\ streamOpenFailures \in 0..MostFailures
<1>1. TypeOK => /\ RefTyped /\ FlowTyped /\ LoopTyped /\ LifeTyped
                /\ streamOpenFailures \in 0..MostFailures
  BY Zenon DEF TypeOK, RefTyped, FlowTyped, LoopTyped, LifeTyped
<1>2. RefTyped /\ FlowTyped /\ LoopTyped /\ LifeTyped
        /\ streamOpenFailures \in 0..MostFailures => TypeOK
  BY Zenon DEF TypeOK, RefTyped, FlowTyped, LoopTyped, LifeTyped
<1> QED
  BY <1>1, <1>2

\* The same after a step.
LEMMA TypePartsNext ==
    TypeOK' <=> /\ RefTyped' /\ FlowTyped' /\ LoopTyped' /\ LifeTyped'
                /\ streamOpenFailures' \in 0..MostFailures
<1>1. (TypeOK <=> /\ RefTyped /\ FlowTyped /\ LoopTyped /\ LifeTyped
                  /\ streamOpenFailures \in 0..MostFailures)'
  BY TypeParts, PTL
<1> QED
  BY <1>1

\* A set of flows is finite and no larger than all of them.
LEMMA FlowCount ==
    ASSUME NEW S \in SUBSET Flows
    PROVE  /\ IsFiniteSet(S) /\ Cardinality(S) \in Nat /\ Cardinality(Flows) \in Nat
           /\ Cardinality(S) <= Cardinality(Flows) /\ MostFailures \in Nat
<1>1. IsFiniteSet(S) /\ Cardinality(S) <= Cardinality(Flows)
  BY FS_Subset, EngineAssumption
<1>2. Cardinality(S) \in Nat /\ Cardinality(Flows) \in Nat
  BY <1>1, FS_CardinalityType, EngineAssumption
<1> QED
  BY <1>1, <1>2, EngineAssumption DEF MostFailures

\* The room for failures bounds the counter.
LEMMA CounterBounded ==
    ASSUME streamOpenFailures' \in Nat, FailureRoom'
    PROVE  streamOpenFailures' \in 0..MostFailures
<1>1. Dialling' \in SUBSET Flows
  BY DEF Dialling
<1>2. Cardinality(Dialling') \in Nat /\ MostFailures \in Nat
  BY <1>1, FlowCount
<1>3. streamOpenFailures' + Cardinality(Dialling') <= MostFailures
  BY DEF FailureRoom
<1> QED
  BY <1>2, <1>3

\* The counter stays or is reset, and no flow passes the gate.
LEMMA RoomKept ==
    ASSUME IInv, UNCHANGED fpc, streamOpenFailures' \in {0, streamOpenFailures}
    PROVE  FailureRoom' /\ streamOpenFailures' \in 0..MostFailures
<1>1. Dialling' = Dialling /\ Dialling \in SUBSET Flows
  BY DEF Dialling
<1>2. streamOpenFailures \in Nat
  BY FlowCount DEF IInv, TypeOK
<1>3. Cardinality(Dialling) \in Nat /\ MostFailures \in Nat
  BY <1>1, FlowCount
<1>4. FailureRoom'
  BY <1>1, <1>2, <1>3 DEF IInv, FailureRoom
<1> QED
  BY <1>2, <1>4, CounterBounded

-----------------------------------------------------------------------------
(* Frames: what the steps of different actions have in common. *)

\* No loop moves; flows end, are tracked or are closed.
LEMMA FlowFrame ==
    ASSUME IInv,
           UNCHANGED <<status, gen, closedCh, pc, sel, bwatch, fails, keepConns,
                       rebuildSawUnreach>>,
           lost' \subseteq 1..gen, RefTyped', FlowTyped', StartLeft',
           streakSawUnreach' \in BOOLEAN, streamOpenFailures' \in Nat,
           FlowsTracked', FailureRoom',
           \A f \in kept' : f \in kept /\ (f \in swept => f \in swept'),
           \A f \in stranded' : f \in stranded /\ (f \in swept => f \in swept')
    PROVE  IInv'
<1> USE DEF IInv
<1>1. LoopTyped /\ LifeTyped
  BY TypeParts
<1>2. LoopTyped'
  BY <1>1 DEF LoopTyped
<1>3. LifeTyped'
  BY <1>1, Zenon DEF LifeTyped
<1>4. TypeOK'
  BY <1>2, <1>3, CounterBounded, TypePartsNext
<1>5. LoopsStarted' /\ StopChannel' /\ SelectChannel' /\ FailureBudget'
  BY DEF LoopsStarted, StopChannel, SelectChannel, FailureBudget, At
<1>6. EngineSupervised' /\ Owned'
  BY DEF EngineSupervised, Owned, Owner, At
<1>7. NothingKept'
  BY DEF NothingKept
<1>8. KeptHandled'
  <2> SUFFICES ASSUME status # "Inactive", AlmostAlone'
               PROVE  (RebuildEngaged /\ KeptKnown /\ StrandedKnown)'
    BY DEF KeptHandled
  <2>1. AlmostAlone
    BY DEF AlmostAlone, Quitting, At
  <2>2. RebuildEngaged'
    BY <2>1 DEF KeptHandled, RebuildEngaged
  <2>3. KeptKnown'
    BY <2>1 DEF KeptHandled, KeptKnown
  <2>4. StrandedKnown'
    BY <2>1 DEF KeptHandled, StrandedKnown
  <2> QED
    BY <2>2, <2>3, <2>4
<1> QED
  BY <1>4, <1>5, <1>6, <1>7, <1>8

\* A loop moves on without returning.  What is left to show is that it keeps
\* its hold of the kill switch and, if the loops of earlier Starts are out of
\* the way, what is known of the flows it kept.
LEMMA LoopMove ==
    ASSUME IInv, NEW l \in Loops, NEW q \in Places \ {"off", "exit"}, Goto(l, q),
           pc[l] \notin {"off", "exit"},
           UNCHANGED <<gen, closedCh, lost, fpc, tracked>>,
           status' \in {"Inactive", "Active", "Reconnecting"},
           status = "Inactive" <=> status' = "Inactive",
           RefTyped', FlowTyped', StartLeft',
           streakSawUnreach' \in BOOLEAN, rebuildSawUnreach' \in BOOLEAN,
           streamOpenFailures' \in {0, streamOpenFailures},
           bwatch' \in [Loops -> 0..gen], keepConns' \in [Loops -> BOOLEAN],
           sel' \in [Loops -> 0..gen],
           \A k \in Loops : k # l => sel'[k] = sel[k],
           q = "select" => sel'[l] = gen,
           fails' \in [Loops -> 0..MaxFailures], fails'[l] < MaxFailures,
           \A k \in Loops : k # l => fails'[k] = fails[k],
           NothingKept',
           status' = "Reconnecting" /\ status # "Reconnecting" => Owner(l)',
           status' = "Reconnecting" /\ Owner(l) => Owner(l)',
           status # "Inactive" /\ l = gen /\ AlmostAlone =>
               (RebuildEngaged /\ KeptKnown /\ StrandedKnown)'
    PROVE  IInv'
<1> USE DEF IInv
<1>1. LoopTyped /\ LifeTyped
  BY TypeParts
<1>2. pc'[l] = q /\ \A k \in Loops : k # l => pc'[k] = pc[k]
  BY <1>1 DEF Goto, LoopTyped
<1>3. LoopTyped'
  BY <1>1 DEF LoopTyped, Goto
<1>4. LifeTyped'
  BY <1>1, Zenon DEF LifeTyped
<1>5. FailureRoom' /\ streamOpenFailures' \in 0..MostFailures
  BY RoomKept
<1>6. TypeOK'
  BY <1>3, <1>4, <1>5, TypePartsNext
<1>7. gen \in Nat /\ l \in Nat /\ l <= gen
  BY <1>1 DEF LifeTyped, Loops, LoopsStarted
<1>8. LoopsStarted' /\ StopChannel'
  BY <1>2, <1>7 DEF LoopsStarted, StopChannel
<1>9. SelectChannel' /\ FailureBudget'
  BY <1>2, <1>3, <1>7, EngineAssumption DEF SelectChannel, FailureBudget, At, LoopTyped
<1>10. EngineSupervised'
  <2> SUFFICES ASSUME status # "Inactive" PROVE pc'[gen] \notin {"off", "exit"}
    BY DEF EngineSupervised
  <2>1. gen \in Loops
    BY <1>1 DEF StopChannel, LifeTyped, Loops
  <2> QED
    BY <1>2, <2>1 DEF EngineSupervised
<1>11. Owned'
  <2> SUFFICES ASSUME status' = "Reconnecting" PROVE \E k \in Loops : Owner(k)'
    BY DEF Owned
  <2>1. CASE status # "Reconnecting"
    BY <2>1
  <2>2. CASE status = "Reconnecting"
    <3>1. PICK k \in Loops : Owner(k)
      BY <2>2 DEF Owned
    <3>2. k # l => Owner(k)'
      BY <1>2, <3>1 DEF Owner, At
    <3> QED
      BY <3>1, <3>2
  <2> QED
    BY <2>1, <2>2
<1>12. FlowsTracked'
  BY DEF FlowsTracked
<1>13. KeptHandled'
  <2> SUFFICES ASSUME status' # "Inactive", AlmostAlone'
               PROVE  (RebuildEngaged /\ KeptKnown /\ StrandedKnown)'
    BY DEF KeptHandled
  <2>1. gen \notin closedCh
    BY DEF StopChannel
  <2>2. ~Quitting(l)'
    BY <1>2, <2>1 DEF Quitting, At
  <2>3. l = gen
    BY <2>2 DEF AlmostAlone
  <2>4. AlmostAlone
    BY <1>2, <2>3 DEF AlmostAlone, Quitting, At
  <2> QED
    BY <2>3, <2>4
<1> QED
  BY <1>5, <1>6, <1>8, <1>9, <1>10, <1>11, <1>12, <1>13

\* A loop returns because it saw a closed channel: the engine is stopped, or
\* the loop was parked on the channel of an earlier Start.
LEMMA LoopExits ==
    ASSUME IInv, NEW l \in Loops, Goto(l, "exit"), pc[l] # "off",
           status # "Inactive" => l # gen /\ ~Owner(l) /\ Quitting(l),
           UNCHANGED <<lifeVars, trVars, sel, watch, bwatch, swap, fails,
                       keepConns, countVars, flowVars, history>>
    PROVE  IInv'
<1> USE DEF IInv, lifeVars, trVars, countVars, flowVars, history
<1>1. LoopTyped /\ LifeTyped /\ RefTyped /\ FlowTyped
  BY TypeParts
<1>2. pc'[l] = "exit" /\ \A k \in Loops : k # l => pc'[k] = pc[k]
  BY <1>1 DEF Goto, LoopTyped
<1>3. TypeOK'
  <2>1. LoopTyped'
    BY <1>1 DEF LoopTyped, Goto, Places
  <2>2. LifeTyped' /\ RefTyped'
    BY <1>1, Zenon DEF LifeTyped, RefTyped
  <2>3. FlowTyped' /\ streamOpenFailures' \in 0..MostFailures
    BY <1>1 DEF FlowTyped, TypeOK
  <2> QED
    BY <2>1, <2>2, <2>3, TypePartsNext
<1>4. LoopsStarted' /\ StartLeft' /\ StopChannel' /\ SelectChannel' /\ FailureBudget'
  BY <1>2 DEF LoopsStarted, StartLeft, StopChannel, SelectChannel, FailureBudget, At
<1>5. EngineSupervised'
  <2> SUFFICES ASSUME status # "Inactive" PROVE pc'[gen] \notin {"off", "exit"}
    BY DEF EngineSupervised
  <2>1. gen \in Loops
    BY <1>1 DEF StopChannel, LifeTyped, Loops
  <2> QED
    BY <1>2, <2>1 DEF EngineSupervised
<1>6. Owned'
  BY <1>2 DEF Owned, Owner, At
<1>7. FlowsTracked' /\ FailureRoom' /\ NothingKept'
  BY DEF FlowsTracked, FailureRoom, NothingKept, Dialling
<1>8. KeptHandled'
  <2> SUFFICES ASSUME status # "Inactive", AlmostAlone'
               PROVE  (RebuildEngaged /\ KeptKnown /\ StrandedKnown)'
    BY DEF KeptHandled
  <2>1. AlmostAlone
    BY <1>2 DEF AlmostAlone, Quitting, At
  <2>2. gen \in Loops
    BY <1>1 DEF StopChannel, LifeTyped, Loops
  <2>3. pc'[gen] = pc[gen]
    BY <1>2, <2>2
  <2>4. RebuildEngaged'
    BY <2>1, <2>3 DEF KeptHandled, RebuildEngaged
  <2>5. KeptKnown' /\ StrandedKnown'
    BY <2>1, <2>3 DEF KeptHandled, KeptKnown, StrandedKnown
  <2> QED
    BY <2>4, <2>5
<1> QED
  BY <1>3, <1>4, <1>5, <1>6, <1>7, <1>8

-----------------------------------------------------------------------------
(* Start and Stop. *)

\* Init satisfies the invariant.
LEMMA InitIInv == Init => IInv
<1> SUFFICES ASSUME Init PROVE IInv
  OBVIOUS
<1>1. 0 \in 0..MaxStarts /\ 0 \in 0..MaxFailures /\ 0 \in 0..0
  BY EngineAssumption
<1>2. Dialling = {}
  BY DEF Init, Dialling
<1>3. streamOpenFailures = 0 /\ FailureRoom
  BY <1>2, FS_EmptySet, FlowCount DEF Init, FailureRoom
<1>4. TypeOK
  <2>1. streamOpenFailures \in 0..MostFailures
    BY <1>3, FlowCount
  <2>2. RefTyped
    BY DEF Init, RefTyped, References
  <2>3. FlowTyped /\ LifeTyped
    BY <1>1 DEF Init, FlowTyped, LifeTyped
  <2>4. LoopTyped
    BY <1>1 DEF Init, LoopTyped, Places
  <2> QED
    BY <2>1, <2>2, <2>3, <2>4, TypeParts
<1>5. LoopsStarted /\ StartLeft /\ StopChannel /\ SelectChannel
  BY DEF Init, LoopsStarted, StartLeft, StopChannel, SelectChannel, Loops, At
<1>6. FailureBudget /\ EngineSupervised /\ Owned
  BY EngineAssumption DEF Init, FailureBudget, EngineSupervised, Owned
<1>7. FlowsTracked /\ NothingKept /\ KeptHandled
  BY DEF Init, FlowsTracked, NothingKept, KeptHandled
<1> QED
  BY <1>3, <1>4, <1>5, <1>6, <1>7 DEF IInv

\* Replacing e.transport turns references to it into references to an old or
\* a closed transport.
LEMMA ReplaceTyped ==
    ASSUME RefTyped, NEW new \in Modes \cup {"nil"}, NEW open \in BOOLEAN,
           NEW fate \in {"old", "dead"}, Replace(new, open, fate)
    PROVE  /\ transport' \in Modes \cup {"nil"}
           /\ trOpen' \in BOOLEAN
           /\ watch' \in [Loops -> References]
           /\ swap' \subseteq Loops
           /\ ftr' \in [Flows -> References]
           /\ Demoted(apiTr, fate) \in References
<1>1. \A r \in References : Demoted(r, fate) \in References
  BY DEF Demoted, References
<1>2. trOpen' \in BOOLEAN
  BY Zenon DEF Replace
<1> QED
  BY <1>1, <1>2 DEF Replace, RefTyped

\* What a goroutine reads, what becomes of an overwritten transport, and when
\* a reference stays nil.
LEMMA ReferenceTypes ==
    /\ ReadTransport \in References /\ Overwritten \in {"old", "dead"}
    /\ Closed \in {"old", "dead"}
    /\ \A r \in References, fate \in {"old", "dead"} :
         /\ Demoted(r, fate) \in References
         /\ Demoted(r, fate) # "nil" => r # "nil"
  BY DEF ReadTransport, Overwritten, Closed, References, Demoted

\* stopLocked, run by the API or by loops that give up and return.
LEMMA StopStep ==
    ASSUME IInv, StopUnlessInactive,
           UNCHANGED <<gen, sel, bwatch, keepConns, countVars, fpc, tracked>>,
           pc' \in [Loops -> Places],
           \A k \in Loops : pc'[k] = pc[k] \/ (pc[k] # "off" /\ pc'[k] = "exit"),
           fails' \in [Loops -> 0..MaxFailures], FailureBudget'
    PROVE  IInv'
<1> USE ReferenceTypes DEF IInv, countVars
<1>1. LoopTyped /\ LifeTyped /\ RefTyped /\ FlowTyped
  BY TypeParts
<1>2. status' = "Inactive"
  BY DEF StopUnlessInactive
<1>3. /\ closedCh' \subseteq 1..gen /\ lost' \subseteq 1..gen
      /\ swept' \subseteq tracked
      /\ kept' = {} /\ stranded' = {}
  <2>1. CASE status = "Inactive"
    BY <1>1, <2>1 DEF StopUnlessInactive, history, LifeTyped, FlowTyped, NothingKept
  <2>2. CASE status # "Inactive"
    BY <1>1, <2>2 DEF StopUnlessInactive, StopLocked, LifeTyped
  <2> QED
    BY <2>1, <2>2
<1>4. RefTyped' /\ (apiTr' # "nil" => apiTr # "nil")
  <2>1. CASE status = "Inactive"
    <3>1. UNCHANGED <<trVars, watch, swap, ftr>>
      BY <2>1 DEF StopUnlessInactive
    <3> QED
      BY <1>1, <3>1, Zenon DEF RefTyped, trVars
  <2>2. CASE status # "Inactive"
    <3>1. Replace("nil", FALSE, Closed) /\ apiTr' = Demoted(apiTr, Closed)
      BY <2>2 DEF StopUnlessInactive, StopLocked
    <3>2. apiTr \in References
      BY <1>1 DEF RefTyped
    <3> QED
      BY <1>1, <3>1, <3>2, ReplaceTyped DEF RefTyped
  <2> QED
    BY <2>1, <2>2
<1>5. TypeOK'
  <2>1. LoopTyped'
    BY <1>1 DEF LoopTyped
  <2>2. LifeTyped'
    BY <1>1, <1>2, <1>3, Zenon DEF LifeTyped
  <2>3. FlowTyped'
    BY <1>1, <1>3 DEF FlowTyped
  <2>4. streamOpenFailures' \in 0..MostFailures
    BY DEF TypeOK
  <2> QED
    BY <1>4, <2>1, <2>2, <2>3, <2>4, TypePartsNext
<1>6. LoopsStarted' /\ SelectChannel'
  BY DEF LoopsStarted, SelectChannel, At
<1>7. StartLeft' /\ StopChannel' /\ EngineSupervised' /\ Owned' /\ KeptHandled'
  BY <1>2, <1>4 DEF StartLeft, StopChannel, EngineSupervised, Owned, KeptHandled
<1>8. FlowsTracked' /\ FailureRoom' /\ NothingKept'
  BY <1>3 DEF FlowsTracked, FailureRoom, NothingKept, Dialling
<1> QED
  BY <1>5, <1>6, <1>7, <1>8

\* Start: the channel, the loop and the bridge are new.
LEMMA StartStep == ASSUME IInv, Start PROVE IInv'
<1> USE ReferenceTypes DEF IInv, countVars
<1>1. LoopTyped /\ LifeTyped /\ RefTyped /\ FlowTyped
  BY TypeParts
<1>2. /\ gen \in Nat /\ gen + 1 \in Loops /\ gen' = gen + 1 /\ gen + 1 <= MaxStarts
      /\ status' = "Active" /\ apiTr' = "nil" /\ kept' = {} /\ stranded' = {}
      /\ UNCHANGED <<sel, bwatch, fails, keepConns, countVars, fpc, tracked>>
  BY <1>1, EngineAssumption DEF Start, StartLeft, LifeTyped, Loops
<1>3. /\ pc' = [pc EXCEPT ![gen + 1] = "start"] /\ pc'[gen + 1] = "start"
      /\ pc[gen + 1] = "off"
      /\ \A k \in Loops : k # gen + 1 => pc'[k] = pc[k]
  BY <1>1, <1>2 DEF Start, Goto, LoopTyped, LoopsStarted
<1>4. closedCh' \subseteq 1..gen /\ lost' \subseteq 1..gen /\ swept' \subseteq tracked
  <2>1. CASE status = "Active"
    <3>1. gen \in 1..gen
      BY <1>2, <2>1 DEF StopChannel
    <3>2. /\ closedCh' = closedCh \cup {gen} /\ lost' = lost \cup {gen}
          /\ swept' = tracked
      BY <2>1 DEF Start
    <3> QED
      BY <1>1, <3>1, <3>2 DEF LifeTyped
  <2>2. CASE status # "Active"
    BY <1>1, <2>2 DEF Start, LifeTyped, FlowTyped
  <2> QED
    BY <2>1, <2>2
<1>5. RefTyped'
  <2>1. CASE status = "Active"
    <3>1. Replace("nil", FALSE, Closed)
      BY <2>1 DEF Start
    <3>2. apiTr' \in References
      BY <1>2 DEF References
    <3> QED
      BY <1>1, <3>1, <3>2, ReplaceTyped DEF RefTyped
  <2>2. CASE status # "Active"
    <3>1. UNCHANGED <<transport, trOpen, watch, swap, ftr>>
      BY <2>2 DEF Start
    <3>2. apiTr' \in References
      BY <1>2 DEF References
    <3> QED
      BY <1>1, <3>1, <3>2, Zenon DEF RefTyped
  <2> QED
    BY <2>1, <2>2
<1>6. TypeOK'
  <2>1. LoopTyped'
    BY <1>1, <1>2, <1>3 DEF LoopTyped, Places
  <2>2. /\ gen' \in 0..MaxStarts /\ closedCh' \subseteq 1..gen' /\ lost' \subseteq 1..gen'
    BY <1>2, <1>4, EngineAssumption
  <2>3. LifeTyped'
    BY <1>1, <1>2, <2>2, Zenon DEF LifeTyped
  <2>4. FlowTyped'
    BY <1>1, <1>2, <1>4 DEF FlowTyped
  <2>5. streamOpenFailures' \in 0..MostFailures
    BY <1>2 DEF TypeOK
  <2> QED
    BY <1>5, <2>1, <2>3, <2>4, <2>5, TypePartsNext
<1>7. LoopsStarted'
  BY <1>2, <1>3 DEF LoopsStarted, Loops
<1>8. StopChannel'
  BY <1>2, <1>4 DEF StopChannel
<1>9. StartLeft' /\ Owned' /\ NothingKept'
  BY <1>2 DEF StartLeft, Owned, NothingKept
<1>10. SelectChannel' /\ FailureBudget'
  BY <1>2, <1>3 DEF SelectChannel, FailureBudget, At
<1>11. EngineSupervised'
  BY <1>2, <1>3 DEF EngineSupervised
<1>12. FlowsTracked' /\ FailureRoom'
  BY <1>2 DEF FlowsTracked, FailureRoom, Dialling
<1>13. KeptHandled'
  BY <1>2, <1>3 DEF KeptHandled, RebuildEngaged, KeptKnown, StrandedKnown, Rebuilding
<1> QED
  BY <1>6, <1>7, <1>8, <1>9, <1>10, <1>11, <1>12, <1>13

\* The API's other steps and those of the transport and the helper.
LEMMA ApiStep ==
    ASSUME IInv,
           \/ SetTransport \/ StartFails \/ Stop \/ WakeReconnect \/ TransportDies
           \/ \E l \in Loops : OldTransportDies(l) \/ BridgeLost(l)
    PROVE  IInv'
<1> USE ReferenceTypes
<1>0. /\ LoopTyped /\ LifeTyped /\ RefTyped /\ FlowTyped
      /\ pc \in [Loops -> Places] /\ fails \in [Loops -> 0..MaxFailures] /\ FailureBudget
  BY TypeParts DEF IInv, LoopTyped
<1>1. CASE Stop
  <2>1. FailureBudget'
    BY <1>0, <1>1 DEF Stop, FailureBudget, At
  <2> QED
    BY <1>0, <1>1, <2>1, StopStep DEF Stop
<1>2. CASE StartFails /\ status = "Active"
  <2>1. /\ StopLocked /\ status' = "Inactive" /\ apiTr' = "nil"
        /\ UNCHANGED <<gen, pc, sel, bwatch, fails, keepConns, countVars, fpc, tracked>>
    BY <1>2 DEF StartFails
  <2>2. FailureBudget'
    BY <1>0, <2>1 DEF FailureBudget, At
  <2>3. StopUnlessInactive
    BY <1>2, <2>1 DEF StopUnlessInactive
  <2> QED
    BY <1>0, <2>1, <2>2, <2>3, StopStep
<1>3. CASE SetTransport \/ (StartFails /\ status # "Active")
  <2>1. UNCHANGED <<lifeVars, pc, sel, bwatch, fails, keepConns, countVars, fpc,
                    tracked, swept, history>>
    BY <1>3 DEF SetTransport, StartFails, lifeVars
  <2>2. PICK new \in Modes \cup {"nil"}, open \in BOOLEAN, fate \in {"old", "dead"} :
          Replace(new, open, fate)
    BY <1>3 DEF SetTransport, StartFails, ClearTransport
  <2>3. apiTr' \in References /\ StartLeft'
    BY <1>3, <2>1 DEF SetTransport, StartFails, References, StartLeft, lifeVars
  <2>4. RefTyped'
    BY <1>0, <2>2, <2>3, ReplaceTyped DEF RefTyped
  <2>5. FlowTyped' /\ lost' \subseteq 1..gen
    BY <1>0, <2>1 DEF FlowTyped, LifeTyped, lifeVars, history
  <2>6. FlowsTracked' /\ FailureRoom'
    BY <2>1 DEF IInv, FlowsTracked, FailureRoom, Dialling, countVars
  <2>7. streakSawUnreach' \in BOOLEAN
    BY <1>0, <2>1, Zenon DEF LifeTyped, countVars
  <2>8. streamOpenFailures' \in Nat
    BY <2>1, FlowCount DEF IInv, TypeOK, countVars
  <2> QED
    BY <2>1, <2>3, <2>4, <2>5, <2>6, <2>7, <2>8, FlowFrame DEF lifeVars, countVars, history
<1>4. CASE \/ WakeReconnect \/ TransportDies
           \/ \E l \in Loops : OldTransportDies(l) \/ BridgeLost(l)
  <2>1. UNCHANGED <<status, gen, closedCh, transport, apiTr, pc, sel, bwatch, swap, fails,
                    keepConns, countVars, flowVars, history>>
    BY <1>4 DEF WakeReconnect, TransportDies, OldTransportDies, BridgeLost, lifeVars,
       trVars, loopVars
  <2>2. trOpen' \in BOOLEAN
    BY <1>0, <1>4, Zenon DEF WakeReconnect, TransportDies, OldTransportDies, BridgeLost,
       trVars, RefTyped
  <2>3. watch' \in [Loops -> References]
    BY <1>0, <1>4 DEF WakeReconnect, TransportDies, OldTransportDies, BridgeLost,
       loopVars, RefTyped, References
  <2>4. lost' \subseteq 1..gen
    <3>1. \A l \in Loops : bwatch[l] # 0 => bwatch[l] \in 1..gen
      BY <1>0 DEF LoopTyped, LifeTyped
    <3> QED
      BY <1>0, <1>4, <3>1 DEF WakeReconnect, TransportDies, OldTransportDies, BridgeLost,
         lifeVars, LifeTyped
  <2>5. RefTyped'
    BY <1>0, <2>1, <2>2, <2>3, Zenon DEF RefTyped, flowVars
  <2>6. FlowTyped' /\ StartLeft'
    BY <1>0, <2>1 DEF FlowTyped, flowVars, history, IInv, StartLeft
  <2>7. FlowsTracked' /\ FailureRoom'
    BY <2>1 DEF IInv, FlowsTracked, FailureRoom, Dialling, countVars, flowVars
  <2>8. streakSawUnreach' \in BOOLEAN
    BY <1>0, <2>1, Zenon DEF LifeTyped, countVars
  <2>9. streamOpenFailures' \in Nat
    BY <2>1, FlowCount DEF IInv, TypeOK, countVars
  <2> QED
    BY <2>1, <2>4, <2>5, <2>6, <2>7, <2>8, <2>9, FlowFrame DEF countVars, flowVars, history
<1> QED
  BY <1>1, <1>2, <1>3, <1>4

-----------------------------------------------------------------------------
(* Flows. *)

\* The room for failures: a flow leaves the gate and is counted, the counter
\* is below the threshold or reset, or fewer flows are past the gate.
LEMMA RoomStep ==
    ASSUME IInv, streamOpenFailures' \in Nat,
           \/ /\ Dialling' \subseteq Dialling
              /\ streamOpenFailures' = streamOpenFailures
           \/ streamOpenFailures' < StreamFailureThreshold
           \/ /\ \E f \in Dialling : Dialling' = Dialling \ {f}
              /\ streamOpenFailures' = streamOpenFailures + 1
    PROVE  FailureRoom'
<1>1. Dialling \in SUBSET Flows /\ Dialling' \in SUBSET Flows
  BY DEF Dialling
<1>2. /\ IsFiniteSet(Dialling) /\ Cardinality(Dialling) \in Nat
      /\ Cardinality(Dialling') \in Nat /\ Cardinality(Flows) \in Nat
      /\ Cardinality(Dialling') <= Cardinality(Flows) /\ MostFailures \in Nat
  BY <1>1, FlowCount
<1>3. streamOpenFailures \in Nat /\ streamOpenFailures + Cardinality(Dialling) <= MostFailures
  BY <1>2 DEF IInv, TypeOK, FailureRoom
<1>4. CASE Dialling' \subseteq Dialling /\ streamOpenFailures' = streamOpenFailures
  <2>1. Cardinality(Dialling') <= Cardinality(Dialling)
    BY <1>2, <1>4, FS_Subset
  <2> QED
    BY <1>2, <1>3, <1>4, <2>1 DEF FailureRoom
<1>5. CASE streamOpenFailures' < StreamFailureThreshold
  BY <1>2, <1>5, EngineAssumption DEF FailureRoom, MostFailures
<1>6. ASSUME NEW f \in Dialling, Dialling' = Dialling \ {f},
             streamOpenFailures' = streamOpenFailures + 1
      PROVE  FailureRoom'
  <2>1. Cardinality(Dialling') = Cardinality(Dialling) - 1
    BY <1>2, <1>6, FS_RemoveElement
  <2> QED
    BY <1>2, <1>3, <1>6, <2>1 DEF FailureRoom
<1> QED
  BY <1>4, <1>5, <1>6

\* A flow goes on to the next place; nothing is closed.
LEMMA FlowMove ==
    ASSUME IInv, NEW f \in Flows,
           NEW place \in {"checked", "dial", "note", "relaying"},
           fpc' = [fpc EXCEPT ![f] = place],
           ftr' \in [Flows -> References],
           tracked' \in {tracked, tracked \cup {f}},
           place # "checked" => f \in tracked',
           UNCHANGED <<lifeVars, trVars, loopVars, streakSawUnreach, rebuildSawUnreach,
                       swept, history>>,
           streamOpenFailures' \in {0, streamOpenFailures},
           place \in {"dial", "note"} /\ fpc[f] \notin {"dial", "note"} =>
               streamOpenFailures' < StreamFailureThreshold
    PROVE  IInv'
<1> USE DEF lifeVars, trVars, loopVars, history
<1>0. LoopTyped /\ LifeTyped /\ RefTyped /\ FlowTyped /\ streamOpenFailures \in Nat
  BY TypeParts, FlowCount DEF IInv, TypeOK
<1>1. /\ fpc' \in [Flows -> {"off", "checked", "dial", "note", "relaying"}]
      /\ fpc'[f] = place /\ \A g \in Flows : g # f => fpc'[g] = fpc[g]
  BY <1>0 DEF FlowTyped
<1>2. FlowTyped'
  BY <1>0, <1>1 DEF FlowTyped
<1>3. RefTyped'
  BY <1>0, Zenon DEF RefTyped
<1>4. FlowsTracked'
  BY <1>1 DEF IInv, FlowsTracked
<1>5. streamOpenFailures' \in Nat
  BY <1>0
<1>6. FailureRoom'
  <2>1. CASE streamOpenFailures' = 0
    BY <1>5, <2>1, RoomStep, EngineAssumption
  <2>2. CASE streamOpenFailures' < StreamFailureThreshold
    BY <1>5, <2>2, RoomStep
  <2>3. CASE streamOpenFailures' = streamOpenFailures /\ ~(streamOpenFailures' < StreamFailureThreshold)
    <3>1. Dialling' \subseteq Dialling
      BY <1>1, <2>3 DEF Dialling
    <3> QED
      BY <1>5, <2>3, <3>1, RoomStep
  <2> QED
    BY <2>1, <2>2, <2>3
<1>7. streakSawUnreach' \in BOOLEAN
  BY <1>0, Zenon DEF LifeTyped
<1>8. StartLeft' /\ lost' \subseteq 1..gen
  BY <1>0 DEF IInv, StartLeft, LifeTyped
<1> QED
  BY <1>2, <1>3, <1>4, <1>5, <1>6, <1>7, <1>8, FlowFrame

\* A flow ends; with it goes what was known of it.
LEMMA FlowFinish ==
    ASSUME IInv, NEW f \in Flows, Finish(f), trOpen' \in BOOLEAN,
           UNCHANGED <<lifeVars, transport, apiTr, loopVars, rebuildSawUnreach>>,
           streakSawUnreach' \in BOOLEAN,
           \/ streamOpenFailures' = streamOpenFailures
           \/ fpc[f] = "note" /\ streamOpenFailures' = streamOpenFailures + 1
    PROVE  IInv'
<1> USE DEF lifeVars, loopVars
<1>0. LoopTyped /\ LifeTyped /\ RefTyped /\ FlowTyped /\ streamOpenFailures \in Nat
  BY TypeParts, FlowCount DEF IInv, TypeOK
<1>1. /\ fpc' \in [Flows -> {"off", "checked", "dial", "note", "relaying"}]
      /\ fpc'[f] = "off" /\ \A g \in Flows : g # f => fpc'[g] = fpc[g]
      /\ tracked' = tracked \ {f} /\ swept' = swept \ {f}
      /\ kept' = kept \ {f} /\ stranded' = stranded \ {f}
  BY <1>0 DEF Finish, FlowTyped
<1>2. ftr' \in [Flows -> References]
  BY <1>0 DEF Finish, RefTyped, References
<1>3. FlowTyped'
  BY <1>0, <1>1 DEF FlowTyped
<1>4. RefTyped'
  BY <1>0, <1>2, Zenon DEF RefTyped
<1>5. FlowsTracked'
  BY <1>1 DEF IInv, FlowsTracked
<1>6. streamOpenFailures' \in Nat
  BY <1>0
<1>7. Dialling' = Dialling \ {f}
  BY <1>1 DEF Dialling
<1>8. fpc[f] = "note" => f \in Dialling
  BY DEF Dialling
<1>9. FailureRoom'
  <2>1. CASE streamOpenFailures' = streamOpenFailures
    BY <1>6, <1>7, <2>1, RoomStep
  <2>2. CASE fpc[f] = "note" /\ streamOpenFailures' = streamOpenFailures + 1
    BY <1>6, <1>7, <1>8, <2>2, RoomStep
  <2> QED
    BY <2>1, <2>2
<1>10. StartLeft' /\ lost' \subseteq 1..gen
  BY <1>0 DEF IInv, StartLeft, LifeTyped
<1>11. /\ \A g \in kept' : g \in kept /\ (g \in swept => g \in swept')
       /\ \A g \in stranded' : g \in stranded /\ (g \in swept => g \in swept')
  BY <1>1
<1> QED
  BY <1>3, <1>4, <1>5, <1>6, <1>9, <1>10, <1>11, FlowFrame

\* The steps of a flow, and the rules that close some.
LEMMA FlowStep ==
    ASSUME IInv, UpdateRules \/ \E f \in Flows : HandleFlow(f)
    PROVE  IInv'
<1>0. LoopTyped /\ LifeTyped /\ RefTyped /\ FlowTyped /\ streamOpenFailures \in Nat
  BY TypeParts, FlowCount DEF IInv, TypeOK
<1>1. CASE UpdateRules
  <2>1. /\ UNCHANGED <<lifeVars, trVars, loopVars, countVars, fpc, ftr, tracked, history>>
        /\ swept \subseteq swept' /\ swept' \subseteq tracked
    BY <1>0, <1>1 DEF UpdateRules, FlowTyped
  <2>2. FlowTyped' /\ FlowsTracked' /\ FailureRoom'
    BY <1>0, <2>1 DEF FlowTyped, IInv, FlowsTracked, FailureRoom, Dialling, history, countVars
  <2>3. RefTyped'
    BY <1>0, <2>1, Zenon DEF RefTyped, trVars, loopVars
  <2>4. streakSawUnreach' \in BOOLEAN
    BY <1>0, <2>1, Zenon DEF LifeTyped, countVars
  <2>5. StartLeft' /\ lost' \subseteq 1..gen
    BY <1>0, <2>1 DEF IInv, StartLeft, LifeTyped, lifeVars, trVars
  <2> QED
    BY <1>0, <2>1, <2>2, <2>3, <2>4, <2>5, FlowFrame
       DEF lifeVars, loopVars, countVars, history
<1>2. ASSUME NEW f \in Flows, HandleFlow(f) PROVE IInv'
  <2>0. ftr \in [Flows -> References] /\ [ftr EXCEPT ![f] = "nil"] \in [Flows -> References]
        /\ [ftr EXCEPT ![f] = "cur"] \in [Flows -> References]
    BY <1>0 DEF RefTyped, References
  <2>1. CASE FlowChecks(f)
    <3>1. /\ fpc' = [fpc EXCEPT ![f] = "checked"] /\ tracked' = tracked
          /\ ftr' = ftr /\ streamOpenFailures' = streamOpenFailures
          /\ UNCHANGED <<lifeVars, trVars, loopVars, streakSawUnreach, rebuildSawUnreach,
                         swept, history>>
      BY <2>1 DEF FlowChecks, countVars
    <3> QED
      BY <2>0, <3>1, FlowMove
  <2>2. CASE BypassFlow(f) \/ ProxyLegacy(f)
    <3>1. /\ fpc' = [fpc EXCEPT ![f] = "relaying"] /\ tracked' = tracked \cup {f}
          /\ ftr' = ftr /\ streamOpenFailures' = streamOpenFailures
          /\ UNCHANGED <<lifeVars, trVars, loopVars, streakSawUnreach, rebuildSawUnreach,
                         swept, history>>
      BY <2>2 DEF BypassFlow, ProxyLegacy, FlowTracks, countVars
    <3> QED
      BY <2>0, <3>1, FlowMove
  <2>3. CASE ProxyTransport(f)
    <3>1. /\ fpc' = [fpc EXCEPT ![f] = "dial"] /\ tracked' = tracked \cup {f}
          /\ ftr' = [ftr EXCEPT ![f] = "cur"] /\ streamOpenFailures' = streamOpenFailures
          /\ UNCHANGED <<lifeVars, trVars, loopVars, streakSawUnreach, rebuildSawUnreach,
                         swept, history>>
      BY <2>3 DEF ProxyTransport, FlowTracks, countVars
    <3>2. streamOpenFailures' < StreamFailureThreshold
      BY <1>0, <2>3, <3>1, EngineAssumption DEF ProxyTransport, StreamOpenGate
    <3> QED
      BY <2>0, <3>1, <3>2, FlowMove
  <2>4. CASE OpenStream(f)
    <3>1. /\ fpc' = [fpc EXCEPT ![f] = "relaying"] /\ tracked' = tracked
          /\ ftr' = [ftr EXCEPT ![f] = "nil"] /\ streamOpenFailures' = 0
          /\ UNCHANGED <<lifeVars, trVars, loopVars, streakSawUnreach, rebuildSawUnreach,
                         swept, history>>
      BY <2>4 DEF OpenStream
    <3>2. f \in tracked
      BY <2>4 DEF OpenStream, IInv, FlowsTracked
    <3> QED
      BY <2>0, <3>1, <3>2, FlowMove
  <2>5. CASE OpenStreamFails(f)
    <3>1. /\ fpc' = [fpc EXCEPT ![f] = "note"] /\ tracked' = tracked /\ fpc[f] = "dial"
          /\ ftr' = [ftr EXCEPT ![f] = "nil"] /\ streamOpenFailures' = streamOpenFailures
          /\ UNCHANGED <<lifeVars, trVars, loopVars, streakSawUnreach, rebuildSawUnreach,
                         swept, history>>
      BY <2>5 DEF OpenStreamFails, countVars
    <3>2. f \in tracked
      BY <2>5 DEF OpenStreamFails, IInv, FlowsTracked
    <3> QED
      BY <2>0, <3>1, <3>2, FlowMove
  <2>6. CASE NoteFailure(f)
    <3>1. /\ Finish(f) /\ fpc[f] = "note" /\ streamOpenFailures' = streamOpenFailures + 1
          /\ UNCHANGED <<lifeVars, transport, apiTr, loopVars, rebuildSawUnreach>>
      BY <2>6 DEF NoteFailure
    <3>2. trOpen' \in BOOLEAN
      <4>1. trOpen \in BOOLEAN
        BY <1>0 DEF RefTyped
      <4> QED
        BY <2>6, <4>1, Zenon DEF NoteFailure, MachineIDRejected
    <3>3. streakSawUnreach' \in BOOLEAN
      BY <2>6, Zenon DEF NoteFailure
    <3> QED
      BY <3>1, <3>2, <3>3, FlowFinish
  <2>7. CASE FlowEnds(f)
    <3>1. /\ Finish(f) /\ streamOpenFailures' = streamOpenFailures
          /\ UNCHANGED <<lifeVars, transport, apiTr, loopVars, rebuildSawUnreach>>
      BY <2>7 DEF FlowEnds, trVars, countVars
    <3>2. trOpen' \in BOOLEAN /\ streakSawUnreach' \in BOOLEAN
      BY <1>0, <2>7, Zenon DEF FlowEnds, trVars, countVars, RefTyped, LifeTyped
    <3> QED
      BY <3>1, <3>2, FlowFinish
  <2> QED
    BY <1>2, <2>1, <2>2, <2>3, <2>4, <2>5, <2>6, <2>7 DEF HandleFlow
<1> QED
  BY <1>1, <1>2

-----------------------------------------------------------------------------
(* The health loop. *)

\* A loop moves on with its status and its locals as they are.
LEMMA LoopKeeps ==
    ASSUME IInv, NEW l \in Loops, NEW q \in Places \ {"off", "exit"}, Goto(l, q),
           pc[l] \notin {"off", "exit"},
           UNCHANGED <<lifeVars, fpc, tracked, fails, keepConns, streakSawUnreach, kept>>,
           RefTyped', StartLeft', bwatch' \in [Loops -> 0..gen],
           rebuildSawUnreach' \in BOOLEAN,
           streamOpenFailures' \in {0, streamOpenFailures},
           swept' \subseteq tracked, stranded' \subseteq kept,
           sel' = IF q = "select" THEN [sel EXCEPT ![l] = gen] ELSE sel,
           pc[l] \in Rebuilding => q \in Rebuilding,
           status # "Inactive" /\ l = gen /\ AlmostAlone =>
               (RebuildEngaged /\ KeptKnown /\ StrandedKnown)'
    PROVE  IInv'
<1> USE DEF lifeVars
<1>1. LoopTyped /\ LifeTyped /\ FlowTyped
  BY TypeParts DEF IInv
<1>2. gen \in 0..gen
  BY <1>1 DEF LifeTyped
<1>3. /\ sel' \in [Loops -> 0..gen]
      /\ \A k \in Loops : k # l => sel'[k] = sel[k]
      /\ q = "select" => sel'[l] = gen
  BY <1>1, <1>2 DEF LoopTyped
<1>4. FlowTyped'
  BY <1>1 DEF FlowTyped
<1>5. /\ fails' \in [Loops -> 0..MaxFailures] /\ keepConns' \in [Loops -> BOOLEAN]
      /\ \A k \in Loops : k # l => fails'[k] = fails[k]
  BY <1>1 DEF LoopTyped
<1>6. fails'[l] < MaxFailures
  BY <1>5, EngineAssumption DEF IInv, FailureBudget, At
<1>7. streakSawUnreach' \in BOOLEAN
  BY <1>1, Zenon DEF LifeTyped
<1>8. NothingKept'
  BY DEF IInv, NothingKept
<1>9. status' \in {"Inactive", "Active", "Reconnecting"}
  BY <1>1 DEF LifeTyped
<1>10. pc'[l] = q
  BY <1>1 DEF Goto, LoopTyped
<1>11. status' = "Reconnecting" /\ Owner(l) => Owner(l)'
  BY <1>3, <1>10 DEF Owner, At, IInv, StopChannel
<1> QED
  BY <1>3, <1>4, <1>5, <1>6, <1>7, <1>8, <1>9, <1>11, LoopMove

\* What is known of the flows that were kept stays known while the engine's
\* loop stays within, or outside, the part of the rebuild that keeps them.
LEMMA KeptFrame ==
    ASSUME IInv, NEW q \in Places, Goto(gen, q), gen \in Loops,
           status # "Inactive", AlmostAlone,
           UNCHANGED <<status, gen, keepConns, rebuildSawUnreach, swept, history>>,
           q \in Rebuilding => pc[gen] \in Rebuilding,
           q # "sweep2", pc[gen] \notin Sweeping,
           pc[gen] \in KeepPlaces => q \in KeepPlaces,
           pc[gen] # "announce"
    PROVE  (RebuildEngaged /\ KeptKnown /\ StrandedKnown)'
<1>1. pc'[gen] = q
  BY DEF Goto, IInv, TypeOK
<1>2. RebuildEngaged /\ KeptKnown /\ StrandedKnown
  BY DEF IInv, KeptHandled
<1>3. RebuildEngaged'
  BY <1>1, <1>2 DEF RebuildEngaged
<1>4. KeptKnown' /\ StrandedKnown'
  BY <1>1, <1>2 DEF KeptKnown, StrandedKnown, history
<1> QED
  BY <1>3, <1>4

\* healthLoop begins.
LEMMA LoopStartStep == ASSUME IInv, NEW l \in Loops, LoopStart(l) PROVE IInv'
<1>0. LoopTyped /\ LifeTyped /\ RefTyped /\ FlowTyped
  BY TypeParts DEF IInv
<1>1. /\ Goto(l, "select") /\ pc[l] = "start" /\ sel' = [sel EXCEPT ![l] = gen]
      /\ UNCHANGED <<lifeVars, trVars, swap, fails, keepConns, countVars, flowVars, history>>
  BY DEF LoopStart, ToSelect, At
<1>2. "select" \in Places \ {"off", "exit"}
  BY DEF Places
<1>3. RefTyped'
  <2>1. watch' \in [Loops -> References]
    BY <1>0, ReferenceTypes DEF LoopStart, RefTyped
  <2> QED
    BY <1>0, <1>1, <2>1, Zenon DEF RefTyped, trVars, flowVars
<1>4. bwatch' \in [Loops -> 0..gen]
  <2>1. 0 \in 0..gen /\ gen \in 0..gen
    BY <1>0 DEF LifeTyped
  <2> QED
    BY <1>0, <2>1 DEF LoopStart, LoopTyped
<1>5. rebuildSawUnreach' \in BOOLEAN
  BY <1>0, <1>1, Zenon DEF LifeTyped, countVars
<1>6. StartLeft'
  BY <1>1 DEF IInv, StartLeft, lifeVars, trVars
<1>7. swept' \subseteq tracked /\ stranded' \subseteq kept
  BY <1>0, <1>1 DEF FlowTyped, flowVars, history
<1>8. status # "Inactive" /\ l = gen /\ AlmostAlone =>
        (RebuildEngaged /\ KeptKnown /\ StrandedKnown)'
  BY <1>1, <1>2, KeptFrame DEF lifeVars, countVars, flowVars, history, Rebuilding,
     Sweeping, KeepPlaces
<1>9. pc[l] \notin Rebuilding
  BY <1>1 DEF Rebuilding
<1> QED
  BY <1>1, <1>2, <1>3, <1>4, <1>5, <1>6, <1>7, <1>8, <1>9, LoopKeeps
     DEF countVars, flowVars, history

\* A loop moves on; of what its flows and the engine know only references to
\* the transport and the failure counter change.
LEMMA LoopPasses ==
    ASSUME IInv, NEW l \in Loops, NEW q \in Places \ {"off", "exit"}, Goto(l, q),
           pc[l] \notin {"off", "exit", "announce"} \cup Sweeping,
           UNCHANGED <<lifeVars, bwatch, fails, keepConns, streakSawUnreach,
                       rebuildSawUnreach, fpc, tracked, swept, history>>,
           RefTyped', apiTr' # "nil" => apiTr # "nil",
           streamOpenFailures' \in {0, streamOpenFailures},
           sel' = IF q = "select" THEN [sel EXCEPT ![l] = gen] ELSE sel,
           pc[l] \in Rebuilding <=> q \in Rebuilding,
           pc[l] \in KeepPlaces => q \in KeepPlaces,
           q # "sweep2"
    PROVE  IInv'
<1>0. LoopTyped /\ LifeTyped /\ FlowTyped
  BY TypeParts DEF IInv
<1>1. rebuildSawUnreach' \in BOOLEAN
  BY <1>0, Zenon DEF LifeTyped
<1>2. StartLeft'
  BY DEF IInv, StartLeft, lifeVars
<1>3. swept' \subseteq tracked /\ stranded' \subseteq kept /\ bwatch' \in [Loops -> 0..gen]
  BY <1>0 DEF FlowTyped, LoopTyped, history
<1>4. status # "Inactive" /\ l = gen /\ AlmostAlone =>
        (RebuildEngaged /\ KeptKnown /\ StrandedKnown)'
  BY KeptFrame DEF lifeVars
<1> QED
  BY <1>1, <1>2, <1>3, <1>4, LoopKeeps DEF history

\* AutoTransport changes its mode: references to the done channel it had are
\* references to a closed one.
LEMMA SwapTyped ==
    ASSUME RefTyped, NEW l \in Loops, UNCHANGED <<apiTr, ftr>>, swap' = swap \ {l},
           \/ UNCHANGED <<transport, trOpen>>
           \/ transport' \in Modes /\ trOpen' = TRUE,
           \A k \in Loops : watch'[k] \in {watch[k], ReadTransport, Demoted(watch[k], Closed)},
           watch' = [k \in Loops |-> watch'[k]]
    PROVE  RefTyped'
<1>1. trOpen' \in BOOLEAN
  BY Zenon DEF RefTyped
<1>2. watch' \in [Loops -> References]
  BY ReferenceTypes DEF RefTyped
<1>3. transport' \in Modes \cup {"nil"} /\ swap' \subseteq Loops
  BY DEF RefTyped
<1> QED
  BY <1>1, <1>2, <1>3, Zenon DEF RefTyped

\* The moves between UDP and TLS.
LEMMA SwapStep ==
    ASSUME IInv, NEW l \in Loops,
           TryFallback(l) \/ FallbackDone(l) \/ FallbackFails(l) \/ UpgradeDone(l) \/ UpgradeFails(l)
    PROVE  IInv'
<1> USE DEF At, trVars, countVars, flowVars, history
<1>0. RefTyped /\ watch = [k \in Loops |-> watch[k]]
  BY TypeParts DEF IInv, RefTyped
<1>p. {"select", "fallback", "begin", "recovered"} \subseteq Places \ {"off", "exit"}
  BY DEF Places
<1>1. CASE TryFallback(l)
  <2>1. /\ pc[l] = "d3" /\ \E q \in {"fallback", "begin"} : Goto(l, q)
        /\ UNCHANGED <<lifeVars, trVars, sel, watch, bwatch, fails, keepConns, countVars,
                       flowVars, history>>
    BY <1>1 DEF TryFallback
  <2>2. swap' \subseteq Loops
    BY <1>0, <1>1 DEF TryFallback, RefTyped
  <2>3. RefTyped'
    BY <1>0, <2>1, <2>2, Zenon DEF RefTyped
  <2>4. PICK q \in {"fallback", "begin"} : Goto(l, q)
    BY <2>1
  <2>5. pc[l] \in Rebuilding /\ pc[l] \in KeepPlaces /\ q \in Rebuilding /\ q \in KeepPlaces
        /\ pc[l] \notin Sweeping
    BY <2>1 DEF Rebuilding, KeepPlaces, Sweeping
  <2> QED
    BY <1>p, <2>1, <2>3, <2>4, <2>5, LoopPasses
<1>2. CASE FallbackDone(l)
  <2>1. /\ pc[l] = "fallback" /\ Goto(l, "recovered") /\ swap' = swap \ {l}
        /\ UNCHANGED <<lifeVars, apiTr, sel, bwatch, fails, keepConns, countVars, flowVars,
                       history>>
    BY <1>2 DEF FallbackDone, EndSwap
  <2>2. \/ UNCHANGED <<transport, trOpen>>
        \/ transport' \in Modes /\ trOpen' = TRUE
    BY <1>2 DEF FallbackDone, SwapActive, Modes
  <2>3. /\ \A k \in Loops : watch'[k] \in {watch[k], Demoted(watch[k], Closed)}
        /\ watch' = [k \in Loops |-> watch'[k]]
    BY <1>0, <1>2 DEF FallbackDone, SwapActive
  <2>4. RefTyped'
    BY <1>0, <2>1, <2>2, <2>3, SwapTyped
  <2>5. pc[l] \in Rebuilding /\ "recovered" \in Rebuilding /\ "recovered" \in KeepPlaces
        /\ pc[l] \notin Sweeping
    BY <2>1 DEF Rebuilding, KeepPlaces, Sweeping
  <2> QED
    BY <1>p, <2>1, <2>4, <2>5, LoopPasses
<1>3. CASE FallbackFails(l)
  <2>1. /\ pc[l] = "fallback" /\ Goto(l, "begin") /\ swap' = swap \ {l}
        /\ UNCHANGED <<lifeVars, trVars, sel, watch, bwatch, fails, keepConns, countVars,
                       flowVars, history>>
    BY <1>3 DEF FallbackFails, EndSwap
  <2>2. RefTyped'
    BY <1>0, <2>1, SwapTyped
  <2>3. pc[l] \in Rebuilding /\ "begin" \in Rebuilding /\ "begin" \in KeepPlaces
        /\ pc[l] \notin Sweeping
    BY <2>1 DEF Rebuilding, KeepPlaces, Sweeping
  <2> QED
    BY <1>p, <2>1, <2>2, <2>3, LoopPasses
<1>4. CASE UpgradeDone(l) \/ UpgradeFails(l)
  <2>1. /\ pc[l] = "upgrade" /\ Goto(l, "select") /\ swap' = swap \ {l}
        /\ sel' = [sel EXCEPT ![l] = gen]
        /\ UNCHANGED <<lifeVars, apiTr, bwatch, fails, keepConns, streakSawUnreach,
                       rebuildSawUnreach, flowVars, history>>
        /\ streamOpenFailures' \in {0, streamOpenFailures}
    BY <1>4 DEF UpgradeDone, UpgradeFails, EndSwap, ToSelect
  <2>2. \/ UNCHANGED <<transport, trOpen>>
        \/ transport' \in Modes /\ trOpen' = TRUE
    BY <1>4 DEF UpgradeDone, UpgradeFails, Modes
  <2>3. /\ \A k \in Loops : watch'[k] \in {watch[k], ReadTransport, Demoted(watch[k], Closed)}
        /\ watch' = [k \in Loops |-> watch'[k]]
    BY <1>0, <1>4 DEF UpgradeDone, UpgradeFails
  <2>4. RefTyped'
    BY <1>0, <2>1, <2>2, <2>3, SwapTyped
  <2>5. pc[l] \notin Rebuilding /\ "select" \notin Rebuilding /\ pc[l] \notin KeepPlaces
        /\ pc[l] \notin Sweeping
    BY <2>1 DEF Rebuilding, KeepPlaces, Sweeping
  <2> QED
    BY <1>p, <2>1, <2>4, <2>5, LoopPasses
<1> QED
  BY <1>1, <1>2, <1>3, <1>4

\* The rebuild of the transport, as long as it goes on.
LEMMA RebuildStep ==
    ASSUME IInv, NEW l \in Loops,
           ReconnectBegin(l) \/ (ReconnectHead(l) /\ gen \notin closedCh) \/ TryReconnectOnce(l)
    PROVE  IInv'
<1> USE DEF At, trVars, countVars, flowVars, history
<1>0. RefTyped /\ apiTr \in References
  BY TypeParts DEF IInv, RefTyped
<1>p. {"head", "attempt", "recovered"} \subseteq Places \ {"off", "exit"}
  BY DEF Places
<1>1. PICK q \in {"head", "attempt", "recovered"} : Goto(l, q)
  BY DEF ReconnectBegin, ReconnectHead, TryReconnectOnce
<1>2. /\ pc[l] \in {"begin", "head", "attempt"}
      /\ UNCHANGED <<lifeVars, sel, bwatch, fails, keepConns, streakSawUnreach,
                     rebuildSawUnreach, fpc, tracked, swept, history>>
      /\ streamOpenFailures' \in {0, streamOpenFailures}
  BY DEF ReconnectBegin, ReconnectHead, TryReconnectOnce
<1>3. RefTyped' /\ (apiTr' # "nil" => apiTr # "nil")
  <2>1. CASE ReconnectHead(l)
    <3>1. UNCHANGED <<trVars, watch, swap, ftr>>
      BY <2>1 DEF ReconnectHead
    <3> QED
      BY <1>0, <3>1, Zenon DEF RefTyped
  <2>2. CASE ReconnectBegin(l) \/ TryReconnectOnce(l)
    <3>1. PICK new \in Modes \cup {"nil"}, open \in BOOLEAN, fate \in {"old", "dead"} :
            Replace(new, open, fate) /\ apiTr' = Demoted(apiTr, fate)
      BY <2>2, ReferenceTypes DEF ReconnectBegin, TryReconnectOnce
    <3> QED
      BY <1>0, <3>1, ReplaceTyped, ReferenceTypes DEF RefTyped
  <2> QED
    BY <2>1, <2>2
<1>4. pc[l] \in Rebuilding /\ q \in Rebuilding /\ q \in KeepPlaces /\ pc[l] \notin Sweeping
  BY <1>2 DEF Rebuilding, KeepPlaces, Sweeping
<1> QED
  BY <1>p, <1>1, <1>2, <1>3, <1>4, LoopPasses

\* An attempt fails.  If the network was unreachable, that is remembered
\* along with the flows that it stranded.
LEMMA AttemptFailsStep == ASSUME IInv, NEW l \in Loops, AttemptFails(l) PROVE IInv'
<1> USE DEF At, trVars, flowVars
<1>0. LoopTyped /\ LifeTyped /\ RefTyped /\ FlowTyped
  BY TypeParts DEF IInv
<1>1. /\ Goto(l, "head") /\ pc[l] = "attempt"
      /\ UNCHANGED <<lifeVars, trVars, sel, watch, bwatch, swap, fails, keepConns,
                     streamOpenFailures, streakSawUnreach, flowVars, kept>>
  BY DEF AttemptFails
<1>2. PICK u \in BOOLEAN : /\ rebuildSawUnreach' = (rebuildSawUnreach \/ u)
                           /\ stranded' = IF u THEN kept ELSE stranded
  BY DEF AttemptFails
<1>3. rebuildSawUnreach' \in BOOLEAN
  BY <1>2, Zenon
<1>4. stranded' \subseteq kept /\ swept' \subseteq tracked /\ bwatch' \in [Loops -> 0..gen]
  BY <1>0, <1>1, <1>2 DEF FlowTyped, LoopTyped
<1>5. RefTyped'
  BY <1>0, <1>1, Zenon DEF RefTyped
<1>6. StartLeft'
  BY <1>1 DEF IInv, StartLeft, lifeVars
<1>7. ASSUME status # "Inactive", l = gen, AlmostAlone
      PROVE  (RebuildEngaged /\ KeptKnown /\ StrandedKnown)'
  <2>1. RebuildEngaged /\ KeptKnown /\ StrandedKnown /\ pc'[gen] = "head"
    BY <1>0, <1>1, <1>7 DEF IInv, KeptHandled, Goto, LoopTyped
  <2>2. status = "Reconnecting"
    BY <1>0, <1>1, <1>7, <2>1 DEF RebuildEngaged, Rebuilding, LifeTyped
  <2>3. RebuildEngaged' /\ KeptKnown'
    BY <1>1, <1>7, <2>1, <2>2 DEF RebuildEngaged, KeptKnown, KeepPlaces, Sweeping, lifeVars
  <2>4. StrandedKnown'
    <3>1. CASE u
      <4>1. stranded' = kept /\ rebuildSawUnreach'
        BY <1>2, <3>1, Zenon
      <4> QED
        BY <1>1, <1>7, <2>1, <2>2, <4>1 DEF KeptKnown, StrandedKnown, KeepPlaces, Sweeping,
           lifeVars
    <3>2. CASE ~u
      <4>1. stranded' = stranded /\ (rebuildSawUnreach => rebuildSawUnreach')
        BY <1>2, <3>2, Zenon
      <4> QED
        BY <1>1, <1>7, <2>1, <2>2, <4>1 DEF StrandedKnown, KeepPlaces, lifeVars
    <3> QED
      BY <3>1, <3>2
  <2> QED
    BY <2>3, <2>4
<1>8. pc[l] \in Rebuilding /\ "head" \in Rebuilding /\ "head" \in Places \ {"off", "exit"}
  BY <1>1 DEF Rebuilding, Places
<1> QED
  BY <1>1, <1>3, <1>4, <1>5, <1>6, <1>7, <1>8, LoopKeeps

\* closeAllConns, of the kill switch or of recovered().
LEMMA SweepStep == ASSUME IInv, NEW l \in Loops, Sweep(l) \/ SweepKept(l) PROVE IInv'
<1> USE DEF At, trVars, countVars, flowVars, history
<1>0. LoopTyped /\ LifeTyped /\ RefTyped /\ FlowTyped
  BY TypeParts DEF IInv
<1>1. /\ pc[l] \in Sweeping \cup {"recovered"}
      /\ UNCHANGED <<lifeVars, trVars, watch, bwatch, swap, fails, keepConns, countVars,
                     fpc, ftr, tracked, history>>
  BY DEF Sweep, SweepKept, Sweeping
<1>2. PICK q \in {"begin", "select", "d3", "announce"} :
        /\ Goto(l, q)
        /\ sel' = IF q = "select" THEN [sel EXCEPT ![l] = gen] ELSE sel
        /\ pc[l] \in Rebuilding => q \in Rebuilding
        /\ pc[l] = "recovered" <=> q = "announce"
        /\ q # "select" => pc[l] \in Rebuilding
  BY DEF Sweep, SweepKept, ToSelect, Rebuilding
<1>3. \/ swept' = tracked
      \/ pc[l] = "recovered" /\ swept' = swept /\ ~(keepConns[l] /\ rebuildSawUnreach)
  BY DEF Sweep, SweepKept
<1>4. swept' \subseteq tracked /\ stranded' \subseteq kept /\ bwatch' \in [Loops -> 0..gen]
  BY <1>0, <1>1, <1>3 DEF FlowTyped, LoopTyped
<1>5. rebuildSawUnreach' \in BOOLEAN
  BY <1>0, <1>1, Zenon DEF LifeTyped
<1>6. RefTyped'
  BY <1>0, <1>1, Zenon DEF RefTyped
<1>7. StartLeft'
  BY <1>1 DEF IInv, StartLeft, lifeVars
<1>8. ASSUME status # "Inactive", l = gen, AlmostAlone
      PROVE  (RebuildEngaged /\ KeptKnown /\ StrandedKnown)'
  <2>1. RebuildEngaged /\ KeptKnown /\ StrandedKnown /\ pc'[gen] = q
    BY <1>0, <1>2, <1>8 DEF IInv, KeptHandled, Goto, LoopTyped
  <2>2. RebuildEngaged'
    BY <1>1, <1>2, <1>8, <2>1 DEF RebuildEngaged, Rebuilding, lifeVars
  <2>3. CASE swept' = tracked
    BY <1>0, <1>1, <2>2, <2>3 DEF KeptKnown, StrandedKnown, FlowTyped
  <2>4. CASE pc[l] = "recovered" /\ swept' = swept /\ ~(keepConns[l] /\ rebuildSawUnreach)
    <3>1. KeptKnown'
      BY <1>1, <1>2, <1>8, <2>1, <2>4 DEF KeptKnown, Sweeping, lifeVars
    <3>2. StrandedKnown'
      BY <1>1, <1>8, <2>1, <2>4 DEF StrandedKnown
    <3> QED
      BY <2>2, <3>1, <3>2
  <2> QED
    BY <1>3, <2>3, <2>4
<1>9. q \in Places \ {"off", "exit"} /\ pc[l] \notin {"off", "exit"}
  BY <1>1 DEF Places, Sweeping
<1> QED
  BY <1>1, <1>2, <1>4, <1>5, <1>6, <1>7, <1>8, <1>9, LoopKeeps

\* D1 and D3 engage the kill switch before they rebuild; D3 may keep flows.
LEMMA EngageStep ==
    ASSUME IInv, NEW l \in Loops, OnTransportDone(l) \/ OnTickD3(l)
    PROVE  IInv'
<1> USE DEF At, trVars, countVars, flowVars
<1>0. LoopTyped /\ LifeTyped /\ RefTyped /\ FlowTyped
  BY TypeParts DEF IInv
<1>1. /\ pc[l] = "select"
      /\ UNCHANGED <<gen, closedCh, lost, trVars, sel, watch, bwatch, swap, fails, flowVars>>
      /\ streamOpenFailures' \in {0, streamOpenFailures}
  BY DEF OnTransportDone, OnTickD3
<1>2. PICK q \in {"sweep1", "sweep3", "begin", "d3"} :
        /\ Goto(l, q)
        /\ status = "Active" /\ q \notin Sweeping => keepConns' = [keepConns EXCEPT ![l] = TRUE]
  BY DEF OnTransportDone, OnTickD3, EnterReconnecting, Sweeping
<1>3. status' = IF status = "Active" THEN "Reconnecting" ELSE status
  BY DEF OnTransportDone, OnTickD3, EnterReconnecting
<1>4. keepConns' \in [Loops -> BOOLEAN]
  <2>1. PICK b \in BOOLEAN : keepConns' = [keepConns EXCEPT ![l] = b]
    BY DEF OnTransportDone, OnTickD3
  <2> QED
    BY <1>0, <2>1 DEF LoopTyped
<1>5. streakSawUnreach' \in BOOLEAN /\ rebuildSawUnreach' \in BOOLEAN
  <2>1. CASE OnTransportDone(l)
    BY <1>0, <2>1, Zenon DEF OnTransportDone, LifeTyped
  <2>2. CASE OnTickD3(l)
    BY <1>0, <2>2, Zenon DEF OnTickD3, LifeTyped
  <2> QED
    BY <2>1, <2>2
<1>6. \/ kept' = kept /\ stranded' = stranded
      \/ /\ status = "Active" /\ kept' = {f \in Flows : fpc[f] = "relaying"}
         /\ stranded' = {}
  BY DEF OnTransportDone, OnTickD3, history
<1>7. FlowTyped'
  BY <1>0, <1>1, <1>6 DEF FlowTyped, IInv, FlowsTracked
<1>8. RefTyped'
  BY <1>0, <1>1, Zenon DEF RefTyped
<1>9. StartLeft' /\ NothingKept'
  BY <1>1, <1>3, <1>6 DEF IInv, StartLeft, NothingKept
<1>10. pc'[l] = q /\ q \in Rebuilding /\ q \in Places \ {"off", "exit"}
  BY <1>0, <1>2 DEF Goto, LoopTyped, Rebuilding, Places
<1>11. Owner(l)'
  BY <1>10 DEF Owner
<1>12. fails' \in [Loops -> 0..MaxFailures] /\ fails'[l] < MaxFailures
  BY <1>0, <1>1, EngineAssumption DEF LoopTyped, IInv, FailureBudget
<1>13. sel' \in [Loops -> 0..gen] /\ bwatch' \in [Loops -> 0..gen]
  BY <1>0, <1>1 DEF LoopTyped
<1>14. ASSUME status # "Inactive", l = gen, AlmostAlone
       PROVE  (RebuildEngaged /\ KeptKnown /\ StrandedKnown)'
  <2>1. KeptKnown /\ StrandedKnown
    BY <1>14 DEF IInv, KeptHandled
  <2>2. status' = "Reconnecting" /\ pc'[gen'] = q /\ gen' = gen
    BY <1>0, <1>1, <1>3, <1>10, <1>14 DEF LifeTyped
  <2>3. stranded \subseteq swept /\ (status = "Reconnecting" => kept \subseteq swept)
    BY <1>1, <1>14, <2>1 DEF KeptKnown, StrandedKnown, Sweeping, KeepPlaces
  <2>4. StrandedKnown'
    BY <1>1, <1>6, <2>3 DEF StrandedKnown
  <2>5. KeptKnown'
    <3>1. CASE status = "Active"
      <4>1. q \notin Sweeping => keepConns'[l] /\ q \in KeepPlaces
        BY <1>0, <1>2, <3>1 DEF LoopTyped, Sweeping, KeepPlaces
      <4> QED
        BY <1>14, <2>2, <4>1 DEF KeptKnown
    <3>2. CASE status # "Active"
      BY <1>0, <1>1, <1>6, <1>14, <2>3, <3>2 DEF KeptKnown, LifeTyped
    <3> QED
      BY <3>1, <3>2
  <2> QED
    BY <2>2, <2>4, <2>5 DEF RebuildEngaged
<1>15. /\ status' \in {"Inactive", "Active", "Reconnecting"}
       /\ status = "Inactive" <=> status' = "Inactive"
  BY <1>0, <1>3 DEF LifeTyped
<1> QED
  BY <1>1, <1>2, <1>4, <1>5, <1>7, <1>8, <1>9, <1>10, <1>11, <1>12, <1>13, <1>14, <1>15, LoopMove

\* D2 and the end of a rebuild: the loop returns to its select or goes on to
\* an upgrade, and the kill switch is engaged, released or left alone.
LEMMA SettleFrame ==
    ASSUME IInv, NEW l \in Loops, NEW q \in {"select", "upgrade", "sweep2"}, Goto(l, q),
           pc[l] \in {"select", "announce"},
           UNCHANGED <<gen, closedCh, lost, trVars, bwatch, streakSawUnreach,
                       rebuildSawUnreach, flowVars, history>>,
           streamOpenFailures' \in {0, streamOpenFailures},
           status' \in {"Inactive", "Active", "Reconnecting"},
           status = "Inactive" <=> status' = "Inactive",
           q = "sweep2" => status' = "Reconnecting",
           status' = "Reconnecting" /\ status # "Reconnecting" =>
               q = "sweep2" /\ fails'[l] >= KillSwitchThreshold,
           status' = "Reconnecting" =>
               pc[l] = "select" /\ (fails[l] >= KillSwitchThreshold =>
                                        fails'[l] >= KillSwitchThreshold),
           watch' \in [Loops -> References], swap' \subseteq Loops,
           keepConns' \in [Loops -> BOOLEAN],
           sel' \in {sel, [sel EXCEPT ![l] = gen]},
           q = "select" => sel' = [sel EXCEPT ![l] = gen],
           \E n \in 0..MaxFailures : n < MaxFailures /\ fails' = [fails EXCEPT ![l] = n]
    PROVE  IInv'
<1> USE DEF At, trVars, flowVars, history
<1>0. LoopTyped /\ LifeTyped /\ RefTyped /\ FlowTyped
  BY TypeParts DEF IInv
<1>1. pc'[l] = q /\ q \in Places \ {"off", "exit"}
  BY <1>0 DEF Goto, LoopTyped, Places
<1>2. /\ fails' \in [Loops -> 0..MaxFailures] /\ fails'[l] < MaxFailures
      /\ \A k \in Loops : k # l => fails'[k] = fails[k]
  BY <1>0 DEF LoopTyped
<1>3. gen \in 0..gen
  BY <1>0 DEF LifeTyped
<1>4. /\ sel' \in [Loops -> 0..gen] /\ (q = "select" => sel'[l] = gen)
      /\ \A k \in Loops : k # l => sel'[k] = sel[k]
  BY <1>0, <1>3 DEF LoopTyped
<1>5. streakSawUnreach' \in BOOLEAN /\ rebuildSawUnreach' \in BOOLEAN
  BY <1>0, Zenon DEF LifeTyped
<1>6. RefTyped'
  BY <1>0, Zenon DEF RefTyped
<1>7. FlowTyped' /\ bwatch' \in [Loops -> 0..gen]
  BY <1>0 DEF FlowTyped, LoopTyped
<1>8. StartLeft' /\ NothingKept'
  BY DEF IInv, StartLeft, NothingKept
<1>9. pc[l] = "select" => pc[l] \notin Rebuilding
  BY DEF Rebuilding
<1>10. status' = "Reconnecting" /\ status # "Reconnecting" => Owner(l)'
  BY <1>1 DEF Owner
<1>11. status' = "Reconnecting" /\ Owner(l) => Owner(l)'
  BY <1>1, <1>4, <1>9 DEF Owner, IInv, StopChannel
<1>12. ASSUME status # "Inactive", l = gen, AlmostAlone
       PROVE  (RebuildEngaged /\ KeptKnown /\ StrandedKnown)'
  <2>1. KeptKnown /\ StrandedKnown
    BY <1>12 DEF IInv, KeptHandled
  <2>2. stranded \subseteq swept
    BY <1>12, <2>1 DEF StrandedKnown, KeepPlaces
  <2>3. StrandedKnown'
    BY <2>2 DEF StrandedKnown
  <2>4. RebuildEngaged'
    BY <1>1, <1>12 DEF RebuildEngaged, Rebuilding
  <2>5. KeptKnown'
    BY <1>1, <1>12, <2>1 DEF KeptKnown, Sweeping, KeepPlaces
  <2> QED
    BY <2>3, <2>4, <2>5
<1> QED
  BY <1>1, <1>2, <1>4, <1>5, <1>6, <1>7, <1>8, <1>10, <1>11, <1>12, LoopMove

\* A failed health check counts, engages the kill switch, or stops the engine.
LEMMA D2FailsStep == ASSUME IInv, NEW l \in Loops, OnTickD2Fails(l) PROVE IInv'
<1> USE DEF At
<1>0. /\ LoopTyped /\ LifeTyped /\ RefTyped /\ FlowTyped
      /\ pc \in [Loops -> Places] /\ fails \in [Loops -> 0..MaxFailures] /\ FailureBudget
  BY TypeParts DEF IInv, LoopTyped
<1>1. /\ pc[l] = "select" /\ fails[l] \in Nat /\ fails[l] < MaxFailures
      /\ fails' = [fails EXCEPT ![l] = fails[l] + 1]
      /\ fails[l] + 1 \in 0..MaxFailures
      /\ UNCHANGED <<bwatch, keepConns, countVars, fpc, tracked>>
  BY <1>0, EngineAssumption DEF OnTickD2Fails, FailureBudget
<1>2. /\ fails'[l] = fails[l] + 1 /\ fails' \in [Loops -> 0..MaxFailures]
      /\ \A k \in Loops : k # l => fails'[k] = fails[k]
  BY <1>0, <1>1
<1>3. CASE fails[l] + 1 >= MaxFailures
  <2>1. StopUnlessInactive /\ Goto(l, "exit") /\ UNCHANGED gen /\ UNCHANGED sel
    BY <1>1, <1>3, EngineAssumption DEF OnTickD2Fails, StopAndExit
  <2>2. /\ pc' \in [Loops -> Places] /\ pc'[l] = "exit"
        /\ \A k \in Loops : k # l => pc'[k] = pc[k]
    BY <1>0, <2>1 DEF Goto, Places
  <2>3. FailureBudget'
    BY <1>0, <1>2, <2>2 DEF FailureBudget
  <2> QED
    BY <1>1, <1>2, <2>1, <2>2, <2>3, StopStep
<1>4. CASE fails[l] + 1 < MaxFailures
  <2>1. /\ sel' = [sel EXCEPT ![l] = gen]
        /\ UNCHANGED <<gen, closedCh, lost, trVars, watch, swap, ftr, swept, history>>
        /\ \/ /\ fails[l] + 1 = KillSwitchThreshold
              /\ EnterReconnecting(l, "sweep2", "select")
           \/ UNCHANGED <<status, pc>>
    BY <1>1, <1>4, EngineAssumption DEF OnTickD2Fails
  <2>2. PICK q \in {"select", "sweep2"} :
          /\ Goto(l, q)
          /\ \/ q = "select" /\ status' = status
             \/ /\ q = "sweep2" /\ status = "Active" /\ status' = "Reconnecting"
                /\ fails[l] + 1 = KillSwitchThreshold
    <3>1. CASE UNCHANGED <<status, pc>>
      BY <1>0, <1>1, <3>1 DEF Goto
    <3>2. CASE /\ fails[l] + 1 = KillSwitchThreshold
               /\ EnterReconnecting(l, "sweep2", "select")
      BY <3>2 DEF EnterReconnecting
    <3> QED
      BY <2>1, <3>1, <3>2
  <2>3. status' \in {"Inactive", "Active", "Reconnecting"}
    BY <1>0, <2>2 DEF LifeTyped
  <2>4. /\ watch' \in [Loops -> References] /\ swap' \subseteq Loops
        /\ keepConns' \in [Loops -> BOOLEAN]
    BY <1>0, <1>1, <2>1 DEF RefTyped, LoopTyped
  <2>5. /\ fails[l] >= KillSwitchThreshold => fails'[l] >= KillSwitchThreshold
        /\ q = "sweep2" => fails'[l] >= KillSwitchThreshold
    BY <1>1, <1>2, <2>2, EngineAssumption
  <2>6. \E n \in 0..MaxFailures : n < MaxFailures /\ fails' = [fails EXCEPT ![l] = n]
    BY <1>1, <1>4
  <2> QED
    BY <1>1, <2>1, <2>2, <2>3, <2>4, <2>5, <2>6, SettleFrame DEF countVars, flowVars
<1> QED
  BY <1>0, <1>1, <1>3, <1>4, EngineAssumption

\* A health check that passes, and the end of a rebuild, release the switch.
LEMMA SettleStep ==
    ASSUME IInv, NEW l \in Loops, OnTickD2Passes(l) \/ Announce(l)
    PROVE  IInv'
<1> USE DEF At
<1>0. LoopTyped /\ LifeTyped /\ RefTyped /\ FlowTyped
  BY TypeParts DEF IInv
<1>1. /\ pc[l] \in {"select", "announce"}
      /\ UNCHANGED <<gen, closedCh, lost, trVars, bwatch, streakSawUnreach,
                     rebuildSawUnreach, flowVars, history>>
      /\ fails' = [fails EXCEPT ![l] = 0]
      /\ sel' \in {sel, [sel EXCEPT ![l] = gen]}
  BY DEF OnTickD2Passes, Announce, ToSelect
<1>2. PICK q \in {"select", "upgrade"} :
        Goto(l, q) /\ (q = "select" => sel' = [sel EXCEPT ![l] = gen])
  BY DEF OnTickD2Passes, Announce, ToSelect
<1>3. /\ streamOpenFailures' \in {0, streamOpenFailures}
      /\ status' \in {"Inactive", "Active", "Reconnecting"}
      /\ status = "Inactive" <=> status' = "Inactive"
      /\ status' = "Reconnecting" =>
            status = "Reconnecting" /\ pc[l] = "select" /\ ~(fails[l] > 0)
  <2>1. CASE Announce(l)
    BY <1>0, <2>1 DEF Announce, SetConnected, LifeTyped
  <2>2. CASE OnTickD2Passes(l) /\ fails[l] > 0
    BY <1>0, <2>2 DEF OnTickD2Passes, SetConnected, LifeTyped
  <2>3. CASE OnTickD2Passes(l) /\ ~(fails[l] > 0)
    BY <1>0, <2>3 DEF OnTickD2Passes, LifeTyped
  <2> QED
    BY <2>1, <2>2, <2>3
<1>4. watch' \in [Loops -> References] /\ swap' \subseteq Loops
  BY <1>0, ReferenceTypes DEF OnTickD2Passes, Announce, RefTyped
<1>5. keepConns' \in [Loops -> BOOLEAN]
  BY <1>0 DEF OnTickD2Passes, Announce, LoopTyped
<1>6. ~(fails[l] > 0) => ~(fails[l] >= KillSwitchThreshold)
  BY <1>0, EngineAssumption DEF LoopTyped
<1>7. 0 \in 0..MaxFailures /\ 0 < MaxFailures
  BY EngineAssumption
<1>8. \E n \in 0..MaxFailures : n < MaxFailures /\ fails' = [fails EXCEPT ![l] = n]
  BY <1>1, <1>7
<1> QED
  BY <1>1, <1>2, <1>3, <1>4, <1>5, <1>6, <1>8, SettleFrame

\* A loop returns: it sees its channel closed, or it stops the engine because
\* the bridge is lost or every server rejected the key.
LEMMA ExitStep ==
    ASSUME IInv, NEW l \in Loops,
           \/ OnStopHealth(l) \/ (ReconnectHead(l) /\ gen \in closedCh)
           \/ OnBridgeDone(l) \/ KeyRejected(l)
    PROVE  IInv'
<1> USE DEF At
<1>0. /\ LoopTyped /\ LifeTyped
      /\ pc \in [Loops -> Places] /\ fails \in [Loops -> 0..MaxFailures] /\ FailureBudget
  BY TypeParts DEF IInv, LoopTyped
<1>1. CASE OnStopHealth(l)
  <2>1. status # "Inactive" => l # gen
    <3> SUFFICES ASSUME status # "Inactive", l = gen PROVE FALSE
      OBVIOUS
    <3>1. sel[l] \in 0..gen /\ sel[l] >= gen /\ gen \in Nat
      BY <1>0, <1>1 DEF OnStopHealth, IInv, SelectChannel, LoopTyped, LifeTyped
    <3>2. sel[l] = gen
      BY <3>1
    <3> QED
      BY <1>1, <3>2 DEF OnStopHealth, IInv, StopChannel
  <2>2. ~Owner(l) /\ Quitting(l)
    BY <1>1 DEF OnStopHealth, Owner, Quitting, Rebuilding
  <2> QED
    BY <1>1, <2>1, <2>2, LoopExits DEF OnStopHealth
<1>2. CASE ReconnectHead(l) /\ gen \in closedCh
  <2>1. status = "Inactive"
    BY <1>2 DEF IInv, StopChannel
  <2> QED
    BY <1>2, <2>1, LoopExits DEF ReconnectHead
<1>3. CASE OnBridgeDone(l) \/ KeyRejected(l)
  <2>1. /\ StopUnlessInactive /\ Goto(l, "exit") /\ pc[l] # "off"
        /\ UNCHANGED <<gen, sel, bwatch, fails, keepConns, countVars, fpc, tracked>>
    BY <1>3 DEF OnBridgeDone, KeyRejected, StopAndExit
  <2>2. /\ pc' \in [Loops -> Places] /\ pc'[l] = "exit"
        /\ \A k \in Loops : k # l => pc'[k] = pc[k]
    BY <1>0, <2>1 DEF Goto, Places
  <2>3. FailureBudget'
    BY <1>0, <2>1, <2>2 DEF FailureBudget
  <2> QED
    BY <1>0, <2>1, <2>2, <2>3, StopStep
<1> QED
  BY <1>1, <1>2, <1>3

\* Every step preserves the invariant.
LEMMA NextIInv == ASSUME IInv, [Next]_vars PROVE IInv'
<1>1. ASSUME NEW l \in Loops, HealthLoop(l) PROVE IInv'
  BY <1>1, LoopStartStep, ExitStep, EngageStep, D2FailsStep, SettleStep, SweepStep,
     SwapStep, RebuildStep, AttemptFailsStep DEF HealthLoop
<1>2. CASE UNCHANGED vars
  <2> USE DEF vars, lifeVars, trVars, loopVars, countVars, flowVars, history
  <2>0. LoopTyped /\ LifeTyped /\ RefTyped /\ FlowTyped /\ streamOpenFailures \in Nat
    BY TypeParts, FlowCount DEF IInv, TypeOK
  <2>1. RefTyped'
    BY <1>2, <2>0, Zenon DEF RefTyped
  <2>2. FlowTyped' /\ StartLeft' /\ FlowsTracked' /\ FailureRoom' /\ lost' \subseteq 1..gen
    BY <1>2, <2>0 DEF FlowTyped, IInv, StartLeft, FlowsTracked, FailureRoom, Dialling, LifeTyped
  <2>3. streakSawUnreach' \in BOOLEAN
    BY <1>2, <2>0, Zenon DEF LifeTyped
  <2>4. streamOpenFailures' \in Nat
    BY <1>2, <2>0
  <2>5. UNCHANGED <<status, gen, closedCh, pc, sel, bwatch, fails, keepConns,
                    rebuildSawUnreach, kept, stranded, swept>>
    BY <1>2
  <2> QED
    BY <2>1, <2>2, <2>3, <2>4, <2>5, FlowFrame
<1> QED
  BY <1>1, <1>2, ApiStep, StartStep, FlowStep DEF Next

-----------------------------------------------------------------------------
(* The theorems. *)

\* IInv is an invariant.
THEOREM Invariance == Spec => []IInv
  BY InitIInv, NextIInv, PTL DEF Spec

\* The engine's variables keep their types; in particular the stream failure
\* counter stays below MostFailures, however the flows that had passed the
\* gate interleave with the detectors that reset it.
THEOREM TypeCorrect == Spec => []TypeOK
<1>1. IInv => TypeOK
  BY DEF IInv
<1> QED
  BY <1>1, Invariance, PTL

\* An engine that is not Inactive has the running health loop of its last
\* Start, whichever loop of an earlier Start stops it, rebuilds its transport
\* or returns.
THEOREM Supervised == Spec => []EngineSupervised
<1>1. IInv => EngineSupervised
  BY DEF IInv
<1> QED
  BY <1>1, Invariance, PTL

\* An engaged kill switch has a loop that rebuilds the transport or counts D2
\* failures up to the stop.
THEOREM KillSwitchOwned == Spec => []ReconnectOwned
<1>1. IInv => ReconnectOwned
  BY DEF IInv, Owned, Owner, ReconnectOwned
<1> QED
  BY <1>1, Invariance, PTL

\* Flows that runD3 kept over a rebuild that met ENETUNREACH are closed before
\* the engine is Active again, while no loop of an earlier Start interferes.
THEOREM LinkChangeHandled == Spec => []LinkChangeSweeps
<1>1. IInv => LinkChangeSweeps
  <2> SUFFICES ASSUME IInv, Alone, status = "Active" PROVE stranded \subseteq swept
    BY DEF LinkChangeSweeps
  <2>1. AlmostAlone
    BY DEF Alone, AlmostAlone, Quitting
  <2> QED
    BY <2>1 DEF IInv, KeptHandled, StrandedKnown
<1> QED
  BY <1>1, Invariance, PTL

=============================================================================
