------------------------------- MODULE Engine -------------------------------
(***************************************************************************)
(* The TUN engine of daemon/internal/tun: Start, Stop and their callers in *)
(* the API, the health loop with its four detectors (D1 transport closed,  *)
(* D2 health check, D3 stream failures, D4 helper bridge lost), the        *)
(* rebuild of the transport, the fallback to TLS and the way back, and the *)
(* flows the network stack hands to handleTCP and handleUDP.               *)
(*                                                                         *)
(* A step is a critical section of e.mu or a blocking call.  Of a          *)
(* transport the model keeps its mode and whether its done channel is      *)
(* closed; a reference to one says whether it is the engine's.  Dials,     *)
(* timers and the packets of a flow are nondeterministic.                  *)
(***************************************************************************)
EXTENDS Naturals, FiniteSets

CONSTANTS
    Flows,                   \* TCP and UDP flows alive at the same time
    MaxStarts,               \* model bound: successful Start calls
    KillSwitchThreshold,     \* killSwitchThreshold
    MaxFailures,             \* maxFailures
    StreamFailureThreshold   \* streamFailureThreshold

Loops == 1..MaxStarts

ASSUME EngineAssumption ==
    /\ MaxStarts \in Nat
    /\ KillSwitchThreshold \in Nat \ {0}
    /\ MaxFailures \in Nat
    /\ KillSwitchThreshold < MaxFailures
    /\ StreamFailureThreshold \in Nat \ {0}
    /\ IsFiniteSet(Flows)

VARIABLES
    status,     \* e.status
    gen,        \* number of Starts; names stopHealth channels and bridges
    closedCh,   \* stopHealth channels that have been closed
    lost,       \* Starts whose bridge to the helper is gone
    transport,  \* e.transport: nil, or its mode
    trOpen,     \* its done channel is open
    apiTr,      \* transport of a /tun/start between SetTransport and Start
    pc,         \* where each health loop is
    sel,        \* the stopHealth channel a parked select was evaluated with
    watch,      \* doneCh of a health loop
    bwatch,     \* bridgeDone of a health loop: the Start it belongs to
    swap,       \* loops that move the engine's transport between UDP and TLS
    fails,      \* failures of a health loop
    keepConns,  \* keepConns of runD3
    streamOpenFailures,
    streakSawUnreach,
    rebuildSawUnreach,
    fpc,        \* where each flow is
    ftr,        \* the transport a flow has read
    tracked,    \* e.conns
    swept,      \* tracked flows that have been closed
    kept,       \* history: flows that relayed when runD3 kept them
    stranded    \* history: those of them that saw an attempt meet ENETUNREACH

loopVars == <<pc, sel, watch, bwatch, swap, fails, keepConns>>
flowVars == <<fpc, ftr, tracked, swept>>
countVars == <<streamOpenFailures, streakSawUnreach, rebuildSawUnreach>>
history == <<kept, stranded>>
lifeVars == <<status, gen, closedCh, lost>>
trVars == <<transport, trOpen, apiTr>>
vars == <<lifeVars, trVars, loopVars, countVars, flowVars, history>>

References == {"nil", "cur", "old", "dead"}
Modes == {"udp", "tls"}
Places == {"off", "start", "select", "sweep1", "sweep2", "sweep3", "d3",
           "fallback", "upgrade", "begin", "head", "attempt", "recovered",
           "announce", "exit"}
Rebuilding == {"sweep1", "sweep3", "d3", "fallback", "begin", "head",
               "attempt", "recovered", "announce"}

\* The gate lets no flow dial once the threshold is reached, so only flows
\* already past it can raise the counter further.
MostFailures == StreamFailureThreshold + Cardinality(Flows) - 1

TypeOK ==
    /\ status \in {"Inactive", "Active", "Reconnecting"}
    /\ gen \in 0..MaxStarts
    /\ closedCh \subseteq 1..gen
    /\ lost \subseteq 1..gen
    /\ transport \in Modes \cup {"nil"}
    /\ trOpen \in BOOLEAN
    /\ apiTr \in References
    /\ pc \in [Loops -> Places]
    /\ sel \in [Loops -> 0..gen]
    /\ watch \in [Loops -> References]
    /\ bwatch \in [Loops -> 0..gen]
    /\ swap \subseteq Loops
    /\ fails \in [Loops -> 0..MaxFailures]
    /\ keepConns \in [Loops -> BOOLEAN]
    /\ streamOpenFailures \in 0..MostFailures
    /\ streakSawUnreach \in BOOLEAN
    /\ rebuildSawUnreach \in BOOLEAN
    /\ fpc \in [Flows -> {"off", "checked", "dial", "note", "relaying"}]
    /\ ftr \in [Flows -> References]
    /\ tracked \subseteq Flows
    /\ swept \subseteq tracked
    /\ kept \subseteq tracked
    /\ stranded \subseteq kept

Init ==
    /\ status = "Inactive"
    /\ gen = 0 /\ closedCh = {} /\ lost = {}
    /\ transport = "nil" /\ trOpen = FALSE /\ apiTr = "nil"
    /\ pc = [l \in Loops |-> "off"]
    /\ sel = [l \in Loops |-> 0]
    /\ watch = [l \in Loops |-> "nil"]
    /\ bwatch = [l \in Loops |-> 0]
    /\ swap = {}
    /\ fails = [l \in Loops |-> 0]
    /\ keepConns = [l \in Loops |-> FALSE]
    /\ streamOpenFailures = 0
    /\ streakSawUnreach = FALSE
    /\ rebuildSawUnreach = FALSE
    /\ fpc = [f \in Flows |-> "off"]
    /\ ftr = [f \in Flows |-> "nil"]
    /\ tracked = {} /\ swept = {}
    /\ kept = {} /\ stranded = {}

At(l, place) == pc[l] = place
Goto(l, place) == pc' = [pc EXCEPT ![l] = place]

\* Back to the select of healthLoop, which evaluates e.stopHealth.
ToSelect(l) ==
    /\ Goto(l, "select")
    /\ sel' = [sel EXCEPT ![l] = gen]

-----------------------------------------------------------------------------
(* References to transports.                                               *)

ReadTransport == IF transport = "nil" THEN "nil" ELSE "cur"
IsClosed(r) == r = "dead" \/ (r = "cur" /\ ~trOpen)

\* e.transport is replaced: closed before, or overwritten as it is.
Closed == "dead"
Overwritten == IF trOpen THEN "old" ELSE "dead"
Demoted(r, fate) == IF r = "cur" THEN fate ELSE r
Replace(new, open, fate) ==
    /\ transport' = new
    /\ trOpen' = open
    /\ watch' = [l \in Loops |-> Demoted(watch[l], fate)]
    /\ swap' = {}
    /\ ftr' = [f \in Flows |-> Demoted(ftr[f], fate)]

-----------------------------------------------------------------------------
(* stopLocked, and the loops and API handlers that call it.                *)

\* The channel of the last Start is closed, never replaced; closing the stack
\* and the helper connection ends the flows and the bridge.
StopLocked ==
    /\ closedCh' = closedCh \cup ((1..gen) \cap {gen})
    /\ lost' = lost \cup ((1..gen) \cap {gen})
    /\ swept' = tracked
    /\ kept' = {} /\ stranded' = {}
    /\ Replace("nil", FALSE, Closed)
    /\ apiTr' = Demoted(apiTr, Closed)

StopUnlessInactive ==
    \/ /\ status = "Inactive"
       /\ UNCHANGED <<status, closedCh, lost, trVars, watch, swap, ftr, swept,
                      history>>
    \/ /\ status # "Inactive"
       /\ StopLocked
       /\ status' = "Inactive"

Stop ==
    /\ status # "Inactive"
    /\ StopUnlessInactive
    /\ UNCHANGED <<gen, pc, sel, bwatch, fails, keepConns, countVars, fpc,
                   tracked>>

\* Mutant: the loop returns and leaves the engine as it is.
LoopReturns(l) ==
    /\ Goto(l, "exit")
    /\ UNCHANGED <<lifeVars, trVars, watch, swap, ftr, swept, history>>

\* A loop that gave up sets lastError, stops the engine and returns.
StopAndExit(l) ==
    /\ StopUnlessInactive
    /\ Goto(l, "exit")
    /\ UNCHANGED gen

-----------------------------------------------------------------------------
(* /tun/start is SetTransport followed by Start.                           *)

SetTransport ==
    /\ apiTr = "nil"
    /\ gen < MaxStarts
    /\ \E mode \in Modes : Replace(mode, TRUE, Overwritten)
    /\ apiTr' = "cur"
    /\ UNCHANGED <<lifeVars, pc, sel, bwatch, fails, keepConns, countVars,
                   fpc, tracked, swept, history>>

\* An Active engine is stopped first, and with it goes the transport that was
\* just set; a Reconnecting one keeps its loop, its stack and its bridge.
Start ==
    /\ apiTr # "nil"
    /\ \/ /\ status = "Active"
          /\ closedCh' = closedCh \cup {gen}
          /\ lost' = lost \cup {gen}
          /\ swept' = tracked
          /\ Replace("nil", FALSE, Closed)
       \/ /\ status # "Active"
          /\ UNCHANGED <<closedCh, lost, swept, transport, trOpen, watch, swap,
                         ftr>>
    /\ apiTr' = "nil"
    /\ status' = "Active"
    /\ gen' = gen + 1
    /\ Goto(gen + 1, "start")
    /\ kept' = {} /\ stranded' = {}
    /\ UNCHANGED <<sel, bwatch, fails, keepConns, countVars, fpc, tracked>>

\* The handler closes its transport and sets nil, whatever the engine has by now.
ClearTransport ==
    Replace("nil", FALSE, IF apiTr = "cur" THEN Closed ELSE Overwritten)

\* The helper does not create the device.
StartFails ==
    /\ apiTr # "nil"
    /\ \/ /\ status = "Active"
          /\ StopLocked
          /\ status' = "Inactive"
       \/ /\ status # "Active"
          /\ ClearTransport
          /\ UNCHANGED <<status, closedCh, lost, swept, history>>
    /\ apiTr' = "nil"
    /\ UNCHANGED <<gen, pc, sel, bwatch, fails, keepConns, countVars, fpc,
                   tracked>>

\* After sleep and wake the live transport is closed for D1 to rebuild.
WakeReconnect ==
    /\ status = "Active"
    /\ trOpen
    /\ trOpen' = FALSE
    /\ UNCHANGED <<lifeVars, transport, apiTr, loopVars, countVars, flowVars,
                   history>>

-----------------------------------------------------------------------------
(* The kill switch.                                                        *)

\* Flip first and sweep next; a status that is not Active is left alone.
EnterReconnecting(l, swp, next) ==
    \/ /\ status = "Active"
       /\ status' = "Reconnecting"
       /\ Goto(l, swp)
    \/ /\ status # "Active"
       /\ Goto(l, next)
       /\ UNCHANGED status

\* setConnected: a recovered session starts with a clean counter.
SetConnected ==
    \/ /\ status = "Reconnecting"
       /\ status' = "Active"
       /\ streamOpenFailures' = 0
    \/ /\ status # "Reconnecting"
       /\ UNCHANGED <<status, streamOpenFailures>>

\* closeAllConns; D1 and D3 go on to the rebuild, D2 to the next tick.
Sweep(l) ==
    /\ pc[l] \in {"sweep1", "sweep2", "sweep3"}
    /\ swept' = tracked
    /\ CASE At(l, "sweep1") -> Goto(l, "begin") /\ UNCHANGED sel
         [] At(l, "sweep2") -> ToSelect(l)
         [] At(l, "sweep3") -> Goto(l, "d3") /\ UNCHANGED sel
    /\ UNCHANGED <<lifeVars, trVars, watch, bwatch, swap, fails, keepConns,
                   countVars, fpc, ftr, tracked, history>>

-----------------------------------------------------------------------------
(* healthLoop.                                                             *)

\* doneCh and bridgeDone are read when the goroutine runs; stopLocked leaves
\* a nil bridgeDone.
LoopStart(l) ==
    /\ At(l, "start")
    /\ watch' = [watch EXCEPT ![l] = ReadTransport]
    /\ bwatch' = [bwatch EXCEPT ![l] = IF status = "Inactive" THEN 0 ELSE gen]
    /\ ToSelect(l)
    /\ UNCHANGED <<lifeVars, trVars, swap, fails, keepConns,
                   countVars, flowVars, history>>

OnStopHealth(l) ==
    /\ At(l, "select")
    /\ sel[l] \in closedCh
    /\ Goto(l, "exit")
    /\ UNCHANGED <<lifeVars, trVars, sel, watch, bwatch, swap, fails,
                   keepConns, countVars, flowVars, history>>

\* D4.
OnBridgeDone(l) ==
    /\ At(l, "select")
    /\ bwatch[l] \in lost
    /\ StopAndExit(l)
    /\ UNCHANGED <<sel, bwatch, fails, keepConns, countVars, fpc, tracked>>

\* D1.
OnTransportDone(l) ==
    /\ At(l, "select")
    /\ IsClosed(watch[l])
    /\ EnterReconnecting(l, "sweep1", "begin")
    /\ keepConns' = [keepConns EXCEPT ![l] = FALSE]
    /\ UNCHANGED <<gen, closedCh, lost, trVars, sel, watch, bwatch, swap,
                   fails, countVars, flowVars, history>>

\* A tick looks at the stream failures first.
OnTickD3(l) ==
    /\ At(l, "select")
    /\ streamOpenFailures >= StreamFailureThreshold
    /\ streamOpenFailures' = 0
    /\ rebuildSawUnreach' = streakSawUnreach
    /\ streakSawUnreach' = FALSE
    /\ LET keep == transport = "tls"
       IN  /\ keepConns' = [keepConns EXCEPT ![l] = keep]
           /\ EnterReconnecting(l, IF keep THEN "d3" ELSE "sweep3", "d3")
           /\ \/ /\ keep /\ status = "Active"
                 /\ kept' = {f \in Flows : fpc[f] = "relaying"}
                 /\ stranded' = {}
              \/ /\ ~(keep /\ status = "Active")
                 /\ UNCHANGED history
    /\ UNCHANGED <<gen, closedCh, lost, trVars, sel, watch, bwatch, swap,
                   fails, flowVars>>

HealthCheck == transport # "nil" /\ trOpen

\* D2 failed.
OnTickD2Fails(l) ==
    /\ At(l, "select")
    /\ streamOpenFailures < StreamFailureThreshold
    /\ ~HealthCheck
    /\ fails' = [fails EXCEPT ![l] = @ + 1]
    /\ \/ /\ fails[l] + 1 >= MaxFailures
          /\ StopAndExit(l)
          /\ UNCHANGED sel
       \/ /\ fails[l] + 1 < MaxFailures
          /\ \/ /\ fails[l] + 1 = KillSwitchThreshold
                /\ EnterReconnecting(l, "sweep2", "select")
             \/ /\ fails[l] + 1 # KillSwitchThreshold
                /\ UNCHANGED <<status, pc>>
          /\ sel' = [sel EXCEPT ![l] = gen]
          /\ UNCHANGED <<gen, closedCh, lost, trVars, watch, swap, ftr, swept,
                         history>>
    /\ UNCHANGED <<bwatch, keepConns, countVars, fpc, tracked>>

\* Mutant: the recovery does not release the kill switch.
OnTickD2PassesQuietly(l) ==
    /\ At(l, "select")
    /\ streamOpenFailures < StreamFailureThreshold
    /\ HealthCheck
    /\ fails' = [fails EXCEPT ![l] = 0]
    /\ ToSelect(l)
    /\ UNCHANGED <<lifeVars, trVars, watch, bwatch, swap,
                   keepConns, countVars, flowVars, history>>

\* D2 passed: the recovery after failures; then an Auto transport on TLS may
\* be due for an upgrade.
OnTickD2Passes(l) ==
    /\ At(l, "select")
    /\ streamOpenFailures < StreamFailureThreshold
    /\ HealthCheck
    /\ fails' = [fails EXCEPT ![l] = 0]
    /\ IF fails[l] > 0 THEN SetConnected ELSE UNCHANGED <<status, streamOpenFailures>>
    /\ UNCHANGED gen
    /\ \/ /\ ToSelect(l)
          /\ UNCHANGED swap
       \/ /\ transport = "tls"
          /\ Goto(l, "upgrade")
          /\ swap' = swap \cup {l}
          /\ UNCHANGED sel
    /\ UNCHANGED <<closedCh, lost, trVars, watch, bwatch, keepConns,
                   streakSawUnreach, rebuildSawUnreach, flowVars, history>>

-----------------------------------------------------------------------------
(* AutoTransport moves between UDP and TLS.  The engine's transport stays,  *)
(* the done channel it had is closed.  Nobody sees the swap of a transport *)
(* that the engine no longer has.                                          *)

SwapActive(l, mode) ==
    IF l \in swap
    THEN /\ transport' = mode
         /\ trOpen' = TRUE
         /\ watch' = [k \in Loops |-> Demoted(watch[k], Closed)]
    ELSE UNCHANGED <<transport, trOpen, watch>>

EndSwap(l) == swap' = swap \ {l}

\* tryFallbackToTLS, first in runD3: an Auto transport over UDP only.
TryFallback(l) ==
    /\ At(l, "d3")
    /\ \/ /\ transport = "udp"
          /\ swap' = swap \cup {l}
          /\ Goto(l, "fallback")
       \/ /\ Goto(l, "begin")
          /\ UNCHANGED swap
    /\ UNCHANGED <<lifeVars, trVars, sel, watch, bwatch, fails, keepConns,
                   countVars, flowVars, history>>

FallbackDone(l) ==
    /\ At(l, "fallback")
    /\ SwapActive(l, "tls")
    /\ EndSwap(l)
    /\ Goto(l, "recovered")
    /\ UNCHANGED <<lifeVars, apiTr, sel, bwatch, fails, keepConns, countVars,
                   flowVars, history>>

FallbackFails(l) ==
    /\ At(l, "fallback")
    /\ EndSwap(l)
    /\ Goto(l, "begin")
    /\ UNCHANGED <<lifeVars, trVars, sel, watch, bwatch, fails, keepConns,
                   countVars, flowVars, history>>

\* maybeUpgradeToUDP, and doneCh is read again.
UpgradeDone(l) ==
    /\ At(l, "upgrade")
    /\ EndSwap(l)
    /\ \/ /\ l \in swap
          /\ transport' = "udp" /\ trOpen' = TRUE
       \/ /\ l \notin swap
          /\ UNCHANGED <<transport, trOpen>>
    /\ watch' = [k \in Loops |->
                   IF k = l THEN ReadTransport
                   ELSE IF l \in swap THEN Demoted(watch[k], Closed)
                   ELSE watch[k]]
    /\ streamOpenFailures' = 0
    /\ ToSelect(l)
    /\ UNCHANGED <<lifeVars, apiTr, bwatch, fails, keepConns,
                   streakSawUnreach, rebuildSawUnreach, flowVars, history>>

UpgradeFails(l) ==
    /\ At(l, "upgrade")
    /\ EndSwap(l)
    /\ ToSelect(l)
    /\ UNCHANGED <<lifeVars, trVars, watch, bwatch, fails,
                   keepConns, countVars, flowVars, history>>

-----------------------------------------------------------------------------
(* reconnectTransport: no limit on attempts, so waitForNetwork, which is    *)
(* for an exhausted budget, is never reached.                              *)

ReconnectBegin(l) ==
    /\ At(l, "begin")
    /\ Replace("nil", FALSE, Closed)
    /\ apiTr' = Demoted(apiTr, Closed)
    /\ Goto(l, "head")
    /\ UNCHANGED <<lifeVars, sel, bwatch, fails, keepConns, countVars, fpc,
                   tracked, swept, history>>

\* e.stopHealth is read again for every attempt.
ReconnectHead(l) ==
    /\ At(l, "head")
    /\ Goto(l, IF gen \in closedCh THEN "exit" ELSE "attempt")
    /\ UNCHANGED <<lifeVars, trVars, sel, watch, bwatch, swap, fails,
                   keepConns, countVars, flowVars, history>>

\* The new transport is published, also in an engine stopped meanwhile.
TryReconnectOnce(l) ==
    /\ At(l, "attempt")
    /\ \E mode \in Modes : Replace(mode, TRUE, Overwritten)
    /\ apiTr' = Demoted(apiTr, Overwritten)
    /\ streamOpenFailures' = 0
    /\ Goto(l, "recovered")
    /\ UNCHANGED <<lifeVars, sel, bwatch, fails, keepConns, streakSawUnreach,
                   rebuildSawUnreach, fpc, tracked, swept, history>>

\* Mutant: ENETUNREACH is not remembered.
AttemptFailsForgets(l) ==
    /\ At(l, "attempt")
    /\ stranded' \in {stranded, kept}
    /\ Goto(l, "head")
    /\ UNCHANGED <<lifeVars, trVars, sel, watch, bwatch, swap, fails,
                   keepConns, countVars, flowVars, kept>>

\* ENETUNREACH also makes the helper refresh its routes.
AttemptFails(l) ==
    /\ At(l, "attempt")
    /\ \E unreach \in BOOLEAN :
         /\ rebuildSawUnreach' = (rebuildSawUnreach \/ unreach)
         /\ stranded' = IF unreach THEN kept ELSE stranded
    /\ Goto(l, "head")
    /\ UNCHANGED <<lifeVars, trVars, sel, watch, bwatch, swap, fails,
                   keepConns, streamOpenFailures, streakSawUnreach, flowVars,
                   kept>>

\* Every server of the ring rejected the key.
KeyRejected(l) ==
    /\ At(l, "attempt")
    /\ StopAndExit(l)
    /\ UNCHANGED <<sel, bwatch, fails, keepConns, countVars, fpc, tracked>>

\* recovered() of runD3 closes the flows it kept if the link changed.
SweepKept(l) ==
    /\ At(l, "recovered")
    /\ swept' = IF keepConns[l] /\ rebuildSawUnreach THEN tracked ELSE swept
    /\ Goto(l, "announce")
    /\ UNCHANGED <<lifeVars, trVars, sel, watch, bwatch, swap, fails,
                   keepConns, countVars, fpc, ftr, tracked, history>>

\* setConnected, and doneCh and failures are set again.
Announce(l) ==
    /\ At(l, "announce")
    /\ SetConnected
    /\ watch' = [watch EXCEPT ![l] = ReadTransport]
    /\ fails' = [fails EXCEPT ![l] = 0]
    /\ keepConns' = [keepConns EXCEPT ![l] = FALSE]
    /\ ToSelect(l)
    /\ UNCHANGED <<gen, closedCh, lost, trVars, bwatch, swap, streakSawUnreach,
                   rebuildSawUnreach, flowVars, history>>

-----------------------------------------------------------------------------
(* Flows.  The status is checked before the flow is tracked; an Inactive   *)
(* engine has no stack to hand one over.                                   *)

Finish(f) ==
    /\ fpc' = [fpc EXCEPT ![f] = "off"]
    /\ ftr' = [ftr EXCEPT ![f] = "nil"]
    /\ tracked' = tracked \ {f}
    /\ swept' = swept \ {f}
    /\ kept' = kept \ {f}
    /\ stranded' = stranded \ {f}

FlowChecks(f) ==
    /\ fpc[f] = "off"
    /\ status = "Active"
    /\ fpc' = [fpc EXCEPT ![f] = "checked"]
    /\ UNCHANGED <<lifeVars, trVars, loopVars, countVars, ftr, tracked, swept,
                   history>>

\* Mutant: the gate is left open.
StreamOpenGateOpen == FALSE

StreamOpenGate == streamOpenFailures >= StreamFailureThreshold

\* trackConn; the relay of a flow that is swept from now on is closed.
FlowTracks(f, place) ==
    /\ fpc[f] = "checked"
    /\ tracked' = tracked \cup {f}
    /\ fpc' = [fpc EXCEPT ![f] = place]
    /\ UNCHANGED <<lifeVars, trVars, loopVars, countVars, swept, history>>

\* The rules let the flow pass by the proxy, as DNS and voice always do: it
\* relays over a protected socket of its own.
BypassFlow(f) ==
    /\ FlowTracks(f, "relaying")
    /\ UNCHANGED ftr

\* A proxied flow that finds no transport dials the server by itself.
ProxyLegacy(f) ==
    /\ transport = "nil"
    /\ FlowTracks(f, "relaying")
    /\ UNCHANGED ftr

\* With a transport it has to pass the gate.
ProxyTransport(f) ==
    /\ transport # "nil"
    /\ ~StreamOpenGate
    /\ FlowTracks(f, "dial")
    /\ ftr' = [ftr EXCEPT ![f] = "cur"]

OpenStream(f) ==
    /\ fpc[f] = "dial"
    /\ ~IsClosed(ftr[f])
    /\ fpc' = [fpc EXCEPT ![f] = "relaying"]
    /\ ftr' = [ftr EXCEPT ![f] = "nil"]
    /\ streamOpenFailures' = 0
    /\ UNCHANGED <<lifeVars, trVars, loopVars, streakSawUnreach,
                   rebuildSawUnreach, tracked, swept, history>>

\* noteStreamOpenFailure looks at the status and counts afterwards.
OpenStreamFails(f) ==
    /\ fpc[f] = "dial"
    /\ status = "Active"
    /\ fpc' = [fpc EXCEPT ![f] = "note"]
    /\ ftr' = [ftr EXCEPT ![f] = "nil"]
    /\ UNCHANGED <<lifeVars, trVars, loopVars, countVars, tracked, swept,
                   history>>

\* A rejected machine id closes the transport an Active engine has now.
MachineIDRejected == trOpen' = (trOpen /\ status # "Active")

NoteFailure(f) ==
    /\ fpc[f] = "note"
    /\ streamOpenFailures' = streamOpenFailures + 1
    /\ \E unreach \in BOOLEAN :
         streakSawUnreach' = (unreach \/ (streamOpenFailures # 0 /\ streakSawUnreach))
    /\ MachineIDRejected \/ UNCHANGED trOpen
    /\ Finish(f)
    /\ UNCHANGED <<lifeVars, transport, apiTr, loopVars, rebuildSawUnreach>>

\* A relay ends or was swept, a dial fails without being counted, the gate
\* is closed, or the stack is gone.
FlowEnds(f) ==
    /\ fpc[f] \notin {"off", "note"}
    /\ Finish(f)
    /\ UNCHANGED <<lifeVars, trVars, loopVars, countVars>>

\* UpdateRules closes the flows whose verdict changed.
UpdateRules ==
    /\ \E S \in SUBSET (tracked \ swept) : S # {} /\ swept' = swept \cup S
    /\ UNCHANGED <<lifeVars, trVars, loopVars, countVars, fpc, ftr, tracked,
                   history>>

-----------------------------------------------------------------------------
(* The environment.                                                        *)

TransportDies ==
    /\ trOpen
    /\ trOpen' = FALSE
    /\ UNCHANGED <<lifeVars, transport, apiTr, loopVars, countVars, flowVars,
                   history>>

OldTransportDies(l) ==
    /\ watch[l] = "old"
    /\ watch' = [watch EXCEPT ![l] = "dead"]
    /\ UNCHANGED <<lifeVars, trVars, pc, sel, bwatch, swap, fails, keepConns,
                   countVars, flowVars, history>>

\* The helper dies, or a second create takes the device away, under a bridge
\* that a health loop watches.
BridgeLost(l) ==
    /\ At(l, "select")
    /\ bwatch[l] \notin lost \cup {0}
    /\ lost' = lost \cup {bwatch[l]}
    /\ UNCHANGED <<status, gen, closedCh, trVars, loopVars, countVars,
                   flowVars, history>>

-----------------------------------------------------------------------------
HealthLoop(l) ==
    \/ LoopStart(l) \/ OnStopHealth(l) \/ OnBridgeDone(l) \/ OnTransportDone(l)
    \/ OnTickD3(l) \/ OnTickD2Fails(l) \/ OnTickD2Passes(l) \/ Sweep(l)
    \/ TryFallback(l) \/ FallbackDone(l) \/ FallbackFails(l)
    \/ UpgradeDone(l) \/ UpgradeFails(l)
    \/ ReconnectBegin(l) \/ ReconnectHead(l) \/ TryReconnectOnce(l)
    \/ AttemptFails(l) \/ KeyRejected(l) \/ SweepKept(l) \/ Announce(l)

HandleFlow(f) ==
    \/ FlowChecks(f) \/ BypassFlow(f) \/ ProxyLegacy(f) \/ ProxyTransport(f)
    \/ OpenStream(f) \/ OpenStreamFails(f) \/ NoteFailure(f) \/ FlowEnds(f)

Next ==
    \/ SetTransport \/ Start \/ StartFails \/ Stop \/ WakeReconnect
    \/ UpdateRules \/ TransportDies
    \/ \E l \in Loops : HealthLoop(l) \/ OldTransportDies(l) \/ BridgeLost(l)
    \/ \E f \in Flows : HandleFlow(f)

Spec == Init /\ [][Next]_vars

-----------------------------------------------------------------------------
(* Properties.                                                             *)

\* An engine that is not Inactive has the health loop of its last Start:
\* whichever loop stops, restarts or gives up, none leaves it unsupervised.
EngineSupervised == status # "Inactive" => pc[gen] \notin {"off", "exit"}

\* While the kill switch is engaged some loop is on the way to release it:
\* it rebuilds the transport, or counts D2 failures up to the stop.
ReconnectOwned ==
    status = "Reconnecting" =>
        \E l \in Loops :
            \/ pc[l] \in Rebuilding
            \/ fails[l] >= KillSwitchThreshold /\ pc[l] # "exit"

\* Flows that runD3 kept do not survive a rebuild in which the link changed:
\* none relays on a dead local address once the engine is Active again.
Alone == \A l \in Loops : l = gen \/ pc[l] \in {"off", "exit"}
LinkChangeSweeps ==
    Alone /\ status = "Active" => stranded \subseteq swept

=============================================================================
