------------------------------- MODULE Tunnel -------------------------------
(***************************************************************************)
(* The SOCKS5 tunnel of daemon/internal/tunnel: Start and Stop, the health *)
(* loop with its three detectors (D1 transport closed, D2 health check, D3 *)
(* stall), the reconnect loop, the kill switch, and the SOCKS handlers     *)
(* that cross it.  Every health loop and every handler is a process; a     *)
(* step is a critical section of t.mu or a blocking call outside it.       *)
(*                                                                         *)
(* Of a transport the model keeps whether its done channel is closed; a    *)
(* reference to one says whether it is still the transport of the tunnel.  *)
(* Timers, dial results and stalls are nondeterministic.                   *)
(***************************************************************************)
EXTENDS Naturals, FiniteSets

CONSTANTS
    Conns,                \* SOCKS connections alive at the same time
    MaxStarts,            \* model bound: successful Start calls
    KillSwitchThreshold,  \* killSwitchThreshold
    MaxHealthFailures,    \* maxHealthFailures
    Api,                  \* the /connect and /disconnect handlers
    NoProc                \* t.mu is free

Loops == 1..MaxStarts
Procs == Loops \cup Conns

ASSUME TunnelAssumption ==
    /\ MaxStarts \in Nat
    /\ KillSwitchThreshold \in Nat \ {0}
    /\ MaxHealthFailures \in Nat
    /\ KillSwitchThreshold < MaxHealthFailures
    /\ Conns \cap Loops = {}
    /\ Api \notin Procs
    /\ NoProc \notin Procs \cup {Api}

VARIABLES
    status,      \* t.status
    gen,         \* number of successful Starts; names the stopHealth channels
    stopHealth,  \* t.stopHealth: the channel of a Start, 0 is nil
    closedCh,    \* stopHealth channels that have been closed
    mu,          \* who is inside stopLocked, between close() and nil
    transport,   \* t.transport: nil, or its done channel is open or closed
    apiTr,       \* the transport of a /connect between SetTransport and Start
    pc,          \* where each process is
    after,       \* where a process goes on when its CloseAllConns is over
    sel,         \* the stopHealth channel a parked select was evaluated with
    watch,       \* doneCh of a health loop
    fails,       \* failures of a health loop
    tick,        \* what a loop read under t.mu: was it Connected, transport
    tracked,     \* t.conns
    swept        \* connections CloseAllConns has closed

vars == <<status, gen, stopHealth, closedCh, mu, transport, apiTr, pc,
          after, sel, watch, fails, tick, tracked, swept>>
loopVars == <<sel, watch, fails, tick>>
connVars == <<tracked, swept>>
stopVars == <<gen, stopHealth, closedCh, mu>>

NoTick == [live |-> FALSE, tr |-> "nil"]

\* What a process that holds a transport knows: it is the tunnel's ("cur"),
\* or another one whose done channel is open ("old") or closed ("dead").
References == {"nil", "cur", "old", "dead"}

Reconnecting == {"begin", "head", "attempt"}
Passed == {"checked", "open", "legacy", "relaying"}
Places == {"off", "exit", "start", "top", "select", "judge", "healthy", "d3",
           "fallback", "upgrade", "upgraded", "recovered", "announce",
           "giveup", "sweep", "tracked"} \cup Reconnecting \cup Passed

TypeOK ==
    /\ status \in {"Disconnected", "Connected", "Reconnecting"}
    /\ gen \in 0..MaxStarts
    /\ stopHealth \in 0..gen
    /\ closedCh \subseteq 1..gen
    /\ mu \in Procs \cup {Api, NoProc}
    /\ transport \in {"nil", "open", "closed"}
    /\ apiTr \in References
    /\ pc \in [Procs -> Places]
    /\ after \in [Procs -> {"off", "begin", "d3", "top"}]
    /\ sel \in [Loops -> 0..gen]
    /\ watch \in [Loops -> References]
    /\ fails \in [Loops -> 0..MaxHealthFailures]
    /\ tick \in [Loops -> [live : BOOLEAN, tr : References]]
    /\ tracked \subseteq Conns
    /\ swept \subseteq Conns

Init ==
    /\ status = "Disconnected"
    /\ gen = 0
    /\ stopHealth = 0
    /\ closedCh = {}
    /\ mu = NoProc
    /\ transport = "nil"
    /\ apiTr = "nil"
    /\ pc = [p \in Procs |-> "off"]
    /\ after = [p \in Procs |-> "off"]
    /\ sel = [l \in Loops |-> 0]
    /\ watch = [l \in Loops |-> "nil"]
    /\ fails = [l \in Loops |-> 0]
    /\ tick = [l \in Loops |-> NoTick]
    /\ tracked = {}
    /\ swept = {}

MuFree == mu = NoProc

At(p, place) == pc[p] = place
Goto(p, place) == pc' = [pc EXCEPT ![p] = place]

\* t.transport as a goroutine reads it.
Read == IF transport = "nil" THEN "nil" ELSE "cur"

\* The done channel of a transport held is closed.
IsClosed(r) == r = "dead" \/ (r = "cur" /\ transport = "closed")

\* t.transport is replaced: closed before, or overwritten as it is.
Closed == "dead"
Overwritten == IF transport = "open" THEN "old" ELSE "dead"
Demoted(r, fate) == IF r = "cur" THEN fate ELSE r
Replace(new, fate) ==
    /\ transport' = new
    /\ watch' = [l \in Loops |-> Demoted(watch[l], fate)]
    /\ tick' = [l \in Loops |-> [tick[l] EXCEPT !.tr = Demoted(@, fate)]]

-----------------------------------------------------------------------------
(* The API: /connect is SetTransport followed by Start.                    *)

SetTransport ==
    /\ MuFree
    /\ apiTr = "nil"
    /\ Replace("open", Overwritten)
    /\ apiTr' = "cur"
    /\ UNCHANGED <<status, stopVars, pc, after, sel, fails, connVars>>

Start ==
    /\ MuFree
    /\ apiTr # "nil"
    /\ status = "Disconnected"
    /\ gen < MaxStarts
    /\ status' = "Connected"
    /\ gen' = gen + 1
    /\ stopHealth' = gen + 1
    /\ apiTr' = "nil"
    /\ Goto(gen + 1, "start")
    /\ UNCHANGED <<closedCh, mu, transport, after, loopVars, connVars>>

\* The tunnel is already started, or the listener or the key check fails.
StartFails ==
    /\ MuFree
    /\ apiTr # "nil"
    /\ Replace("nil", IF apiTr = "cur" THEN Closed ELSE Overwritten)
    /\ apiTr' = "nil"
    /\ UNCHANGED <<status, stopVars, pc, after, sel, fails, connVars>>

\* Close() on the live transport: a rebuild forced after sleep and wake.
WakeReconnect ==
    /\ MuFree
    /\ status = "Connected"
    /\ transport = "open"
    /\ transport' = "closed"
    /\ UNCHANGED <<status, stopVars, apiTr, pc, after, loopVars, connVars>>

-----------------------------------------------------------------------------
(* stopLocked runs under t.mu, but the channel it closes and then drops is *)
(* read outside t.mu, so its two writes are two steps.                     *)

StopBegin(p) ==
    /\ MuFree
    /\ mu' = p
    /\ closedCh' = closedCh \cup (IF stopHealth = 0 THEN {} ELSE {stopHealth})

StopEnd ==
    /\ stopHealth' = 0
    /\ Replace("nil", Closed)
    /\ apiTr' = Demoted(apiTr, Closed)
    /\ status' = "Disconnected"
    /\ mu' = NoProc
    /\ pc' = [p \in Procs |->
                IF p # mu THEN pc[p] ELSE IF p \in Loops THEN "exit" ELSE "off"]
    /\ tracked' = tracked \ {mu}
    /\ swept' = swept \ {mu}
    /\ UNCHANGED <<gen, closedCh, after, sel, fails>>

Stop ==
    /\ StopBegin(Api)
    /\ UNCHANGED <<status, gen, stopHealth, transport, apiTr, pc, after,
                   loopVars, connVars>>

StopLocked ==
    /\ ~MuFree
    /\ StopEnd

\* Mutant: the process returns without stopping the tunnel.
GiveUpSilently(p) ==
    /\ At(p, "giveup")
    /\ Goto(p, "exit")
    /\ UNCHANGED <<status, stopVars, transport, apiTr, after, loopVars,
                   connVars>>

\* A health loop or a handler that gave up calls stopLocked.
GiveUp(p) ==
    /\ At(p, "giveup")
    /\ StopBegin(p)
    /\ UNCHANGED <<status, gen, stopHealth, transport, apiTr, pc, after,
                   loopVars, connVars>>

-----------------------------------------------------------------------------
(* The kill switch.                                                        *)

\* Flip first, then close every tracked connection; then go on at next.
SetReconnecting(p, next) ==
    /\ MuFree
    /\ \/ /\ status = "Connected"
          /\ status' = "Reconnecting"
          /\ Goto(p, "sweep")
          /\ after' = [after EXCEPT ![p] = next]
       \/ /\ status # "Connected"
          /\ Goto(p, next)
          /\ UNCHANGED <<status, after>>

SetConnected == status' = IF status = "Reconnecting" THEN "Connected" ELSE status

Sweep(p) ==
    /\ At(p, "sweep")
    /\ swept' = swept \cup tracked
    /\ Goto(p, after[p])
    /\ after' = [after EXCEPT ![p] = "off"]
    /\ UNCHANGED <<status, stopVars, transport, apiTr, loopVars, tracked>>

\* The PAC endpoint closes every relay when the site list changes.
CloseAllConns ==
    /\ ~ (tracked \subseteq swept)
    /\ swept' = swept \cup tracked
    /\ UNCHANGED <<status, stopVars, transport, apiTr, pc, after,
                   loopVars, tracked>>

-----------------------------------------------------------------------------
(* reconnectTransport, run by a health loop and by SOCKS handlers.         *)

ReconnectBegin(p) ==
    /\ At(p, "begin")
    /\ MuFree
    /\ Replace("nil", Closed)
    /\ apiTr' = Demoted(apiTr, Closed)
    /\ Goto(p, "head")
    /\ UNCHANGED <<status, stopVars, after, sel, fails, connVars>>

\* The select at the head of an attempt: errReconnectStopped ends a health
\* loop, while a handler treats every error as fatal.
ReconnectHead(p) ==
    /\ At(p, "head")
    /\ Goto(p, IF stopHealth \notin closedCh THEN "attempt"
               ELSE IF p \in Loops THEN "exit" ELSE "giveup")
    /\ UNCHANGED <<status, stopVars, transport, apiTr, after, loopVars,
                   connVars>>

\* A health loop goes on to refresh its doneCh, a handler does not.
TryReconnectOnce(p) ==
    /\ At(p, "attempt")
    /\ MuFree
    /\ Replace("open", Overwritten)
    /\ apiTr' = Demoted(apiTr, Overwritten)
    /\ Goto(p, IF p \in Loops THEN "recovered" ELSE "announce")
    /\ UNCHANGED <<status, stopVars, after, sel, fails, connVars>>

AttemptFails(p) ==
    /\ At(p, "attempt")
    /\ Goto(p, "head")
    /\ UNCHANGED <<status, stopVars, transport, apiTr, after, loopVars,
                   connVars>>

\* The key is rejected by every server of the ring.
KeyRejected(p) ==
    /\ At(p, "attempt")
    /\ Goto(p, "giveup")
    /\ UNCHANGED <<status, stopVars, transport, apiTr, after, loopVars,
                   connVars>>

Recovered(l) ==
    /\ At(l, "recovered")
    /\ MuFree
    /\ watch' = [watch EXCEPT ![l] = Read]
    /\ fails' = [fails EXCEPT ![l] = 0]
    /\ Goto(l, "announce")
    /\ UNCHANGED <<status, stopVars, transport, apiTr, after, sel, tick,
                   connVars>>

Announce(p) ==
    /\ At(p, "announce")
    /\ MuFree
    /\ SetConnected
    /\ Goto(p, IF p \in Loops THEN "top" ELSE "off")
    /\ tracked' = tracked \ {p}
    /\ swept' = swept \ {p}
    /\ UNCHANGED <<stopVars, transport, apiTr, after, loopVars>>

-----------------------------------------------------------------------------
(* healthLoop.                                                             *)

LoopStart(l) ==
    /\ At(l, "start")
    /\ MuFree
    /\ watch' = [watch EXCEPT ![l] = Read]
    /\ Goto(l, "top")
    /\ UNCHANGED <<status, stopVars, transport, apiTr, after, sel, fails,
                   tick, connVars>>

\* The select evaluates t.stopHealth once, outside t.mu.
EnterSelect(l) ==
    /\ At(l, "top")
    /\ sel' = [sel EXCEPT ![l] = stopHealth]
    /\ Goto(l, "select")
    /\ UNCHANGED <<status, stopVars, transport, apiTr, after, watch,
                   fails, tick, connVars>>

LeaveSelect(l) == sel' = [sel EXCEPT ![l] = 0]

OnStopHealth(l) ==
    /\ At(l, "select")
    /\ sel[l] \in closedCh
    /\ LeaveSelect(l)
    /\ Goto(l, "exit")
    /\ UNCHANGED <<status, stopVars, transport, apiTr, after, watch, fails,
                   tick, connVars>>

\* D1.
OnTransportDone(l) ==
    /\ At(l, "select")
    /\ IsClosed(watch[l])
    /\ LeaveSelect(l)
    /\ SetReconnecting(l, "begin")
    /\ UNCHANGED <<stopVars, transport, apiTr, watch, fails, tick, connVars>>

\* The first critical section of a tick.
OnTick(l) ==
    /\ At(l, "select")
    /\ MuFree
    /\ LeaveSelect(l)
    /\ \/ /\ status = "Disconnected"
          /\ Goto(l, "top")
          /\ UNCHANGED tick
       \/ /\ status # "Disconnected"
          /\ Goto(l, "judge")
          /\ tick' = [tick EXCEPT ![l] = [live |-> status = "Connected",
                                          tr |-> Read]]
    /\ UNCHANGED <<status, stopVars, transport, apiTr, after, watch, fails,
                   connVars>>

\* Alive() of the transport read; verifyServer, either way, without one.
MayFail(l) == tick[l].tr = "nil" \/ IsClosed(tick[l].tr)
MayPass(l) == ~IsClosed(tick[l].tr)

\* Mutant: failures are counted past the budget.
HealthCheckFailsForever(l) ==
    /\ At(l, "judge")
    /\ MayFail(l)
    /\ fails' = [fails EXCEPT ![l] = @ + 1]
    /\ tick' = [tick EXCEPT ![l] = NoTick]
    /\ Goto(l, "top")
    /\ UNCHANGED <<status, after, stopVars, transport, apiTr, sel, watch,
                   connVars>>

\* Mutant: a failed check is skipped.
HealthCheckUncounted(l) ==
    /\ At(l, "judge")
    /\ MayFail(l)
    /\ tick' = [tick EXCEPT ![l] = NoTick]
    /\ Goto(l, "top")
    /\ UNCHANGED <<status, after, stopVars, transport, apiTr, sel, watch,
                   fails, connVars>>

\* D2 failed.
HealthCheckFails(l) ==
    /\ At(l, "judge")
    /\ MayFail(l)
    /\ fails' = [fails EXCEPT ![l] = @ + 1]
    /\ tick' = [tick EXCEPT ![l] = NoTick]
    /\ IF fails[l] + 1 = KillSwitchThreshold
         THEN SetReconnecting(l, "top")
         ELSE /\ Goto(l, IF fails[l] + 1 >= MaxHealthFailures THEN "giveup"
                                                              ELSE "top")
              /\ UNCHANGED <<status, after>>
    /\ UNCHANGED <<stopVars, transport, apiTr, sel, watch, connVars>>

\* Mutant: the recovery does not release the kill switch.
HealthCheckKeepsStatus(l) ==
    /\ At(l, "judge")
    /\ MayPass(l)
    /\ fails' = [fails EXCEPT ![l] = 0]
    /\ Goto(l, "healthy")
    /\ UNCHANGED <<status, stopVars, transport, apiTr, after, sel, watch,
                   tick, connVars>>

\* D2 passed; after failures this is the recovery.
HealthCheckPasses(l) ==
    /\ At(l, "judge")
    /\ MayPass(l)
    /\ \/ fails[l] = 0 /\ UNCHANGED status
       \/ fails[l] > 0 /\ MuFree /\ SetConnected
    /\ fails' = [fails EXCEPT ![l] = 0]
    /\ Goto(l, "healthy")
    /\ UNCHANGED <<stopVars, transport, apiTr, after, sel, watch, tick,
                   connVars>>

\* D3.
StallDetected(l) ==
    /\ At(l, "healthy")
    /\ tick[l].live
    /\ SetReconnecting(l, "d3")
    /\ tick' = [tick EXCEPT ![l] = NoTick]
    /\ UNCHANGED <<stopVars, transport, apiTr, sel, watch, fails, connVars>>

\* No host is active or bytes flow, and no upgrade is due.
NoStall(l) ==
    /\ At(l, "healthy")
    /\ MuFree
    /\ Goto(l, "top")
    /\ tick' = [tick EXCEPT ![l] = NoTick]
    /\ UNCHANGED <<status, stopVars, transport, apiTr, after, sel, watch,
                   fails, connVars>>

\* An Auto transport on TLS is due for an upgrade.
MaybeUpgradeToUDP(l) ==
    /\ At(l, "healthy")
    /\ MuFree
    /\ transport # "nil"
    /\ Goto(l, "upgrade")
    /\ tick' = [tick EXCEPT ![l].tr = Read, ![l].live = FALSE]
    /\ UNCHANGED <<status, stopVars, transport, apiTr, after, sel, watch,
                   fails, connVars>>

\* Mutant: without a fallback the stalled transport is kept.
TryFallbackOnly(l) ==
    /\ At(l, "d3")
    /\ MuFree
    /\ Goto(l, "top")
    /\ UNCHANGED <<status, stopVars, transport, apiTr, after, loopVars,
                   connVars>>

\* tryFallbackToTLS: an Auto transport over UDP dials TLS, any other fails.
TryFallback(l) ==
    /\ At(l, "d3")
    /\ MuFree
    /\ \/ /\ Goto(l, "begin")
          /\ UNCHANGED tick
       \/ /\ transport # "nil"
          /\ Goto(l, "fallback")
          /\ tick' = [tick EXCEPT ![l].tr = Read]
    /\ UNCHANGED <<status, stopVars, transport, apiTr, after, sel, watch,
                   fails, connVars>>

\* swapActive: the transport stays, its old done channel is closed.  Nobody
\* sees the swap of a transport the tunnel no longer has.
SwapActive(l) ==
    IF tick[l].tr = "cur"
      THEN /\ transport' = "open"
           /\ watch' = [k \in Loops |-> Demoted(watch[k], Closed)]
      ELSE UNCHANGED <<transport, watch>>

SwapDone(l) ==
    /\ pc[l] \in {"fallback", "upgrade"}
    /\ SwapActive(l)
    /\ tick' = [tick EXCEPT ![l] = NoTick]
    /\ Goto(l, IF At(l, "fallback") THEN "recovered" ELSE "upgraded")
    /\ UNCHANGED <<status, stopVars, apiTr, after, sel, fails, connVars>>

SwapFails(l) ==
    /\ pc[l] \in {"fallback", "upgrade"}
    /\ tick' = [tick EXCEPT ![l] = NoTick]
    /\ Goto(l, IF At(l, "fallback") THEN "begin" ELSE "top")
    /\ UNCHANGED <<status, stopVars, transport, apiTr, after, sel, watch,
                   fails, connVars>>

Upgraded(l) ==
    /\ At(l, "upgraded")
    /\ MuFree
    /\ watch' = [watch EXCEPT ![l] = Read]
    /\ Goto(l, "top")
    /\ UNCHANGED <<status, stopVars, transport, apiTr, after, sel, fails,
                   tick, connVars>>

-----------------------------------------------------------------------------
(* handleSOCKS.                                                            *)

Finish(c) ==
    /\ Goto(c, "off")
    /\ tracked' = tracked \ {c}
    /\ swept' = swept \ {c}

\* Mutant: the connection is never registered.
AcceptUntracked(c) ==
    /\ At(c, "off")
    /\ MuFree
    /\ status # "Disconnected"
    /\ Goto(c, "tracked")
    /\ UNCHANGED <<status, stopVars, transport, apiTr, after, loopVars,
                   connVars>>

\* Accept needs the listener, which stopLocked closes first.
Accept(c) ==
    /\ At(c, "off")
    /\ MuFree
    /\ status # "Disconnected"
    /\ tracked' = tracked \cup {c}
    /\ Goto(c, "tracked")
    /\ UNCHANGED <<status, stopVars, transport, apiTr, after, loopVars,
                   swept>>

CheckStatus(c) ==
    /\ At(c, "tracked")
    /\ MuFree
    /\ \/ status = "Reconnecting" /\ Finish(c)
       \/ status # "Reconnecting" /\ Goto(c, "checked") /\ UNCHANGED connVars
    /\ UNCHANGED <<status, stopVars, transport, apiTr, after, loopVars>>

ReadTransport(c) ==
    /\ At(c, "checked")
    /\ MuFree
    /\ Goto(c, IF transport = "nil" THEN "legacy" ELSE "open")
    /\ UNCHANGED <<status, stopVars, transport, apiTr, after, loopVars,
                   connVars>>

OpenStream(c) ==
    /\ At(c, "open")
    /\ Goto(c, "relaying")
    /\ UNCHANGED <<status, stopVars, transport, apiTr, after, loopVars,
                   connVars>>

\* handleSOCKSLegacy dials the server by itself.
LegacyConnect(c) ==
    /\ At(c, "legacy")
    /\ Goto(c, "relaying")
    /\ UNCHANGED <<status, stopVars, transport, apiTr, after, loopVars,
                   connVars>>

\* A failed SOCKS5 handshake or a failed dial.
CloseConn(c) ==
    /\ pc[c] \in {"tracked", "open", "legacy"}
    /\ Finish(c)
    /\ UNCHANGED <<status, stopVars, transport, apiTr, after, loopVars>>

\* One direction ends, is idle or was swept, and the relay closes both.
RelayEnds(c) ==
    /\ At(c, "relaying")
    /\ Finish(c)
    /\ UNCHANGED <<status, stopVars, transport, apiTr, after, loopVars>>

\* "machine id rejected" over a transport rebuilds it in the handler.
MachineIDRejected(c) ==
    /\ At(c, "open")
    /\ SetReconnecting(c, "begin")
    /\ UNCHANGED <<stopVars, transport, apiTr, loopVars, connVars>>

\* handleSOCKSLegacy stops the tunnel at once.
LegacyRejected(c) ==
    /\ At(c, "legacy")
    /\ Goto(c, "giveup")
    /\ UNCHANGED <<status, stopVars, transport, apiTr, after, loopVars,
                   connVars>>

-----------------------------------------------------------------------------

\* Any transport can die, the tunnel's and one that was overwritten.
TransportDies ==
    /\ transport = "open"
    /\ transport' = "closed"
    /\ UNCHANGED <<status, stopVars, apiTr, pc, after, loopVars, connVars>>

OldTransportDies(l) ==
    /\ \/ /\ watch[l] = "old"
          /\ watch' = [watch EXCEPT ![l] = "dead"]
          /\ UNCHANGED tick
       \/ /\ tick[l].tr = "old"
          /\ tick' = [tick EXCEPT ![l].tr = "dead"]
          /\ UNCHANGED watch
    /\ UNCHANGED <<status, stopVars, transport, apiTr, pc, after, sel, fails,
                   connVars>>

ReconnectStep(p) ==
    \/ Sweep(p) \/ GiveUp(p) \/ Announce(p)
    \/ ReconnectBegin(p) \/ ReconnectHead(p)
    \/ TryReconnectOnce(p) \/ AttemptFails(p) \/ KeyRejected(p)

HealthLoop(l) ==
    \/ LoopStart(l) \/ EnterSelect(l) \/ Recovered(l) \/ Upgraded(l)
    \/ OnStopHealth(l) \/ OnTransportDone(l) \/ OnTick(l)
    \/ HealthCheckFails(l) \/ HealthCheckPasses(l)
    \/ StallDetected(l) \/ NoStall(l) \/ MaybeUpgradeToUDP(l)
    \/ TryFallback(l) \/ SwapDone(l) \/ SwapFails(l)

HandleSOCKS(c) ==
    \/ CheckStatus(c) \/ ReadTransport(c) \/ OpenStream(c) \/ LegacyConnect(c)
    \/ CloseConn(c) \/ RelayEnds(c) \/ MachineIDRejected(c) \/ LegacyRejected(c)

Next ==
    \/ SetTransport \/ Start \/ StartFails
    \/ Stop \/ StopLocked \/ WakeReconnect \/ CloseAllConns
    \/ \E p \in Procs : ReconnectStep(p)
    \/ \E l \in Loops : HealthLoop(l) \/ OldTransportDies(l)
    \/ \E c \in Conns : Accept(c) \/ HandleSOCKS(c)
    \/ TransportDies

Spec == Init /\ [][Next]_vars

\* Goroutines are scheduled, t.mu is released, and a reconnect loop that keeps
\* dialling gets through once in a while.
Fairness ==
    /\ WF_vars(StopLocked)
    /\ \A p \in Procs : WF_vars(ReconnectStep(p)) /\ SF_vars(TryReconnectOnce(p))
    /\ \A l \in Loops : WF_vars(HealthLoop(l))

FairSpec == Spec /\ Fairness

-----------------------------------------------------------------------------
(* Properties.                                                             *)

\* A connection that passed the status check is closed once the tunnel is
\* Reconnecting and every flip has finished its sweep, whatever the check
\* raced with (setReconnecting, handleSOCKS, trackConn).
KillSwitchHolds ==
    status = "Reconnecting" /\ (\A p \in Procs : ~At(p, "sweep")) =>
        \A c \in Conns : pc[c] \in Passed => c \in swept

\* A tunnel that is not Disconnected has its health loop: no path through
\* healthLoop leaves it without stopping the tunnel (healthLoop, stopLocked).
SupervisorAlive ==
    status # "Disconnected" /\ MuFree =>
        pc[gen] \notin {"off", "exit"}

\* While the kill switch is engaged somebody is on the way to release it: a
\* rebuild in progress, or a health loop still counting D2 failures.
Rebuilding(p) ==
    \/ pc[p] \in Reconnecting \cup {"d3", "fallback", "recovered", "announce",
                                    "giveup"}
    \/ At(p, "sweep") /\ after[p] # "top"
CountingFailures(l) == fails[l] >= KillSwitchThreshold /\ pc[l] # "exit"
ReconnectOwned ==
    status = "Reconnecting" /\ MuFree =>
        \/ \E p \in Procs : Rebuilding(p)
        \/ \E l \in Loops : CountingFailures(l)

\* The kill switch does not stay engaged (the wedge the D3 branch of
\* healthLoop was rewritten for).
KillSwitchReleases == status = "Reconnecting" ~> status # "Reconnecting"

\* A transport that died under a Connected tunnel is replaced or given up,
\* also when the health loop does not watch its done channel.
DeadTransportNoticed ==
    (status = "Connected" /\ transport = "closed")
        ~> (status # "Connected" \/ transport # "closed")

\* Once its stopHealth channel is closed, a health loop that reaches the
\* select of reconnectTransport returns errReconnectStopped.
StopEndsReconnect ==
    [][\A l \in Loops :
         At(l, "head") /\ l \in closedCh => pc'[l] \in {"head", "exit"}]_vars

=============================================================================
