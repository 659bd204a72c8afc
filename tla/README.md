# TLA+ verification of proxyness

proxyness is a proxy/VPN: an Electron client drives a local Go daemon, which
offers a SOCKS5 tunnel and a TUN device and carries their traffic to one of
several exit servers, over TLS or over a UDP protocol with its own reliability
layer. This directory holds TLA+ modules for the parts where concurrency,
message loss and failure make the code hard to test, the TLC runs that check
them, and TLAPS proofs. `PROJECT.json` lists the components, the runs, the
source lines of every definition, the mutants that show each property can fail,
the hazards of the code and the theorems.

    cd tla
    tlc -config MCArqSession.cfg MCArqSession     # any run of PROJECT.json
    tlapm ArqSession_proofs.tla                   # any *_proofs module

## The system

| Component | State | Operations | What makes it correct |
|---|---|---|---|
| ARQ session, `pkg/udp/arq` | send buffer, packet numbers, in-flight count, cumulative ACK and SACK bits, receive buffers | `Send`, `HandleAck`, `RetransmitTick`, `HandleData`, `AckTick`, `CreateRecvBuffer`, `RemoveRecvBuffer`, `Close` | each stream is a reliable FIFO; nothing acknowledged is lost; slots are neither leaked nor freed twice; a lost packet is recovered or the session dies |
| Congestion control, `congestion.go`, `bandwidth.go`, `pacer.go`, `rtt.go` | window, tokens, rate samples | `AcquireSlot`, `OnAck`, `OnLoss`, `SignalAll` | the window never closes for good |
| SOCKS5 tunnel, `daemon/internal/tunnel` | status, transport, stop channel, table of connections, failure counts | `Start`, `Stop`, `healthLoop`, `reconnectTransport`, `handleSOCKS`, `WakeReconnect` | while Reconnecting no connection escapes the kill switch; the kill switch is released; a started tunnel is supervised |
| Exit server ring, `daemon/internal/transport/servers.go` | current server, rejections | `ConnectAny`, `NoteFailure`, `NoteSuccess`, `AllRejected` | a dead exit is routed around; a key counts as revoked only when all say so |
| Auto transport, `auto.go`, `udpretry.go` | active transport, retry plan | `Connect`, `FallbackToTLS`, `TryUpgradeToUDP`, `Close` | no transport is left open or left closed by a swap that races a close |
| UDP and TLS transports, `udp.go`, `tls.go` | streams, receive channels, dead-session timer | `Connect`, `OpenStream`, `recvLoop`, `Close` | a stream's bytes reach its reader in order, or it fails; nobody waits on a closed transport |
| TUN engine, `daemon/internal/tun` | status, transport, connections, failure counts, helper bridge, rules | `Start`, `Stop`, health loop, `runD3`, TCP and UDP forwarders | a running engine is supervised; the kill switch is released; flows kept through a rebuild do not outlive a change of the link |
| Daemon API, `daemon/internal/api` | PAC sites | `/connect`, `/tun/start`, site handlers, `RebuildPAC` | calls in any order leave the parts below consistent |
| Server UDP, `server/internal/udp` | sessions, streams, tombstones | `handlePacket`, `handleStreamOpen`, `RemoveStream`, cleanup, shutdown | every stream and session is removed in the end, once; a client whose session is gone notices |
| Server TLS path, `mux`, `proxy` | relays, device binding | accept, authenticate, relay | what is registered is what is alive |
| Tracker, `stats` | registered connections, rates | `AddRemote`, `Remove` | exact after restarts, kills and cleanups |
| Database and admin, `db`, `admin` | tables, device cache | lookup, synchronisation, admin operations | a deleted device is refused; operations of two clients merge |
| Sites manager, `daemon/internal/sites` | cached lists | `Refresh`, `AddSite`, `SetEnabled`, `RemoveSite`, `AddDomains` | the PAC file converges to the database |
| Config service, `config` | notifications, delivery marks | poll, mark delivered | one delivery per device |
| Helper, client, extension, landing page | routes, user interface | - | - |

The daemon API calls the tunnel and the engine; both own a transport built by a
factory; a transport carries streams over an ARQ session; the server ends the
session and relays each stream. Processes interact through mutexes, channels
closed as signals (`stopHealth`, `DoneChan`, `done`) and datagrams.

What is hard: ACKs that are stale, duplicated or overtaken; the packet number
recorded, hence acknowledged, before the payload is stored; status read before
and acted on after an unlock; two owners rebuilding one transport; Stop and
Start while an old loop still runs; a channel field reassigned while goroutines
select on it; two dialers moving one ring; a stream opened twice by one
retransmitted packet; a close that overtakes data; a session killed, cleaned up
and forgotten by a restart while its client still sends; answers applied in the
order they arrive; a cache refilled with what has just been deleted.

## Modules

### ArqSession, FifoStreams, MCArqSession; ArqSession_proofs

`ArqSession` is one direction of a session: the sending half of one
`Controller`, the receiving half of its peer, and the network between them.

* `Send` is three steps, since writers interleave inside it: `AcquireSlot`
  (a congestion slot), `NumberPacket` (the packet number, and the stream's
  sequence number), `Transmit` (`SendBuffer.Add` and the write).
* `HandleAck(a)` is the whole handler: cumulative and selective
  acknowledgement, the slots returned, `sackDetect`, the duplicate-ACK count
  and fast retransmission.
* `RetransmitTick(E)` takes any set `E` of expired packets, so all timing is
  covered; an exhausted packet closes the session as `markDead` does.
* `HandleData` is two steps, `HandleDataRecord` and `HandleDataInsert`, because
  the ACK loop can run between `RecordReceived` and `RecvBuffer.Insert`.
* `AckTick` builds and sends an ACK.

A packet once sent may arrive at any later time, any number of times or never,
so loss, duplication and reordering of data need no state. ACKs in flight are a
set of at most `MaxNetAcks`; they may be lost, and handled more than once.
The congestion window is any value in its bounds at each step. `Control`
writes control packets (stream open and close), which are numbered and
acknowledged but never buffered.

Abstractions: `BuildAck` and `AckSent` are one step; encoding does not fail; a
stream's receive buffer exists before the peer's first packet of it (where the
server does otherwise is listed as a hazard); a stream removed is not opened
again, as in the code, where stream ids are not reused.

`FifoStreams` says what users of a stream rely on: what is delivered is a
prefix of what was sent, growing. `MCArqSession` maps `sent` to the packets
numbered for the stream, in the order of their numbers (the packet of `DataOf(s)`
with `i - 1` others below it is the `i`th), and states the refinement as
`ImplementsFifo`.

### Tunnel, MCTunnel; Tunnel_proofs

Health loops (one per successful `Start`) and SOCKS handlers are processes with
a program counter; a step is a critical section of `t.mu` or a call outside
it. `stopLocked` is split between `close(stopHealth)` and `stopHealth = nil`,
because `select` reads that field without the lock. `SetReconnecting` flips the
status and leaves the sweep of the connections as a separate step, as the code
does. A health loop keeps the done channel it read (`watch`) and what it read
at a tick (`tick`).

A transport is represented by what matters of it: whether its done channel is
closed, and, for each reference a process holds, whether it is still the
tunnel's (`cur`), another one alive (`old`) or another one closed (`dead`).
Stalls, dial results, ticks and deaths of transports are nondeterministic; a
swap inside an Auto transport closes the old done channel and keeps the
transport. `/connect` is `SetTransport` then `Start` or `StartFails`, also on a
tunnel that is running. `waitForNetwork` is not modelled: with
`maxReconnects = 0`, `reconnectTransport` returns only on success, on stop, or
when the key is rejected, so no path reaches it.

### Engine, MCEngine; Engine_proofs

The TUN engine, in the form of `Tunnel`: health loops (one per successful
`Start`) and flows are processes, a step is a critical section of `e.mu` or a
blocking call. What differs from the tunnel is what the code does differently:

* `stopHealth` is replaced by `Start` and never set to nil. A parked `select`
  waits on the channel it was evaluated with (`sel`), `reconnectTransport` reads
  the field for each attempt (`ReconnectHead`).
* Four detectors: `OnTransportDone` (D1), `OnTickD2Fails` and `OnTickD2Passes`
  (D2), `OnTickD3` with `TryFallback` and the rebuild, `OnBridgeDone` (D4).
* `runD3` keeps the flows of a TLS transport (`keepConns`) and closes them in
  `SweepKept` if an attempt of the rebuild, or a failure of the streak before
  it, met ENETUNREACH (`rebuildSawUnreach`, `streakSawUnreach`).
* `UpgradeDone` and `FallbackDone` swap inside an Auto transport: the engine's
  reference stays, the done channel it had is closed.
* A flow checks the status (`FlowChecks`) and is tracked later (`BypassFlow`,
  `ProxyLegacy`, `ProxyTransport`). `noteStreamOpenFailure` reads the status
  and counts in two steps (`OpenStreamFails`, `NoteFailure`).
* `/tun/start` is `SetTransport` then `Start` or `StartFails`, also on an engine
  that is Active or Reconnecting.

A flow is one connection; the packets of a UDP flow, raw UDP, NAT and the
matching of rules to applications are left out, and so is the retry plan:
an upgrade may be due at any passing tick.

`MCEngine` gives TLC a view, `LiveState`, that leaves out a variable where its
value is written before it is read again: the locals of a loop that has
returned, channels and bridges no loop waits for, flags of a streak that is
over. Two states with the same view have the same future and satisfy the same
properties.

### UdpStreams, MCUdpStreams; UdpStreams_proofs, UdpExact_proofs

The streams of one UDP session, client and server. On the client a stream goes
through `OpenStream`, `Register`, `SendOpen` and, if it is not in `Datagram` (the
streams of UDP type, which are handed out at once), `OpenResult` or `OpenGivesUp`;
these are separate steps because `Close` and `recvLoop` (`RecvData`, `RecvClose`)
run between them. `Close` of the transport is three steps: `CloseTransport` sets the
flag and closes the controller, `CloseSweeps` closes and drops what is in the
table, `CloseSocket` ends it. `RecvLoopEnds` is a read error, which sweeps the table
and leaves the transport up, or a `MsgSessionClose`.

On the server every `StreamOpen` packet that arrives, a retransmitted one too,
starts a goroutine (`EnterStream`, `CreateRecvBuffer`, `DialFails` or `DialSucceeds`,
`Connected`), which starts `streamWriter` (`Writer...`) and `relayFromDest`
(`Relay...`). `processLoop` handles one packet at a time; `DeliverLookup` and
`DeliverSend` are two steps because `sess.mu` is released between them.
`RemoveSession` is `CloseAllStreams` as `Remove` and `Cleanup` call it: the goroutines
of the streams go on, with `sess.ARQ` nil.

The ARQ session below is the network of this module: data arrive once per
sequence number and in any order, opens and closes may arrive again. `arq.Send` may
fail at any time, after the packet is in the send buffer too, and it may succeed
after `arq.Close`, because the `select` of `AcquireSlot` can take a slot although
`done` is closed; only a closed socket makes it fail for certain. Receive
buffers reorder as `RecvBuffer.Insert` does, and at their limit a stream is refused by
the client and goes on without one at the server. A send on a channel that is full
drops the payload and is remembered in `dropped`.

Two races can end the server process (`panicked`): a send on a `WriteCh` that was closed
after the lookup, and a session removed between a goroutine's test of `sess.ARQ` and
its use. A behaviour is followed until then. `sendResult` and `RemoveStream` of a
failed dial are one step.

### ServerSessions; ServerSessions_proofs

The life of a UDP session on both sides of a network that loses, duplicates
and reorders: handshake, keepalive, dead timer and `Close` of the transport;
`handleHandshake` (two steps, because the tracker entry exists before the
response is written; `Create` and `AddRemote`, with nothing between them that another
goroutine could act on, are the first), `handlePacket`, the retransmit limit, `killDeadSession`
(`NotifyDead`, `RemoveDead`), tombstones, cleanup, the broadcast at shutdown and
a restart, which is also a crash when no broadcast came before. TLS
connections register in the same tracker (`HandleTCP`, `HandleUDP`).

Timers are abstracted to what they wait for: `DeadTimer` needs that no packet
for the transport is in flight, `Cleanup` that none for the session is, since
neither stays in a network for 20 seconds or two minutes.

### Sites; Sites_proofs

The list of sites from the database to the PAC file. A call of the daemon
(`Refresh`, `AddSite`, `SetEnabled`, `RemoveSite`, `AddDomains`) is a process:
device lookup (`CacheHit`, or `ReadDevice` then `PutDevice`), the transaction
(`ApplyOp`; a toggle reads and writes in two statements, the statements of the other
operations are one step), the two queries of
`GetMySites` after the commit, `Receive`, which replaces the cache, and
`RebuildPAC` in three steps. `Fails` ends a call anywhere on its way. The admin
deletes sites, domains, devices and users, with the cascades of the schema, and
what concerns a device is dropped from the cache in a second step, or not at all when
the `SELECT` of its key failed, an error the code ignores. Operations that the server
rejects as invalid change nothing and are left out.

One user, one device; a site has its primary domain and one that was found
later. `events` numbers what need not happen and is the clock of the edits.

### ServerRing; ServerRing_proofs

`ConnectAny` on a fresh ring, then any number of dialers that share it. Each
method is one critical section; `NoteFailure` is two (mark, then advance). What
each server knows and whether it is healthy is chosen at the start and
fixed. `Prefer` has no caller and is left out.

## Runs

| Run | Bounds | Shows |
|---|---|---|
| `arq_session` | 4 packets, one stream and control packets, window 1..2, SACK window 2, buffer 2, 1 retransmission | `AckedIsKept`, `InOrderDelivery`, `RetiredWasReceived`, `SlotsExact`, and the refinement `ImplementsFifo` |
| `arq_liveness` | the same with 3 packets, fairness | `PacketResolved`: an unacknowledged packet is received or the session dies; `WindowReopens`: the window opens again or the session closes |
| `tunnel_handlers` | two sessions, two SOCKS handlers; a second session only while no handler runs | `KillSwitchHolds`: nothing that slipped past the status check survives; `ReconnectOwned`: an engaged kill switch has an owner; `SupervisorAlive`: a started tunnel has its own loop although an old one may linger |
| `tunnel_liveness` | one session, one handler, fairness | `KillSwitchReleases`, `DeadTransportNoticed` |
| `tunnel_stop` | two sessions | **violated**: `StopEndsReconnect`, see findings |
| `ring_failover` | three servers, every assignment of their state, one dialer | `InvalidKeyIsUnanimous`, `EveryServerTried`, `NeverRevoked`, `FailoverReaches` |
| `engine` | two Starts, one flow, kill switch at 1 and stop at 2 failed checks, stream threshold 2 | `EngineSupervised`: an engine that is up has the loop of its last Start; `ReconnectOwned`; `LinkChangeSweeps`: flows kept by `runD3` are closed if the link changed |
| `udp_streams` | two streams, one of UDP type, two openers, one duplicate or ending, two payloads, channels of 1; with both streams in use, one fault or payload | `OpenedMeansDialled`; `ReaderReachable`: until `Close` sweeps the table whoever waits can be woken; `StreamExact`: a TCP stream that was dialled once carries its data exactly; `StreamOwned`: a stream of the server has a goroutine that will remove it; `WriteChOwned`: a `WriteCh` is open exactly while its stream is in the map |
| `udp_close` | one stream of UDP type, one opener | **violated**: `NoOrphanReader`, see findings |
| `server_sessions` | one transport, two sessions, one TLS connection, one duplicate, one restart, fairness | `TrackerExact`; `CloseIsTruthful`: a close message in flight is never for a session that serves a client; `OrphanTransportCloses`, `OrphanSessionRemoved` |
| `sites` | one site, two overlapping calls, three events, fairness | `UserRowsGone`: no transaction brings back rows of a deleted user; `RevocationFinal`: a revocation that has taken effect lasts; `PacConverges`, `RevocationTakes` |
| `ring_two_dialers` | two servers, two dialers | **violated**: `FailoverReaches`, see findings |

Why the bounds are enough to meet the cases: four packets with a SACK window of
2 give a gap and a packet beyond the window; a single ACK is in flight, stale and
handled again, so an ACK that another one overtakes is covered by the theorems only; a
window of 2 fills and shrinks; one retransmission reaches the limit. The
receive buffer of 2 is the smallest that `RecvBufHoldsWindow` allows for these
windows, and one place less loses acknowledged data, as the mutant
`RoomInOffByOne` shows. A kill-switch threshold of 1 and a budget of 2
separate the two counts as 3 and 12 do. Two health loops are what an overlap
needs; two handlers are what a race between handlers needs, and they are
interchangeable, hence the symmetry (used in no run with a liveness property).
Three servers are needed for a ring to wrap past a middle one. Two openers and
one duplicate let a stream be opened, removed and opened again by its own
retransmission; a channel of 1 fills. A fault is a packet that arrives once more, or the
end of the transport, of `recvLoop` or of the session. The state spaces of `udp_streams` and
`tunnel_handlers` are cut by a constraint, `Focus` in `MCUdpStreams` and `MCTunnel`, each of
which keeps the two sources of states apart: all faults and payloads on one stream,
and two streams with one of them; two handlers in one session, and two sessions without
handlers. The theorems need neither. One transport with two sessions is a
handshake that was duplicated or repeated after a lost response. Two calls are
what overlapping answers need, and three events leave room for an edit, an
admin operation and a failure; a liveness property of a finite number of
events is what "in the end" means here.

All runs but `sites` switch the deadlock check off, because the systems may
stop: the budget of packets is used up, the session is closed, a tunnel or an
engine is stopped after its last start, a ring has given up. In `sites` the
refresh never ends, and the deadlock check is on.

### Fairness

* ARQ: `RetransmitLowest`, the retransmission of the lowest unacknowledged packet,
  which a 50 ms ticker drives, and the writers that hold a slot. Nothing is
  assumed of the network: no packet and no ACK need ever arrive.
* Tunnel: every goroutine that can run does, `t.mu` is released, and of a
  reconnect loop that dials for ever an attempt succeeds once in a while
  (strong fairness of `TryReconnectOnce`; without it a dead network keeps the
  tunnel Reconnecting, which is intended). Users, timers of stalls and
  deaths of transports are not fair.
* Sessions: the timers and loops of both sides run, and a datagram is
  received or lost at last. Nobody has to connect, send, close or fail, and
  any datagram may be lost.
* Sites: the refresh ticks, a call that has been started goes on or fails, a
  cache entry expires, an admin operation that wrote the database goes on to the
  cache.
* Ring: a dialer that can go on does, and the local link is not down for ever
  (strong fairness of the answers other than "unreachable").

## Proofs

The `*_proofs` modules prove, for every value of the constants, the safety
properties that the runs check on small instances. Each has the same shape: an
inductive invariant `IInv` that names its parts, a lemma for the initial states,
lemmas for the actions, `Invariance == Spec => []IInv`, and one theorem per
property. `IInv`, `EInv` of `UdpExact_proofs` and `CInv` of `ServerSessions_proofs` have been model-checked on the
run's instance before they were proved.

| Module | Theorems | Assumption |
|---|---|---|
| `ArqSession_proofs` | `TypeOK`, `AckedIsKept`, `InOrderDelivery`, `RetiredWasReceived`, `SlotsExact`, the refinement `ImplementsFifo` | `ConstantsAssumption`, `RecvBufHoldsWindow` |
| `Tunnel_proofs` | `TypeOK`, `KillSwitchHolds`, `SupervisorAlive`, `ReconnectOwned` | `TunnelAssumption` |
| `Engine_proofs` | `TypeOK`, `EngineSupervised`, `ReconnectOwned`, `LinkChangeSweeps` | `EngineAssumption` |
| `UdpStreams_proofs` | `TypeOK`, `OpenedMeansDialled`, `ReaderReachable`, `StreamOwned` | `StreamsAssumption` |
| `UdpExact_proofs` | `StreamExact`, `WriteChOwned` | the same |
| `ServerSessions_proofs` | `TypeOK`, `TrackerExact`, `CloseIsTruthful` | `SessionsAssumption` |
| `Sites_proofs` | `TypeOK`, `UserRowsGone`, `RevocationFinal` | `SitesAssumption` |
| `ServerRing_proofs` | `TypeOK`, `InvalidKeyIsUnanimous`, `EveryServerTried`, `NeverRevoked` | `RingAssumption` |

The assumptions say that counts and bounds are naturals, positive where the
code needs it, and that thresholds are ordered as the code's are. The one that is
more than this is `RecvBufHoldsWindow`: `RecvBufSize + 2 >= SackWindow + MaxCwnd`;
the code has 1024 + 2 >= 256 + 512.

### ARQ session

`IInv` adds to the properties what ties them together:
which packets can be where (`Budget`, `Places`, `HandlingData`), that the
cumulative ACK is as far as it can be (`CumAckMaximal`), that every ACK in
flight tells the truth although the receiver has moved on (`AcksTruthful`), how
packet numbers and stream sequence numbers are ordered when writers
interleave (`SeqOrder`, `Unopened`), and what the buffer holds
(`BufferSound`). Each action has a lemma that shows it keeps `IInv`; `Frame` and
`BufferFrame` cover the parts an action does not touch.

The argument worth knowing is that no acknowledged payload is lost although
`HandleData` acknowledges first and `Insert` may then find the buffer full.
Packets recorded beyond the cumulative ACK are either still counted in flight, at
most `MaxCwnd`, or have been retired by a SACK bit, hence lie within
`SackWindow` of a cumulative ACK; `ReceivedBounded` turns this into
`|received| + 2 <= SackWindow + MaxCwnd`, and `BufferHasRoom` follows, since
what is buffered has been received. Raising `maxCwnd` beyond 770 without the
buffer would break it.

The refinement needs one more invariant, `Ranks`: a data packet's sequence number
is the number of data packets of its stream numbered before it. Then
`SentOn(s)` is a sequence, `NumberPacket` appends to it or leaves it alone, what
`Insert` delivers continues the prefix, and every other action stutters.

### Tunnel

`KillSwitchHolds` is nearly inductive: it needs that a handler is tracked before
it checks the status (`TrackedFirst`) and that a sweep comes back (`SweepResumes`).
`SupervisorAlive` and `ReconnectOwned` are not. A loop stays alive only because
the channel it is parked on is that of its own or of a later `Start`
(`SelectChannel`), and the channel of a tunnel that is up is open outside
`stopLocked` (`StopChannel`, `StopHolder`). `ReconnectOwned` is strengthened to
`Owned`: an owner that merely counts failures is not parked on a closed channel, or
it would leave the kill switch engaged.

### Engine

The same parts with the engine's channel, which is never nil, and two
arguments of its own.

* The failure counter is bounded although `noteStreamOpenFailure` reads the
  status and counts in separate steps. `FailureRoom` says that the count plus
  the flows that are past the gate never exceeds `MostFailures`.
* `LinkChangeSweeps` speaks of states in which no other loop runs. Its
  inductive form, `KeptHandled`, must also hold when the other loops are only about to
  return (`AlmostAlone`); it says where the engine's own loop stands when flows
  are kept and not yet swept (`KeptKnown`, `StrandedKnown`), and that a rebuild goes
  with an engaged switch (`RebuildEngaged`).

### UDP streams

`StreamOwned` follows from `EntryOwned`, which adds that an entry belongs to an
opener of that stream: with retransmitted opens several openers share one ID.
`OpenedMeansDialled` needs `OnlyFailures`: until a dial succeeds nothing but the
failure byte is in the network, the receive buffer or the channel of the stream,
which takes what `Flushed`, `Inserted` and `Pushed` return
(`FlushedProperties`, `InsertedProperties`, `PushedProperties`). `ReaderReachable`
needs `StillRegistered`, which adds the callers that have registered and not sent. It
ends with the sweep, as it must: see the finding `udp_close`. The range of sequence
numbers needs `SeqRoom`, a count: numbers used, plus payloads read and not numbered,
plus openers that have not answered, are at most payloads read plus openers.

`StreamExact` has an inductive invariant of its own, `EInv`, on top of `IInv`. The
property speaks of a stream whose entry is that of the only dial that succeeded, and
any number of other streams, of duplicates of its `StreamOpen` that found the entry and
returned, and of dials that failed before it. The induction has to begin before there
is a dial, so it speaks of streams that were dialled at most once (`Sole`), whatever the
client has done so far, and follows a payload from one end to the other.

* Who is at work: of the openers of such a stream only the one that has the entry is
  still to dial or to answer (`Placed`), since one whose entry was taken away would
  need a close, and only the owner of the stream sends that (`CloseSent`).
* Down: the number of a payload is its position among those read, after the result
  byte with number 0 (`DownNumbered`), also while the relay holds one it has not
  numbered; failures of earlier dials carry number 0 as well, and an `OpenStream` that
  takes one ends (`Failure`, `Rejected`). What is in the network and in the receive
  buffer agrees with this (`Holds`), and what the owner has taken, followed by `recvCh`,
  is everything up to the expected number (`DownContent`).
* Up: a payload keeps the number `Write` gave it (`UpNumbered`), and what the
  destination has, followed by `WriteCh` and by what `processLoop` has left to
  deliver, is everything up to the expected number (`UpContent`).
* Where it could start wrong: nobody has heard of a stream before its `StreamOpen` is
  sent (`Unopened`), nothing is written before it is open (`Unwritten`), and before a dial
  nothing passes the session (`NotPassed`, `NotEntered`). When the recv buffer is
  created, after the entry, it replaces none (`BufferAfterEntry`).
* What `deliverFn` looked up is the entry of that opener and its channel is open
  (`LoopEntry`, `Found`, `EntryOpen`), so a payload is lost only to a full channel.

`WriteChOwned` is `EntryOpen` and its converse, `OpenKept`: `EnterStream` is the only
step that opens a channel and it enters the stream under the same lock, and whatever
takes the entry out of the map, the removal of the session included, closes the channel
with it.

The step that takes work is `Insert` (`InsertHolds`): it hands over the longest run
that begins at the expected number (`FlushedMaximal`), and keeps exactly the rest.

### Sessions and ring

`TrackerExact` is inductive with three facts about who can hold a token:
`TokensDrawn`, `UpHasToken`, and `HandshakeFirst`, without which a removal could meet
the handshake that is still registering.

`CloseIsTruthful` is proved with `TombsDead` on top of this (`CInv`). Three paths
send a close, and the invariant follows each past the moment it was sent: a
tombstone keeps answering after the removal, so it must stand for a session that
is gone or has been notified; a notified session never serves again, since
`HandshakeFirst` keeps the end of a handshake from restarting its loop; and a close
that outlives a restart names a token that is not drawn again (`TokensDrawn`).

For the ring, `Walked` and `ErrRemembered`
say what `ConnectAny` has dialled and heard at position `i`, and `Rejections` that
a server which has the key is never marked, by whichever dialer.

### Sites

The type invariant of `Sites` holds the references of the schema: a user row or a
discovered domain belongs to a site of the catalog, a device to its user. The
operations of the daemon and the cascades of the admin interleave; each step keeps them
on its own (`DbOK`, `AuthOK`), given that a call that
is about to write names a site (`CallsOK`). `UserRowsGone` is inductive with these:
an add is refused, and the `UPDATE` of a toggle whose `SELECT` saw the row finds none.

`RevocationFinal` says when a revocation is complete: the device is gone, the cache
does not hold it as found, and no request that was let in before is still to be
applied, nor a lookup that read the row still to be cached (`Revoked`). That no step
leaves `Revoked` and none writes to the tables of sites, but for the admin's
deletions, is `RevokedStep`, action by action; that `Revoked` comes about is the
liveness property `RevocationTakes`. A lookup that fails must count as "not
found" for it, as it does in `GetDeviceByKey`: with the opposite choice the mutant
`ReadDeviceFailOpen` lets a deleted device in.

### Only model-checked

* Liveness (`PacketResolved`, `WindowReopens`, `KillSwitchReleases`,
  `DeadTransportNoticed`, `FailoverReaches`, `OrphanTransportCloses`,
  `OrphanSessionRemoved`, `PacConverges`, `RevocationTakes`): the prover does not
  reason about fairness.

## Findings

* `tunnel_stop`. `stopLocked` closes `stopHealth` and sets the field to nil;
  `reconnectTransport` reads the field at the head of each attempt, so a `Stop`
  during its sleep or dial is not seen and the loop goes on, against its comment
  (`tunnel.go:728`). `engine.go:71` states the rule the tunnel breaks.
* `udp_close`. `Close` of the UDP transport sweeps the streams (`udp.go:442`) before it
  closes the socket (`udp.go:457`), and `OpenStream` checks the flag long before it
  registers. A stream registered after the sweep can still be sent, because `AcquireSlot`
  may take a slot of a closed controller; of UDP type it is returned, and no one closes its
  `done` channel, against `udp.go:431` ("tears down the transport and all streams").
* `ring_two_dialers`. `NoteFailure` advances from wherever the ring is, not from the
  server that failed. Two loops that fail together on the first of two servers
  advance twice and never dial the second, against `servers.go:13-17`.

## Behaviours of the code that the models contain

They follow from the steps of the modules. No property says the contrary; the
properties above say what holds in spite of them.

* Engine: a flow that has passed the status check is tracked after the sweep
  and relays through a Reconnecting engine (`engine.go:1389`), so the kill switch
  of the engine is weaker than its comment (`engine.go:192`) reads. The tunnel
  tracks first.
* Engine: `/tun/start` on an Active engine sets its transport, then `Start` stops
  the engine and with it that transport; the engine comes up without one and
  its new loop finds that at the first failed health check.
* Server: `deliverFn` can send on a `WriteCh` that `RemoveStream` has closed between its
  lookup and its send (`listener.go:283`), and a goroutine can call `sess.ARQ` after the
  removal of the session has set it to nil (`listener.go:541`); either ends the process. A
  `streamWriter` that starts after the removal ranges over nil and never ends.
* Client: a read error ends `recvLoop` and leaves the transport up (`udp.go:208`); a stream
  opened after that has no reader and waits for its own or the dead timer.
* Server: data of a UDP-type stream that overtakes the goroutine of its open is
  acknowledged and lost.
* Client: a `MsgStreamClose` that overtakes data cuts the tail off; a full
  receive channel loses a payload the ARQ layer has acknowledged.
* Sites: `RebuildPAC` writes back a `proxy_all` flag that may have changed; of
  two toggles in overlapping transactions the older one can win.

## Not modelled

* Encoding, handshake format and cryptography: sequential, covered by unit
  tests. That `EncodePacket` fails after a slot was taken is a hazard without
  a model.
* The TLS transport (`tls.go`), each of whose streams is one connection; a
  `Close` of an Auto transport that races a swap.
* The rate estimate, the pacer and the tokens of `notify`.
* Raw UDP, NAT and the matching of rules in the engine, and `UDPRetryPlan`, whose
  timing is nondeterministic in `Engine` and `Tunnel`.
* Binding of a device to a machine: one of the reasons for which a connection is
  not admitted.
* Statistics, logs, changelog, topology, landing page, admin pages, user
  interface, and the helper's route commands.
* The config service: single SQL statements behind HTTP handlers.

## Plan

1. Done: `ArqSession`, `Tunnel`, `ServerRing`, `UdpStreams`, `Engine`,
   `ServerSessions`, `Sites`, and the theorems above.
2. Done: every invariant and every action property of a passing run is a theorem;
   of the temporal properties, the refinement of the FIFO is.
3. `AutoTransport`: `Close` racing a swap, `UDPRetryPlan`.
4. Congestion tokens: `AcquireSlot` waiting on `notify` while the window moves.
5. Config notifications and device binding.
