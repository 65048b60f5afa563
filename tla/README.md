# intraportmap in TLA+

intraportmap maps a port of an inner network to a public server. A client keeps
a control connection to the server and asks it to listen on an address; whoever
connects there (a *visitor*) is joined to the mapped host through the client.
The same is done for UDP with sessions. This directory holds models of that
program, what TLC checks about them and what TLAPS proves about them. Paths are
relative to `src/` of the repository unless they say otherwise.

To check a run: `tlc -config MCRelay.cfg MCRelay.tla`. To check the proofs of a
module: `tlapm RelayProofs.tla`. `PROJECT.json` lists the runs, for each
property a mutation of the code that TLC must find, for each definition the
lines of the source it stands for, the hazards, the findings and the theorems.

## The system

One thread runs everything: libevent calls a callback when a socket is ready, a
timer is due or a name is resolved, and a callback runs to its end. So there are
no data races and each callback is one action of a model. What is hard is that
callbacks come in any order, that each can fail in the middle, that objects are
owned through maps and freed from within their own callbacks, and that the other
side of every connection is a different process which may stop, restart or say
the same thing twice.

| Component | State it keeps | Operations | Hard behaviour | Correct means |
|---|---|---|---|---|
| **TCP relay** `ipm_relay` | per side a socket, one buffer with `pos` and `len`, two event flags | `attach`, `start`, `on_read`, `on_write`, `on_close`, `exit` | partial sends, a slow side, a FIN or reset in the middle, data read behind the handshake | bytes are passed on once and in order; no direction stalls; a FIN is the end of all that was sent |
| **TCP server** `ipm_server`, `ipm_server_agent`, `ipm_server_tunnel` | accepted connections `sbe_bufferevent`; agents by connection (`msa_agent`) and by address (`asa_agent`), each with a listener; tunnels by index (`mst_tunnel`) with join timer and early-close watch; the index counter | accept, allocate an agent, accept a visitor, join a tunnel, time-out, early close, failures of each | a client that comes back before its old connection is known to be dead; late or repeated joins; a hand-over that fails half-way; edges reported once | one owner for each connection; the maps agree; a join reaches its own visitor; no visitor waits for ever |
| **TCP client** `ipm_client`, `ipm_client_tunnel` | state, name query, timer, control connection with unread packages, tunnels by index with two connections each | look up, connect, reconnect, read packages, start and end tunnels, exit | names resolved inside the call that asks; several packages at once, some of which cannot be served; an index announced twice; either connection of a tunnel first | always after exactly one thing; the map has the tunnels that live; a relay starts when both ends are ready; traffic outlives the control connection |
| **UDP client** `ipm_client_udp` | state, clocks and counts of heartbeats, the socket to the server, sessions by number with a socket and a timer each | register, heartbeat, reconnect, pass packages on, age sessions, exit | loss, delay, duplication; a server that restarts; names resolved inside the call | a silent server is noticed; a good one is found; a package goes out by its own visitor's socket |
| **UDP server** `ipm_server_udp`, `ipm_server_udp_agent` | agents by address with the client's address and a heartbeat timer; sessions by visitor (in the agent) and by number (global), each with a timer; the number counter | register, pass packages on, age sessions, drop agents | two tables for one session; numbers known to a client that outlives the server; limits | the tables agree; a package reaches its own visitor or nobody; agents outlive what their clients recover from |
| **UDP batches** `ipm_udp_io` | datagrams held back for one GSO call, a GRO batch being split | `add`, `flush`, `read`, `next` | order against other destinations and lengths, the limits of the kernel, failing in the middle | the datagrams sent are those added, in their order |
| **Wire types and intervals** `ipm_types.h` | - | package layouts, the intervals and counts | intervals of two processes against each other | see UDP client and server |
| **Program** `intraportmap`, `main` | options | parsing, start-up, signals | options that are accepted and make no sense | - |
| **Utilities, CRC, log, platform** | - | conversions, checksums, output, shims | - | - |

How they interact. `ipm_server` owns agents and tunnels and hears of their ends
by `on_interface_..._fail`; `ipm_client` owns its tunnels in the same way. A
tunnel of either side owns an `ipm_relay`, to which it hands the two sockets
once both are ready. Client and server exchange two packages over TCP: "listen
on this address" with the checksum and no index, and "a visitor came, its index
is i", which the client sends back over a new connection to join it. For UDP a
single package is registration and heartbeat, its echo the acknowledgement, and
data carry a session number; everything goes through one socket on either side.

## Modules

| Module | Models | Composes or refines |
|---|---|---|
| `Pipes` | what a tunnel promises its two peers | - |
| `Relay` | `ipm_relay.cpp` with two kernels' queues and two peers | implements `Pipes` |
| `TcpServer` | `ipm_server.cpp`, `ipm_server_agent.cpp`, `ipm_server_tunnel.cpp` with any clients and visitors | - |
| `TcpClient` | `ipm_client.cpp`, `ipm_client_tunnel.cpp` with any server and mapped host | - |
| `UdpLink` | registration and heartbeat: the state machine of `ipm_client_udp.cpp` together with the agent of `ipm_server_udp.cpp` and `ipm_server_udp_agent.cpp` | client and server over a network |
| `UdpSessions` | the session tables of the same files, several mappings and visitors | client and server over a network |
| `UdpAging` | the timers of one session on its two sides | client and server over a network |
| `UdpForwarding` | what passing datagrams on promises | - |
| `UdpBatch` | `ipm_udp_io.cpp` and the read callbacks that use it, on one socket | implements `UdpForwarding` |
| `TcpSystem` | one client and its server, connections that break, restarts of either | composes `TcpServer` and `TcpClient` |
| `MC...` | the instances TLC checks | |
| `...Proofs` | the theorems, one module for each of the above | |

### Relay

Side `id` has `buf[id]`, the bytes of `buf[0, len)`, and `pos[id]`; `reading` and
`writing` are the flags `is_reading` and `is_writing`, which say which events are
added. A byte is `<<side, position>>`, so that order, loss and duplication can be
seen. `Attach` is `attach_side`, with `k` bytes that libevent had already read and
which may be more than the buffer's size; `OnRead` and `OnWrite` are the two
handlers with the `update` that ends them, which may itself fail and close. The
kernel is `inq` (received, unread), `fin`, `rst`, and `inflight` (accepted by
`send`, not taken by the peer), which lets `send` take part of a buffer or
nothing. `handed` is everything `send` ever accepted.

`Pipes` says the same without buffers, events or sockets: two sequences, of which
the other side hears longer and longer beginnings, and an end that comes when one
side has ended and was heard to the end, when one is gone, or when something
could not be allocated. `Relay` implements it with `said <- Stream(id, sent[id])`
and `heard <- handed`, liveness included: bytes get through to a peer that goes on
taking (`Takes`), whatever the other one does.

### TcpServer

A `Bev` is a bufferevent's address: freed ones are allocated anew. `cb` says
whose callbacks are set on it; `sbe`, `msa`, `asa`, `bound`, `visitorOf` and
`clientOf` are the maps. A client is not modelled as a process: any connection
may at any time ask for an address, join an index (right, old, repeated or never
issued), send rubbish or fail, which covers every client and several at once. The
fatal branches of the code ("msa_agent error" and the like) set `health` to
`"fatal"`, freeing what is freed already sets `"misuse"`. `alloc_agent` with its
eviction is one action; each point at which it, `client_connected` or the
accepting of a visitor fails is an action of its own. `Restart` is `exit` and
`reset`, or a kill, and the next start: the sockets are closed, and what the client
was told is void; `exit` goes through the maps one after the other, and that it
frees nothing twice (`FreesOnce`) is part of `Healthy`.

`edge` is the event the kernel has still to report for a visitor's socket under
`EV_ET`: reported once, and not again because data is still unread. `EarlyClose`
says whether the platform has that at all.

### TcpClient

`Tunnel` is a set of objects, `mst` the map from index to object, `tun` what an
object is (its index, how far its two connections are, whether the relay runs) or
`Freed`. `input` is what has arrived and is not yet read, `Bad` a package with a
wrong checksum. One reading of the buffer is one action: it handles all packages
(`ReadsAll`), stops at a bad one (`ReadsBad`), or stops at one whose tunnel cannot
be started (`ReadsUntilStartFails`). A literal address is resolved inside
`evdns_getaddrinfo`: `QueryAnsweredAtOnce` and `QueryFailsAtOnce` have the
callback run first and the caller's assignment of `DNS_QUERYING` after it. A
`connect` is taken to fail either at once by its return value or later by an
event, never by a callback from inside it, as libevent has it.

### UdpLink

Time is discrete: `Tick` is one second and the client's `on_tick`. The clocks
(`sinceSend`, `sinceRecv`, `waited`, `hbAge`) stop where no comparison of the code
tells larger values apart. An address of the client is `"current"` or `"old"`,
because each reconnection opens a new socket. `env` goes from `"fine"` (nothing
lost, late or restarted yet) over `"lossy"` (packages may be lost, but none is late)
and `"rough"` (anything may be) to `"calm"`; except in rough surroundings a package
and the name service's answer arrive before the next second. `recovering` is a history
variable, which no action looks at: the client's link broke, and since then no attempt
to come back has failed. `busy` says
whether visitors send data: data tell the client that the server is there and,
as the finding below shows, keep it from telling the server the same.

### UdpSessions and UdpAging

`UdpSessions` has `mss_session`, `mis_session` and `session_seq` of the server,
and each client's `mis_session` as `hosts`. Time-outs, deaths and failures come at
any moment. A package under way stays under way: so it may arrive twice, late, in
any order, or never. It carries a number and, as its payload, the visitor and
mapping it is about; `astray` collects those handed to a socket of somebody else.
The seed of a restarted server is random among 2^64 numbers; the model lets the
count go on, which is what a seed out of reach of the old numbers does.
`NextId` wraps at `MaxId` and skips 0 as the code does; `issues` keeps a number
from being given twice, which the code leaves to the size of 2^64.

`UdpAging` is one session of one visitor with both its timers and a network that
takes up to `Delay` seconds; it tells when the client's session ends before the
server's.

### UdpBatch

One socket and its read callback. `Arrive` and `ArriveMerged` are the kernel without
and with GRO; `Read` is `ipm_udp_recv::read`; each `Turn` is one turn of the
callback's loop: `next`, the look-up, `add` with the `flush` it may need; `Return`
is the end of the callback, where the destructor flushes. A byte is `<<datagram,
position>>`, so that a cut in the wrong place, a swap or a loss can be seen. The
two kinds of sockets (`down`) are the control sockets, which take the session
number off, and those of visitors and mapped hosts, which put it in front. A
flush is one call of the kernel, which may take or drop the group as a whole, or
refuse it, when `send_each` tries its packets one by one; `EIO` ends the program.
`tx` is what the kernel was asked to send after it has cut groups apart
(`OnWire`), which a kernel that does not know `UDP_SEGMENT` does not do.

Datagrams that GRO merges are equally long but for the last, so within one
callback `can_append` says no only at the limits, when the session changes, and
behind a short one. That this is enough is what `SentAsCame` and `GroupFits` say.

`UdpForwarding` is the program without GRO and GSO: what came is tried one by one.
`UdpBatch` implements it: what came (`MustGo`) are the datagrams of `arrived` that
have a session, in their order and as they must go out; what was tried
(`Attempted`) is `tx` without the numbers that only the model counts.

### TcpSystem

`S` is an instance of `TcpServer`, `C` one of `TcpClient`; each action of the
system is an action of one or of both together with the network between them.
`peer[b]` is the client's end of the server's connection `b`: its control
connection, one of its tunnels, or nobody any more. `request[b]` is what the client
has sent on it first and the server has not read: so a request of a connection the
client has given up may be read after that of its next one. `penetrates` are the
packages on their way to the client. A connection is closed by one side and noticed
by the other later (`ControlEnds`, `ServerNotices`, `TunnelEnds`), or it breaks.
Either program is stopped and started again at any time. What visitor and host say,
and the visitor's leaving before the join, are left to `TcpServer` and `Relay`.

A late request of an earlier connection may take the address away from the
connection in use. The server closes that one, so the client comes again; that this
ends, and with the address mapped, is `MappedAtLast`.

## Runs

| Run | Instance | Shows |
|---|---|---|
| `MCRelay` | 3 bytes each way, buffers of 2, kernel buffers of 1 | types; nothing lost, repeated or reordered (`NothingLost`); no direction without the event that advances it (`NoStall`); a close at a FIN comes after all data (`EofDeliversEverything`); every byte is handed over to a peer that takes what it is sent, also when the other one takes nothing, unless the tunnel closes (`EveryByteHanded`); a FIN closes it (`FinCloses`); the relay is a pair of pipes (`ImplementsPipes`), which also means that it takes only a FIN for the end |
| `MCRelayZero` | buffers of 0 | finding 1 |
| `MCTcpServer` | 3 connections, 2 addresses, 2 visitors, indices 1 and 2 that wrap, restarts | no fatal branch and no double free (`Healthy`), one owner each (`OneOwner`), maps and listeners agree (`MapsAgree`), waiting tunnels have a deadline and joined ones none (`Guarded`), a join reaches its visitor (`JoinReachesItsVisitor`), no visitor's socket is forgotten (`VisitorsOwned`), an address can always be taken over (`ReclaimPossible`), only its relay or the program's end ends a joined tunnel (`JoinedOnlyEndsByRelay`); the timer alone ends every wait (`WaitingEnds`); a visitor that leaves is noticed without it (`LeaverNoticed`) |
| `MCTcpClient` | 2 indices, 4 objects, 2 packages at once | `NeverFatal`, `MapFindsTunnels`, `OneAttempt` (which says for each state what timer, query and connection do, and that packages are read in `RUNNING` only), `RelayNeedsBothEnds`; a relay outlives the control connection (`RelayOutlivesLink`); the client is connected again (`ComesBack`); each tunnel relays or ends (`TunnelsSettle`) |
| `MCTcpClientLeft` | the same | finding 2 |
| `MCUdpLink` | the constants of `ipm_types.h`, `-w 15` | a silent server is noticed in 25 s (`SilenceNoticed`), a working link is up again in 18 s (`BackInTime`, quiet visitors), the server drops no agent while its client runs, nor, where packages are only lost, while a client whose link broke waits and makes its next attempt (`AgentOutlivesClient`, quiet visitors), the client is served again and again (`ServedAgain`, busy ones, too) |
| `MCUdpLinkKilled` | the same | finding 3 |
| `MCUdpSessions` | 2 mappings, 2 visitors, numbers 1 to 3 that wrap, room for 2 sessions | the two tables agree (`TablesAgree`) and no package goes astray (`NoneAstray`) |
| `MCUdpAging` | the lag of 10 s, a short `-T` of 6 s on both sides, delays up to 4 s | the client's session outlives the server's (`ClientOutlives`), the host sees one port (`SamePort`) |
| `MCUdpAgingDiffer` | `-T 30` on the client, 180 on the server | finding 4 |
| `MCUdpBatch` | 4 datagrams of up to 3 bytes, 2 sessions, groups of at most 3 packets or 4 bytes, both kinds of sockets, with and without `-G` and kernels that have it | each datagram that goes out is byte for byte one that came, with its number put in front or taken off, and goes where it belongs (`SentAsCame`); in order, each once, and none is left over when a callback has returned (`InOrderOnce`); the kernel can cut every group (`GroupFits`); all that came is tried (`ImplementsForwarding`) |
| `MCTcpSystem` | 2 connections at a time, 1 address, 2 visitors, indices 1 and 2 | a visitor that is joined is joined to the client's tunnel of its own index, so that nobody is connected to the host as somebody else (`EachToItsOwn`); a visitor's and a host's tunnel that have met are parted by nothing but a relay that closes or a program that ends (`MetUndisturbed`); with no more trouble the address is mapped at last, whatever is still under way (`MappedAtLast`); no tunnel of the client holds on to the host for nobody (`TunnelsMeet`) |

The types (`TypeOK`) are a theorem for every module, and so not an invariant of most
runs; those of `TcpSystem` are parts of `SystemInv` and `EndsOK`.

**Why the bounds are enough.** `Relay`: with a buffer of 2 and a kernel buffer of
1 a send may take all, part or nothing; 3 bytes are more than a buffer holds, so a
side is read, stopped and read again, and what is attached may exceed the buffer.
`TcpServer`: an old agent, a new one for its address and a connection that joins
need three connections; two addresses let a wrong one be evicted; two visitors let
a join reach the wrong one; `seq` starts anywhere, so the wrap and the skipping of
0 happen. At most `MaxIndex` indices are issued (`issues`), since 2^64 of them
are out of reach; two let one tunnel be joined while another waits. `TcpClient`:
`MaxArrive` packages arrive at once and `MaxInput` wait; two are enough for one behind another that fails, and for the same index
twice; a callback needs at most as many new objects as packages, on top of those
it replaces. `UdpLink`: the real constants; at most one package of a kind is under
way, since two say no more than one. `UdpSessions`: two of each let a package go
to the wrong one; the limit is smaller than what the visitors ask for. `UdpAging`:
a delay of 5 s, or one lost package of the visitor, and `ClientOutlives` fails: the
bounds are tight, and the theorem says so for all values. `-T` enters the two
lifetimes alike, so a short one shows what a long one does. `UdpBatch`: with
lengths 0 to 3 and limits of 3 packets and 4 bytes either limit may be met first, a
short packet ends a group and an empty one interrupts it, and a number of one byte
lets a datagram be too short for it; four are one more than a group takes.
`TcpSystem`: with one connection more than the client's control connection or
tunnel needs, the server still has an old one to read; each visitor comes once, so
that one tunnel is announced while the other relays; one package arrives at a time,
as several at once are a matter of `MCTcpClient`; and `seq` starts at 0, where it
starts being a matter of `MCTcpServer`.

**Fairness.** `Relay`: the event loop calls a handler whose event stays ready; what
is said of a direction supposes that the peer it leads to goes on taking.
`TcpServer`: no fairness in the specification; `WaitingEnds` has as its premise
that a pending timer fires, `LeaverNoticed` that a reported edge is handled, each
without the other. `TcpClient`: who asks again and again is answered, finds an
address and reaches the server at last (strong fairness, since each attempt may
fail before), a pending connect of a tunnel succeeds or fails, and twelve bytes
fit into a new connection's buffer. `UdpLink`: seconds pass however much happens
within one, packages arrive, name queries are answered, a due timer fires; nothing
makes the surroundings calm. `UdpBatch`: a socket that stays readable is read, and a
callback runs to its end. `TcpSystem`: the retry timer fires, name servers answer and
a stopped program is started again (`LinkGoesOn`); what is readable is read
(`Delivered`, `ServerReads`); a tunnel's connects succeed or fail (`TunnelGoesOn`), that
of the control connection succeeds at last when it is tried again and again (`Dial`,
strongly fair); and the end of a connection is noticed at its other side
(`ControlEnds`, `ServerNotices`, `RelayGoesOn`), which keepalive sees to even if
nothing arrives (`ipm_client.cpp:306`, `ipm_client_tunnel.cpp:120`, `:139`,
`ipm_server.cpp:197`, `ipm_server_agent.cpp:190`). `MappedAtLast` has as its premises
that failures end (`Trouble`) and that the bound `Bev` leaves room for a connection.
The other specifications have safety only.

**Deadlock** is not checked for `Relay`, where a closed relay ends everything, for
`TcpClient`, where `exit` does, for `TcpServer` and `TcpSystem`, where each visitor
comes once, and for `UdpBatch`, where a bounded number of datagrams come and the
program may refuse to start.

**Symmetry** is used in `MCTcpClientLeft` and `MCUdpSessions`, which check no liveness.

## Findings

1. `-b 0` is accepted (`intraportmap.cpp:251`) and makes every tunnel close at its
   first byte: `recv` with a length of 0 returns 0, which `ipm_relay.cpp:123` takes
   for a FIN. `ipm_relay.h:7` has a tunnel close at a FIN or an error.
2. `ipm_client.cpp:245` says that a tunnel may fail to start; when one does, the
   packages behind it stay in the buffer (`goto end` at :250) until the server
   says something more, and their visitors wait.
3. A busy UDP mapping loses its agent, with all sessions, 60 seconds after its
   registration: data the client receives put its heartbeat off
   (`ipm_client_udp.cpp:382`, `:517`), and the server's `hb_timer` is set by
   registrations only (`ipm_server_udp_agent.cpp:141`). `ipm_types.h:111` has the
   time-out leave a client time to recover; here there is nothing to recover from.
   The next heartbeat makes the agent anew, with new session numbers.
4. The client's session is to live longer than the server's (`ipm_types.h:116`).
   Each side goes by its own `-T` and the README of the program gives one to the
   client only (`README.md:32`): then the client's ends 140 seconds earlier. Even with equal `-T` one
   lost package of the visitor is enough (`Lossy = TRUE`): the server set its timer
   at a package the client never saw.

## Proofs

All theorems hold for every value of the constants that satisfies the assumption of
the module (`ConstantsAssumption`; `SystemAssumption` of `TcpSystem`, which has those
of its two components follow), and what the theorem's own hypotheses say. Only the
last two of `UdpLink` need more: `TimeoutsAssumption`, and one of them `WaitFits`. TLC evaluates each
assumption for its run.

- **RelayProofs.** `TypeCorrect`; `ConservesBytes` (`NothingLost`), `NeverStalls`
  (`NoStall`) and `EofIsTheEnd` (`EofDeliversEverything`, `ClosesOnlyAtFin`) for `BufferSize > 0`, any
  sizes and any number of bytes. The inductive invariant `IInv` adds to these what a
  step needs: a buffer is empty or has something left to send, a side that is not
  attached has an empty buffer, and what a side was handed is a beginning of what
  the other sent, closed or not. The lemmas about `SubSeq` and concatenation
  (`Split`, `Moved`, `PrefixOfStream`) say that a send moves bytes from the buffer's
  end of the stream to the other side's. `IsAPairOfPipes`: what `Relay` does is what
  the safety part of `Pipes` allows; each handler hands over the next bytes of a
  pipe, ends the tunnel for one of the three reasons, or changes nothing a peer sees.
- **TcpServerProofs.** `Owners` (types, `Healthy`, `OneOwner`, `MapsAgree`) is
  inductive by itself: that the fatal branches are dead and nothing is freed twice
  depends on the maps, and the other way round; and so does that eviction frees the
  address (`ReclaimPossible`, which says it with the guard of `AllocOk`, as the prover
  has no `ENABLED`). `Tunnels` (`Guarded`,
  `VisitorsOwned`, `JoinReachesItsVisitor`) needs `Issued`: the indices told so far
  are a run of `issues` numbers, wrapping at `MaxIndex`, that ends at `tunnel_seq`;
  so the next one is fresh. `JoinedOnlyEndsByRelay` follows as an action property.
  All of it holds across restarts.
- **TcpClientProofs.** `Inv` has `LinkOK` (what each state means for timer, query
  and connection) and `TunnelsOK` (map, objects and relays). Reading a buffer is
  proved for any sequence of packages: whatever is announced how often, the objects
  after it are those of the new map. All safety properties of `MCTcpClient`, and
  `RelayOutlivesLink`, follow.
- **UdpLinkProofs.** `SilenceNoticed` for all intervals and counts: `Accounted` says
  that a running client has heard from the server within the idle time, or that the
  time since is at most the idle time, one retry interval for each heartbeat missed,
  and the time since the last one was sent. With quiet visitors, which finding 3 makes
  necessary, and under `TimeoutsAssumption` two more hold.
  `AgentOutlivesItsClient` (`AgentOutlivesClient`) has two parts. The server drops no
  agent whose client still runs, restarts and late packages included. `Ages` is what
  this needs: an acknowledgement under way was sent when the agent's timer was last
  set or later, so it is no older than the client has been asking, or silent; so a
  running client has last heard from its server at most `LongestUnheard` after that
  timer was set, and gives it up `DetectTime` later. `TimeoutsAssumption` says that the
  time-out is no shorter than both together, but for a second: 60 s against 25 s and
  25 s. It is not stronger than needed: with small intervals and a time-out one second
  shorter than it allows, TLC finds an agent dropped too early.
  And where packages are only lost, however many, the agent also outlives a client
  whose link broke until the attempt after its wait has failed, too: what
  `ipm_types.h:111-113` asks for. `RecoveryAges` follows the agent's timer through
  the client's states: not older than the client's silence while it runs, then than
  detection and what it has waited, then than both and the tries made. The theorem's
  hypothesis `WaitFits` says that detection, wait and the tries of one attempt take
  less than the time-out: 25 + 15 + 6 s against 60 s with the default of `-w`. The program
  checks no `-w`; with `-w 29` TLC still finds the property true, with `-w 30` or
  `-w 100` an agent dropped while its client is on its way back. Three conditions are
  necessary: a late acknowledgement makes the client start its 25 s up to 25 s after
  the timer was set, a name query may take its time, and a client that fails once more
  waits once more (61 s and more in all).
  `IsBackInTime` (`BackInTime`): since the surroundings became calm, whatever they were
  before, the mapping is served within `RecoverTime`, and stays so. `Recovering` bounds
  how long it has been calm in each state that is not served: an unanswered client
  has asked since (`AskedInTime`), a waiting one began to wait soon after
  (`WaitsInTime`), one that believes in an agent it has lost has not heard of it since
  (`BelievesForNow`); and an old address's registration that could still take the agent
  away is gone after a second (`Settled`).
- **UdpSessionsProofs.** `TablesAgree` and `NoneAstray`. `Issued` is
  the run of numbers as above; `Identify` says that whatever carries a number (a
  table of either side, a package under way) is about the session it was given to,
  and the number has been given.
- **UdpAgingProofs.** `ClientOutlives` and `SamePort` under `Matched`: no package of
  the visitor is lost, the client's `-T` is no shorter than the server's, and twice
  `Delay` is less than the lag. The invariant compares the two timers: with no
  package under way to the client its timer is at most `Delay` behind the server's
  (`InStep`); a package under way to it left before the server's timer ran out
  (`Reminded`); one of the host left after the client's timer was set (`Answered`);
  and after the client's time-out the session is over on both sides (`Over`).
- **UdpBatchProofs.** `TypeCorrect`, `SentAsTheyCame` (`SentAsCame`), `OnceInOrder`
  (`InOrderOnce`) and `GroupsFit` (`GroupFits`), for any lengths, limits and numbers of
  datagrams. The inductive invariant `IInv` follows the bytes on their way: what is in
  the queue (`Queued`), what is left of the reading (`Reading`) and what is gathered
  (`Grouped`, `Held`) are datagrams that came, one after the other, put together and cut
  apart at the same lengths; what was sent (`Sent`) is what came before them, in order
  (`Ordered`). `CutTogether` says that cutting undoes putting together.
  `ForwardsOneByOne` is the safety part of `ImplementsForwarding`: every step tries the
  next datagrams of those that have a session, as they must go out, or none, or stops.
  `TriedIsFirst` has it from `IInv`, by counting: `Place` numbers the datagrams with a
  session, `RoutedNumber` finds the one of each number, and neither changes when more
  datagrams come (`ComesOn`).
- **TcpSystemProofs.** The lemmas about the components are used here as they are,
  through instances of their proof modules (`SP`, `CP`): each action of the system is one of the
  server's, one of the client's, or both (`ServerActions`, `ClientActions`). `SystemInv`
  is the two components' invariants and one about what is between them, `LineOK`: the
  packages the client has not handled, read or under way, name indices that were told,
  none twice and none that a tunnel of the client has. This is what keeps a late package from
  replacing a tunnel, and so `MetStayMet` (`MetUndisturbed`). It holds since the server issues
  no index twice and the client drops the line with its control connection.
  `EndsOK` (`EndsInvariant`) says of each connection that its two ends agree: the
  request unread on it, or the index the server has joined it to, is that of the client's tunnel
  at the other end, however often bufferevents are freed and allocated anew.
  With what `TcpServerProofs` knows of the indices told this gives `EachGetsItsOwn`
  (`EachToItsOwn`). `ServerIsATcpServer` and `ClientIsATcpClient`: the system's server does
  what `TcpServer` may do and its client what `TcpClient` may do, or is started
  again, so that what is proved of these holds in the system.

**Model-checked only.** Liveness (`EveryByteHanded`, `FinCloses`, `WaitingEnds`,
`LeaverNoticed`, `ComesBack`, `TunnelsSettle`, `ServedAgain`, `MappedAtLast`,
`TunnelsMeet`, and the fairness of `Pipes` and `UdpForwarding` as implemented) is beyond
the prover. Every other property of a passing run is stated by a theorem.

## Not modelled

- `intraportmap.cpp`, `main.cpp`: sequential parsing and start-up. The value of
  `-b` is a constant of `Relay`, `-w` and `-T` are constants of `UdpLink` and
  `UdpAging`, and a stop by a signal is `Stop` of `TcpClient` and part
  of `Restart` of `TcpServer` and of the restarts of `UdpLink`.
- `util`, `crc32`: pure functions and system calls. A package with a wrong checksum
  is an input of the models.
- `slog`, `WinCompat`, `CxxRuntime`, `getopt`, build files: no state of the program.
- In modelled components: system calls that fail while a program starts, which ends
  it before it has done anything; a timer that cannot be added for want of memory; the
  second listener of a dual-stack address, which does what the first does; a read that
  is cut short by the buffer, which is as large as the kernel's limits; two clients
  that register the same UDP mapping at once; a wall clock that is set back. The fatal
  branch of a tunnel that ends without being in `mst_tunnel` (`ipm_server.cpp:166-171`) is
  left out of `TunnelEnds`: by `Guarded` no timer, watch or relay is left to call it.
- Time-outs that do not exist: an accepted connection that never says anything
  (`ipm_server.cpp:184`), and a peer that never reads again (`ipm_relay.cpp:190`), stay
  for ever.

## Plan

Done: the relay and its pipes, both TCP programs and the two together, the UDP link,
sessions, timers and batches, and the proofs of what is said of their safety. Left:

1. `UdpSystem`: `UdpLink` with the tables of `UdpSessions`, for what finding 3 costs
   the sessions, and its proofs.
2. Several clients in `TcpSystem` that ask for the same address.
3. Address and byte-order helpers of `util` as operators, if a property needs them.
