# RustBond: TLA+ models, checks and proofs

RustBond distributes virtual-network routes: clients announce routes to a server
and subscribe to VNIs, and the server passes every change on to the subscribers.
This directory models the parts of the library in which concurrency, failure and
ordering decide whether the routes are right, model-checks them with TLC on small
instances, and proves with TLAPS, for every size, all the safety properties that the
runs check.

File names are those of `src/` and `examples/`;
`PROJECT.json` maps every definition to its lines.

## 1. The system

| Part | State | Operations | Talks to |
|---|---|---|---|
| Routing actor (`server.rs` `RoutingActor`) | route table, owner of each route, subscribers of each VNI, one channel sender per peer | one `RoutingCommand` at a time: connect, disconnect, subscribe, unsubscribe, update | takes commands from a bounded queue (8192); `try_send` into the peers' bounded channels (50 000); a oneshot answer to SUBSCRIBE |
| Connection task (`handle_peer`) | its stream, its channel, the messages read and not handled | handshake, requests, snapshot to a new subscriber, batches of up to 1000 updates, keepalive timeout, cleanup | awaits the actor's queue and answer; writes to the client |
| Server lifecycle (`MetalBondServer`) | listener, shutdown channel, shutdown broadcast | start, accept, shutdown, drop | every connection task |
| Client calls (`MetalBondClient`) | announced routes (shared, locked), wanted VNIs | subscribe, unsubscribe, announce, withdraw, shutdown, remove_server_routes | one command queue (256) per server |
| Peer task (`peer_task`, `run_connection`) | connection state, subscriptions, received routes | connect, handshake, replay of subscriptions and routes, serve commands, apply updates, retry | the server over TCP; the route handler |
| Deduplication (`RouteOriginTracker`, `DeduplicatingHandler`) | servers that announced each route | add, remove, forget a server | called by all peer tasks; calls the user's handler |
| Handshake and keepalive (`run_connection`, `handle_peer`) | negotiated interval, time of the last read, timers | HELLO, KEEPALIVE, timeout | both ends of a connection |
| Route table (`route.rs`) | nested maps VNI, destination, next hops | add, remove, lookups | owned by actor, peer task, client |
| Wire codec (`wire.rs`), types (`types.rs`) | none | encode, decode, convert | streams |
| Netlink client and handler (`netlink.rs`, `examples/client.rs`) | VNI to kernel table; the kernel's routes outlive it | install, remove, clean up at start | kernel; called by the deduplicating handler |

What is hard here: tasks that wait for the actor while the actor feeds them;
commands of a dead connection that are still queued; a client that returns from
the same address, whose old task may still be there; a snapshot and a change stream that travel separately; handler
calls made outside the lock that decided them; a queue of commands that outlives
the connection it was meant for, next to a replay of the current tables; retry
waits that swallow commands; shutdown while connections come in; two ends that
write to each other and do not read; messages that arrive in pieces; kernel
changes made by tasks without order, in tables that others use too. The `hazards` of
`PROJECT.json` list each at its line.

What makes the parts correct:

* actor and tasks: nothing in the actor's maps outlives its peer; the cleanup of a
  connection follows everything that connection did; nobody waits in a circle;
* distribution: snapshot plus changes is always the server's table;
* deduplication: the handler hears of a route exactly once, and again exactly when
  the last server is gone;
* client: an announced route reaches every connected server, a withdrawn one does
  not come back, subscriptions survive a reconnect, shutdown ends;
* a connection: messages arrive whole and in order, a working link is kept, a dead
  one is noticed;
* netlink: none of an earlier process's routes survive, and the kernel has what the
  handler was told; where a request cannot be done, or a dump misleads, only the slots
  concerned suffer.

## 2. The modules

### RoutingServer

The actor, one `handle_peer` task per accepted connection, the channels and streams
between them, and shutdown.

| Variable | Code |
|---|---|
| `routes`, `route_owners`, `subscriptions`, `peers`, `cmds` | the fields of `RoutingActor`; `cmds` is `cmd_rx` |
| `purge` | progress of the loop in `handle_peer_disconnected`: whose routes, which are left, which slow consumers were met |
| `conn` | where the task is: `handshake`, `loop` (the select), `blocked` (awaiting room in the command queue), `subscribing` (awaiting the answer), `replay` (writing it), `cleanup` |
| `chan` | the task's `mpsc` channel; `peers` says whose channel the actor holds for an address |
| `snapshot` | routes of the answer not yet written |
| `kick`, `srv` | pending broadcast; running, closing (shutdown called or server dropped), stopped (accept loop gone) |
| `client`, `inbound`, `outbound` | the remote end and the two directions of the stream |
| `overlapped` | history: the connections whose task has lived at the same time as another of the same address |

A connection (`Conn`) has an address (`AddrOf`). Tasks, channels and streams are
per connection; the actor knows addresses only. The accept loop spawns a task whatever other
tasks there are, so when a client's connection was reset and it returns from the same
port, the old task may still be handling what it had read, or waiting for room in the command
queue. Then the old task's PeerDisconnected can come after the new one's PeerConnected, and
`handle_peer_disconnected` takes channel, subscriptions and routes from the new session, which
stays open; the actor still takes its commands, but has no channel to send it changes. The
model has all of this: `RoutesHaveLiveOwner`, `SubscribersLive`, `CommandsBeforeDisconnect`,
`OneAnswerPerSubscribe` and the refinement of the board hold with it, without exception.
`SessionsInOrder` says that this is the only way for two sessions to mix.

Each action is a whole handler: `ActorAdd` stores the route, sets the owner,
distributes and drops the slow consumers. `handle_peer_disconnected` is the one
exception: it is synchronous in the actor but runs while other threads drain
their channels, so its loop is one step per route and the actor takes no command
meanwhile. A task blocks where the code awaits: in the command queue, in the
oneshot, in `write_all`.

Abstractions. A key is (VNI, destination with next hop). Streams carry whole
messages. `write_all` puts its messages on the stream and holds the task while
more than `SockCap` are unread. The handshake is one step that a client may delay
for ever or abandon (Connection has its steps). Timeouts, I/O errors and undecodable input are `LoopError`,
possible at any time. `GetStats` and the map `ServerState.peers` (statistics) are
left out.

`RouteBoard` is what the actor promises, without tasks, queues and channels: a board of
routes and subscriptions that only members change, each between joining and leaving.
Members are connections, but the board knows them by their address: a member that joins
finds nothing of earlier sessions of its address unless one of them goes on, and the first
member of an address to leave takes away all there is of the address, before anything else
happens. `ImplementsBoard` says that the server is one. A member is a connection whose
registration the actor has taken and whose disconnect it has not, which is a matter of what is
queued (`InSession`); routes, owners and subscriptions are the actor's; `leaving` is the address
of the loop in `handle_peer_disconnected`.

### RouteDistribution

EXTENDS RoutingServer by what each client holds: `received` follows every message
the client reads, is cleared for a VNI on Unsubscribe, and is forgotten with the
connection (`peer.rs` 221, 335-391, 438-483). `wanted` is the client's set of
subscriptions; `touched` and `left` are history used to state exceptions. Every
step is a step of RoutingServer together with `Observe`.

### RouteDedup

`RouteOriginTracker` under one peer task per server and the user's
`remove_server_routes`. The critical section (`AddOrigin`, `RemoveOrigin`) updates
`origins` and decides on the handler call; the call (`MakeCall`) is a later step of
the same thread. `net` counts add_route minus remove_route calls, `fib` is what a
handler that installs and removes routes ends up with. Removal loops (on
unsubscribe and on disconnect) are one step per route. `ShutdownPeer` leaves the
routes in the tracker, as the code does.

`OneServer` is what the user's handler is promised: one source of routes, of which it is
due a call when a route appears, one when it vanishes, and no other. `ImplementsOneServer`
maps the routes with an origin to those present and the threads that have decided on a
call to the calls due. When a due call is made is left open, since the code leaves it open;
the run `dedup_race` shows what follows.

### PeerSession

The client as its servers see it. A call updates the shared tables under their
locks, then visits the peers in any order (`Visit`: reads the connection state)
and queues its command (`SendCommand`: waits for room). A peer task connects,
greets, replays its subscriptions (`Resubscribe`) and the announced routes
(`Reannounce`, under the read lock: `Writable`), serves its queue, and after the
connection ended waits: a command ends the wait and is dropped unless it is
Shutdown; with no command the task sleeps until the timer. Between the end of a
connection and `CleanUp` the connection state still says Established. `OwnStep` is what a task does by itself,
`StreamStep` what it does only once a write has ended or the server has answered. `lost` and
`raced` are history: VNIs whose last call did not get through, and routes and VNIs
with overlapping calls. `remote` is
what the server keeps for the current connection; that it forgets everything with
the connection is what `DisconnectWithdraws` checks of RoutingServer. The
received routes are RouteDedup's and RouteDistribution's subject and left out.

### RouteTable and RouteSet

`RouteTable` has the nested maps of `route.rs` as they are: a map is a function whose
domain is the keys present, a level appears with its first route, and
`remove_next_hop` removes the levels it empties. `ret` is the answer of the last
operation. `RouteSet` is what the other modules take a route table to be, a set of
(VNI, destination, next hop) with the same operations and answers, and
`ImplementsSet` says that the maps, seen through `get_all_routes`, are such a set.

### Wire and PeerReceive

`Wire` is the codec. A message is a sequence of bytes: four of header, then the bytes
of a protobuf value. Protobuf is external: the bytes of a value are opaque tokens, as
many as its length, that decode to the value only when all of them are there in order.
The length field is two digits to the base `ByteSize`, put together and taken apart as
in the code. A value whose fields are all defaults has no bytes, so that a SUBSCRIBE of
VNI 0 is a bare header. `DestinationOf`, `NextHopOf` and their inverses are the conversions of
`types.rs`, with the cuts to 8 and 16 bits and the target VNI whose 0 means none.
`IsMessage`, `IsDestination` and `IsNextHop` are the Rust types of what is encoded.

`PeerReceive` EXTENDS RouteTable and Wire: the server writes messages (or bytes of
another version), reads return any number of bytes, the loop over `msg_buf` decodes
and handles, `received_routes` is the RouteTable itself, and `told` counts the handler's
calls. Unsubscribe, Shutdown, the end of the connection, the cleanup and the next
connection are actions too. The server's loop in `handle_peer` is the same.

### Connection

One connection from its first byte, both ends. `c` and `s` say where the two tasks are;
`cout` and `sout` are what each has left to write, and while there is something left the
task does nothing else: that is what an `await` inside a select branch means. `ctimer`
and `stimer` count down to the next tick of the client's interval and to the end of the
server's sleep, which every turn of its loop restarts; `csince` and `ssince` count up
from the last read. A tick is half a second, so that 5/2 of an interval is a whole
number. Time passes only when nothing is ready (`Urgent`), and a message is read at
most `Delay` ticks after it was written; `ConnectionAssumption` has a round trip take less
than timeout minus interval, for the client's interval and for every one a server offers.
`held` is history: since its last read the client has waited for room to write. `LinkDies` stops delivery for good, and a read
of the handshake that gets only a part of its message (`ClientSplit`, `ServerSplit`)
ends the connection. A write that waits on a dead link or for an end that has gone may
fail at any time, as TCP decides. The client's failed write ends its connection. The
server only logs a failed answer and handles the rest of what it has read, whose answers fail
as well, until its next read fails (`ServerWriteFails`).

### Netlink

`NetlinkClient` with the `NetlinkHandler` of the client example. Every handler call
is a task; an add is one request, a removal a dump (`RemoveLookup`) and a deletion
(`RemoveDelete`), and the tasks interleave freely. Any request may fail, which the task
prints and nobody tries again (`TaskFails`; `CleanupFail` for a deletion of the cleanup).
`Start`, `CleanupDump` and `CleanupDelete` are the cleanup of a new process, `Stop` ends it at
any point, by ctrl-c, an error or a crash, and the kernel's routes stay.

The kernel is external. It keeps one route per table and destination, with the host bits
of an IPv6 destination cut (`KernelDest`). A dump shows no destination for prefix length
0 (`Default`), and a table number above 255 in an attribute only, while the 8-bit header
field says `CompatTable`. `Matching` compares what a dump shows as the code does: the
destination as it was given, and the header field with the table number cut to 8 bits. So a
default route and an IPv6 prefix with host bits are never found (`Shown`), and a route of
table 44 is taken for one of table 300 (`Mistaken`). `OthersAdd` is everybody else who adds
routes. `contested` is history: the slots (table and destination) of overlapping tasks and of
other programs, and those where a request failed or a dump misled.

`Requested` is the route that the code asks for. An IPv4 route has no gateway
(`netlink.rs` 146), although `src/README.md` 121 has the next hop as the gateway of every
route; `KernelFollows` compares the kernel with what the code requests.

## 3. The runs

All "pass" runs finish without error. Bounds are constants of the modules.

| Run | Checks | Bounds | What it shows |
|---|---|---|---|
| `server` | TypeOK, RoutesHaveLiveOwner, SubscribersLive, CommandsBeforeDisconnect, SessionsInOrder, OneAnswerPerSubscribe, ImplementsBoard, ShutdownCompletes, no deadlock | 2 addresses, 2 connections, of one address or of both, 2 requests, 1 VNI, 1 route, queue of 2, channels of 1, `SockCap` 0 | full channels, full queue, reconnects to the same address before and after the old task has ended, and shutdown, in every interleaving, leave nothing orphaned; shutdown and drop end every task, also those accepted meanwhile, if clients go on reading |
| `distribution` | SubscribersConverge, RoutesDelivered, RequestsServed, DisconnectWithdraws | the same with 3 requests and a queue of 1, no shutdown | snapshot and changes add up to the server's table and reach the subscriber; the actor never waits for a client, even if clients stop reading |
| `dedup` | DedupTypeOK, OriginsBacked, CallsBalance, ImplementsOneServer | 3 servers, 2 VNIs, 5 updates, 1 remove_server_routes | the tracker is backed by the tasks, handler calls balance, and the servers act as one |
| `peer_session` | SessionTypeOK, WithdrawnRoutesGone, AnnouncedRoutesReach, Resubscribed, SubscriptionsFollow, ShutdownEnds | 1 server, 2 threads, 5 calls, queue of 2, connections may break for ever | queue and replay together keep the server in step with the client; shutdown ends the task unless a write hangs |
| `receive` | TableOK, OuterMapTells, ImplementsSet, NothingLost, HandlerMirrors, AllHandled | 3 messages out of 6 and 2 kinds of foreign bytes, reads of any size, 2 connections, base 2 | messages survive any fragmentation, the nested maps are a set of routes, the handler mirrors them |
| `connection` | ConnectionTypeOK, NoFalseTimeout, LossDetected, NothingSwallowed, no deadlock | intervals of 3 s against 1 s and 0, delay of one tick, streams of 5, replay and snapshot of 5 messages, 1 more message from each end | timers and blocking writes of both ends fit together |
| `netlink` | NetlinkTypeOK, StaleRoutesGone, KernelFollows | 3 VNIs (tables 44 and 300, and none), 4 destinations (IPv4 default, IPv4, IPv6, the same with host bits), 2 next hops, 2 tasks, 3 calls, 1 end of the process, 1 foreign route, requests that fail | overlapping tasks, failures, mistaken tables and other programs harm only the slots they meet in; elsewhere the kernel follows the handler |

Why the bounds are enough. The server properties relate one peer to the actor or
two peers to each other; of the three connections the cfg names, any two are made: a sender
and a receiver, or two from one address, one after the other or overlapping. Channels and queues of one or two messages are full after one or
two steps, so the full, empty and in-between cases all occur; in a larger queue
only the distance between two commands grows, and the theorems below cover every
size. Two connections and three requests in `distribution` are enough for a subscription
and two updates, with disconnects at any point; it is also the least with which an actor
that waits for its peers gets stuck. Both runs check
liveness, which keeps them to one route; the safety of the server's tables with many
routes, the loop over the routes of a disconnected announcer included, is what the
theorems are about, and SubscribersConverge alone holds with two routes as well. In
`peer_session` one server is enough for the per-server safety properties: seen from
one server, the visits of a call to other servers are stuttering and their locks are
delays, which the call may take anyway. Connection losses are not bounded. In
`receive` a payload of two bytes to the base 2 uses both length bytes, and three
messages allow an add, its repetition or withdrawal, and a message cut in front of
and behind it. In `connection` the bounds of LossDetected are tight: with a tick
less the run fails. The streams hold five messages, so that a dead link does not
block the client before its timer can notice; an interval of 3 against 1 makes a
wrong negotiation time out. In `netlink` two tasks and three calls give an add and a
removal that overlap for one destination, for two next hops or for two VNIs, before or
after a restart, next to a third; tables 44 and 300 are the two that a dump confuses.

The passing runs have between 81,415 states (`distribution`) and 1,396,073 (`netlink`);
`connection` has 1,370,637, `peer_session` 853,595, `dedup` 431,104, `receive` 369,434 and
`server` 252,758.

Deadlock is checked in `server`, which ends in `Terminated`, in `connection` and in
`backpressure`, where time goes on. The other runs stop when the budget of operations
is spent, or, as runs of the client, after shutdown.

Symmetry is used only in `dedup` and `netlink`, which check no liveness.

### Disagreements between code and documentation

Five runs expect a violation; each trace is a behaviour of the code.

* `slow_consumer` (SlowConsumerDisconnected): the comment says slow consumers
  "reconnect and get full sync"; the actor forgets them but their connection stays
  open and silent, because the task keeps a sender of its own channel.
* `phantom_route` (NoRouteOfUnsubscribedVni): an update read after Unsubscribe is
  installed and never removed.
* `dedup_race` (HandlerFollowsOrigins): handler calls of two tasks are made in the
  wrong order, and a route that has an origin is not installed.
* `reannounce_overtaken` (ReannouncedRoutesStay): a Remove that waited in the queue
  of a server that was down is served after the replay of the same, newly announced
  route.
* `backpressure` (BackpressureEnds): the stress test counts on TCP to throttle clients;
  a client that replays its routes and a server that answers its SUBSCRIBE with more
  than the streams hold both write, neither reads, and the keepalive timers, watched
  only between two writes, never run.

Properties that pass name what they leave out because of these and of other behaviour of
the code. `SessionsInOrder` and `SubscribersConverge` leave out connections whose task
overlapped with another of the same address: the one's disconnect may undo the other's
registration (section 2). `SubscribersConverge` also leaves out VNIs the client has left in
the session and the client's own routes (not sent back as changes, but contained in a snapshot); `AnnouncedRoutesReach` leaves
out routes that were withdrawn before; `WithdrawnRoutesGone` leaves out routes for
which two calls overlapped, since nothing orders their commands. `SubscriptionsFollow`
leaves out overlapping calls too, and VNIs whose last call was lost: subscribe passes
over a server that is not established, and a command that comes during the retry wait
or whose write fails is dropped. So an Unsubscribe during the retry wait is undone by
the next connection. `NoFalseTimeout` leaves out an interval of 0, which a server may
offer: its own timers then end the connection at once, and the client panics in
`interval`. It also leaves out a client that found no room to write since its last read
(`held`): reads and commands are branches of one select, so commands that wait for room
can keep the client from reading until a tick of its interval finds the time over, with
the server's answers unread. The run's streams are too long for that; streams of one
message and four commands show it. `LossDetected` leaves out the wait for HELLO, which has no timeout.
`StaleRoutesGone` leaves out routes whose deletion the kernel refused: it is only logged.
`KernelFollows` leaves out slots where two tasks, two next hops or two programs met, where a
request failed, where a route was taken for one of another table (with tables 300 and 44
in use, the code deletes from the wrong one), and where a route was to be removed that a
dump does not show as it came (a default route, or an IPv6 prefix with host bits: it stays).

### Fairness

Tokio polls every task that is ready, so a step of the actor, a task or a call that
stays possible is taken: weak fairness of `HandlerStep`, `ShutdownBreak`,
`ActorStep`, `StopAccepting` (RoutingServer), of `CallStep` and `OwnStep`
(PeerSession: the task's steps that wait for no server; a connect succeeds or fails), of
`ReadSome \/ Decode` (PeerReceive: bytes that were written can be read in the end), of the
two tasks and of time (Connection). Nothing makes a client connect, send, read or close, and
nothing makes a timer or an error happen. `ShutdownBreak` is a branch of the same select as the
others; tokio picks among ready branches at random, so it is not passed over for ever.

Three properties have the other end's cooperation as a premise: where the code waits for it
without a timeout, they are false without it.

* `ClientFairness` (clients read and finish the handshake, as `peer.rs` does) is a premise
  of ShutdownCompletes and RoutesDelivered and assumed in `slow_consumer`; RequestsServed
  and DisconnectWithdraws do without. A task in `receive_hello` or in `write_all` does not
  look at the shutdown broadcast.
* `ServerFairness` of PeerSession (a server answers and goes on reading, or the connection
  fails) is the premise of ShutdownEnds. A peer task in `write_all` of a command, of a replay
  or of a KEEPALIVE, or in `receive_hello`, does not look at its queue; Shutdown stays there,
  and behind a full queue `shutdown` does not get to the next peer.

They are assumptions about the other end, not facts: `backpressure` shows a client and a
server of this very library that stop reading while they write. So the models have
behaviours in which every write hangs for ever, and the safety properties hold in them too.

## 4. The proofs

Every safety property of a passing run is a theorem, the three refinements included. Each
proof module has the same plan: types first, then the part of the invariant that the property
lacks, one step per action, then the theorem. The invariants were checked by TLC on the
runs' instances before they were proved.

| Module | Theorem | States `Spec => []...` |
|---|---|---|
| `RoutingServerProofs` | `TypeCorrect` | `TypeOK`, with the bounds on queue, channels and streams |
| | `NoOrphanedRoutes` | `RoutesHaveLiveOwner` |
| | `NoOrphanedSubscribers` | `SubscribersLive` |
| | `DisconnectComesLast` | `CommandsBeforeDisconnect` |
| | `SessionsDoNotMix` | `SessionsInOrder` |
| | `SubscribeAnswers` | `OneAnswerPerSubscribe` |
| | `BoardImplemented` | `Spec => ImplementsBoard`, the refinement of RouteBoard |
| `RouteDistributionProofs` | `SubscribersAlwaysConverge` | `SubscribersConverge` |
| `RouteDedupProofs` | `DedupTypeCorrect`, `OriginsAreBacked`, `CallsAlwaysBalance` | `DedupTypeOK`, `OriginsBacked`, `CallsBalance` |
| | `ServersActAsOne` | `Spec => ImplementsOneServer`, the refinement of OneServer |
| `PeerSessionProofs` | `SessionTypeCorrect` | `SessionTypeOK` |
| | `SubscriptionsSurvive` | `Resubscribed` |
| | `WithdrawalsHold`, `AnnouncementsArrive`, `SubscriptionsAreFollowed` | `WithdrawnRoutesGone`, `AnnouncedRoutesReach`, `SubscriptionsFollow` |
| `RouteTableProofs` | `TableWellFormed`, `OuterMapTellsAlways` | `TableOK`, `OuterMapTells`, of RouteTable alone |
| | `TableImplementsSet` | `Spec => ImplementsSet`, the refinement of RouteSet |
| `PeerReceiveProofs` | `HandlerAlwaysMirrors` | `HandlerMirrors` |
| | `DecodeCut`, `DecodeWhole` | not temporal: what `decode` gives for a part of a message and for a message with anything behind it |
| | `NothingEverLost` | `NothingLost` |
| | `PeerUsesTable` | `ReceiveSpec => Spec`: the peer is a user of RouteTable |
| | `ReceivedTableOK`, `ReceivedOuterMapTells`, `ReceivedTableIsSet` | the three properties of RouteTable, of PeerReceive |
| `ConnectionProofs` | `ConnectionTypeCorrect`, `HandshakeLosesNothing` | `ConnectionTypeOK`, `NothingSwallowed` |
| | `WorkingLinkKept`, `DeadLinkNoticed` | `NoFalseTimeout`, `LossDetected` |
| `NetlinkProofs` | `NetlinkTypeCorrect` | `NetlinkTypeOK` |
| | `NoStaleRoutes`, `KernelFollowsHandler` | `StaleRoutesGone`, `KernelFollows` |

Sets of connections, addresses, servers, threads, VNIs, routes, destinations and next hops, capacities
and the bounds on operations are any that the named assumptions of the modules allow:

* `ConstantsAssumption`: every connection has an address, and capacities are at least 1; `RouteTable` assumes nothing.
* `DedupAssumption`: finitely many servers, which the user is not one of.
* `SessionAssumption`: a queue has room for a command. That VNIs and routes are disjoint
  says only that the two kinds of call are told apart, as the code's types do.
* `NetlinkAssumption`: a destination the kernel keeps is kept as it is and is of the family
  it was given in. Of the tables nothing is assumed but that they are numbers: any of them
  may be taken for one another.
* `ConnectionAssumption`: a round trip is shorter than timeout minus interval. It is about
  the network and the timer can do no better: a KEEPALIVE is sent once per interval.
* `WireAssumption`: the largest payload fits the two length bytes, for any base.
* `ReceiveAssumption`: what is sent are messages as the Rust types have them (`IsMessage`),
  within the payload limit that `encode` enforces, and protobuf leaves out defaults and
  nothing else; their routes are of the sets `Vni`, `Dest` and `Hop`. Foreign bytes are what
  the name says (`IsForeign`): no part of them decodes to a message.

### The arguments

**RoutingServer.** That a route has a live owner depends on what is queued: when the
actor takes an Add of a connection that is gone, that connection's disconnect must still be
behind it (`CommandsBeforeDisconnect`); and a SUBSCRIBE answer must find its task waiting,
or it would move a finished task (`OneAnswerPerSubscribe`). When the actor takes a disconnect,
everything of the address goes, so nothing can be left without an owner, even of a connection
that overlaps; what that one adds later is covered by its own disconnect. `TaskQueue` says of
the commands of one task that the registration comes first and the disconnect last, and
`Alone` that a connection with no overlap is the only one running for its address; with them
an old disconnect is queued before anything of such a connection (`SessionsInOrder`). The five
properties with these two and TypeOK are inductive (`Inv`). Lemmas carry the cases of `InvStep`:
`QuietStep` (the actor's state is untouched), `AloneStep` (a task starts or ends), `SendStep` (a
task appends a command) and `TakeStep` (the actor removes the head of the queue, and every
index shifts by one).

`ImplementsBoard` needs in addition that what is stored belongs to the address of a member or to
the one that is leaving (`StoredForMembers`), and that the loop over a leaver's routes has
exactly those left that are still stored (`PurgeOK`). A step that leaves the actor's tables
and all sessions alone is a stutter of the board (`BoardStays`, `BoardQuiet`), and so is
sending a command, of which the actor knows nothing yet (`BoardSend`). Taking a command changes
the session of its sender only, and only with a registration or a disconnect (`TakeSession`), so
a step of the actor is the board's operation (`BoardOps`, `BoardActor`).

**RouteDistribution.** What a subscriber will hold is a fold over three places: the last
word on a route in the channel, else the snapshot, else the stream, else the client's
table. `SubscribersConverge` needs `Inv` of the server and four parts more (`DistInv`), about
connections that are open and had their address to themselves (`Lone`): `NewcomersUnknown`
(until it takes a registration, the actor has nothing for the address, or the old
connection's disconnect is queued before it, so a returning client does not find
subscriptions of its former self), `BlankTasks` (no snapshot outside the replay, nothing in
channel and streams before registration, an empty table at a closed client), `RequestsKnown`
(every request under way is in the client's history, or the two exceptions would come too
late) and `FreshPeers` (nothing of a VNI is on its way to a client that never subscribed to
it). `LastOfConcat` and its like say what sending, forwarding and reading do to the last
word; one lemma per kind of step (`QuietPeer` to `AcceptedPeer`) says what it does to one
client, and `PeerStep` puts them together.

**RouteDedup.** `OriginsBacked` is inductive with the types. `CallsBalance` counts
threads, so its step counts too: a thread decides on one call or makes one, and the
number of threads that have decided on a call changes by one or not at all. The same count is
the refinement mapping of `ImplementsOneServer`: a decision adds one due call, of a route
that appears or vanishes in the same step, and `remove_server_routes` decides on several at
once (`OneGiveUp`).

**PeerSession.** `Resubscribed` follows from `ConnectionsOK`, which says of each phase of a
connection what the server was told: the subscriptions that are not left to replay, then
the routes; the table cannot change while it is replayed, since the task holds the read
lock. The other three need `CallsReach`: what a server *will* have, by the last command
about a route or VNI in its queue or by the replay, is what the tables say, unless a call
that will change it still has to visit that server. `CallsCurrent` says that such a call
agrees with the tables unless another one overlaps.

**RouteTable, PeerReceive.** `TableOK` is inductive. `AddHops` and `RemoveHops` say what an
operation does to the next hops of every destination; with them each operation is the
set's operation (`SetStep`), and a well-formed table has a VNI exactly when it has a route
of it (`WellFormedTells`). `MirrorInv` carries them over to the handler: a call for
every change of the table and none without, in Unsubscribe and in the cleanup of a
connection as well.

`NothingLost` is inductive as `StreamInv`, once it is known what one `decode` does. A length
is put together from its two bytes again (`LengthBytes`), a destination, a next hop and a
protocol value come back from their bytes (`DestinationRoundTrip`, `NextHopRoundTrip`,
`PayloadRoundTrip`), so a whole message is decoded and a part of one is waited for
(`DecodeWhole`, `DecodeCut`), the message without any payload included. The rest is about
sequences: taking the first message off the bytes of n messages leaves those of n - 1
(`RestTail`, `NextMessage`), and sending one appends its bytes (`RestAppend`). `FlattenSeq` is
defined by recursion, and the library's induction rule takes an operator, which the provers
cannot instantiate; the inductions are done on a *set* of numbers instead, by the least
number outside it (`LeastNatural`, `NatInSet`). Foreign bytes stay behind the messages
(`TailBytes`), so what is handled is always a message that was sent, and every update of the
table is one of RouteTable's operations (`TableIsUsed`).

**Connection.** `NothingSwallowed` follows from `Turns`: while an end is in the handshake
exactly one message exists, in its writer's hands or on the stream, so that a read
cannot find a second. `LossDetected` follows from `ClientNotices` and `ServerNotices`: the
time since the link died and the time left on the timer are together bounded, also over
ticks that were missed and sleeps that were started anew. `NoFalseTimeout` is a race of
each timer with a message, and needs to know where the message is: `ServerHears` and
`ClientHears` list the places (on its stream, about to be written, in the buffer that is
being handled, on the way to the other end, or not due before the next tick of the
interval), each with the time it can still take. A tick of the timer moves the message
one tick on, since a tick happens only when nothing is ready (`TickAges`), and streams
keep their order (`OldestFirst`). The longest wait, an interval and a round trip, is
shorter than the timeout (`WaitsAreShorter`), because both ends have worked out the same
interval (`Agreement`). The proof attempt found two gaps in an earlier statement that the
run's bounds had hidden: the assumption did not cover the client's own interval, and
`held` was missing.

**Netlink.** `StaleAccounted` says of each route an earlier process left that it is among
those to delete or its table and family are yet to be dumped, so that the cleanup has
nothing left when its lists are empty. `KernelInv` says of every uncontested slot what its
task, if there is one, still has to do, and what is in the slot until then (`SlotsFollow`).
A task may also delete what is not its route, since a dump can mislead it:
`VictimsAccounted` says that this is then in a contested slot, which needs what `Matching`
finds (`MatchingRoutes`) and that a slot stays contested while the process lives
(`ContestedGrows`).

### Only model-checked

* Liveness, which rests on fairness and ENABLED: ShutdownCompletes, RoutesDelivered,
  RequestsServed, DisconnectWithdraws, ShutdownEnds, AllHandled.
* The five violations, which are counterexamples.

## 5. Not modelled

* `state`, the waits (`wait_any_established`, `wait_all_established`) and the getters of
  the client, `GetStats` and the map `ServerState.peers` of the server: they read, or
  serve statistics, and change nothing the other parts depend on.
* Protobuf, TCP, tokio's timers and channels, and the kernel: external, modelled by what
  the code relies on.
* Constructors and texts of `types.rs`, error texts (but for the two the decoding loop
  looks at), argument parsing and output of the examples, and the stress test.
* Finding the tunnel device when the netlink client starts.

## 6. Plan

Done: RoutingServer with RouteBoard, RouteTable with RouteSet, RouteDistribution, RouteDedup
with OneServer, PeerSession, Wire and PeerReceive, Connection, Netlink, and
the proofs of their safety properties and refinements.

What could follow, in this order:

1. **Abstract distribution**: a specification "every served subscriber's table follows the
   server's", implemented by RouteDistribution, with the refinement proved from
   `SubscribersConverge` and `BoardImplemented`.
2. **Liveness by ranking**: the safety parts of ShutdownCompletes and RoutesDelivered, that
   some fair step is always possible and brings the end closer, as invariants.
