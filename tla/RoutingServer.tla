--------------------------- MODULE RoutingServer ---------------------------
(***************************************************************************)
(* The MetalBond server of src/server.rs: the routing actor that owns the  *)
(* route table, the route owners and the subscriptions; one handle_peer    *)
(* task per accepted connection; the bounded channels between them; the    *)
(* TCP streams to the clients; and the shutdown of it all.                 *)
(*                                                                         *)
(* The actor knows a connection only by the address of its client, and an  *)
(* address can come back while the task of its last connection, reset      *)
(* meanwhile, still goes about its work: the tasks are told apart here by  *)
(* the connection (Conn), what the actor keeps by the address (AddrOf).    *)
(*                                                                         *)
(* What is abstracted: a Key stands for (vni, destination, next hop), the  *)
(* unit the actor stores and distributes.  A TCP stream is a FIFO of whole *)
(* messages.  A write_all that does not fit the socket buffer puts all its *)
(* messages on the stream and suspends its task while more than SockCap of *)
(* them are unread (WriteDone).  Timeouts may fire at any time.  HELLO and *)
(* KEEPALIVE carry no routing state: the handshake is one step here        *)
(* (Register) that a client may delay for ever or abandon.                 *)
(***************************************************************************)
EXTENDS Integers, Sequences, FiniteSets

CONSTANTS
  Conn,        \* connections, each accepted at most once, and their tasks
  NoConn,      \* not a connection: an address without a channel
  Addr,        \* socket addresses of clients
  NoAddr,      \* not an address: a key without owner, an actor not purging
  AddrOf,      \* the client's address on each connection
  Vni,         \* virtual network identifiers
  Route,       \* (destination, next hop) pairs
  MaxPending,  \* MAX_PENDING_MESSAGES: capacity of a peer's channel
  CmdCap,      \* capacity of the actor's command channel (8192)
  SockCap,     \* messages a socket buffer holds before write_all suspends
  BatchMax,    \* most messages written by one turn of the select loop (1000)
  MaxConns,    \* bound: connections in a behaviour
  MaxOps,      \* bound: requests in a behaviour
  MaxInbound   \* bound: requests a client has unread at the server

ASSUME ConstantsAssumption ==
  /\ NoConn \notin Conn
  /\ NoAddr \notin Addr
  /\ AddrOf \in [Conn -> Addr]
  /\ MaxPending \in Nat \ {0}
  /\ CmdCap \in Nat \ {0}
  /\ SockCap \in Nat
  /\ BatchMax \in Nat \ {0}
  /\ MaxConns \in Nat
  /\ MaxOps \in Nat
  /\ MaxInbound \in Nat \ {0}

Key == Vni \X Route
VniOf(k) == k[1]
KeysOf(v) == {v} \X Route

\* wire.rs Message, reduced to the messages and fields that routing reads.
Subscribe(v)   == [type |-> "Subscribe", vni |-> v]
Unsubscribe(v) == [type |-> "Unsubscribe", vni |-> v]
Update(t, k)   == [type |-> t, key |-> k]

UpdateMsg == [type : {"Add", "Remove"}, key : Key]
Request   == UpdateMsg \cup [type : {"Subscribe", "Unsubscribe"}, vni : Vni]

\* enum RoutingCommand.  A command carries the address of its sender and, where
\* the actor answers, the end of a channel to its task: from stands for both.
\* GetStats reads the actor's state and changes nothing.
PeerConnected(c)    == [op |-> "PeerConnected", from |-> c]
PeerDisconnected(c) == [op |-> "PeerDisconnected", from |-> c]
Forward(c, m)       == [op |-> m.type, from |-> c, msg |-> m]

Command == [op : {"PeerConnected", "PeerDisconnected"}, from : Conn]
             \cup {Forward(c, m) : c \in Conn, m \in Request}

VARIABLES
  \* the clients and the streams
  client,        \* is the remote end there
  inbound,       \* client -> server stream
  outbound,      \* server -> client stream
  ops,           \* requests used up (bound)
  overlapped,    \* history: connections that shared their address with another
  \* one handle_peer task per connection
  conn,          \* where the task is
  chan,          \* its mpsc channel: filled by the actor, drained by the task
  snapshot,      \* the routes a SUBSCRIBE still has to write to the stream
  kick,          \* the shutdown broadcast is pending for the task
  \* struct RoutingActor
  routes,        \* the route table
  route_owners,  \* which peer announced each route
  subscriptions, \* subscribers of each VNI
  peers,         \* the connection whose channel the actor holds, by address
  cmds,          \* cmd_rx
  purge,         \* progress of handle_peer_disconnected
  \* struct MetalBondServer
  srv

clientVars  == <<client, inbound, outbound, ops, overlapped>>
handlerVars == <<conn, chan, snapshot, kick>>
tableVars   == <<routes, route_owners, subscriptions, peers>>
actorVars   == <<tableVars, cmds, purge>>
vars        == <<clientVars, handlerVars, actorVars, srv>>

Idle == [addr |-> NoAddr, keys |-> {}, slow |-> {}]

ConnState == {"none", "handshake", "loop", "blocked", "subscribing", "replay",
              "cleanup", "returned"}

\* The types of the variables, and the bounds that slow consumer protection is
\* there for: no channel outgrows its capacity and no task has more than a
\* batch in flight to a client that does not read.
TypeOK ==
  /\ client \in [Conn -> {"open", "closed"}]
  /\ inbound \in [Conn -> Seq(Request)]
  /\ outbound \in [Conn -> Seq(UpdateMsg)]
  /\ ops \in 0..MaxOps
  /\ overlapped \in SUBSET Conn
  /\ conn \in [Conn -> ConnState]
  /\ chan \in [Conn -> Seq(UpdateMsg)]
  /\ snapshot \in [Conn -> SUBSET Key]
  /\ kick \in [Conn -> BOOLEAN]
  /\ routes \in SUBSET Key
  /\ route_owners \in [Key -> Addr \cup {NoAddr}]
  /\ subscriptions \in [Vni -> SUBSET Addr]
  /\ peers \in [Addr -> Conn \cup {NoConn}]
  /\ cmds \in Seq(Command)
  /\ purge \in [addr : Addr \cup {NoAddr}, keys : SUBSET Key, slow : SUBSET Addr]
  /\ srv \in {"running", "closing", "stopped"}
  /\ Len(cmds) <= CmdCap
  /\ \A c \in Conn : /\ Len(chan[c]) <= MaxPending
                    /\ Len(outbound[c]) <= SockCap + BatchMax

Init ==
  /\ client = [c \in Conn |-> "closed"]
  /\ inbound = [c \in Conn |-> <<>>]
  /\ outbound = [c \in Conn |-> <<>>]
  /\ ops = 0
  /\ overlapped = {}
  /\ conn = [c \in Conn |-> "none"]
  /\ chan = [c \in Conn |-> <<>>]
  /\ snapshot = [c \in Conn |-> {}]
  /\ kick = [c \in Conn |-> FALSE]
  /\ routes = {}
  /\ route_owners = [k \in Key |-> NoAddr]
  /\ subscriptions = [v \in Vni |-> {}]
  /\ peers = [a \in Addr |-> NoConn]
  /\ cmds = <<>>
  /\ purge = Idle
  /\ srv = "running"

-----------------------------------------------------------------------------
(* The clients: the remote ends, as far as the server sees them. *)

\* The task of c is running.
Active(c) == conn[c] \notin {"none", "returned"}

\* The other tasks that are running for the address of c.
Others(c) == {d \in Conn \ {c} : AddrOf[d] = AddrOf[c] /\ Active(d)}

\* The name a new connection from a gets: which one it is does not matter.
Unused(a) == CHOOSE c \in Conn : AddrOf[c] = a /\ conn[c] = "none"

\* The accept loop takes a new connection, subscribes it to the shutdown
\* broadcast and spawns handle_peer, whatever other tasks there are.  TCP has
\* one connection per pair of addresses: for the client the last one is over,
\* closed or reset, whether or not its task has noticed.
Accept(c) ==
  /\ srv # "stopped"
  /\ conn[c] = "none" /\ c = Unused(AddrOf[c])
  /\ \A d \in Conn : AddrOf[d] = AddrOf[c] => client[d] = "closed"
  /\ Cardinality({d \in Conn : conn[d] # "none"}) < MaxConns
  /\ client' = [client EXCEPT ![c] = "open"]
  /\ conn' = [conn EXCEPT ![c] = "handshake"]
  /\ overlapped' = IF Others(c) = {} THEN overlapped
                   ELSE overlapped \cup Others(c) \cup {c}
  /\ UNCHANGED <<inbound, outbound, ops, chan, snapshot, kick, actorVars, srv>>

\* The client takes the next message off the stream.
ClientRead(c) ==
  /\ outbound[c] # <<>>
  /\ outbound' = [outbound EXCEPT ![c] = Tail(@)]
  /\ UNCHANGED <<client, inbound, ops, overlapped, handlerVars, actorVars, srv>>

\* An Established client sends any routing message.
ClientSend(c, m) ==
  /\ client[c] = "open"
  /\ conn[c] \notin {"none", "handshake"}
  /\ Len(inbound[c]) < MaxInbound
  /\ ops < MaxOps
  /\ ops' = ops + 1
  /\ inbound' = [inbound EXCEPT ![c] = Append(@, m)]
  /\ UNCHANGED <<client, outbound, overlapped, handlerVars, actorVars, srv>>

\* The client closes, crashes, or its connection breaks: what it has not
\* read is lost, what it has sent may still be read by the server.
ClientClose(c) ==
  /\ client[c] # "closed"
  /\ client' = [client EXCEPT ![c] = "closed"]
  /\ outbound' = [outbound EXCEPT ![c] = <<>>]
  /\ UNCHANGED <<inbound, ops, overlapped, handlerVars, actorVars, srv>>

-----------------------------------------------------------------------------
(* handle_peer. *)

\* No write_all of this task is suspended on a full socket buffer.
WriteDone(c) == Len(outbound[c]) <= SockCap

\* Effect of writing messages to the stream: lost when the client is gone.
Written(c, ms) == IF client[c] = "closed" THEN <<>> ELSE outbound[c] \o ms

Enqueue(cmd) ==
  /\ Len(cmds) < CmdCap
  /\ cmds' = Append(cmds, cmd)

\* The task returns: its stream, channel and broadcast receiver are dropped.
Return(c) ==
  /\ conn' = [conn EXCEPT ![c] = "returned"]
  /\ client' = [client EXCEPT ![c] = "closed"]
  /\ inbound' = [inbound EXCEPT ![c] = <<>>]
  /\ outbound' = [outbound EXCEPT ![c] = <<>>]
  /\ chan' = [chan EXCEPT ![c] = <<>>]
  /\ kick' = [kick EXCEPT ![c] = FALSE]

\* The handshake ends early and leaves no trace: EOF, HELLO in pieces or not
\* HELLO at all, the timeout on KEEPALIVE.
HandshakeFail(c) ==
  /\ conn[c] = "handshake"
  /\ Return(c)
  /\ UNCHANGED <<ops, overlapped, snapshot, actorVars, srv>>

\* Mutant of SendConnected: a stale peers entry is taken for a registration.
SendConnectedUnlessKnown(c) ==
  IF peers[AddrOf[c]] # NoConn THEN UNCHANGED cmds ELSE Enqueue(PeerConnected(c))

SendConnected(c) == Enqueue(PeerConnected(c))

\* HELLO and KEEPALIVE have been exchanged.  The task creates its channel,
\* sends PeerConnected to the actor and enters the loop.
Register(c) ==
  /\ conn[c] = "handshake"
  /\ SendConnected(c)
  /\ chan' = [chan EXCEPT ![c] = <<>>]
  /\ conn' = [conn EXCEPT ![c] = "loop"]
  /\ UNCHANGED <<clientVars, snapshot, kick, tableVars, purge, srv>>

\* At the select of the main loop, with no write in progress.
InLoop(c) == conn[c] = "loop" /\ WriteDone(c)

\* The next decoded message is m; handle_message is called, or resumes after
\* the command channel was full.
Handling(c, m) ==
  /\ InLoop(c) \/ conn[c] = "blocked"
  /\ inbound[c] # <<>>
  /\ Head(inbound[c]) = m

\* Mutant of AfterRequest: the answer to SUBSCRIBE is not waited for.
AfterRequestAsync(m) == "loop"

AfterRequest(m) == IF m.type = "Subscribe" THEN "subscribing" ELSE "loop"

\* handle_subscribe, handle_unsubscribe and handle_update send a command to
\* the actor; handle_subscribe then waits for the actor's answer.
HandleRequest(c, m) ==
  /\ Handling(c, m)
  /\ Enqueue(Forward(c, m))
  /\ inbound' = [inbound EXCEPT ![c] = Tail(@)]
  /\ conn' = [conn EXCEPT ![c] = AfterRequest(m)]
  /\ UNCHANGED <<client, outbound, ops, overlapped, chan, snapshot, kick, tableVars, purge, srv>>

\* The command channel is full: the task waits inside handle_message and
\* serves neither its channel nor the timeout nor the shutdown broadcast.
BlockOnFull(c, m) ==
  /\ InLoop(c)
  /\ Handling(c, m)
  /\ Len(cmds) >= CmdCap
  /\ conn' = [conn EXCEPT ![c] = "blocked"]
  /\ UNCHANGED <<clientVars, chan, snapshot, kick, actorVars, srv>>

\* handle_subscribe writes the next route of the actor's answer.
Replay(c) ==
  /\ conn[c] = "replay"
  /\ WriteDone(c)
  /\ \E k \in snapshot[c] :
       /\ snapshot' = [snapshot EXCEPT ![c] = @ \ {k}]
       /\ outbound' = [outbound EXCEPT ![c] = Written(c, <<Update("Add", k)>>)]
  /\ UNCHANGED <<client, inbound, ops, overlapped, conn, chan, kick, actorVars, srv>>

\* All routes are written, or a write fails because the client is gone (the
\* caller only logs the error): back to the select.
ReplayDone(c) ==
  /\ conn[c] = "replay"
  /\ WriteDone(c)
  /\ snapshot[c] = {} \/ client[c] = "closed"
  /\ snapshot' = [snapshot EXCEPT ![c] = {}]
  /\ conn' = [conn EXCEPT ![c] = "loop"]
  /\ UNCHANGED <<clientVars, chan, kick, actorVars, srv>>

\* One turn of the rx.recv() branch: a batch of at most BatchMax messages.
Drain(c) ==
  /\ InLoop(c)
  /\ chan[c] # <<>>
  /\ LET n == IF Len(chan[c]) < BatchMax THEN Len(chan[c]) ELSE BatchMax
     IN  /\ chan' = [chan EXCEPT ![c] = SubSeq(@, n + 1, Len(@))]
         /\ outbound' = [outbound EXCEPT ![c] = Written(c, SubSeq(chan[c], 1, n))]
  /\ UNCHANGED <<client, inbound, ops, overlapped, conn, snapshot, kick, actorVars, srv>>

\* read returns 0 once everything the client sent has been read.
Eof(c) ==
  /\ InLoop(c)
  /\ client[c] = "closed"
  /\ inbound[c] = <<>>
  /\ conn' = [conn EXCEPT ![c] = "cleanup"]
  /\ UNCHANGED <<clientVars, chan, snapshot, kick, actorVars, srv>>

\* The keepalive timeout, a read or write error, or bytes that do not decode.
LoopError(c) ==
  /\ InLoop(c)
  /\ conn' = [conn EXCEPT ![c] = "cleanup"]
  /\ UNCHANGED <<clientVars, chan, snapshot, kick, actorVars, srv>>

\* Mutant of ShutdownSignalled: only a received broadcast counts.
ShutdownMessage(c) == kick[c]

\* shutdown_rx.recv() completes: with the broadcast, or with an error once
\* every sender has been dropped.
ShutdownSignalled(c) == kick[c] \/ srv = "stopped"

ShutdownBreak(c) ==
  /\ InLoop(c)
  /\ ShutdownSignalled(c)
  /\ kick' = [kick EXCEPT ![c] = FALSE]
  /\ conn' = [conn EXCEPT ![c] = "cleanup"]
  /\ UNCHANGED <<clientVars, chan, snapshot, actorVars, srv>>

\* Mutant of SendDisconnected: try_send, which gives up on a full channel.
TrySendDisconnected(c) ==
  IF Len(cmds) < CmdCap THEN Enqueue(PeerDisconnected(c)) ELSE UNCHANGED cmds

SendDisconnected(c) == Enqueue(PeerDisconnected(c))

\* The end of handle_peer: PeerDisconnected is the task's last command.
Cleanup(c) ==
  /\ conn[c] = "cleanup"
  /\ SendDisconnected(c)
  /\ Return(c)
  /\ UNCHANGED <<ops, overlapped, snapshot, tableVars, purge, srv>>

-----------------------------------------------------------------------------
(* RoutingActor::run, one command at a time. *)

\* The actor takes command c, being done with the one before.
Take(cmd) ==
  /\ purge = Idle
  /\ cmds # <<>>
  /\ Head(cmds) = cmd
  /\ cmds' = Tail(cmds)

\* The sender in the actor's peers map still has its receiver: the task that
\* registered it has not returned.
RxAlive(c) == conn[c] # "returned"

\* The channels a change of a route of VNI v, made for address a, is sent to.
Targets(v, a) ==
  {c \in Conn : AddrOf[c] \in subscriptions[v] \ {a} /\ peers[AddrOf[c]] = c /\ RxAlive(c)}

\* try_send returns Full.
Full(c) == Len(chan[c]) >= MaxPending

SlowConsumers(v, a) == {AddrOf[c] : c \in {d \in Targets(v, a) : Full(d)}}

\* Mutant of Distribute: an unbounded channel.
DistributeUnbounded(v, a, m) ==
  chan' = [c \in Conn |-> IF c \in Targets(v, a) THEN Append(chan[c], m) ELSE chan[c]]

\* Mutant of Distribute: send().await, which waits for room in every channel.
DistributeWaits(v, a, m) ==
  /\ SlowConsumers(v, a) = {}
  /\ chan' = [c \in Conn |-> IF c \in Targets(v, a) THEN Append(chan[c], m) ELSE chan[c]]

\* try_send to every target whose channel has room.
Distribute(v, a, m) ==
  chan' = [c \in Conn |-> IF c \in Targets(v, a) /\ ~Full(c) THEN Append(chan[c], m)
                          ELSE chan[c]]

ForgetChannels(S) == peers' = [a \in Addr |-> IF a \in S THEN NoConn ELSE peers[a]]

\* Mutant of DropPeers: the subscriptions are forgotten.
DropChannels(S) == ForgetChannels(S) /\ UNCHANGED subscriptions

\* Mutant of DropPeers: a full channel only loses the message.
DropNobody(S) == UNCHANGED <<peers, subscriptions>>

\* The addresses in S lose their channel and all their subscriptions.
DropPeers(S) ==
  /\ ForgetChannels(S)
  /\ subscriptions' = [v \in Vni |-> subscriptions[v] \ S]

\* The last connection to register an address has it.
ActorPeerConnected(c) ==
  /\ Take(PeerConnected(c))
  /\ peers' = [peers EXCEPT ![AddrOf[c]] = c]
  /\ UNCHANGED <<clientVars, handlerVars, routes, route_owners, subscriptions, purge, srv>>

\* Mutant of ExistingRoutes: only later changes are sent.
NoExistingRoutes(v) == {}

ExistingRoutes(v) == routes \cap KeysOf(v)

\* handle_subscribe: the oneshot answer wakes the waiting task.
ActorSubscribe(c, v) ==
  /\ Take(Forward(c, Subscribe(v)))
  /\ subscriptions' = [subscriptions EXCEPT ![v] = @ \cup {AddrOf[c]}]
  /\ snapshot' = [snapshot EXCEPT ![c] = ExistingRoutes(v)]
  /\ conn' = [conn EXCEPT ![c] = "replay"]
  /\ UNCHANGED <<clientVars, chan, kick, routes, route_owners, peers, purge, srv>>

ActorUnsubscribe(c, v) ==
  /\ Take(Forward(c, Unsubscribe(v)))
  /\ subscriptions' = [subscriptions EXCEPT ![v] = @ \ {AddrOf[c]}]
  /\ UNCHANGED <<clientVars, handlerVars, routes, route_owners, peers, purge, srv>>

\* handle_update with Action::Add: the last announcer owns the route.
ActorAdd(c, k) ==
  /\ Take(Forward(c, Update("Add", k)))
  /\ routes' = routes \cup {k}
  /\ route_owners' = [route_owners EXCEPT ![k] = AddrOf[c]]
  /\ Distribute(VniOf(k), AddrOf[c], Update("Add", k))
  /\ DropPeers(SlowConsumers(VniOf(k), AddrOf[c]))
  /\ UNCHANGED <<clientVars, conn, snapshot, kick, purge, srv>>

\* handle_update with Action::Remove: whoever sends it, the route goes.
ActorRemove(c, k) ==
  /\ Take(Forward(c, Update("Remove", k)))
  /\ routes' = routes \ {k}
  /\ route_owners' = [route_owners EXCEPT ![k] = NoAddr]
  /\ Distribute(VniOf(k), AddrOf[c], Update("Remove", k))
  /\ DropPeers(SlowConsumers(VniOf(k), AddrOf[c]))
  /\ UNCHANGED <<clientVars, conn, snapshot, kick, purge, srv>>

\* handle_peer_disconnected, up to the loop over the owned routes: whatever is
\* kept for the address goes, whichever of its connections it came from.
ActorPeerDisconnected(c) ==
  /\ Take(PeerDisconnected(c))
  /\ DropPeers({AddrOf[c]})
  /\ purge' = [addr |-> AddrOf[c], keys |-> {k \in Key : route_owners[k] = AddrOf[c]},
                slow |-> {}]
  /\ UNCHANGED <<clientVars, handlerVars, routes, route_owners, srv>>

\* One turn of that loop, in the order of the hash map; the peers' tasks run
\* meanwhile and make room in their channels.
ActorPurgeRoute(k) ==
  /\ purge # Idle
  /\ k \in purge.keys
  /\ routes' = routes \ {k}
  /\ route_owners' = [route_owners EXCEPT ![k] = NoAddr]
  /\ Distribute(VniOf(k), purge.addr, Update("Remove", k))
  /\ purge' = [purge EXCEPT !.keys = @ \ {k},
                            !.slow = @ \cup SlowConsumers(VniOf(k), purge.addr)]
  /\ UNCHANGED <<clientVars, conn, snapshot, kick, subscriptions, peers, cmds, srv>>

\* After the loop the slow consumers it met are dropped.
ActorPurgeDone ==
  /\ purge # Idle
  /\ purge.keys = {}
  /\ DropPeers(purge.slow)
  /\ purge' = Idle
  /\ UNCHANGED <<clientVars, handlerVars, routes, route_owners, cmds, srv>>

-----------------------------------------------------------------------------
(* MetalBondServer::shutdown, and dropping the server without it. *)

\* shutdown broadcasts to every task that exists now, then tells the accept
\* loop, which may accept more connections before it notices.
Shutdown ==
  /\ srv = "running"
  /\ srv' = "closing"
  /\ kick' = [c \in Conn |-> Active(c)]
  /\ UNCHANGED <<clientVars, conn, chan, snapshot, actorVars>>

\* The server value is dropped: no broadcast, only the closed channels.
DropServer ==
  /\ srv = "running"
  /\ srv' = "closing"
  /\ UNCHANGED <<clientVars, handlerVars, actorVars>>

\* The accept loop ends and drops the listener and the last broadcast sender.
StopAccepting ==
  /\ srv = "closing"
  /\ srv' = "stopped"
  /\ UNCHANGED <<clientVars, handlerVars, actorVars>>

\* Every task has returned and the actor has no senders left.
Terminated ==
  /\ srv = "stopped"
  /\ \A c \in Conn : ~Active(c)
  /\ cmds = <<>> /\ purge = Idle
  /\ UNCHANGED vars

-----------------------------------------------------------------------------
ClientStep(c) ==
  \/ Accept(c) \/ ClientRead(c) \/ ClientClose(c)
  \/ \E m \in Request : ClientSend(c, m)

\* What a registered task does by itself, failures aside.
HandlerStep(c) ==
  \/ \E m \in Request : HandleRequest(c, m) \/ BlockOnFull(c, m)
  \/ Replay(c) \/ ReplayDone(c) \/ Drain(c) \/ Eof(c) \/ Cleanup(c)

ActorStep ==
  \/ \E c \in Conn : \/ ActorPeerConnected(c) \/ ActorPeerDisconnected(c)
                     \/ \E v \in Vni : ActorSubscribe(c, v) \/ ActorUnsubscribe(c, v)
                     \/ \E k \in Key : ActorAdd(c, k) \/ ActorRemove(c, k)
  \/ \E k \in Key : ActorPurgeRoute(k)
  \/ ActorPurgeDone

Next ==
  \/ \E c \in Conn : \/ ClientStep(c) \/ HandlerStep(c) \/ ShutdownBreak(c)
                     \/ Register(c) \/ HandshakeFail(c) \/ LoopError(c)
  \/ ActorStep
  \/ Shutdown \/ DropServer \/ StopAccepting
  \/ Terminated

Spec == Init /\ [][Next]_vars

-----------------------------------------------------------------------------
(* Safety. *)

\* The task is past Register and has not sent PeerDisconnected.
Serving(c) == conn[c] \in {"loop", "blocked", "subscribing", "replay", "cleanup"}

PendingDisconnect(c) == \E i \in 1..Len(cmds) : cmds[i] = PeerDisconnected(c)

\* A connection of address a is served, or the actor has its disconnect to come.
Alive(a) == \E c \in Conn : AddrOf[c] = a /\ (Serving(c) \/ PendingDisconnect(c))

\* No orphaned routes: the table and the owner map name the same routes, and
\* the owner of each is a peer that is still served, or whose disconnect the
\* actor has yet to process or is processing for that very route.  However a
\* connection ends (EOF, error, timeout, shutdown), and whatever commands were
\* queued by then, handle_peer_disconnected comes after all of them.
RoutesHaveLiveOwner ==
  \A k \in Key :
    IF k \in routes
      THEN LET o == route_owners[k]
           IN  o \in Addr /\ (Alive(o) \/ (purge.addr = o /\ k \in purge.keys))
      ELSE route_owners[k] = NoAddr

\* No orphaned subscriptions and channels: the actor distributes only to peers
\* that are served or whose disconnect it has yet to process.
SubscribersLive ==
  \A a \in Addr :
    peers[a] # NoConn \/ (\E v \in Vni : a \in subscriptions[v]) => Alive(a)

\* The i-th command is a disconnect, or a disconnect of its task will follow.
Covered(i) ==
  \/ cmds[i].op = "PeerDisconnected"
  \/ Serving(cmds[i].from)
  \/ \E j \in (i+1)..Len(cmds) : cmds[j] = PeerDisconnected(cmds[i].from)

\* PeerDisconnected is the last word of a connection: a queued command comes from
\* a task that is still serving, or is followed by that task's disconnect, so
\* that nothing the actor does for a peer outlives the peer's cleanup.
CommandsBeforeDisconnect == \A i \in 1..Len(cmds) : Covered(i)

\* No command of c after the i-th, and no task that could send one.
SilentAfter(c, i) ==
  /\ ~Serving(c)
  /\ \A j \in (i+1)..Len(cmds) : cmds[j].from # c

\* The first command of c after the i-th is its registration.
RegistersAfter(c, i) ==
  \E j \in (i+1)..Len(cmds) :
    /\ cmds[j] = PeerConnected(c)
    /\ \A l \in (i+1)..(j-1) : cmds[l].from # c

\* A client that comes back from the same address is not mistaken for its last
\* connection if the task of that one had returned by then, its disconnect
\* processed or not: a disconnect of the address that is still queued comes
\* before everything the new task sends, and what that sends starts with its
\* registration.  Tasks that overlap have no such order: the disconnect of the
\* one may follow the registration of the other, and undo it.
SessionsInOrder ==
  \A c \in Conn \ overlapped : \A i \in 1..Len(cmds) :
    cmds[i].op = "PeerDisconnected" /\ AddrOf[cmds[i].from] = AddrOf[c]
      => SilentAfter(c, i) \/ RegistersAfter(c, i)

\* A task waits for a SUBSCRIBE answer exactly when its command is queued: no
\* answer is lost, and no answer finds its task doing something else.
OneAnswerPerSubscribe ==
  \A c \in Conn :
    LET asks == {i \in 1..Len(cmds) : cmds[i].op = "Subscribe" /\ cmds[i].from = c}
    IN  /\ (conn[c] = "subscribing" <=> asks # {})
        /\ \A i, j \in asks : i = j

\* The actor is in the session of c: it has taken c's registration and not its
\* disconnect.
InSession(c) ==
  /\ Serving(c) \/ PendingDisconnect(c)
  /\ \A i \in 1..Len(cmds) : cmds[i] # PeerConnected(c)

\* With all its tasks, queues and channels the server implements a board that
\* its connections use one at a time: whatever the actor does for a connection it
\* does between registration and disconnect; a connection starts with nothing
\* of its address's earlier ones, unless one of them has not been processed to
\* its end; the first disconnect takes away all there is of an address, and
\* its routes are gone before the actor does anything else (RoutingActor::run).
Board == INSTANCE RouteBoard WITH
           members <- {c \in Conn : InSession(c)},
           owner   <- [k \in Key |-> IF k \in routes THEN route_owners[k] ELSE NoAddr],
           subs    <- subscriptions,
           leaving <- purge.addr
ImplementsBoard == Board!Spec

-----------------------------------------------------------------------------
(* Liveness.  The runtime polls every ready task and the actor, so each of  *)
(* these steps happens if it stays possible.  Nothing forces a timeout, an  *)
(* error, a shutdown, or a client to connect, send or close.                *)

ServerFairness ==
  /\ \A c \in Conn : WF_vars(HandlerStep(c)) /\ WF_vars(ShutdownBreak(c))
                   /\ WF_vars(client[c] = "closed" /\ HandshakeFail(c))
  /\ WF_vars(ActorStep)
  /\ WF_vars(StopAccepting)

\* Clients that keep reading and go through with the handshake, as those of
\* peer.rs do.
ClientFairness ==
  \A c \in Conn : WF_vars(ClientRead(c)) /\ WF_vars(Register(c))

FairSpec == Spec /\ ServerFairness

\* The same while nobody shuts the server down.
RunningSpec            == Init /\ [][Next /\ UNCHANGED srv]_vars
FairRunningSpec        == RunningSpec /\ ServerFairness
CooperativeRunningSpec == FairRunningSpec /\ ClientFairness

\* The actor and the tasks never wait for each other in a circle: a task that
\* waits for the actor, for room in its command channel or for the answer to
\* SUBSCRIBE, goes on, even if some clients never read what they are sent.
RequestsServed ==
  \A c \in Conn : conn[c] \in {"blocked", "subscribing"} ~> conn[c] \in {"loop", "replay"}

\* When a client goes away, its routes, subscriptions and channel go too, even
\* if other clients never read what they are sent.
DisconnectWithdraws ==
  \A a \in Addr :
    (\A c \in Conn : AddrOf[c] = a => client[c] = "closed") ~>
      \/ \E c \in Conn : AddrOf[c] = a /\ client[c] = "open"
      \/ /\ peers[a] = NoConn
         /\ \A v \in Vni : a \notin subscriptions[v]
         /\ \A k \in Key : route_owners[k] # a

\* "Shuts down the server and closes all peer connections" (server.rs, shutdown):
\* every task returns, those accepted while shutdown was under way included,
\* and the actor has no route left, as long as the clients read what they are
\* sent and go through with the handshake.
ShutdownCompletes ==
  ClientFairness =>
    (srv # "running" ~> (\A c \in Conn : ~Active(c)) /\ routes = {} /\ cmds = <<>>)

\* "slow consumer detected ..., disconnecting" and "they'll reconnect and get
\* full sync" (server.rs, handle_update): a registered peer whose channel the
\* actor has dropped is disconnected.
SlowConsumerDisconnected ==
  \A c \in Conn :
    /\ Serving(c)
    /\ peers[AddrOf[c]] = NoConn
    /\ PeerConnected(c) \notin {cmds[i] : i \in 1..Len(cmds)}
    ~> ~Serving(c)

=============================================================================
