------------------------- MODULE RouteDistribution -------------------------
(***************************************************************************)
(* What the server promises its subscribers, end to end: RoutingServer     *)
(* with the routes each client holds.  As in src/peer.rs, a client applies *)
(* every UPDATE it reads to its table of received routes, clears a VNI     *)
(* from the table when it unsubscribes, and forgets the table when its     *)
(* connection ends.                                                        *)
(*                                                                         *)
(* The updates of a client travel along two paths that nothing but the     *)
(* code keeps in order: the answer to SUBSCRIBE is written to the stream   *)
(* at once, later changes wait in the channel.                             *)
(***************************************************************************)
EXTENDS RoutingServer

VARIABLES
  received,  \* the client's received_routes
  wanted,    \* the client's PeerState.subscriptions
  touched,   \* history: keys the client itself announced or withdrew
  left       \* history: VNIs the client unsubscribed from

distVars == <<vars, received, wanted, touched, left>>

DistInit ==
  /\ Init
  /\ received = [c \in Conn |-> {}]
  /\ wanted = [c \in Conn |-> {}]
  /\ touched = [c \in Conn |-> {}]
  /\ left = [c \in Conn |-> {}]

\* The UPDATE branch of handle_message.
Apply(table, m) == IF m.type = "Add" THEN table \cup {m.key} ELSE table \ {m.key}

\* This step is ClientRead(c).
Reads(c) == client'[c] = "open" /\ outbound[c] # <<>> /\ outbound'[c] = Tail(outbound[c])

\* This step is ClientSend(c, m).
Sends(c, m) == client'[c] = "open" /\ inbound'[c] = Append(inbound[c], m)

Leaves(c)  == {v \in Vni : Sends(c, Unsubscribe(v))}
Joins(c)   == {v \in Vni : Sends(c, Subscribe(v))}
Touches(c) == {k \in Key : \E t \in {"Add", "Remove"} : Sends(c, Update(t, k))}

\* The client's tables and the history follow each step of the server model
\* and start afresh with each connection.
Observe ==
  /\ received' = [c \in Conn |->
       CASE client'[c] = "closed" -> {}
         [] Reads(c) -> Apply(received[c], Head(outbound[c]))
         [] OTHER -> {k \in received[c] : VniOf(k) \notin Leaves(c)}]
  /\ wanted' = [c \in Conn |->
       IF client'[c] = "closed" THEN {} ELSE (wanted[c] \cup Joins(c)) \ Leaves(c)]
  /\ touched' = [c \in Conn |->
       IF client'[c] = "closed" THEN {} ELSE touched[c] \cup Touches(c)]
  /\ left' = [c \in Conn |->
       IF client'[c] = "closed" THEN {} ELSE left[c] \cup Leaves(c)]

DistNext == Next /\ Observe
DistSpec == DistInit /\ [][DistNext]_distVars

\* While nobody shuts the server down.
DistRunningSpec == DistInit /\ [][DistNext /\ UNCHANGED srv]_distVars
DistFairSpec    == DistRunningSpec /\ ServerFairness

-----------------------------------------------------------------------------
Mentions(q, k)    == \E i \in DOMAIN q : q[i].key = k
LastIsAdd(q, k)   == \E i \in DOMAIN q : /\ q[i] = Update("Add", k)
                                         /\ \A j \in DOMAIN q : j > i => q[j].key # k

\* Will the client hold k once it has read everything under way to it?  What
\* waits in the channel is written after the routes of a pending answer to
\* SUBSCRIBE, and those after what is on the stream.
WillHold(c, k) ==
  CASE Mentions(chan[c], k)     -> LastIsAdd(chan[c], k)
    [] ~Mentions(chan[c], k) /\ k \in snapshot[c] -> TRUE
    [] ~Mentions(chan[c], k) /\ k \notin snapshot[c] /\ Mentions(outbound[c], k)
                                -> LastIsAdd(outbound[c], k)
    [] OTHER                    -> k \in received[c]

\* The actor serves c's subscription to v: its address is subscribed, its channel
\* is the registered one, it is not about to be dropped as a slow consumer, and
\* no other connection has disturbed what the actor keeps for the address.
Served(c, v) ==
  /\ AddrOf[c] \in subscriptions[v] \ purge.slow
  /\ peers[AddrOf[c]] = c
  /\ client[c] = "open" /\ Serving(c)
  /\ c \notin overlapped

\* Convergence: at every moment, what is under way to a subscriber is exactly
\* what its table needs to become the server's.  The snapshot answering
\* SUBSCRIBE and the stream of changes neither miss, repeat in the wrong order,
\* nor lose a change, whatever else the peers do, including disconnects of the
\* announcers.  Excepted are the routes the client announces or withdraws
\* itself (changes are not sent back to their sender) and the VNIs it has
\* unsubscribed from in this session.
SubscribersConverge ==
  \A c \in Conn : \A k \in Key :
    Served(c, VniOf(k)) /\ k \notin touched[c] /\ VniOf(k) \notin left[c]
      => (WillHold(c, k) <=> k \in routes)

\* A route that stays reaches every subscriber that stays subscribed, as long as
\* the clients read what they are sent.
RoutesDelivered ==
  ClientFairness =>
    \A c \in Conn : \A k \in Key :
      Served(c, VniOf(k)) /\ k \in routes \ touched[c] /\ VniOf(k) \notin left[c]
        ~> \/ k \in received[c]
           \/ ~Served(c, VniOf(k)) \/ k \notin routes \ touched[c] \/ VniOf(k) \in left[c]

\* "Remove received routes for this VNI" (peer.rs, Unsubscribe): a client holds
\* no route of a VNI it is not subscribed to.
NoRouteOfUnsubscribedVni ==
  \A c \in Conn : \A k \in received[c] : VniOf(k) \in wanted[c]
=============================================================================
