----------------------------- MODULE RouteDedup -----------------------------
(***************************************************************************)
(* Multi-server deduplication in the client: RouteOriginTracker and        *)
(* DeduplicatingHandler of src/client.rs, called by one peer task per      *)
(* server (src/peer.rs), and remove_server_routes, called by the user.     *)
(*                                                                         *)
(* The tracker is updated under a lock, and the same critical section      *)
(* decides whether the user's handler is to be called.  The call itself    *)
(* comes after the unlock: it is a step of its own, and the other threads  *)
(* run in between.                                                         *)
(***************************************************************************)
EXTENDS Integers, FiniteSets

CONSTANTS
  Server,      \* configured servers, one peer task each
  User,        \* the thread that calls remove_server_routes
  Vni, Route,
  MaxUpdates,  \* bound: updates received in a behaviour
  MaxRemovals  \* bound: calls of remove_server_routes

ASSUME DedupAssumption ==
  /\ User \notin Server
  /\ IsFiniteSet(Server)
  /\ MaxUpdates \in Nat
  /\ MaxRemovals \in Nat

Thread == Server \cup {User}
Key    == Vni \X Route
Call   == [op : {"add_route", "remove_route"}, key : Key]

AddCall(k)    == [op |-> "add_route", key |-> k]
RemoveCall(k) == [op |-> "remove_route", key |-> k]

VARIABLES
  task,      \* state of each peer task
  received,  \* its received_routes
  todo,      \* routes its removal loop has left
  origins,   \* RouteOriginTracker: servers that announced each route
  calls,     \* handler calls decided by each thread and not made yet
  net,       \* add_route calls made minus remove_route calls made
  fib,       \* what a handler that installs and removes routes has installed
  updates, removals

taskVars == <<task, received, todo>>
vars     == <<taskVars, origins, calls, net, fib, updates, removals>>

\* The types of the variables; a task is in its removal loop as long as the loop
\* has routes left.
DedupTypeOK ==
  /\ task \in [Server -> {"down", "up", "unsubscribing", "disconnecting", "closed"}]
  /\ received \in [Server -> SUBSET Key]
  /\ todo \in [Server -> SUBSET Key]
  /\ origins \in [Key -> SUBSET Server]
  /\ calls \in [Thread -> SUBSET Call]
  /\ net \in [Key -> Int]
  /\ fib \in SUBSET Key
  /\ updates \in 0..MaxUpdates
  /\ removals \in 0..MaxRemovals
  /\ \A s \in Server : todo[s] # {} => task[s] \in {"unsubscribing", "disconnecting"}

Init ==
  /\ task = [s \in Server |-> "down"]
  /\ received = [s \in Server |-> {}]
  /\ todo = [s \in Server |-> {}]
  /\ origins = [k \in Key |-> {}]
  /\ calls = [t \in Thread |-> {}]
  /\ net = [k \in Key |-> 0]
  /\ fib = {}
  /\ updates = 0
  /\ removals = 0

-----------------------------------------------------------------------------
(* RouteOriginTracker, DeduplicatingHandler. *)

\* Mutant of AddOrigin: the decision ignores the servers already known.
AddOriginAlways(k, s) ==
  /\ origins' = [origins EXCEPT ![k] = @ \cup {s}]
  /\ calls' = [calls EXCEPT ![s] = {AddCall(k)}]

\* Mutant of AddOrigin: a further server's announcement refreshes the route.
AddOriginRefresh(k, s) ==
  /\ origins' = [origins EXCEPT ![k] = @ \cup {s}]
  /\ calls' = [calls EXCEPT ![s] =
       IF origins[k] = {} THEN {AddCall(k)} ELSE {RemoveCall(k), AddCall(k)}]

\* add_origin: the handler is called for the first server.
AddOrigin(k, s) ==
  /\ origins' = [origins EXCEPT ![k] = @ \cup {s}]
  /\ calls' = [calls EXCEPT ![s] = IF origins[k] = {} THEN {AddCall(k)} ELSE {}]

\* Mutant of RemoveOrigin: a server that is not the last one stays.
RemoveOriginLastOnly(k, s) ==
  IF origins[k] = {s}
    THEN /\ origins' = [origins EXCEPT ![k] = {}]
         /\ calls' = [calls EXCEPT ![s] = {RemoveCall(k)}]
    ELSE UNCHANGED <<origins, calls>>

\* remove_origin: the handler is called when the last server is gone.
RemoveOrigin(k, s) ==
  /\ origins' = [origins EXCEPT ![k] = @ \ {s}]
  /\ calls' = [calls EXCEPT ![s] = IF origins[k] = {s} THEN {RemoveCall(k)} ELSE {}]

\* The thread makes a call it has decided on.
MakeCall(t, c) ==
  /\ c \in calls[t]
  /\ calls' = [calls EXCEPT ![t] = @ \ {c}]
  /\ IF c.op = "add_route"
       THEN /\ net' = [net EXCEPT ![c.key] = @ + 1]
            /\ fib' = fib \cup {c.key}
       ELSE /\ net' = [net EXCEPT ![c.key] = @ - 1]
            /\ fib' = fib \ {c.key}
  /\ UNCHANGED <<taskVars, origins, updates, removals>>

-----------------------------------------------------------------------------
(* A peer task: sequential, it makes each call before it goes on. *)

Ready(s, st) == task[s] = st /\ calls[s] = {}

Established(s) ==
  /\ Ready(s, "down")
  /\ task' = [task EXCEPT ![s] = "up"]
  /\ UNCHANGED <<received, todo, origins, calls, net, fib, updates, removals>>

\* handle_message, UPDATE Add: nothing happens for a route it already has.
RecvAdd(s, k) ==
  /\ Ready(s, "up")
  /\ updates < MaxUpdates
  /\ updates' = updates + 1
  /\ k \notin received[s]
  /\ received' = [received EXCEPT ![s] = @ \cup {k}]
  /\ AddOrigin(k, s)
  /\ UNCHANGED <<task, todo, net, fib, removals>>

\* handle_message, UPDATE Remove: nothing happens for a route it does not have.
RecvRemove(s, k) ==
  /\ Ready(s, "up")
  /\ updates < MaxUpdates
  /\ updates' = updates + 1
  /\ k \in received[s]
  /\ received' = [received EXCEPT ![s] = @ \ {k}]
  /\ RemoveOrigin(k, s)
  /\ UNCHANGED <<task, todo, net, fib, removals>>

\* Unsubscribe takes the VNI out of received_routes and removes route by route.
Unsubscribe(s, v) ==
  /\ Ready(s, "up")
  /\ todo' = [todo EXCEPT ![s] = received[s] \cap ({v} \X Route)]
  /\ received' = [received EXCEPT ![s] = @ \ ({v} \X Route)]
  /\ task' = [task EXCEPT ![s] = "unsubscribing"]
  /\ UNCHANGED <<origins, calls, net, fib, updates, removals>>

\* The connection ends: the same for all received routes.
Disconnect(s) ==
  /\ Ready(s, "up")
  /\ todo' = [todo EXCEPT ![s] = received[s]]
  /\ received' = [received EXCEPT ![s] = {}]
  /\ task' = [task EXCEPT ![s] = "disconnecting"]
  /\ UNCHANGED <<origins, calls, net, fib, updates, removals>>

ClearRoute(s, k) ==
  /\ calls[s] = {}
  /\ k \in todo[s]
  /\ todo' = [todo EXCEPT ![s] = @ \ {k}]
  /\ RemoveOrigin(k, s)
  /\ UNCHANGED <<task, received, net, fib, updates, removals>>

Cleared(s) ==
  /\ calls[s] = {} /\ todo[s] = {}
  /\ \/ task[s] = "unsubscribing" /\ task' = [task EXCEPT ![s] = "up"]
     \/ task[s] = "disconnecting" /\ task' = [task EXCEPT ![s] = "down"]
  /\ UNCHANGED <<received, todo, origins, calls, net, fib, updates, removals>>

\* Mutant of ShutdownPeer: the task is aborted in the middle of a removal loop.
AbortPeer(s) ==
  /\ calls[s] = {}
  /\ task' = [task EXCEPT ![s] = "closed"]
  /\ UNCHANGED <<received, todo, origins, calls, net, fib, updates, removals>>

\* PeerCommand::Shutdown: the task returns and its routes stay.
ShutdownPeer(s) ==
  /\ Ready(s, "up") \/ Ready(s, "down")
  /\ task' = [task EXCEPT ![s] = "closed"]
  /\ UNCHANGED <<received, todo, origins, calls, net, fib, updates, removals>>

\* remove_server_routes: the tracker forgets the server in one critical
\* section, then the handler is called for each route that lost its last one.
RemoveServerRoutes(s) ==
  /\ calls[User] = {}
  /\ removals < MaxRemovals
  /\ removals' = removals + 1
  /\ origins' = [k \in Key |-> origins[k] \ {s}]
  /\ calls' = [calls EXCEPT ![User] = {RemoveCall(k) : k \in {j \in Key : origins[j] = {s}}}]
  /\ UNCHANGED <<taskVars, net, fib, updates>>

-----------------------------------------------------------------------------
TaskStep(s) ==
  \/ \E c \in Call : MakeCall(s, c)
  \/ \E k \in Key : ClearRoute(s, k)
  \/ Cleared(s)

Next ==
  \/ \E s \in Server : \/ TaskStep(s) \/ Established(s) \/ Disconnect(s) \/ ShutdownPeer(s)
                       \/ \E k \in Key : RecvAdd(s, k) \/ RecvRemove(s, k)
                       \/ \E v \in Vni : Unsubscribe(s, v)
                       \/ RemoveServerRoutes(s)
  \/ \E c \in Call : MakeCall(User, c)

Spec == Init /\ [][Next]_vars

-----------------------------------------------------------------------------
\* The tracker is backed by the peer tasks: a server is an origin of a route
\* only if its task holds the route or has yet to remove it.
OriginsBacked ==
  \A k \in Key : \A s \in origins[k] : k \in received[s] \cup todo[s]

Pending(c) == Cardinality({t \in Thread : c \in calls[t]})

\* "Duplicate routes from multiple servers trigger only one handler call"
\* (client.rs): the calls made and decided on balance, so that a route with an
\* origin has had exactly one add_route more than remove_route, and a route
\* without has had as many of each, however the threads interleave.
CallsBalance ==
  \A k \in Key :
    net[k] + Pending(AddCall(k)) - Pending(RemoveCall(k))
      = IF origins[k] = {} THEN 0 ELSE 1

\* "Duplicate routes are deduplicated (handler called once)" (client.rs): the
\* servers together implement one: the handler is due a call when a route gets its
\* first origin or loses its last, and none when anything else happens, however
\* the peer tasks and remove_server_routes interleave.
One == INSTANCE OneServer WITH
         present <- {k \in Key : origins[k] # {}},
         due     <- [c \in Call |-> Pending(c)]
ImplementsOneServer == One!Spec

\* "Routes are only removed when ALL servers withdraw them" (client.rs): when no
\* call is under way, the handler has installed the routes that have an origin.
HandlerFollowsOrigins ==
  (\A t \in Thread : calls[t] = {}) => \A k \in Key : k \in fib <=> origins[k] # {}
=============================================================================
