----------------------------- MODULE RouteTable -----------------------------
(***************************************************************************)
(* RouteTable of src/route.rs: a map from VNIs to maps from destinations   *)
(* to sets of next hops.  The actor, the client and every peer task keep   *)
(* their routes in one.  A level is created when its first route comes and *)
(* has to go with its last: is_empty and get_vnis look at the outer map    *)
(* only.                                                                   *)
(***************************************************************************)
EXTENDS Integers, FiniteSets

CONSTANTS Vni, Dest, Hop

VARIABLES
  routes,  \* RouteTable.routes
  ret      \* what the last operation returned

vars == <<routes, ret>>

\* Maps: a function whose domain is the set of keys present.
EmptyMap        == [x \in {} |-> {}]
Insert(f, x, y) == [z \in DOMAIN f \cup {x} |-> IF z = x THEN y ELSE f[z]]
Delete(f, x)    == [z \in DOMAIN f \ {x} |-> f[z]]
GetOr(f, x, y)  == IF x \in DOMAIN f THEN f[x] ELSE y

Result(ok, left, removed) == [ok |-> ok, left |-> left, removed |-> removed]

Init == routes = EmptyMap /\ ret = Result(FALSE, 0, {})

\* The next hops stored for a destination.
Hops(v, d) == GetOr(GetOr(routes, v, EmptyMap), d, {})

\* A mutant of Added: the new next hop replaces the others.
AddedAlone(hops, h) == {h}

Added(hops, h) == hops \cup {h}

add_next_hop(v, d, h) ==
  /\ routes' = Insert(routes, v, Insert(GetOr(routes, v, EmptyMap), d, Added(Hops(v, d), h)))
  /\ ret' = Result(h \notin Hops(v, d), 0, {})

\* A mutant of Shrunk: an empty level stays.
ShrunkNever(f, x, y) == Insert(f, x, y)

\* The map f with y for x, or without x when nothing is left there.
Shrunk(f, x, y) == IF DOMAIN y = {} THEN Delete(f, x) ELSE Insert(f, x, y)

\* A mutant of WithHops: a destination without next hops stays.
WithHopsNever(f, d, hops) == Insert(f, d, hops)

\* The destinations f with next hops for d, or without d when there are none.
WithHops(f, d, hops) == IF hops = {} THEN Delete(f, d) ELSE Insert(f, d, hops)

\* Nothing happens, and nothing is left, for a VNI or destination not there.
remove_next_hop(v, d, h) ==
  \/ /\ v \in DOMAIN routes /\ d \in DOMAIN routes[v]
     /\ routes' = Shrunk(routes, v, WithHops(routes[v], d, routes[v][d] \ {h}))
     /\ ret' = Result(h \in routes[v][d], Cardinality(routes[v][d] \ {h}), {})
  \/ /\ ~(v \in DOMAIN routes /\ d \in DOMAIN GetOr(routes, v, EmptyMap))
     /\ ret' = Result(FALSE, 0, {})
     /\ UNCHANGED routes

get_routes_by_vni(v) == {r \in Dest \X Hop : r[2] \in Hops(v, r[1])}

remove_vni(v) ==
  /\ routes' = Delete(routes, v)
  /\ ret' = Result(FALSE, 0, get_routes_by_vni(v))

clear ==
  /\ routes' = EmptyMap
  /\ ret' = Result(FALSE, 0, {})

Next ==
  \/ \E v \in Vni, d \in Dest, h \in Hop : add_next_hop(v, d, h) \/ remove_next_hop(v, d, h)
  \/ \E v \in Vni : remove_vni(v)
  \/ clear

Spec == Init /\ [][Next]_vars

-----------------------------------------------------------------------------
(* The operations that only look. *)

next_hop_exists(v, d, h) == h \in Hops(v, d)
get_vnis                 == DOMAIN routes
is_empty                 == DOMAIN routes = {}
get_all_routes           == {k \in Vni \X Dest \X Hop : next_hop_exists(k[1], k[2], k[3])}

\* The table is well formed: every level that is there holds a route ("Clean up
\* empty entries", remove_next_hop), whatever was added and removed in between.
TableOK ==
  /\ DOMAIN routes \subseteq Vni
  /\ \A v \in DOMAIN routes :
       /\ DOMAIN routes[v] \subseteq Dest /\ DOMAIN routes[v] # {}
       /\ \A d \in DOMAIN routes[v] : routes[v][d] \subseteq Hop /\ routes[v][d] # {}

\* is_empty and get_vnis, which look at the outer map only, say the same as the
\* routes: the table is empty when it has no route, and a VNI is listed when one
\* of its routes is there.
OuterMapTells ==
  /\ (is_empty <=> get_all_routes = {})
  /\ get_vnis = {v \in Vni : get_routes_by_vni(v) # {}}

\* The nested maps implement a set of routes: every operation changes the set and
\* answers as RouteSet says.  RoutingServer, RouteDedup and PeerSession use sets.
Set == INSTANCE RouteSet WITH table <- get_all_routes
ImplementsSet == Set!Spec
=============================================================================
