----------------------------- MODULE RouteBoard -----------------------------
(***************************************************************************)
(* What the routing actor of src/server.rs promises its peers, without the *)
(* tasks, queues and channels around it: a board of routes and             *)
(* subscriptions that only its members change, each between joining and    *)
(* leaving.  Members are connections, but the board knows them by their    *)
(* address: when one of them leaves, nothing remains of its address, even  *)
(* if another connection of the same address stays.  RoutingServer         *)
(* implements it.                                                          *)
(***************************************************************************)
CONSTANTS Conn, Addr, NoAddr, AddrOf, Vni, Route

VARIABLES
  members,  \* connections that have joined and not left
  owner,    \* address of the last announcer of each route; NoAddr: no such route
  subs,     \* subscribers of each VNI
  leaving   \* the address that has just left, until its routes are gone

Key == Vni \X Route

Init ==
  /\ members = {}
  /\ owner = [k \in Key |-> NoAddr]
  /\ subs = [v \in Vni |-> {}]
  /\ leaving = NoAddr

Present == {AddrOf[c] : c \in members}

\* Slow consumers lose all their subscriptions.
Drop(S) == subs' = [v \in Vni |-> subs[v] \ S]

\* A member does something.  Everything waits while a peer's routes are removed.
Acts(c) == leaving = NoAddr /\ c \in members

\* Nobody joins twice, and nobody finds routes or subscriptions of an earlier
\* session, unless another session of the same address goes on.
Join(c) ==
  /\ leaving = NoAddr
  /\ c \notin members
  /\ AddrOf[c] \notin Present =>
       /\ \A k \in Key : owner[k] # AddrOf[c]
       /\ \A v \in Vni : AddrOf[c] \notin subs[v]
  /\ members' = members \cup {c}
  /\ UNCHANGED <<owner, subs, leaving>>

Subscribe(c, v) ==
  /\ Acts(c)
  /\ subs' = [subs EXCEPT ![v] = @ \cup {AddrOf[c]}]
  /\ UNCHANGED <<members, owner, leaving>>

Unsubscribe(c, v) ==
  /\ Acts(c)
  /\ subs' = [subs EXCEPT ![v] = @ \ {AddrOf[c]}]
  /\ UNCHANGED <<members, owner, leaving>>

\* A change of a route costs at most other subscribers of its VNI.
Changed(c, k, o) ==
  /\ Acts(c)
  /\ owner' = [owner EXCEPT ![k] = o]
  /\ \E S \in SUBSET (subs[k[1]] \ {AddrOf[c]}) : Drop(S)
  /\ UNCHANGED <<members, leaving>>

Announce(c, k) == Changed(c, k, AddrOf[c])
Withdraw(c, k) == Changed(c, k, NoAddr)

Leave(c) ==
  /\ Acts(c)
  /\ members' = members \ {c}
  /\ leaving' = AddrOf[c]
  /\ Drop({AddrOf[c]})
  /\ UNCHANGED owner

RemoveRoute(k) ==
  /\ leaving # NoAddr
  /\ owner[k] = leaving
  /\ owner' = [owner EXCEPT ![k] = NoAddr]
  /\ UNCHANGED <<members, subs, leaving>>

Left ==
  /\ leaving # NoAddr
  /\ \A k \in Key : owner[k] # leaving
  /\ leaving' = NoAddr
  /\ \E S \in SUBSET Present : Drop(S)
  /\ UNCHANGED <<members, owner>>

Next ==
  \/ \E c \in Conn : \/ Join(c) \/ Leave(c)
                     \/ \E v \in Vni : Subscribe(c, v) \/ Unsubscribe(c, v)
                     \/ \E k \in Key : Announce(c, k) \/ Withdraw(c, k)
  \/ \E k \in Key : RemoveRoute(k)
  \/ Left

Spec == Init /\ [][Next]_<<members, owner, subs, leaving>>
=============================================================================
