------------------------------ MODULE RouteSet ------------------------------
(***************************************************************************)
(* What a route table promises its owner: it is a set of routes, each a    *)
(* VNI, a destination and a next hop.  RouteTable implements it.           *)
(***************************************************************************)
EXTENDS Integers, FiniteSets

CONSTANTS Vni, Dest, Hop

VARIABLES
  table,  \* the set of routes
  ret     \* what the last operation returned

Key == Vni \X Dest \X Hop

\* The results of the operations: newly added or removed; next hops left for
\* the destination; the routes of a removed VNI.
Result(ok, left, removed) == [ok |-> ok, left |-> left, removed |-> removed]
NoResult == Result(FALSE, 0, {})

HopsOf(T, v, d) == {h \in Hop : <<v, d, h>> \in T}
RoutesOf(T, v)  == {r \in Dest \X Hop : <<v, r[1], r[2]>> \in T}

Init == table = {} /\ ret = NoResult

Add(v, d, h) ==
  /\ table' = table \cup {<<v, d, h>>}
  /\ ret' = Result(<<v, d, h>> \notin table, 0, {})

Remove(v, d, h) ==
  /\ table' = table \ {<<v, d, h>>}
  /\ ret' = Result(<<v, d, h>> \in table, Cardinality(HopsOf(table', v, d)), {})

RemoveVni(v) ==
  /\ table' = {k \in table : k[1] # v}
  /\ ret' = Result(FALSE, 0, RoutesOf(table, v))

Clear == table' = {} /\ ret' = NoResult

Next ==
  \/ \E v \in Vni, d \in Dest, h \in Hop : Add(v, d, h) \/ Remove(v, d, h)
  \/ \E v \in Vni : RemoveVni(v)
  \/ Clear

Spec == Init /\ [][Next]_<<table, ret>>
=============================================================================
