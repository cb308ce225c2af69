-------------------------- MODULE RouteTableProofs --------------------------
(***************************************************************************)
(* The nested maps of RouteTable have no empty level and implement a set   *)
(* of routes, for any VNIs, destinations and next hops.                    *)
(***************************************************************************)
EXTENDS RouteTable, FiniteSetTheorems, TLAPS

USE DEF vars, EmptyMap, Insert, Delete, GetOr

\* add_next_hop adds its next hop and leaves every other destination alone.
LEMMA AddHops ==
  ASSUME NEW v, NEW d, NEW h, add_next_hop(v, d, h)
  PROVE  \A w, e :
           Hops(w, e)' = IF w = v /\ e = d THEN Hops(v, d) \cup {h} ELSE Hops(w, e)
<1> DEFINE dests == GetOr(routes, v, EmptyMap)
<1>1. /\ DOMAIN routes' = DOMAIN routes \cup {v}
      /\ routes'[v] = Insert(dests, d, Hops(v, d) \cup {h})
      /\ \A w \in DOMAIN routes \ {v} : routes'[w] = routes[w]
  BY DEF add_next_hop, Added
<1>2. /\ DOMAIN routes'[v] = DOMAIN dests \cup {d}
      /\ routes'[v][d] = Hops(v, d) \cup {h}
      /\ \A e \in DOMAIN dests \ {d} : routes'[v][e] = dests[e]
  BY <1>1
<1> QED
  BY <1>1, <1>2 DEF Hops

\* remove_next_hop takes its next hop away and leaves the others alone.
LEMMA RemoveHops ==
  ASSUME NEW v, NEW d, NEW h, remove_next_hop(v, d, h)
  PROVE  \A w, e :
           Hops(w, e)' = IF w = v /\ e = d THEN Hops(v, d) \ {h} ELSE Hops(w, e)
<1>1. CASE v \in DOMAIN routes /\ d \in DOMAIN routes[v]
  <2> DEFINE hops  == routes[v][d] \ {h}
             dests == WithHops(routes[v], d, hops)
  <2>1. /\ hops = {} => dests = Delete(routes[v], d)
        /\ hops # {} => dests = Insert(routes[v], d, hops)
    BY DEF WithHops
  <2>2. routes' = Shrunk(routes, v, dests)
    BY <1>1 DEF remove_next_hop
  <2>3. /\ DOMAIN dests = IF hops = {} THEN DOMAIN routes[v] \ {d} ELSE DOMAIN routes[v]
        /\ hops # {} => dests[d] = hops
        /\ \A e \in DOMAIN routes[v] \ {d} : dests[e] = routes[v][e]
    BY <1>1, <2>1
  <2> HIDE DEF dests
  <2>4. /\ DOMAIN dests = {} => DOMAIN routes' = DOMAIN routes \ {v}
        /\ DOMAIN dests # {} => DOMAIN routes' = DOMAIN routes /\ routes'[v] = dests
        /\ \A w \in DOMAIN routes \ {v} : routes'[w] = routes[w]
    BY <1>1, <2>2 DEF Shrunk
  <2> QED
    BY <1>1, <2>3, <2>4 DEF Hops
<1>2. CASE ~(v \in DOMAIN routes /\ d \in DOMAIN routes[v])
  <2>1. routes' = routes /\ Hops(v, d) = {}
    BY <1>2 DEF remove_next_hop, Hops
  <2> QED
    BY <2>1 DEF Hops
<1> QED
  BY <1>1, <1>2

\* A new table is well formed.
LEMMA TableInit == Init => TableOK
  BY DEF Init, TableOK

\* Every operation leaves a well-formed table: remove_next_hop drops the
\* destination and the VNI it empties.
LEMMA TableStep == TableOK /\ [Next]_vars => TableOK'
<1> SUFFICES ASSUME TableOK, [Next]_vars PROVE TableOK'
  OBVIOUS
<1>1. ASSUME NEW v \in Vni, NEW d \in Dest, NEW h \in Hop, add_next_hop(v, d, h)
      PROVE  TableOK'
  <2> DEFINE dests == GetOr(routes, v, EmptyMap)
  <2>1. /\ DOMAIN dests \subseteq Dest
        /\ \A e \in DOMAIN dests : dests[e] \subseteq Hop /\ dests[e] # {}
        /\ Hops(v, d) \subseteq Hop
    BY DEF TableOK, Hops
  <2>2. /\ DOMAIN routes' = DOMAIN routes \cup {v}
        /\ routes'[v] = Insert(dests, d, Hops(v, d) \cup {h})
        /\ \A w \in DOMAIN routes \ {v} : routes'[w] = routes[w]
    BY <1>1 DEF add_next_hop, Added
  <2>3. /\ DOMAIN routes'[v] = DOMAIN dests \cup {d}
        /\ routes'[v][d] = Hops(v, d) \cup {h}
        /\ \A e \in DOMAIN dests \ {d} : routes'[v][e] = dests[e]
    BY <2>2
  <2> HIDE DEF dests
  <2>4. /\ DOMAIN routes'[v] \subseteq Dest /\ DOMAIN routes'[v] # {}
        /\ \A e \in DOMAIN routes'[v] : routes'[v][e] \subseteq Hop /\ routes'[v][e] # {}
    BY <2>1, <2>3
  <2> QED
    BY <2>2, <2>4, ZenonT(40) DEF TableOK
<1>2. ASSUME NEW v \in Vni, NEW d \in Dest, NEW h \in Hop, remove_next_hop(v, d, h)
      PROVE  TableOK'
  <2>1. CASE v \in DOMAIN routes /\ d \in DOMAIN routes[v]
    <3> DEFINE hops  == routes[v][d] \ {h}
               dests == WithHops(routes[v], d, hops)
    <3>1. routes' = Shrunk(routes, v, dests)
      BY <1>2, <2>1 DEF remove_next_hop
    <3>2. /\ DOMAIN dests \subseteq Dest
          /\ \A e \in DOMAIN dests : dests[e] \subseteq Hop /\ dests[e] # {}
      BY <2>1 DEF WithHops, TableOK
    <3> HIDE DEF dests
    <3>3. /\ DOMAIN dests = {} => DOMAIN routes' = DOMAIN routes \ {v}
          /\ DOMAIN dests # {} => DOMAIN routes' = DOMAIN routes /\ routes'[v] = dests
          /\ \A w \in DOMAIN routes \ {v} : routes'[w] = routes[w]
      BY <2>1, <3>1 DEF Shrunk
    <3> QED
      BY <2>1, <3>2, <3>3 DEF TableOK
  <2>2. CASE ~(v \in DOMAIN routes /\ d \in DOMAIN routes[v])
    BY <1>2, <2>2 DEF remove_next_hop, TableOK
  <2> QED
    BY <2>1, <2>2
<1>3. ASSUME NEW v \in Vni, remove_vni(v)
      PROVE  TableOK'
  BY <1>3 DEF remove_vni, TableOK
<1>4. CASE clear
  BY <1>4 DEF clear, TableOK
<1>5. CASE UNCHANGED vars
  BY <1>5 DEF TableOK
<1> QED
  BY <1>1, <1>2, <1>3, <1>4, <1>5 DEF Next

\* The table never keeps an empty level (the clean-up in remove_next_hop).
THEOREM TableWellFormed == Spec => []TableOK
  BY TableInit, TableStep, PTL DEF Spec

\* What is stored for a destination consists of next hops, and what is not stored
\* is not there: the routes of the table are the next hops of its destinations.
LEMMA RoutesAreHops ==
  ASSUME TableOK
  PROVE  /\ \A v \in Vni, d \in Dest : Hops(v, d) \subseteq Hop
         /\ \A v \in Vni, d \in Dest : Set!HopsOf(get_all_routes, v, d) = Hops(v, d)
         /\ \A v \in Vni : Set!RoutesOf(get_all_routes, v) = get_routes_by_vni(v)
<1>1. \A v \in Vni, d \in Dest : Hops(v, d) \subseteq Hop
  BY DEF TableOK, Hops
<1>2. \A v \in Vni, d \in Dest, h \in Hop : <<v, d, h>> \in get_all_routes <=> h \in Hops(v, d)
  BY DEF get_all_routes, next_hop_exists
<1> QED
  BY <1>1, <1>2 DEF Set!HopsOf, Set!RoutesOf, get_routes_by_vni

\* A well-formed table is empty, and lists a VNI, exactly as its routes say.
LEMMA WellFormedTells == TableOK => OuterMapTells
<1> SUFFICES ASSUME TableOK PROVE OuterMapTells
  OBVIOUS
<1>1. ASSUME NEW v \in DOMAIN routes
      PROVE  \E d \in Dest, h \in Hop : h \in Hops(v, d)
  BY DEF TableOK, Hops
<1>2. ASSUME NEW v \in Vni \ DOMAIN routes, NEW d \in Dest
      PROVE  Hops(v, d) = {}
  BY DEF Hops
<1>3. DOMAIN routes \subseteq Vni
  BY DEF TableOK
<1>4. ASSUME NEW v \in DOMAIN routes
      PROVE  get_routes_by_vni(v) # {} /\ get_all_routes # {}
  <2>1. PICK d \in Dest, h \in Hop : h \in Hops(v, d)
    BY <1>1
  <2>2. <<d, h>> \in get_routes_by_vni(v)
    BY <2>1 DEF get_routes_by_vni
  <2>3. <<v, d, h>> \in get_all_routes
    BY <1>3, <2>1 DEF get_all_routes, next_hop_exists
  <2> QED
    BY <2>2, <2>3
<1>5. ASSUME NEW v \in Vni \ DOMAIN routes
      PROVE  get_routes_by_vni(v) = {}
  BY <1>2 DEF get_routes_by_vni
<1>6. DOMAIN routes = {} => get_all_routes = {}
  BY <1>2 DEF get_all_routes, next_hop_exists
<1>7. is_empty <=> get_all_routes = {}
  BY <1>4, <1>6 DEF is_empty
<1>8. get_vnis = {v \in Vni : get_routes_by_vni(v) # {}}
  BY <1>3, <1>4, <1>5 DEF get_vnis
<1> QED
  BY <1>7, <1>8 DEF OuterMapTells

\* is_empty and get_vnis, which look at the outer map only, never disagree with
\* the routes.
THEOREM OuterMapTellsAlways == Spec => []OuterMapTells
  BY TableInit, TableStep, WellFormedTells, PTL DEF Spec

\* A new table is the empty set.
LEMMA SetInit == Init => Set!Init
  BY DEF Init, Set!Init, Set!NoResult, Set!Result, Result, get_all_routes, next_hop_exists, Hops

\* Every operation of the nested maps is the operation of the set, answer included.
LEMMA SetStep ==
  TableOK /\ TableOK' /\ [Next]_vars => [Set!Next]_<<get_all_routes, ret>>
<1> SUFFICES ASSUME TableOK, TableOK', [Next]_vars
             PROVE  [Set!Next]_<<get_all_routes, ret>>
  OBVIOUS
<1>1. ASSUME NEW v \in Vni, NEW d \in Dest, NEW h \in Hop, add_next_hop(v, d, h)
      PROVE  Set!Add(v, d, h)
  <2>1. get_all_routes' = get_all_routes \cup {<<v, d, h>>}
    BY <1>1, AddHops DEF get_all_routes, next_hop_exists
  <2>2. ret' = Result(h \notin Hops(v, d), 0, {})
    BY <1>1 DEF add_next_hop
  <2>3. (<<v, d, h>> \notin get_all_routes) = (h \notin Hops(v, d))
    BY DEF get_all_routes, next_hop_exists
  <2>4. ret' = Set!Result(<<v, d, h>> \notin get_all_routes, 0, {})
    BY <2>2, <2>3, Zenon DEF Set!Result, Result
  <2> QED
    BY <2>1, <2>4 DEF Set!Add
<1>2. ASSUME NEW v \in Vni, NEW d \in Dest, NEW h \in Hop, remove_next_hop(v, d, h)
      PROVE  Set!Remove(v, d, h)
  <2>1. get_all_routes' = get_all_routes \ {<<v, d, h>>}
    BY <1>2, RemoveHops DEF get_all_routes, next_hop_exists
  <2>2. Set!HopsOf(get_all_routes', v, d) = Hops(v, d) \ {h}
    BY <2>1, RoutesAreHops DEF Set!HopsOf
  <2>3. <<v, d, h>> \in get_all_routes <=> h \in Hops(v, d)
    BY DEF get_all_routes, next_hop_exists
  <2>4. ret' = Result(h \in Hops(v, d), Cardinality(Hops(v, d) \ {h}), {})
    <3>1. CASE v \in DOMAIN routes /\ d \in DOMAIN routes[v]
      BY <1>2, <3>1 DEF remove_next_hop, Hops
    <3>2. CASE ~(v \in DOMAIN routes /\ d \in DOMAIN routes[v])
      <4>1. Hops(v, d) = {} /\ ret' = Result(FALSE, 0, {})
        BY <1>2, <3>2 DEF remove_next_hop, Hops
      <4>2. Hops(v, d) \ {h} = {} /\ Cardinality({}) = 0
        BY <4>1, FS_EmptySet
      <4>3. (h \in Hops(v, d)) = FALSE
        BY <4>1
      <4> QED
        BY <4>1, <4>2, <4>3 DEF Result
    <3> QED
      BY <3>1, <3>2
  <2>5. (<<v, d, h>> \in get_all_routes) = (h \in Hops(v, d))
    BY <2>3
  <2>6. ret' = Set!Result(<<v, d, h>> \in get_all_routes,
                          Cardinality(Set!HopsOf(get_all_routes', v, d)), {})
    BY <2>2, <2>4, <2>5, Zenon DEF Set!Result, Result
  <2> QED
    BY <2>1, <2>6, Zenon DEF Set!Remove, Set!Cardinality, Cardinality
<1>3. ASSUME NEW v \in Vni, remove_vni(v)
      PROVE  Set!RemoveVni(v)
  <2>1. \A w \in Vni, e \in Dest : Hops(w, e)' = IF w = v THEN {} ELSE Hops(w, e)
    BY <1>3 DEF remove_vni, Hops
  <2>2. get_all_routes' = {k \in get_all_routes : k[1] # v}
    BY <2>1 DEF get_all_routes, next_hop_exists
  <2>3. ret' = Set!Result(FALSE, 0, Set!RoutesOf(get_all_routes, v))
    <3>1. Set!RoutesOf(get_all_routes, v) = get_routes_by_vni(v)
      BY RoutesAreHops
    <3> QED
      BY <1>3, <3>1, Zenon DEF remove_vni, Result, Set!Result
  <2> QED
    BY <2>2, <2>3, Zenon DEF Set!RemoveVni
<1>4. CASE clear
  <2>1. \A w \in Vni, e \in Dest : Hops(w, e)' = {}
    BY <1>4 DEF clear, Hops
  <2>2. get_all_routes' = {}
    BY <2>1 DEF get_all_routes, next_hop_exists
  <2> QED
    BY <1>4, <2>2 DEF clear, Result, Set!Next, Set!Clear, Set!NoResult, Set!Result
<1>5. CASE UNCHANGED vars
  BY <1>5 DEF get_all_routes, next_hop_exists, Hops
<1> QED
  BY <1>1, <1>2, <1>3, <1>4, <1>5 DEF Next, Set!Next

\* The nested maps implement a set of routes: whatever is added, removed or
\* cleared, and every answer an operation of route.rs gives, is the set's.
THEOREM TableImplementsSet == Spec => ImplementsSet
<1>1. Spec => []TableOK
  BY TableInit, TableStep, PTL DEF Spec
<1> QED
  BY <1>1, SetInit, SetStep, PTL DEF Spec, ImplementsSet, Set!Spec
=============================================================================
