------------------------- MODULE PeerReceiveProofs -------------------------
(***************************************************************************)
(* Proofs about PeerReceive, for any messages, in any pieces, over any     *)
(* number of connections: the handler's calls mirror the peer's route      *)
(* table, no message is lost, and the table is used as RouteTable says.    *)
(* The second rests on lemmas about the codec (Wire), and those about a    *)
(* stream of messages on an induction over its length.                     *)
(***************************************************************************)
EXTENDS PeerReceive, RouteTableProofs, SequenceTheorems

USE DEF streamVars, tableVars, receiveVars, EmptyMap, Insert, Delete, GetOr

\* The inductive invariant: every route has a number of calls, and the right one.
MirrorInv == told \in [Key -> Int] /\ HandlerMirrors

\* A route is in the table when its next hop is stored.
LEMMA RouteIsHop ==
  ASSUME NEW k \in Key
  PROVE  /\ k \in get_all_routes <=> k[3] \in Hops(k[1], k[2])
         /\ k[1] \in Vni /\ k[2] \in Dest /\ k[3] \in Hop
         /\ \A v, d, h : k = <<v, d, h>> <=> k[1] = v /\ k[2] = d /\ k[3] = h
  BY DEF Key, get_all_routes, next_hop_exists

\* remove_vni empties its VNI and leaves the others alone.
LEMMA RemoveVniHops ==
  ASSUME NEW v, remove_vni(v)
  PROVE  \A w, e : Hops(w, e)' = IF w = v THEN {} ELSE Hops(w, e)
  BY DEF remove_vni, Hops

\* An add_route for a new route, none for one that is there (handle_message).
LEMMA MirrorAdd ==
  ASSUME MirrorInv, NEW v, NEW d, NEW h, add_next_hop(v, d, h), TellAdd(<<v, d, h>>)
  PROVE  MirrorInv'
<1>1. ret'.ok <=> h \notin Hops(v, d)
  BY DEF add_next_hop, Result
<1>2. told' \in [Key -> Int]
  <2> DEFINE k == <<v, d, h>>
  <2>1. CASE ret'.ok
    <3>1. told' = [told EXCEPT ![k] = told[k] + 1]
      BY <2>1 DEF TellAdd
    <3>2. \A j \in Key : told[j] \in Int /\ told[j] + 1 \in Int
      BY DEF MirrorInv
    <3> HIDE DEF k
    <3> QED
      BY <3>1, <3>2 DEF MirrorInv
  <2>2. CASE ~ret'.ok
    BY <2>2 DEF MirrorInv, TellAdd
  <2> QED
    BY <2>1, <2>2
<1>3. ASSUME NEW k \in Key PROVE told'[k] = IF (k \in get_all_routes)' THEN 1 ELSE 0
  <2>1. told[k] = (IF k[3] \in Hops(k[1], k[2]) THEN 1 ELSE 0) /\ told \in [Key -> Int]
    BY RouteIsHop DEF MirrorInv, HandlerMirrors
  <2>2. (k \in get_all_routes)' <=> k[3] \in Hops(k[1], k[2])'
    BY RouteIsHop DEF Key, get_all_routes, next_hop_exists
  <2>3. Hops(k[1], k[2])' = IF k[1] = v /\ k[2] = d THEN Hops(v, d) \cup {h} ELSE Hops(k[1], k[2])
    BY AddHops
  <2>4. k = <<v, d, h>> <=> k[1] = v /\ k[2] = d /\ k[3] = h
    BY RouteIsHop
  <2>5. told'[k] = IF h \notin Hops(v, d) /\ k = <<v, d, h>> THEN told[k] + 1 ELSE told[k]
    BY <1>1, <2>1 DEF TellAdd
  <2> QED
    BY <2>1, <2>2, <2>3, <2>4, <2>5
<1> QED
  BY <1>2, <1>3 DEF MirrorInv, HandlerMirrors

\* A remove_route for each route of S that goes, when S is what goes.
LEMMA MirrorRemove ==
  ASSUME MirrorInv, NEW S, TellRemove(S),
         \A k \in Key : /\ k \in S => k \in get_all_routes
                        /\ (k \in get_all_routes)' <=> k \in get_all_routes /\ k \notin S
  PROVE  MirrorInv'
<1>1. ASSUME NEW k \in Key PROVE told'[k] = IF (k \in get_all_routes)' THEN 1 ELSE 0
  BY DEF MirrorInv, HandlerMirrors, TellRemove
<1>2. told' \in [Key -> Int]
  BY DEF MirrorInv, TellRemove
<1> QED
  BY <1>1, <1>2 DEF MirrorInv, HandlerMirrors

\* A step that leaves the table and the handler alone.
LEMMA MirrorKept ==
  ASSUME MirrorInv, UNCHANGED tableVars
  PROVE  MirrorInv'
  BY DEF MirrorInv, HandlerMirrors, get_all_routes, next_hop_exists, Hops

\* Every message that is handled keeps table and handler together.
LEMMA MirrorMessage ==
  ASSUME MirrorInv, NEW m, handle_message(m)
  PROVE  MirrorInv'
<1>1. CASE add_next_hop(m.vni, m.dest, m.hop) /\ TellAdd(<<m.vni, m.dest, m.hop>>)
  BY <1>1, MirrorAdd
<1>2. ASSUME NEW v, NEW d, NEW h, remove_next_hop(v, d, h),
             TellRemove(IF ret'.ok THEN {<<v, d, h>>} ELSE {})
      PROVE  MirrorInv'
  <2> DEFINE S == IF ret'.ok THEN {<<v, d, h>>} ELSE {}
  <2>1. ret'.ok <=> h \in Hops(v, d)
    <3>1. CASE v \in DOMAIN routes /\ d \in DOMAIN routes[v]
      <4>1. ret' = Result(h \in routes[v][d], Cardinality(routes[v][d] \ {h}), {})
        BY <1>2, <3>1 DEF remove_next_hop
      <4>2. Hops(v, d) = routes[v][d]
        BY <3>1 DEF Hops
      <4> QED
        BY <4>1, <4>2 DEF Result
    <3>2. CASE ~(v \in DOMAIN routes /\ d \in DOMAIN routes[v])
      <4>1. ret' = Result(FALSE, 0, {})
        BY <1>2, <3>2 DEF remove_next_hop
      <4>2. h \notin Hops(v, d)
        BY <3>2 DEF Hops
      <4> QED
        BY <4>1, <4>2 DEF Result
    <3> QED
      BY <3>1, <3>2
  <2>2. ASSUME NEW k \in Key
        PROVE  /\ k \in S => k \in get_all_routes
               /\ (k \in get_all_routes)' <=> k \in get_all_routes /\ k \notin S
    <3>1. /\ k \in get_all_routes <=> k[3] \in Hops(k[1], k[2])
          /\ k = <<v, d, h>> <=> k[1] = v /\ k[2] = d /\ k[3] = h
      BY RouteIsHop
    <3>2. (k \in get_all_routes)' <=> k[3] \in Hops(k[1], k[2])'
      BY RouteIsHop DEF Key, get_all_routes, next_hop_exists
    <3>3. Hops(k[1], k[2])' = IF k[1] = v /\ k[2] = d THEN Hops(v, d) \ {h} ELSE Hops(k[1], k[2])
      BY <1>2, RemoveHops
    <3> QED
      BY <2>1, <3>1, <3>2, <3>3
  <2> HIDE DEF S
  <2>3. TellRemove(S)
    BY <1>2 DEF S
  <2> QED
    BY <2>2, <2>3, MirrorRemove
<1>3. CASE UNCHANGED tableVars
  BY <1>3, MirrorKept
<1> QED
  BY <1>1, <1>2, <1>3 DEF handle_message

\* Unsubscribe: the routes of the VNI go from the table and from the handler.
LEMMA MirrorUnsubscribe ==
  ASSUME MirrorInv, NEW v \in Vni, Unsubscribe(v)
  PROVE  MirrorInv'
<1> DEFINE S == {<<v, r[1], r[2]>> : r \in ret'.removed}
<1>1. remove_vni(v) /\ TellRemove(S)
  BY DEF Unsubscribe
<1>2. ret'.removed = get_routes_by_vni(v)
  BY <1>1 DEF remove_vni, Result
<1>3. ASSUME NEW k \in Key
      PROVE  /\ k \in S => k \in get_all_routes
             /\ (k \in get_all_routes)' <=> k \in get_all_routes /\ k \notin S
  <2>1. k \in get_all_routes <=> k[3] \in Hops(k[1], k[2])
    BY RouteIsHop
  <2>2. (k \in get_all_routes)' <=> k[3] \in Hops(k[1], k[2])'
    BY RouteIsHop DEF Key, get_all_routes, next_hop_exists
  <2>3. Hops(k[1], k[2])' = IF k[1] = v THEN {} ELSE Hops(k[1], k[2])
    BY <1>1, RemoveVniHops
  <2>4. k \in S <=> k[1] = v /\ k[3] \in Hops(v, k[2])
    <3>1. ASSUME k \in S PROVE k[1] = v /\ k[3] \in Hops(v, k[2])
      <4>1. PICK r \in get_routes_by_vni(v) : k = <<v, r[1], r[2]>>
        BY <1>2, <3>1
      <4> QED
        BY <4>1 DEF get_routes_by_vni
    <3>2. ASSUME k[1] = v, k[3] \in Hops(v, k[2]) PROVE k \in S
      <4>1. <<k[2], k[3]>> \in get_routes_by_vni(v)
        BY <3>2, RouteIsHop DEF get_routes_by_vni
      <4>2. k = <<v, k[2], k[3]>>
        BY <3>2, RouteIsHop
      <4> QED
        BY <1>2, <4>1, <4>2
    <3> QED
      BY <3>1, <3>2
  <2> HIDE DEF S
  <2> QED
    BY <2>1, <2>2, <2>3, <2>4
<1> HIDE DEF S
<1> QED
  BY <1>1, <1>3, MirrorRemove

\* The connection is over: everything in the table is withdrawn.
LEMMA MirrorClear ==
  ASSUME MirrorInv, ClearReceived
  PROVE  MirrorInv'
<1>1. clear /\ TellRemove(get_all_routes)
  BY DEF ClearReceived
<1>2. get_all_routes' = {}
  BY <1>1 DEF clear, get_all_routes, next_hop_exists, Hops
<1> QED
  BY <1>1, <1>2, MirrorRemove

\* Every step keeps the invariant; one case per action.
LEMMA MirrorStep ==
  ASSUME MirrorInv, [ReceiveNext]_receiveVars
  PROVE  MirrorInv'
<1>1. ASSUME NEW m \in Message, Send(m) PROVE MirrorInv'
  BY <1>1, MirrorKept DEF Send
<1>2. ASSUME NEW bytes \in Foreign, SendForeign(bytes) PROVE MirrorInv'
  BY <1>2, MirrorKept DEF SendForeign
<1>3. CASE ReadSome
  BY <1>3, MirrorKept DEF ReadSome, Read
<1>4. CASE HandleOne
  BY <1>4, MirrorMessage DEF HandleOne
<1>5. CASE NeedMore \/ DecodeError \/ ConnectionEnds \/ Shutdown \/ Reconnect \/ UNCHANGED receiveVars
  BY <1>5, MirrorKept DEF NeedMore, DecodeError, ConnectionEnds, Shutdown, Reconnect
<1>6. ASSUME NEW v \in Vni, Unsubscribe(v) PROVE MirrorInv'
  BY <1>6, MirrorUnsubscribe
<1>7. CASE ClearReceived
  BY <1>7, MirrorClear
<1> QED
  BY <1>1, <1>2, <1>3, <1>4, <1>5, <1>6, <1>7 DEF ReceiveNext, Decode

\* The handler's add_route and remove_route come in turn for every route and
\* agree with received_routes, whatever the server sends and however often the
\* connection is lost.
THEOREM HandlerAlwaysMirrors == ReceiveSpec => []HandlerMirrors
<1>1. ReceiveInit => MirrorInv
  BY DEF ReceiveInit, Init, MirrorInv, HandlerMirrors, get_all_routes, next_hop_exists, Hops
<1>2. MirrorInv /\ [ReceiveNext]_receiveVars => MirrorInv'
  BY MirrorStep
<1>3. MirrorInv => HandlerMirrors
  BY DEF MirrorInv
<1> QED
  BY <1>1, <1>2, <1>3, PTL DEF ReceiveSpec

-----------------------------------------------------------------------------
(***************************************************************************)
(* Induction over the natural numbers, and what FlattenSeq computes.       *)
(***************************************************************************)

\* Every non-empty set of natural numbers has a least element.
LEMMA LeastNatural ==
  ASSUME NEW T, T \subseteq Nat, T # {}
  PROVE  \E n \in T : \A m \in T : n <= m
<1> DEFINE R == OpToRel(<, Nat)
<1>1. IsWellFoundedOn(R, Nat)
  BY NatLessThanWellFounded
<1>2. \A m, n \in Nat : <<m, n>> \in R <=> m < n
  BY DEF OpToRel
<1> HIDE DEF R
<1>3. PICK n \in T : \A m \in T : ~(<<m, n>> \in R)
  BY <1>1, WFMin
<1>4. ASSUME NEW m \in T PROVE n <= m
  <2>1. m \in Nat /\ n \in Nat /\ ~(m < n)
    BY <1>2, <1>3
  <2> QED
    BY <2>1
<1> QED
  BY <1>3, <1>4

\* A set that contains 0 and the successor of each of its numbers has them all.
LEMMA NatInSet ==
  ASSUME NEW T, 0 \in T, \A n \in Nat : n \in T => n + 1 \in T
  PROVE  Nat \subseteq T
<1> DEFINE Rest == {n \in Nat : n \notin T}
<1>1. SUFFICES ASSUME Rest # {} PROVE FALSE
  OBVIOUS
<1>2. PICK n \in Rest : \A m \in Rest : n <= m
  BY <1>1, LeastNatural
<1>3. n # 0 /\ n - 1 \in Nat /\ n - 1 \notin Rest
  BY <1>2
<1> QED
  BY <1>3

\* The recursion inside FlattenSeq.
Flattens(f, s) == f = [i \in 1..Len(s) |-> IF i = 1 THEN s[i] ELSE f[i - 1] \o s[i]]

\* Two functions that satisfy it are the same.
LEMMA FlattensUnique ==
  ASSUME NEW s, NEW t, NEW f, NEW g, Len(s) \in Nat, Len(t) \in Nat, Len(s) <= Len(t),
         \A i \in 1..Len(s) : s[i] = t[i],
         Flattens(f, s), Flattens(g, t)
  PROVE  \A i \in 1..Len(s) : f[i] = g[i]
<1> DEFINE T == {n \in Nat : n \in 1..Len(s) => f[n] = g[n]}
<1>1. 0 \in T
  OBVIOUS
<1>2. ASSUME NEW n \in Nat, n \in T, n + 1 \in 1..Len(s) PROVE f[n + 1] = g[n + 1]
  <2>1. f[n + 1] = IF n + 1 = 1 THEN s[n + 1] ELSE f[(n + 1) - 1] \o s[n + 1]
    BY <1>2 DEF Flattens
  <2>2. g[n + 1] = IF n + 1 = 1 THEN t[n + 1] ELSE g[(n + 1) - 1] \o t[n + 1]
    <3>1. n + 1 \in 1..Len(t)
      BY <1>2
    <3> QED
      BY <3>1 DEF Flattens
  <2>3. (n + 1) - 1 = n /\ (n # 0 => f[n] = g[n]) /\ s[n + 1] = t[n + 1]
    BY <1>2
  <2> QED
    BY <2>1, <2>2, <2>3
<1>3. Nat \subseteq T
  <2> HIDE DEF T
  <2>1. \A n \in Nat : n \in T => n + 1 \in T
    BY <1>2 DEF T
  <2> QED
    BY <1>1, <2>1, NatInSet
<1> QED
  BY <1>3

\* Such a function exists.
LEMMA FlattensExists ==
  ASSUME NEW s, Len(s) \in Nat
  PROVE  \E f : Flattens(f, s)
<1> DEFINE Upto(f, n) == f = [i \in 1..n |-> IF i = 1 THEN s[i] ELSE f[i - 1] \o s[i]]
           T == {n \in Nat : \E f : Upto(f, n)}
<1>1. 0 \in T
  <2>1. Upto([i \in 1..0 |-> s[i]], 0)
    OBVIOUS
  <2> QED
    BY <2>1
<1>2. ASSUME NEW n \in Nat, n \in T PROVE n + 1 \in T
  <2>1. PICK f : Upto(f, n)
    BY <1>2
  <2> DEFINE g == [i \in 1..(n + 1) |->
                     IF i = 1 THEN s[1]
                     ELSE IF i <= n THEN f[i] ELSE f[n] \o s[n + 1]]
  <2>2. ASSUME NEW i \in 1..(n + 1) PROVE g[i] = IF i = 1 THEN s[i] ELSE g[i - 1] \o s[i]
    <3>1. CASE i = 1
      BY <3>1
    <3>2. CASE i # 1 /\ i <= n
      <4>1. i \in 1..n /\ i - 1 \in 1..n /\ i - 1 \in 1..(n + 1)
        BY <3>2
      <4>2. f[i] = f[i - 1] \o s[i]
        BY <2>1, <3>2, <4>1
      <4>3. g[i - 1] = f[i - 1]
        <5>1. CASE i - 1 = 1
          <6>1. f[1] = s[1]
            BY <2>1, <4>1
          <6> QED
            BY <5>1, <6>1, <4>1
        <5>2. CASE i - 1 # 1
          BY <5>2, <4>1
        <5> QED
          BY <5>1, <5>2
      <4>4. g[i] = f[i]
        BY <3>2
      <4> QED
        BY <3>2, <4>2, <4>3, <4>4
    <3>3. CASE i # 1 /\ i = n + 1
      <4>1. n \in 1..n /\ n \in 1..(n + 1) /\ i - 1 = n /\ ~(i <= n)
        BY <3>3
      <4>2. g[n] = f[n]
        <5>1. CASE n = 1
          <6>1. f[1] = s[1]
            BY <2>1, <4>1, <5>1
          <6> QED
            BY <5>1, <6>1, <4>1
        <5>2. CASE n # 1
          BY <5>2, <4>1
        <5> QED
          BY <5>1, <5>2
      <4>3. g[i] = f[n] \o s[n + 1]
        BY <3>3, <4>1
      <4> QED
        BY <3>3, <4>1, <4>2, <4>3
    <3> QED
      BY <3>1, <3>2, <3>3
  <2>3. Upto(g, n + 1)
    <3> DEFINE h == [i \in 1..(n + 1) |-> IF i = 1 THEN s[i] ELSE g[i - 1] \o s[i]]
    <3>1. DOMAIN g = 1..(n + 1) /\ DOMAIN h = 1..(n + 1)
      OBVIOUS
    <3>2. \A i \in 1..(n + 1) : g[i] = h[i]
      BY <2>2
    <3>3. g = [i \in 1..(n + 1) |-> g[i]] /\ h = [i \in 1..(n + 1) |-> h[i]]
      OBVIOUS
    <3>4. g = h
      <4> HIDE DEF g, h
      <4> QED
        BY <3>2, <3>3
    <3> QED
      BY <3>4
  <2> HIDE DEF g, Upto
  <2> QED
    BY <2>3
<1>3. Nat \subseteq T
  <2> HIDE DEF T
  <2> QED
    BY <1>1, <1>2, NatInSet
<1> QED
  BY <1>3 DEF Flattens

\* FlattenSeq is the last value of the recursion.
LEMMA FlattenLast ==
  ASSUME NEW s, Len(s) \in Nat \ {0}
  PROVE  \E f : Flattens(f, s) /\ Seqs!FlattenSeq(s) = f[Len(s)]
  BY FlattensExists DEF Flattens, Seqs!FlattenSeq

\* It appends what is appended.
LEMMA FlattenAppend ==
  ASSUME NEW S, NEW s \in Seq(Seq(S)), NEW e \in Seq(S)
  PROVE  Seqs!FlattenSeq(Append(s, e)) = Seqs!FlattenSeq(s) \o e
<1> DEFINE t == Append(s, e)
           n == Len(s)
<1>1. /\ n \in Nat /\ Len(t) = n + 1 /\ t[n + 1] = e
      /\ \A i \in 1..n : s[i] = t[i]
  BY AppendProperties, LenProperties
<1> HIDE DEF t
<1>2. PICK g : Flattens(g, t) /\ Seqs!FlattenSeq(t) = g[Len(t)]
  BY <1>1, FlattenLast
<1>3. CASE n = 0
  <2>1. Seqs!FlattenSeq(s) = <<>>
    <3>1. s = <<>>
      BY <1>3, EmptySeq
    <3> QED
      BY <3>1, <1>3 DEF Seqs!FlattenSeq
  <2>2. g[1] = e
    BY <1>1, <1>2, <1>3 DEF Flattens
  <2>3. <<>> \o e = e
    BY ConcatEmptySeq
  <2> QED
    BY <1>1, <1>2, <1>3, <2>1, <2>2, <2>3 DEF t
<1>4. CASE n # 0
  <2>1. PICK f : Flattens(f, s) /\ Seqs!FlattenSeq(s) = f[n]
    BY <1>1, <1>4, FlattenLast
  <2>2. f[n] = g[n]
    <3>1. \A i \in 1..n : f[i] = g[i]
      <4>1. Len(s) \in Nat /\ Len(t) \in Nat /\ Len(s) <= Len(t) /\ \A i \in 1..Len(s) : s[i] = t[i]
        BY <1>1
      <4> HIDE DEF n
      <4>2. \A i \in 1..Len(s) : f[i] = g[i]
        BY <4>1, <1>2, <2>1, FlattensUnique, SMTT(30)
      <4> QED
        BY <4>2 DEF n
    <3> QED
      BY <3>1, <1>1, <1>4
  <2>3. g[n + 1] = g[n] \o e
    <3>1. n + 1 \in 1..Len(t) /\ n + 1 # 1 /\ (n + 1) - 1 = n
      BY <1>1, <1>4
    <3>2. g[n + 1] = IF n + 1 = 1 THEN t[n + 1] ELSE g[(n + 1) - 1] \o t[n + 1]
      BY <1>2, <3>1 DEF Flattens
    <3> QED
      BY <3>1, <3>2, <1>1
  <2> QED
    BY <1>1, <1>2, <2>1, <2>2, <2>3 DEF t
<1> QED
  BY <1>3, <1>4

\* It is a sequence of the same elements.
LEMMA FlattenInSeq ==
  ASSUME NEW S
  PROVE  Seqs!FlattenSeq(<<>>) = <<>> /\ \A s \in Seq(Seq(S)) : Seqs!FlattenSeq(s) \in Seq(S)
<1>1. Seqs!FlattenSeq(<<>>) = <<>>
  BY EmptySeq DEF Seqs!FlattenSeq
<1> DEFINE T == {n \in Nat : \A s \in Seq(Seq(S)) : Len(s) = n => Seqs!FlattenSeq(s) \in Seq(S)}
<1>2. 0 \in T
  BY <1>1, EmptySeq
<1>3. ASSUME NEW n \in Nat, n \in T, NEW s \in Seq(Seq(S)), Len(s) = n + 1
      PROVE  Seqs!FlattenSeq(s) \in Seq(S)
  <2>1. s # <<>>
    BY <1>3, EmptySeq
  <2>2. PICK r \in Seq(Seq(S)), e \in Seq(S) : s = Append(r, e)
    BY <2>1, SequenceEmptyOrAppend
  <2>3. Len(r) = n
    BY <1>3, <2>2, AppendProperties, LenProperties
  <2> QED
    BY <1>3, <2>2, <2>3, FlattenAppend, ConcatProperties
<1>4. Nat \subseteq T
  <2>1. ASSUME NEW n \in Nat, n \in T PROVE n + 1 \in T
    <3>1. \A s \in Seq(Seq(S)) : Len(s) = n + 1 => Seqs!FlattenSeq(s) \in Seq(S)
      BY <1>3, <2>1
    <3> QED
      BY <3>1
  <2> HIDE DEF T
  <2> QED
    BY <1>2, <2>1, NatInSet
<1>5. \A s \in Seq(Seq(S)) : Len(s) \in Nat
  BY LenProperties
<1> QED
  BY <1>1, <1>4, <1>5

\* It starts with the first of the sequences.
LEMMA FlattenFirst ==
  ASSUME NEW S
  PROVE  \A s \in Seq(Seq(S)) :
           s # <<>> => Seqs!FlattenSeq(s) = Head(s) \o Seqs!FlattenSeq(Tail(s))
<1> DEFINE Good(s) == s # <<>> => Seqs!FlattenSeq(s) = Head(s) \o Seqs!FlattenSeq(Tail(s))
           T == {n \in Nat : \A s \in Seq(Seq(S)) : Len(s) = n => Good(s)}
<1>1. 0 \in T
  BY EmptySeq
<1>2. ASSUME NEW n \in Nat, n \in T, NEW s \in Seq(Seq(S)), Len(s) = n + 1 PROVE Good(s)
  <2>1. s # <<>>
    BY <1>2, EmptySeq
  <2>2. PICK r \in Seq(Seq(S)), e \in Seq(S) : s = Append(r, e)
    BY <2>1, SequenceEmptyOrAppend
  <2>3. Len(r) = n
    BY <1>2, <2>2, AppendProperties, LenProperties
  <2>4. Good(r)
    BY <1>2, <2>3
  <2>5. Seqs!FlattenSeq(s) = Seqs!FlattenSeq(r) \o e
    BY <2>2, FlattenAppend
  <2>6. CASE r = <<>>
    <3>1. Head(s) = e /\ Tail(s) = <<>>
      BY <2>2, <2>6, HeadTailAppend
    <3>2. <<>> \o e = e /\ e \o <<>> = e
      BY ConcatEmptySeq
    <3> QED
      BY <2>5, <2>6, <3>1, <3>2, FlattenInSeq
  <2>7. CASE r # <<>>
    <3>1. Head(s) = Head(r) /\ Tail(s) = Append(Tail(r), e)
      BY <2>2, <2>7, HeadTailAppend
    <3>2. Head(r) \in Seq(S) /\ Tail(r) \in Seq(Seq(S))
      BY <2>7, HeadTailProperties
    <3>3. Seqs!FlattenSeq(Tail(s)) = Seqs!FlattenSeq(Tail(r)) \o e
      BY <3>1, <3>2, FlattenAppend
    <3>4. Seqs!FlattenSeq(Tail(r)) \in Seq(S)
      BY <3>2, FlattenInSeq
    <3>5. (Head(r) \o Seqs!FlattenSeq(Tail(r))) \o e = Head(r) \o (Seqs!FlattenSeq(Tail(r)) \o e)
      <4> DEFINE h == Head(r)
                 a == Seqs!FlattenSeq(Tail(r))
      <4>1. h \in Seq(S) /\ a \in Seq(S)
        BY <3>2, <3>4
      <4> HIDE DEF h, a
      <4>2. (h \o a) \o e = h \o (a \o e)
        BY <4>1, ConcatAssociative, SMTT(30)
      <4> QED
        BY <4>2 DEF h, a
    <3> QED
      BY <2>4, <2>5, <2>7, <3>1, <3>3, <3>5
  <2> QED
    BY <2>6, <2>7
<1>3. Nat \subseteq T
  <2>1. ASSUME NEW n \in Nat, n \in T PROVE n + 1 \in T
    <3>1. \A s \in Seq(Seq(S)) : Len(s) = n + 1 => Good(s)
      BY <1>2, <2>1
    <3> QED
      BY <3>1
  <2> HIDE DEF T
  <2> QED
    BY <1>1, <2>1, NatInSet
<1>4. \A s \in Seq(Seq(S)) : Len(s) \in Nat
  BY LenProperties
<1> QED
  BY <1>3, <1>4

-----------------------------------------------------------------------------
(***************************************************************************)
(* The codec (Wire): what encode writes, decode reads back.                *)
(***************************************************************************)

\* The two length bytes of a payload that is not too long give its length.
LEMMA LengthBytes ==
  ASSUME NEW n \in 0..MaxPayloadSize
  PROVE  ((n \div ByteSize) % ByteSize) * ByteSize + (n % ByteSize) = n
<1>1. ByteSize \in Nat \ {0} /\ n \in Nat /\ n < ByteSize * ByteSize
  BY WireAssumption
<1>2. PICK B, q, r : B = ByteSize /\ q = n \div ByteSize /\ r = n % ByteSize
  OBVIOUS
<1>3. B \in Nat \ {0} /\ n < B * B
  BY <1>1, <1>2
<1>4. q \in Int /\ r \in 0..(B - 1) /\ n = B * q + r
  BY <1>1, <1>2
<1>5. q >= 0
  <2>1. q <= -1 => B * q <= -B
    BY <1>3, <1>4
  <2> QED
    BY <1>1, <1>3, <1>4, <2>1
<1>6. q < B
  <2>1. q >= B => B * q >= B * B
    BY <1>3, <1>4
  <2> QED
    BY <1>3, <1>4, <2>1
<1>7. q % B = q
  BY <1>3, <1>4, <1>5, <1>6
<1>8. (q % B) * B + r = n
  <2>1. q * B = B * q
    BY <1>3, <1>4
  <2> QED
    BY <1>4, <1>7, <2>1
<1>9. (n \div ByteSize) % ByteSize = q % B /\ n % ByteSize = r /\ ByteSize = B
  BY <1>2, Zenon
<1> QED
  BY <1>8, <1>9, Zenon

\* A destination survives the protocol's form (try_from, From<&Destination>).
LEMMA DestinationRoundTrip ==
  ASSUME NEW d, IsDestination(d)
  PROVE  DestinationOf(ProtoDestination(d)) = d /\ d # Invalid
  BY DEF IsDestination, DestinationOf, ProtoDestination, Bits, Invalid

\* A next hop does too, but for a target VNI of 0.
LEMMA NextHopRoundTrip ==
  ASSUME NEW h, IsNextHop(h)
  PROVE  /\ NextHopOf(ProtoNextHop(h)) = [h EXCEPT !.target_vni = @ \ {0}]
         /\ NextHopOf(ProtoNextHop(h)) # Invalid
<1> DEFINE v == IF h.target_vni = {} THEN 0 ELSE CHOOSE n \in h.target_vni : TRUE
           g == [target_address |-> h.target_address, hop_type |-> h.hop_type,
                 target_vni |-> h.target_vni \ {0}, nat_from |-> h.nat_from, nat_to |-> h.nat_to]
<1>1. {v} \ {0} = h.target_vni \ {0}
  <2>1. CASE h.target_vni = {}
    BY <2>1
  <2>2. CASE h.target_vni # {}
    <3>1. PICK n \in h.target_vni : h.target_vni = {n}
      BY <2>2 DEF IsNextHop
    <3>2. v = n
      BY <3>1
    <3> QED
      BY <3>1, <3>2
  <2> QED
    BY <2>1, <2>2
<1>2. h.nat_from % 65536 = h.nat_from /\ h.nat_to % 65536 = h.nat_to
  <2>1. \A n \in Port : n % 65536 = n
    BY DEF Port
  <2>2. h.nat_from \in Port /\ h.nat_to \in Port
    BY DEF IsNextHop
  <2> QED
    BY <2>1, <2>2
<1>3. ProtoNextHop(h) = [target_address |-> h.target_address, target_bytes |-> 16,
        target_vni |-> v, type |-> h.hop_type,
        nat_port_range_from |-> h.nat_from, nat_port_range_to |-> h.nat_to]
  BY DEF ProtoNextHop
<1> HIDE DEF v
<1>4. NextHopOf(ProtoNextHop(h)) = g
  <2>1. h.hop_type \in HopTypes
    BY DEF IsNextHop
  <2>2. NextHopOf(ProtoNextHop(h)) =
          [target_address |-> h.target_address, hop_type |-> h.hop_type,
           target_vni |-> {v} \ {0},
           nat_from |-> h.nat_from % 65536, nat_to |-> h.nat_to % 65536]
    BY <1>3, <2>1 DEF NextHopOf, HopTypes
  <2> QED
    BY <1>1, <1>2, <2>2
<1>5. g = [h EXCEPT !.target_vni = @ \ {0}]
  <2>1. h = [target_address |-> h.target_address, hop_type |-> h.hop_type,
             target_vni |-> h.target_vni, nat_from |-> h.nat_from, nat_to |-> h.nat_to]
    BY DEF IsNextHop
  <2> QED
    BY <2>1
<1>6. g # Invalid
  <2>1. "hop_type" \in DOMAIN g /\ "hop_type" \notin DOMAIN Invalid
    BY DEF Invalid
  <2> QED
    BY <2>1
<1> QED
  BY <1>4, <1>5, <1>6

\* The bytes of a protocol value stand for that value only.
LEMMA ProtoRoundTrip ==
  ASSUME NEW t, NEW p, NEW D, Default(t) = D, \A q, r \in D : q = r,
         ProtoLen(p) \in Nat, ProtoLen(p) = 0 <=> p \in D
  PROVE  ProtoValue(t, ProtoBytes(p)) = {p}
<1> DEFINE bytes == ProtoBytes(p)
<1>1. DOMAIN bytes = 1..ProtoLen(p) /\ \A k \in 1..ProtoLen(p) : bytes[k] = <<p, k>>
  BY DEF ProtoBytes
<1> HIDE DEF bytes
<1>2. CASE p \in D
  <2>1. DOMAIN bytes = {}
    BY <1>1, <1>2
  <2> QED
    BY <1>2, <2>1 DEF ProtoValue, bytes
<1>3. CASE p \notin D
  <2>1. 1 \in DOMAIN bytes /\ bytes[1] = <<p, 1>>
    BY <1>1, <1>3
  <2>2. p \in {bytes[k][1] : k \in {j \in DOMAIN bytes : Len(bytes[j]) = 2}}
    BY <2>1
  <2>3. ASSUME NEW q, bytes = ProtoBytes(q) PROVE q = p
    <3>1. bytes[1] = <<q, 1>>
      BY <2>1, <2>3 DEF ProtoBytes
    <3> QED
      BY <2>1, <3>1
  <2> QED
    BY <2>2, <2>3 DEF ProtoValue, bytes
<1> QED
  BY <1>2, <1>3

\* decode_payload reads what encode_payload wrote.
LEMMA PayloadRoundTrip ==
  ASSUME NEW m, IsMessage(m), HasProtoLen(m)
  PROVE  decode_payload(m.type, encode_payload(m)) = Normal(m) /\ Normal(m) # Invalid
<1>1. CASE m = [type |-> "Keepalive"]
  BY <1>1 DEF decode_payload, Normal, Invalid
<1>2. ASSUME m.type # "Keepalive", m.type \in {"Hello", "Subscribe", "Unsubscribe", "Update"}
      PROVE  /\ ProtoValue(m.type, encode_payload(m)) = {ProtoOf(m)}
  <2>1. \A q, r \in Default(m.type) : q = r
    BY <1>2 DEF Default
  <2> QED
    BY <1>2, <2>1, ProtoRoundTrip DEF HasProtoLen, encode_payload
<1>3. CASE m.type = "Hello" /\ m = [type |-> m.type, interval |-> m.interval, is_server |-> m.is_server]
  <2>1. ProtoOf(m) = [keepalive_interval |-> m.interval, is_server |-> m.is_server]
    BY <1>3 DEF ProtoOf
  <2>2. (CHOOSE q \in {ProtoOf(m)} : TRUE) = ProtoOf(m)
    OBVIOUS
  <2> QED
    BY <1>2, <1>3, <2>1, <2>2 DEF decode_payload, Normal, Invalid
<1>4. CASE m.type \in {"Subscribe", "Unsubscribe"} /\ m = [type |-> m.type, vni |-> m.vni]
  <2>1. ProtoOf(m) = [vni |-> m.vni]
    BY <1>4 DEF ProtoOf
  <2>2. (CHOOSE q \in {ProtoOf(m)} : TRUE) = ProtoOf(m)
    OBVIOUS
  <2> QED
    BY <1>2, <1>4, <2>1, <2>2 DEF decode_payload, Normal, Invalid
<1>5. CASE /\ m.type = "Update"
           /\ m = [type |-> m.type, action |-> m.action, vni |-> m.vni, dest |-> m.dest, hop |-> m.hop]
           /\ m.action \in {"Add", "Remove"} /\ IsDestination(m.dest) /\ IsNextHop(m.hop)
  <2>1. ProtoOf(m) = ProtoUpdate(m)
    BY <1>5 DEF ProtoOf
  <2>2. (CHOOSE q \in {ProtoOf(m)} : TRUE) = ProtoOf(m)
    OBVIOUS
  <2>3. decode_payload(m.type, encode_payload(m)) = UpdateOf(ProtoUpdate(m))
    BY <1>2, <1>5, <2>1, <2>2 DEF decode_payload
  <2> DEFINE d == DestinationOf(ProtoDestination(m.dest))
             h == NextHopOf(ProtoNextHop(m.hop))
  <2>4. d = m.dest /\ d # Invalid /\ h # Invalid /\ h = [m.hop EXCEPT !.target_vni = @ \ {0}]
    BY <1>5, DestinationRoundTrip, NextHopRoundTrip
  <2>5. UpdateOf(ProtoUpdate(m)) =
          [type |-> "Update", action |-> m.action, vni |-> m.vni, dest |-> d, hop |-> h]
    BY <1>5, <2>4 DEF UpdateOf, ProtoUpdate
  <2> HIDE DEF d, h
  <2>6. Normal(m) = [type |-> "Update", action |-> m.action, vni |-> m.vni, dest |-> m.dest, hop |-> h]
    BY <1>5, <2>4 DEF Normal
  <2> QED
    BY <2>3, <2>4, <2>5, <2>6 DEF Invalid
<1> QED
  BY <1>1, <1>3, <1>4, <1>5 DEF IsMessage

\* A message that can be encoded.
Sendable(m) == IsMessage(m) /\ HasProtoLen(m) /\ ~TooLong(m)

\* A payload is a sequence of at most MaxPayloadSize bytes.
LEMMA PayloadSequence ==
  ASSUME NEW m, Sendable(m)
  PROVE  /\ Len(encode_payload(m)) \in 0..MaxPayloadSize
         /\ \E S : encode_payload(m) \in Seq(S)
<1>1. Len(encode_payload(m)) \in Nat /\ \E S : encode_payload(m) \in Seq(S)
  <2>1. CASE m.type = "Keepalive"
    <3>1. encode_payload(m) = <<>> /\ <<>> \in Seq({0}) /\ Len(<<>>) = 0
      BY <2>1, EmptySeq DEF encode_payload
    <3> QED
      BY <3>1
  <2>2. CASE m.type # "Keepalive"
    <3> DEFINE p == ProtoOf(m)
               n == ProtoLen(p)
               S == {<<p, k>> : k \in 1..n}
    <3>1. n \in Nat /\ encode_payload(m) = [k \in 1..n |-> <<p, k>>]
      BY <2>2 DEF Sendable, HasProtoLen, encode_payload, ProtoBytes
    <3>2. [k \in 1..n |-> <<p, k>>] \in [1..n -> S]
      OBVIOUS
    <3> HIDE DEF S, n, p
    <3>3. encode_payload(m) \in Seq(S)
      BY <3>1, <3>2, SeqDef
    <3> QED
      BY <3>3, LenProperties
  <2> QED
    BY <2>1, <2>2
<1> QED
  BY <1>1, WireAssumption DEF Sendable, TooLong

\* A message on the wire: the header, then the payload.
LEMMA EncodeShape ==
  ASSUME NEW m, Sendable(m)
  PROVE  LET p == encode_payload(m)
             e == encode(m)
             len == Len(p)
         IN  /\ \E S : e \in Seq(S)
             /\ Len(e) = HEADER_SIZE + len
             /\ e[1] = <<PROTOCOL_VERSION>> /\ e[4] = <<TypeCode(m.type)>>
             /\ e[2] = <<(len \div ByteSize) % ByteSize>> /\ e[3] = <<len % ByteSize>>
             /\ \A k \in 1..len : e[HEADER_SIZE + k] = p[k]
<1> DEFINE p == encode_payload(m)
           len == Len(p)
           h == Header(m.type, len)
<1>1. PICK P : p \in Seq(P)
  BY PayloadSequence
<1> DEFINE S == P \cup {h[1], h[2], h[3], h[4]}
<1>2. h \in Seq(S) /\ Len(h) = 4 /\ p \in Seq(S) /\ len \in Nat
  <2>1. PICK a, b, c, d : h = <<a, b, c, d>> /\ {a, b, c, d} \subseteq S
    BY DEF Header
  <2>2. p \in Seq(S)
    BY <1>1, SeqMonotonic
  <2> HIDE DEF p, h, S
  <2>3. h \in Seq(S) /\ Len(h) = 4
    BY <2>1
  <2> QED
    BY <2>2, <2>3, LenProperties DEF len
<1>3. encode(m) = h \o p
  BY DEF encode
<1>4. /\ h[1] = <<PROTOCOL_VERSION>> /\ h[4] = <<TypeCode(m.type)>>
      /\ h[2] = <<(len \div ByteSize) % ByteSize>> /\ h[3] = <<len % ByteSize>>
  BY DEF Header
<1> HIDE DEF S, h, len
<1>5. /\ h \o p \in Seq(S) /\ Len(h \o p) = Len(h) + len
      /\ \A i \in 1..(Len(h) + len) : (h \o p)[i] = IF i <= Len(h) THEN h[i] ELSE p[i - Len(h)]
  <2> HIDE DEF p
  <2> QED
    BY <1>2, ConcatProperties DEF len
<1>6. \A k \in 1..len : (h \o p)[4 + k] = p[k]
  <2>1. ASSUME NEW k \in 1..len PROVE (h \o p)[4 + k] = p[k]
    <3>1. 4 + k \in 1..(Len(h) + len) /\ ~(4 + k <= Len(h)) /\ (4 + k) - Len(h) = k
      BY <1>2
    <3> QED
      BY <1>5, <3>1
  <2> QED
    BY <2>1
<1>7. \A i \in 1..4 : (h \o p)[i] = h[i]
  BY <1>2, <1>5
<1> QED
  BY <1>2, <1>3, <1>4, <1>5, <1>6, <1>7 DEF len, HEADER_SIZE

\* buf starts with what there is in it of e.
Agrees(buf, e) == \A i \in 1..Len(buf) : i <= Len(e) => buf[i] = e[i]

\* What decode sees of a message whose header has arrived.
LEMMA HeaderRead ==
  ASSUME NEW m, Sendable(m), NEW buf, Len(buf) \in Nat, Len(buf) >= HEADER_SIZE,
         Agrees(buf, encode(m))
  PROVE  /\ Supported(buf) /\ MessageType[buf[4][1]] = m.type
         /\ HEADER_SIZE + PayloadLen(buf) = Len(encode(m))
<1> DEFINE len == Len(encode_payload(m))
<1>1. len \in 0..MaxPayloadSize /\ Len(encode(m)) = HEADER_SIZE + len /\ len \in Nat
  BY PayloadSequence, EncodeShape, WireAssumption
<1>2. \A i \in 1..4 : buf[i] = encode(m)[i]
  BY <1>1 DEF Agrees, HEADER_SIZE
<1>3. /\ buf[1] = <<PROTOCOL_VERSION>> /\ buf[4] = <<TypeCode(m.type)>>
      /\ buf[2] = <<(len \div ByteSize) % ByteSize>> /\ buf[3] = <<len % ByteSize>>
  BY <1>2, EncodeShape
<1>4. TypeCode(m.type) \in DOMAIN MessageType /\ MessageType[TypeCode(m.type)] = m.type
  <2>1. \E i \in DOMAIN MessageType : MessageType[i] = m.type
    <3>1. m.type \in {"Hello", "Keepalive", "Subscribe", "Unsubscribe", "Update"}
      BY DEF Sendable, IsMessage
    <3>2. DOMAIN MessageType = 1..5
      BY DEF MessageType
    <3> QED
      BY <3>1, <3>2 DEF MessageType
  <2> QED
    BY <2>1 DEF TypeCode
<1>5. PayloadLen(buf) = len
  <2>1. ((len \div ByteSize) % ByteSize) * ByteSize + (len % ByteSize) = len
    BY <1>1, LengthBytes
  <2>2. buf[2][1] = (len \div ByteSize) % ByteSize /\ buf[3][1] = len % ByteSize
    BY <1>3
  <2> HIDE DEF len
  <2> QED
    BY <2>1, <2>2, Zenon DEF PayloadLen
<1>6. Supported(buf) /\ MessageType[buf[4][1]] = m.type
  BY <1>3, <1>4 DEF Supported
<1> QED
  BY <1>1, <1>5, <1>6

\* A message that is there in part is waited for, whatever the pieces: it is
\* never an error ("message too short", "message truncated").
THEOREM DecodeCut ==
  ASSUME NEW m, Sendable(m), NEW buf, Len(buf) \in Nat, Len(buf) < Len(encode(m)),
         Agrees(buf, encode(m))
  PROVE  decode(buf) = More
<1>1. CASE Len(buf) < HEADER_SIZE
  BY <1>1 DEF decode
<1>2. CASE Len(buf) >= HEADER_SIZE
  <2>1. Supported(buf) /\ HEADER_SIZE + PayloadLen(buf) = Len(encode(m))
    BY <1>2, HeaderRead
  <2>2. ~(Len(buf) < HEADER_SIZE)
    BY <1>2 DEF HEADER_SIZE
  <2> QED
    BY <2>1, <2>2 DEF decode
<1> QED
  BY <1>1, <1>2 DEF HEADER_SIZE

\* A message that is there is decoded, whatever follows it: all its fields come
\* back (but Some(0) as the target VNI) and exactly its bytes are used up.
THEOREM DecodeWhole ==
  ASSUME NEW m, Sendable(m), NEW buf, Len(buf) \in Nat, Len(buf) >= Len(encode(m)),
         Agrees(buf, encode(m))
  PROVE  decode(buf) = [kind |-> "message", msg |-> Normal(m), used |-> Len(encode(m))]
<1> DEFINE p == encode_payload(m)
           total == Len(encode(m))
<1>1. /\ Len(p) \in Nat /\ total = HEADER_SIZE + Len(p)
      /\ \A k \in 1..Len(p) : encode(m)[HEADER_SIZE + k] = p[k]
  BY PayloadSequence, EncodeShape, WireAssumption
<1>2. Supported(buf) /\ MessageType[buf[4][1]] = m.type /\ HEADER_SIZE + PayloadLen(buf) = total
  BY <1>1, HeaderRead DEF HEADER_SIZE
<1>3. SubSeq(buf, HEADER_SIZE + 1, total) = p
  <2>1. ASSUME NEW k \in 1..Len(p) PROVE buf[HEADER_SIZE + k] = p[k]
    <3>1. HEADER_SIZE + k \in 1..Len(buf) /\ HEADER_SIZE + k <= total
      BY <1>1 DEF HEADER_SIZE
    <3> QED
      BY <1>1, <3>1 DEF Agrees
  <2>2. PICK P : p \in Seq(P)
    BY PayloadSequence
  <2> DEFINE q == SubSeq(buf, HEADER_SIZE + 1, total)
  <2> HIDE DEF p, total
  <2>3. \A i \in (HEADER_SIZE + 1)..total : buf[i] \in P
    <3>1. ASSUME NEW i \in (HEADER_SIZE + 1)..total PROVE buf[i] \in P
      <4>1. i - HEADER_SIZE \in 1..Len(p) /\ HEADER_SIZE + (i - HEADER_SIZE) = i
        BY <1>1 DEF HEADER_SIZE
      <4>2. buf[i] = p[i - HEADER_SIZE]
        BY <2>1, <4>1
      <4> QED
        BY <2>2, <4>1, <4>2, ElementOfSeq
    <3> QED
      BY <3>1
  <2>4. /\ HEADER_SIZE + 1 \in Int /\ total \in Int
        /\ (IF HEADER_SIZE + 1 <= total THEN total - (HEADER_SIZE + 1) + 1 ELSE 0) = Len(p)
        /\ \A i \in 1..Len(p) : i \in 1..(total - (HEADER_SIZE + 1) + 1)
                                /\ (HEADER_SIZE + 1) + i - 1 = HEADER_SIZE + i
    BY <1>1 DEF HEADER_SIZE
  <2>5. /\ q \in Seq(P) /\ Len(q) = Len(p)
        /\ \A i \in 1..Len(p) : q[i] = buf[(HEADER_SIZE + 1) + i - 1]
    BY <2>3, <2>4, SubSeqProperties, SMTT(30)
  <2>6. \A i \in 1..Len(q) : q[i] = p[i]
    BY <2>1, <2>4, <2>5
  <2> HIDE DEF q
  <2>7. q = p
    BY <2>2, <2>5, <2>6, SeqEqual
  <2> QED
    BY <2>7 DEF q
<1>4. decode_payload(m.type, p) = Normal(m) /\ Normal(m) # Invalid
  BY PayloadRoundTrip DEF Sendable
<1>5. ~(Len(buf) < HEADER_SIZE) /\ ~(Len(buf) < total)
  BY <1>1 DEF HEADER_SIZE
<1> HIDE DEF p, total
<1>6. decode(buf) = [kind |-> "message", msg |-> Normal(m), used |-> total]
  BY <1>2, <1>3, <1>4, <1>5 DEF decode
<1> QED
  BY <1>6 DEF total

-----------------------------------------------------------------------------
(***************************************************************************)
(* The stream (PeerReceive).                                               *)
(***************************************************************************)

Byte == {encode(m)[i] : m \in Message, i \in Nat} \cup {b[i] : b \in Foreign, i \in Nat}

\* What may follow the messages.
Tails == Foreign \cup {<<>>}

\* The encodings of the messages that follow the first k.
Rest(ms, k) == [i \in 1..(Len(ms) - k) |-> encode(ms[k + i])]

\* The messages of the stream can be encoded.
LEMMA MessageSendable == \A m \in Message : Sendable(m)
  BY ReceiveAssumption DEF Sendable

\* A message's bytes are a sequence of bytes, the header among them.
LEMMA EncodeBytes ==
  ASSUME NEW m \in Message
  PROVE  encode(m) \in Seq(Byte) /\ Len(encode(m)) \in Nat \ {0}
<1> DEFINE e == encode(m)
<1>1. PICK S : e \in Seq(S)
  BY MessageSendable, EncodeShape
<1>2. Len(e) \in Nat /\ Len(e) # 0
  BY MessageSendable, EncodeShape, PayloadSequence, WireAssumption DEF HEADER_SIZE
<1>3. e \in [1..Len(e) -> Byte]
  <2>1. e \in [1..Len(e) -> S]
    BY <1>1, LenProperties
  <2>2. \A i \in 1..Len(e) : e[i] \in Byte
    BY <1>2 DEF Byte
  <2> HIDE DEF e
  <2> QED
    BY <2>1, <2>2
<1> HIDE DEF e
<1>4. e \in Seq(Byte)
  BY <1>2, <1>3, SeqDef
<1> QED
  BY <1>2, <1>4 DEF e

\* Foreign bytes are bytes, and no part of them is decoded.
LEMMA TailBytes ==
  ASSUME NEW f \in Tails
  PROVE  /\ f \in Seq(Byte)
         /\ \A n \in 0..Len(f) : decode(SubSeq(f, 1, n)) \in {More, Error}
<1>1. CASE f \in Foreign
  <2> DEFINE S == {f[i] : i \in DOMAIN f}
  <2>1. f \in Seq(S) /\ \A n \in 0..Len(f) : decode(SubSeq(f, 1, n)) \in {More, Error}
    BY <1>1, ReceiveAssumption DEF IsForeign
  <2>2. f \in [1..Len(f) -> S] /\ Len(f) \in Nat
    BY <2>1, LenProperties
  <2>3. \A i \in 1..Len(f) : f[i] \in Byte
    BY <1>1, <2>2 DEF Byte
  <2> HIDE DEF S
  <2>4. f \in [1..Len(f) -> Byte]
    BY <2>2, <2>3
  <2>5. f \in Seq(Byte)
    BY <2>2, <2>4, SeqDef
  <2> QED
    BY <2>1, <2>5
<1>2. CASE f = <<>>
  <2>1. f \in Seq(Byte) /\ Len(f) = 0
    BY <1>2, EmptySeq
  <2>2. Len(SubSeq(f, 1, 0)) = 0
    BY <2>1, SubSeqProperties
  <2>3. decode(SubSeq(f, 1, 0)) = More
    BY <2>2 DEF decode, HEADER_SIZE
  <2> QED
    BY <2>1, <2>3
<1> QED
  BY <1>1, <1>2 DEF Tails

\* Rest is a sequence of encodings.
LEMMA RestSequence ==
  ASSUME NEW ms \in Seq(Message), NEW k \in 0..Len(ms)
  PROVE  Rest(ms, k) \in Seq(Seq(Byte)) /\ Len(Rest(ms, k)) = Len(ms) - k
<1> DEFINE n == Len(ms) - k
           r == Rest(ms, k)
<1>1. n \in Nat
  BY LenProperties
<1>2. r \in [1..n -> Seq(Byte)]
  <2>1. ASSUME NEW i \in 1..n PROVE encode(ms[k + i]) \in Seq(Byte)
    <3>1. k + i \in 1..Len(ms)
      BY LenProperties
    <3> QED
      BY <3>1, ElementOfSeq, EncodeBytes
  <2> QED
    BY <2>1 DEF Rest
<1> HIDE DEF n, r
<1>3. r \in Seq(Seq(Byte)) /\ DOMAIN r = 1..n
  BY <1>1, <1>2, SeqDef
<1>4. Len(r) = n
  BY <1>1, <1>3, LenProperties
<1> QED
  BY <1>3, <1>4 DEF n, r

\* A message more is an encoding more at the end.
LEMMA RestAppend ==
  ASSUME NEW ms \in Seq(Message), NEW k \in 0..Len(ms), NEW m \in Message
  PROVE  Rest(Append(ms, m), k) = Append(Rest(ms, k), encode(m))
<1> DEFINE t == Append(ms, m)
           n == Len(ms) - k
           r == Rest(t, k)
           q == Rest(ms, k)
           e == encode(m)
<1>1. /\ Len(ms) \in Nat /\ t \in Seq(Message) /\ Len(t) = Len(ms) + 1
      /\ \A i \in 1..Len(ms) : t[i] = ms[i]
      /\ t[Len(ms) + 1] = m /\ n \in Nat
  BY AppendProperties, LenProperties
<1> HIDE DEF t
<1>2. r \in Seq(Seq(Byte)) /\ Len(r) = n + 1 /\ q \in Seq(Seq(Byte)) /\ Len(q) = n /\ e \in Seq(Byte)
  <2>1. k \in 0..Len(t)
    BY <1>1
  <2>2. r \in Seq(Seq(Byte)) /\ Len(r) = Len(t) - k
    BY <1>1, <2>1, RestSequence
  <2>3. q \in Seq(Seq(Byte)) /\ Len(q) = Len(ms) - k
    BY RestSequence
  <2>4. e \in Seq(Byte)
    BY EncodeBytes
  <2> HIDE DEF r, q, e
  <2> QED
    BY <1>1, <2>2, <2>3, <2>4
<1>3. \A i \in 1..(n + 1) : r[i] = encode(t[k + i])
  BY <1>1 DEF Rest
<1>4. \A i \in 1..n : q[i] = encode(ms[k + i])
  BY DEF Rest
<1> HIDE DEF r, q
<1>5. Append(q, e) \in Seq(Seq(Byte)) /\ Len(Append(q, e)) = n + 1
      /\ (\A i \in 1..n : Append(q, e)[i] = q[i]) /\ Append(q, e)[n + 1] = e
  <2> HIDE DEF e
  <2> QED
    BY <1>2, AppendProperties
<1>6. ASSUME NEW i \in 1..(n + 1) PROVE r[i] = Append(q, e)[i]
  <2>1. CASE i \in 1..n
    <3>1. k + i \in 1..Len(ms)
      BY <1>1, <2>1
    <3> QED
      BY <1>1, <1>3, <1>4, <1>5, <2>1, <3>1
  <2>2. CASE i = n + 1
    <3>1. k + i = Len(ms) + 1
      BY <1>1, <2>2
    <3> QED
      BY <1>1, <1>3, <1>5, <2>2, <3>1
  <2>3. i \in 1..n \/ i = n + 1
    BY <1>1
  <2> QED
    BY <2>1, <2>2, <2>3
<1> HIDE DEF e, n
<1>7. r = Append(q, e)
  BY <1>2, <1>5, <1>6, SeqEqual
<1> QED
  BY <1>7 DEF r, q, e, t

\* A message handled is an encoding less at the front.
LEMMA RestTail ==
  ASSUME NEW ms \in Seq(Message), NEW k \in 0..Len(ms), k # Len(ms)
  PROVE  /\ Rest(ms, k) # <<>> /\ Head(Rest(ms, k)) = encode(ms[k + 1])
         /\ Tail(Rest(ms, k)) = Rest(ms, k + 1)
         /\ k + 1 \in 0..Len(ms) /\ ms[k + 1] \in Message
<1> DEFINE n == Len(ms) - k
           r == Rest(ms, k)
           q == Rest(ms, k + 1)
<1>1. Len(ms) \in Nat /\ n \in Nat /\ n # 0 /\ k + 1 \in 0..Len(ms) /\ k + 1 \in 1..Len(ms)
  BY LenProperties
<1>2. r \in Seq(Seq(Byte)) /\ Len(r) = n /\ q \in Seq(Seq(Byte)) /\ Len(q) = n - 1
  <2>1. r \in Seq(Seq(Byte)) /\ Len(r) = n
    BY RestSequence
  <2>2. q \in Seq(Seq(Byte)) /\ Len(q) = Len(ms) - (k + 1)
    BY <1>1, RestSequence
  <2>3. Len(ms) - (k + 1) = n - 1
    BY <1>1
  <2> QED
    BY <2>1, <2>2, <2>3
<1>3. \A i \in 1..n : r[i] = encode(ms[k + i])
  BY DEF Rest
<1>4. \A i \in 1..(n - 1) : q[i] = encode(ms[(k + 1) + i])
  <2>1. Len(ms) - (k + 1) = n - 1
    BY <1>1
  <2> QED
    BY <2>1 DEF Rest
<1>5. ms[k + 1] \in Message
  BY <1>1, ElementOfSeq
<1> HIDE DEF r, q
<1>6. r # <<>>
  BY <1>1, <1>2, EmptySeq
<1>7. Head(r) = r[1] /\ r[1] = encode(ms[k + 1])
  BY <1>1, <1>2, <1>3, <1>6
<1>8. /\ Tail(r) \in Seq(Seq(Byte)) /\ Len(Tail(r)) = n - 1
      /\ \A i \in 1..(n - 1) : Tail(r)[i] = r[i + 1]
  BY <1>2, <1>6, HeadTailProperties
<1>9. ASSUME NEW i \in 1..(n - 1) PROVE Tail(r)[i] = q[i]
  <2>1. i + 1 \in 1..n /\ k + (i + 1) = (k + 1) + i
    BY <1>1
  <2> QED
    BY <1>3, <1>4, <1>8, <2>1
<1> HIDE DEF n
<1>10. Tail(r) = q
  BY <1>2, <1>8, <1>9, SeqEqual
<1> QED
  BY <1>1, <1>5, <1>6, <1>7, <1>10 DEF r, q

\* The state of the stream: what has been handled, and where the rest is, with the
\* foreign bytes f behind it.
StreamOK(f) ==
  /\ sent \in Seq(Message)
  /\ handled \in Seq({Normal(m) : m \in Message})
  /\ Len(handled) <= Len(sent)
  /\ \A i \in 1..Len(handled) : handled[i] = Normal(sent[i])
  /\ msg_buf \in Seq(Byte) /\ wire \in Seq(Byte)
  /\ msg_buf \o wire = Seqs!FlattenSeq(Rest(sent, Len(handled))) \o f

\* The inductive invariant of NothingLost.
StreamInv == Alive => \E f \in Tails : StreamOK(f) /\ (~foreign => f = <<>>)

\* The buffer holds the next message, or a part of it, or of the foreign bytes.
LEMMA NextMessage ==
  ASSUME NEW f \in Tails, StreamOK(f)
  PROVE  LET k == Len(handled)
             e == encode(sent[k + 1])
             F == Seqs!FlattenSeq(Rest(sent, k + 1)) \o f
         IN  /\ k = Len(sent) => msg_buf \o wire = f
             /\ k # Len(sent) => /\ sent[k + 1] \in Message /\ k + 1 <= Len(sent)
                                 /\ Agrees(msg_buf, e)
                                 /\ F \in Seq(Byte) /\ msg_buf \o wire = e \o F
<1> DEFINE k == Len(handled)
           e == encode(sent[k + 1])
           G == Seqs!FlattenSeq(Rest(sent, k + 1))
           F == G \o f
<1>1. k \in Nat /\ Len(sent) \in Nat /\ k \in 0..Len(sent)
  BY LenProperties DEF StreamOK
<1>2. ASSUME k = Len(sent) PROVE msg_buf \o wire = f
  <2>1. Rest(sent, k) \in Seq(Seq(Byte)) /\ Len(Rest(sent, k)) = 0
    <3>1. Len(Rest(sent, k)) = Len(sent) - k /\ Rest(sent, k) \in Seq(Seq(Byte))
      BY <1>1, RestSequence DEF StreamOK
    <3> QED
      BY <1>1, <1>2, <3>1
  <2>2. Rest(sent, k) = <<>>
    BY <2>1, EmptySeq
  <2>3. msg_buf \o wire = <<>> \o f
    BY <2>2, FlattenInSeq DEF StreamOK
  <2> QED
    BY <2>3, TailBytes, ConcatEmptySeq
<1>3. ASSUME k # Len(sent)
      PROVE  /\ sent[k + 1] \in Message /\ k + 1 <= Len(sent) /\ Agrees(msg_buf, e)
             /\ F \in Seq(Byte) /\ msg_buf \o wire = e \o F
  <2>1. /\ Rest(sent, k) # <<>> /\ Head(Rest(sent, k)) = e
        /\ Tail(Rest(sent, k)) = Rest(sent, k + 1)
        /\ k + 1 \in 0..Len(sent) /\ sent[k + 1] \in Message
    BY <1>1, <1>3, RestTail DEF StreamOK
  <2>2. Rest(sent, k) \in Seq(Seq(Byte)) /\ Rest(sent, k + 1) \in Seq(Seq(Byte))
    BY <1>1, <2>1, RestSequence DEF StreamOK
  <2>3. msg_buf \o wire = e \o F /\ F \in Seq(Byte)
    <3>1. Seqs!FlattenSeq(Rest(sent, k)) = Head(Rest(sent, k)) \o Seqs!FlattenSeq(Tail(Rest(sent, k)))
      BY <2>1, <2>2, FlattenFirst
    <3>2. G \in Seq(Byte) /\ e \in Seq(Byte) /\ f \in Seq(Byte)
      BY <2>1, <2>2, FlattenInSeq, EncodeBytes, TailBytes
    <3>3. msg_buf \o wire = (e \o G) \o f
      BY <2>1, <3>1 DEF StreamOK
    <3> HIDE DEF e, G
    <3>4. (e \o G) \o f = e \o (G \o f) /\ G \o f \in Seq(Byte)
      BY <3>2, ConcatAssociative, ConcatProperties, SMTT(30)
    <3> QED
      BY <3>3, <3>4
  <2>4. e \in Seq(Byte) /\ Len(e) \in Nat /\ Len(F) \in Nat /\ Len(msg_buf) \in Nat /\ Len(wire) \in Nat
    BY <2>1, <2>3, EncodeBytes, LenProperties DEF StreamOK
  <2> HIDE DEF e, F
  <2>5. ASSUME NEW i \in 1..Len(msg_buf), i <= Len(e) PROVE msg_buf[i] = e[i]
    <3>1. (msg_buf \o wire)[i] = msg_buf[i]
      <4>1. i \in 1..(Len(msg_buf) + Len(wire)) /\ i <= Len(msg_buf)
        BY <2>4
      <4> QED
        BY <4>1, ConcatProperties DEF StreamOK
    <3>2. (e \o F)[i] = e[i]
      <4>1. i \in 1..(Len(e) + Len(F))
        BY <2>4, <2>5
      <4> QED
        BY <4>1, <2>3, <2>4, <2>5, ConcatProperties
    <3> QED
      BY <2>3, <3>1, <3>2
  <2> QED
    BY <1>1, <2>1, <2>3, <2>5 DEF Agrees
<1> QED
  BY <1>2, <1>3

\* What is decoded is the next message that was sent, and there is no error while
\* there is one.
LEMMA DecodeNext ==
  ASSUME NEW f \in Tails, StreamOK(f)
  PROVE  LET k == Len(handled)
             e == encode(sent[k + 1])
         IN  \/ decode(msg_buf) = More
             \/ decode(msg_buf) = Error /\ k = Len(sent) /\ f # <<>>
             \/ /\ k # Len(sent) /\ Len(msg_buf) >= Len(e)
                /\ decode(msg_buf) =
                     [kind |-> "message", msg |-> Normal(sent[k + 1]), used |-> Len(e)]
<1> DEFINE k == Len(handled)
           e == encode(sent[k + 1])
<1>1. Len(msg_buf) \in Nat /\ Len(wire) \in Nat
  BY LenProperties DEF StreamOK
<1>2. CASE k = Len(sent)
  <2> DEFINE n == Len(msg_buf)
             b == SubSeq(f, 1, n)
  <2>1. msg_buf \o wire = f /\ f \in Seq(Byte)
    BY <1>2, NextMessage, TailBytes
  <2>2. /\ Len(f) = n + Len(wire)
        /\ \A i \in 1..n : f[i] = msg_buf[i]
    <3>1. \A i \in 1..n : i \in 1..(n + Len(wire)) /\ i <= n
      BY <1>1
    <3> QED
      BY <2>1, <3>1, ConcatProperties DEF StreamOK
  <2>3. b = msg_buf
    <3>1. \A i \in 1..n : f[i] \in Byte
      BY <2>2, ElementOfSeq DEF StreamOK
    <3>2. /\ b \in Seq(Byte) /\ Len(b) = n
          /\ \A i \in 1..(n - 1 + 1) : b[i] = f[1 + i - 1]
      BY <1>1, <3>1, SubSeqProperties
    <3>3. ASSUME NEW i \in 1..Len(b) PROVE b[i] = msg_buf[i]
      <4>1. i \in 1..(n - 1 + 1) /\ 1 + i - 1 = i /\ i \in 1..n
        BY <1>1, <3>2
      <4> QED
        BY <2>2, <3>2, <4>1
    <3> HIDE DEF b
    <3> QED
      BY <3>2, <3>3, SeqEqual DEF StreamOK
  <2>4. n \in 0..Len(f)
    BY <1>1, <2>2
  <2>5. decode(msg_buf) \in {More, Error}
    BY <2>3, <2>4, TailBytes
  <2>6. CASE f = <<>>
    <3>1. Len(msg_buf) = 0
      BY <1>1, <2>2, <2>6, EmptySeq
    <3> QED
      BY <3>1 DEF decode, HEADER_SIZE
  <2> QED
    BY <1>2, <2>5, <2>6
<1>3. CASE k # Len(sent)
  <2>1. Sendable(sent[k + 1]) /\ Agrees(msg_buf, e) /\ Len(e) \in Nat
    BY <1>3, NextMessage, MessageSendable, EncodeBytes
  <2>2. CASE Len(msg_buf) < Len(e)
    BY <1>1, <2>1, <2>2, DecodeCut
  <2>3. CASE Len(msg_buf) >= Len(e)
    BY <1>1, <1>3, <2>1, <2>3, DecodeWhole
  <2> QED
    BY <1>1, <2>1, <2>2, <2>3
<1> QED
  BY <1>2, <1>3

\* Without foreign bytes the messages' bytes are all there is.
LEMMA NoTail ==
  ASSUME sent \in Seq(Message), handled \in Seq({Normal(m) : m \in Message}),
         Len(handled) <= Len(sent)
  PROVE  Seqs!FlattenSeq(Rest(sent, Len(handled))) \o <<>>
           = Seqs!FlattenSeq(Rest(sent, Len(handled)))
<1>1. Len(handled) \in 0..Len(sent)
  BY LenProperties
<1>2. Seqs!FlattenSeq(Rest(sent, Len(handled))) \in Seq(Byte)
  BY <1>1, RestSequence, FlattenInSeq
<1> QED
  BY <1>2, ConcatEmptySeq

\* The invariant says what NothingLost says.
LEMMA StreamImplies == StreamInv => NothingLost
<1> SUFFICES ASSUME StreamInv, Alive PROVE NothingLost
  BY DEF NothingLost
<1>1. PICK f \in Tails : StreamOK(f) /\ (~foreign => f = <<>>)
  BY DEF StreamInv
<1>2. decode(msg_buf) = Error => f # <<>> /\ Len(handled) = Len(sent)
  BY <1>1, DecodeNext DEF More, Error
<1>3. DOMAIN handled = 1..Len(handled)
  BY <1>1, LenProperties DEF StreamOK
<1>4. ~foreign => msg_buf \o wire = Seqs!FlattenSeq(Rest(sent, Len(handled)))
  BY <1>1, NoTail DEF StreamOK
<1> QED
  BY <1>1, <1>2, <1>3, <1>4 DEF StreamOK, NothingLost, Rest

\* A new connection has nothing to read and nothing sent.
LEMMA StreamStart ==
  /\ <<>> \in Seq(Message) /\ <<>> \in Seq(Byte) /\ <<>> \in Seq({Normal(m) : m \in Message})
  /\ Len(<<>>) = 0 /\ 1..0 = {} /\ <<>> \in Tails
  /\ <<>> \o <<>> = Seqs!FlattenSeq(Rest(<<>>, Len(<<>>))) \o <<>>
<1>1. \A S : <<>> \in Seq(S) /\ Len(<<>>) = 0
  BY EmptySeq
<1>2. Rest(<<>>, 0) \in Seq(Seq(Byte)) /\ Len(Rest(<<>>, 0)) = 0
  <2>1. <<>> \in Seq(Message) /\ 0 \in 0..Len(<<>>) /\ Len(<<>>) - 0 = 0
    BY <1>1
  <2> QED
    BY <2>1, RestSequence
<1>3. Rest(<<>>, 0) = <<>>
  BY <1>2, EmptySeq
<1>4. Seqs!FlattenSeq(<<>>) = <<>>
  BY FlattenInSeq
<1>5. <<>> \in Tails
  BY DEF Tails
<1> QED
  BY <1>1, <1>3, <1>4, <1>5

\* More bytes follow what is on the wire.
LEMMA StreamWrite ==
  ASSUME NEW b \in Seq(Byte), StreamOK(<<>>), wire' = wire \o b
  PROVE  /\ wire' \in Seq(Byte)
         /\ msg_buf \o wire' = Seqs!FlattenSeq(Rest(sent, Len(handled))) \o b
<1>1. msg_buf \in Seq(Byte) /\ wire \in Seq(Byte)
  BY DEF StreamOK
<1>2. wire' \in Seq(Byte)
  BY <1>1, ConcatProperties
<1>3. msg_buf \o (wire \o b) = (msg_buf \o wire) \o b
  BY <1>1, ConcatAssociative, SMTT(30)
<1>4. msg_buf \o wire = Seqs!FlattenSeq(Rest(sent, Len(handled)))
  BY NoTail DEF StreamOK
<1> QED
  BY <1>2, <1>3, <1>4

\* The server writes one more message.
LEMMA StreamSend ==
  ASSUME StreamInv, NEW m \in Message, Send(m)
  PROVE  StreamInv'
<1>1. /\ StreamOK(<<>>) /\ sent' = Append(sent, m) /\ wire' = wire \o encode(m)
      /\ UNCHANGED <<msg_buf, handled>>
  BY DEF StreamInv, Send
<1> DEFINE k == Len(handled)
           e == encode(m)
           r == Rest(sent, k)
<1>2. k \in Nat /\ Len(sent) \in Nat /\ k \in 0..Len(sent) /\ e \in Seq(Byte)
  BY <1>1, LenProperties, EncodeBytes DEF StreamOK
<1>3. /\ sent' \in Seq(Message) /\ Len(sent') = Len(sent) + 1
      /\ \A i \in 1..Len(sent) : sent'[i] = sent[i]
  BY <1>1, AppendProperties DEF StreamOK
<1>4. /\ wire' \in Seq(Byte) /\ msg_buf' \in Seq(Byte)
      /\ msg_buf \o wire' = Seqs!FlattenSeq(r) \o e
  <2> HIDE DEF e
  <2> QED
    BY <1>1, <1>2, StreamWrite DEF StreamOK, e
<1>6. /\ handled' \in Seq({Normal(j) : j \in Message}) /\ Len(handled') <= Len(sent')
      /\ \A i \in 1..Len(handled') : handled'[i] = Normal(sent'[i])
  <2>1. \A i \in 1..k : i \in 1..Len(sent)
    BY <1>2
  <2> QED
    BY <1>1, <1>2, <1>3, <2>1 DEF StreamOK
<1>5. msg_buf' \o wire' = Seqs!FlattenSeq(Rest(sent', Len(handled'))) \o <<>>
  <2>1. Rest(sent', k) = Append(r, e)
    BY <1>1, <1>2, RestAppend DEF StreamOK
  <2>2. r \in Seq(Seq(Byte))
    BY <1>1, <1>2, RestSequence DEF StreamOK
  <2> HIDE DEF r, e
  <2>3. Seqs!FlattenSeq(Append(r, e)) = Seqs!FlattenSeq(r) \o e
    BY <1>2, <2>2, FlattenAppend
  <2>4. Append(r, e) \in Seq(Seq(Byte))
    BY <1>2, <2>2, AppendProperties
  <2>5. Seqs!FlattenSeq(Append(r, e)) \o <<>> = Seqs!FlattenSeq(Append(r, e))
    BY <2>4, FlattenInSeq, ConcatEmptySeq
  <2> QED
    BY <1>1, <1>4, <2>1, <2>3, <2>5
<1>7. StreamOK(<<>>)'
  BY <1>3, <1>4, <1>5, <1>6 DEF StreamOK
<1> QED
  BY <1>7, StreamStart DEF StreamInv

\* The server writes foreign bytes.
LEMMA StreamForeign ==
  ASSUME StreamInv, NEW b \in Foreign, SendForeign(b)
  PROVE  StreamInv'
<1>1. /\ StreamOK(<<>>) /\ wire' = wire \o b /\ foreign'
      /\ UNCHANGED <<msg_buf, handled, sent>>
  BY DEF StreamInv, SendForeign
<1>2. b \in Tails /\ b \in Seq(Byte)
  BY TailBytes DEF Tails
<1>3. StreamOK(b)'
  BY <1>1, <1>2, StreamWrite DEF StreamOK
<1> QED
  BY <1>1, <1>2, <1>3 DEF StreamInv

\* Bytes move from the wire to the end of the buffer.
LEMMA StreamRead ==
  ASSUME StreamInv, NEW n \in 1..Len(wire), Read(n)
  PROVE  StreamInv'
<1>1. PICK f \in Tails : StreamOK(f) /\ (~foreign => f = <<>>)
  BY DEF StreamInv, Read, Alive
<1>2. StreamOK(f)'
  <2>1. StreamOK(f) /\ msg_buf' = msg_buf \o SubSeq(wire, 1, n) /\ wire' = SubSeq(wire, n + 1, Len(wire))
        /\ UNCHANGED <<sent, handled>>
    BY <1>1 DEF Read
  <2> DEFINE a == SubSeq(wire, 1, n)
             b == SubSeq(wire, n + 1, Len(wire))
  <2>2. Len(wire) \in Nat /\ n \in Nat /\ n <= Len(wire) /\ n >= 1
    BY <2>1, LenProperties DEF StreamOK
  <2>3. a \in Seq(Byte) /\ b \in Seq(Byte)
    <3>1. \A i \in 1..Len(wire) : wire[i] \in Byte
      BY <2>1, ElementOfSeq DEF StreamOK
    <3>2. \A i \in 1..n : wire[i] \in Byte
      BY <2>2, <3>1
    <3>3. \A i \in (n + 1)..Len(wire) : wire[i] \in Byte
      BY <2>2, <3>1
    <3> QED
      BY <2>2, <3>2, <3>3, SubSeqProperties
  <2>4. a \o b = wire
    <3>1. SubSeq(wire, 1, n) \o SubSeq(wire, n + 1, Len(wire)) = SubSeq(wire, 1, Len(wire))
      <4>1. 1 \in 1..(Len(wire) + 1) /\ n \in (1 - 1)..Len(wire) /\ Len(wire) \in n..Len(wire)
        BY <2>2
      <4> QED
        BY <2>1, <4>1, ConcatAdjacentSubSeq DEF StreamOK
    <3>2. SubSeq(wire, 1, Len(wire)) = wire
      BY <2>1, SubSeqFull DEF StreamOK
    <3> QED
      BY <3>1, <3>2
  <2> HIDE DEF a, b
  <2>5. (msg_buf \o a) \o b = msg_buf \o wire
    <3>1. msg_buf \in Seq(Byte) /\ a \in Seq(Byte) /\ b \in Seq(Byte)
      BY <2>1, <2>3 DEF StreamOK
    <3>2. (msg_buf \o a) \o b = msg_buf \o (a \o b)
      BY <3>1, ConcatAssociative, SMTT(30)
    <3> QED
      BY <2>4, <3>2
  <2>6. msg_buf \o a \in Seq(Byte)
    BY <2>1, <2>3, ConcatProperties DEF StreamOK
  <2>7. msg_buf' = msg_buf \o a /\ wire' = b
    BY <2>1 DEF a, b
  <2> QED
    BY <2>1, <2>3, <2>5, <2>6, <2>7 DEF StreamOK
<1> QED
  BY <1>1, <1>2 DEF StreamInv, Read

\* The next message is taken out of the buffer.
LEMMA StreamHandle ==
  ASSUME StreamInv, HandleOne
  PROVE  StreamInv'
<1>1. PICK f \in Tails : StreamOK(f) /\ (~foreign => f = <<>>)
  BY DEF StreamInv, HandleOne, Alive
<1>2. StreamOK(f)'
  <2> DEFINE k == Len(handled)
             m == sent[k + 1]
             e == encode(m)
             b == SubSeq(msg_buf, Len(e) + 1, Len(msg_buf))
             F == Seqs!FlattenSeq(Rest(sent, k + 1)) \o f
  <2>1. StreamOK(f) /\ UNCHANGED <<wire, sent>>
    BY <1>1 DEF HandleOne, streamVars
  <2>2. /\ k # Len(sent) /\ Len(msg_buf) >= Len(e)
        /\ msg_buf' = b /\ handled' = Append(handled, Normal(m))
    <3>1. decode(msg_buf).kind = "message"
      BY DEF HandleOne
    <3>2. decode(msg_buf) # More /\ decode(msg_buf) # Error
      BY <3>1 DEF More, Error
    <3>3. /\ k # Len(sent) /\ Len(msg_buf) >= Len(e)
          /\ decode(msg_buf) = [kind |-> "message", msg |-> Normal(m), used |-> Len(e)]
      BY <2>1, <3>2, DecodeNext
    <3> HIDE DEF e, m, k
    <3>4. msg_buf' = SubSeq(msg_buf, Len(e) + 1, Len(msg_buf)) /\ handled' = Append(handled, Normal(m))
      BY <3>3, SMTT(30) DEF HandleOne
    <3> QED
      BY <3>3, <3>4
  <2>3. /\ m \in Message /\ k + 1 <= Len(sent) /\ Agrees(msg_buf, e)
        /\ F \in Seq(Byte) /\ msg_buf \o wire = e \o F
    BY <2>1, <2>2, NextMessage
  <2>4. e \in Seq(Byte) /\ Len(e) \in Nat /\ Len(e) # 0 /\ Len(msg_buf) \in Nat /\ k \in Nat /\ Len(sent) \in Nat
    BY <2>1, <2>3, EncodeBytes, LenProperties DEF StreamOK
  <2>5. b \in Seq(Byte) /\ e \o b = msg_buf
    <3> HIDE DEF e, m
    <3>1. \A i \in 1..Len(msg_buf) : msg_buf[i] \in Byte
      BY <2>1, ElementOfSeq DEF StreamOK
    <3>2. \A i \in (Len(e) + 1)..Len(msg_buf) : msg_buf[i] \in Byte
      BY <2>4, <3>1
    <3>3. b \in Seq(Byte)
      BY <2>4, <3>2, SubSeqProperties
    <3> DEFINE a == SubSeq(msg_buf, 1, Len(e))
    <3>4. a \o b = SubSeq(msg_buf, 1, Len(msg_buf))
      <4>1. /\ 1 \in 1..(Len(msg_buf) + 1) /\ Len(e) \in (1 - 1)..Len(msg_buf)
            /\ Len(msg_buf) \in Len(e)..Len(msg_buf)
        BY <2>2, <2>4
      <4> QED
        BY <2>1, <4>1, ConcatAdjacentSubSeq DEF StreamOK
    <3>5. a = e
      <4>1. \A i \in 1..Len(e) : msg_buf[i] \in Byte
        BY <2>2, <2>4, <3>1
      <4>2. /\ a \in Seq(Byte) /\ Len(a) = Len(e)
            /\ \A i \in 1..(Len(e) - 1 + 1) : a[i] = msg_buf[1 + i - 1]
        BY <2>4, <4>1, SubSeqProperties
      <4>3. ASSUME NEW i \in 1..Len(a) PROVE a[i] = e[i]
        <5>1. i \in 1..(Len(e) - 1 + 1) /\ 1 + i - 1 = i /\ i \in 1..Len(msg_buf) /\ i <= Len(e)
          BY <2>2, <2>4, <4>2
        <5> QED
          BY <2>3, <4>2, <5>1 DEF Agrees
      <4> HIDE DEF a
      <4> QED
        BY <2>4, <4>2, <4>3, SeqEqual
    <3>6. SubSeq(msg_buf, 1, Len(msg_buf)) = msg_buf
      BY <2>1, SubSeqFull DEF StreamOK
    <3> QED
      BY <3>3, <3>4, <3>5, <3>6
  <2>6. b \o wire = F
    <3> HIDE DEF b, e, F, m
    <3>1. (e \o b) \o wire = e \o (b \o wire) /\ b \o wire \in Seq(Byte)
      <4>1. e \in Seq(Byte) /\ b \in Seq(Byte) /\ wire \in Seq(Byte)
        BY <2>1, <2>4, <2>5 DEF StreamOK
      <4> QED
        BY <4>1, ConcatAssociative, ConcatProperties
    <3>2. e \o (b \o wire) = e \o F
      BY <2>3, <2>5, <3>1
    <3> QED
      BY <2>3, <2>4, <3>1, <3>2, ConcatSimplifications
  <2>7. /\ handled' \in Seq({Normal(j) : j \in Message}) /\ Len(handled') = k + 1
        /\ \A i \in 1..k : handled'[i] = handled[i]
        /\ handled'[k + 1] = Normal(m)
    <3>1. Normal(m) \in {Normal(j) : j \in Message}
      BY <2>3
    <3> HIDE DEF m
    <3> QED
      BY <2>1, <2>2, <3>1, AppendProperties DEF StreamOK
  <2>8. \A i \in 1..Len(handled') : handled'[i] = Normal(sent'[i])
    <3>1. ASSUME NEW i \in 1..(k + 1) PROVE handled'[i] = Normal(sent[i])
      <4>1. CASE i = k + 1
        BY <2>7, <4>1
      <4>2. CASE i # k + 1
        <5>1. i \in 1..k
          BY <2>4, <4>2
        <5> QED
          BY <2>1, <2>7, <5>1 DEF StreamOK
      <4> QED
        BY <4>1, <4>2
    <3> QED
      BY <2>1, <2>7, <3>1
  <2>9. msg_buf' \o wire' = Seqs!FlattenSeq(Rest(sent', Len(handled'))) \o f
    <3> HIDE DEF b, k
    <3> QED
      BY <2>1, <2>2, <2>6, <2>7
  <2> HIDE DEF b, e, m, F
  <2> QED
    BY <2>1, <2>2, <2>3, <2>5, <2>7, <2>8, <2>9 DEF StreamOK
<1> QED
  BY <1>1, <1>2 DEF StreamInv, HandleOne, streamVars

\* A step that leaves the stream alone.
LEMMA StreamKept ==
  ASSUME StreamInv, UNCHANGED <<wire, sent, foreign, msg_buf, handled>>, Alive' => Alive
  PROVE  StreamInv'
  BY DEF StreamInv, StreamOK

\* Every step keeps the invariant; one case per action.
LEMMA StreamStep ==
  ASSUME StreamInv, [ReceiveNext]_receiveVars
  PROVE  StreamInv'
<1>1. ASSUME NEW m \in Message, Send(m) PROVE StreamInv'
  BY <1>1, StreamSend
<1>2. ASSUME NEW bytes \in Foreign, SendForeign(bytes) PROVE StreamInv'
  BY <1>2, StreamForeign
<1>3. CASE ReadSome
  BY <1>3, StreamRead DEF ReadSome
<1>4. CASE HandleOne
  BY <1>4, StreamHandle
<1>5. CASE NeedMore \/ DecodeError \/ ConnectionEnds \/ Shutdown \/ ClearReceived
  BY <1>5, StreamKept
  DEF NeedMore, DecodeError, ConnectionEnds, Shutdown, ClearReceived, Alive, streamVars
<1>6. ASSUME NEW v \in Vni, Unsubscribe(v) PROVE StreamInv'
  BY <1>6, StreamKept DEF Unsubscribe, Alive, streamVars
<1>7. CASE UNCHANGED receiveVars
  BY <1>7, StreamKept DEF receiveVars, streamVars, Alive
<1>8. CASE Reconnect
  BY <1>8, StreamStart DEF Reconnect, StreamInv, StreamOK
<1> QED
  BY <1>1, <1>2, <1>3, <1>4, <1>5, <1>6, <1>7, <1>8 DEF ReceiveNext, Decode

\* Whatever pieces the bytes arrive in, the messages are handled in their order
\* and as they were sent, no byte is lost and none is taken for an error: for any
\* messages, any split of the stream, any number of connections.
THEOREM NothingEverLost == ReceiveSpec => []NothingLost
<1>1. ReceiveInit => StreamInv
  BY StreamStart DEF ReceiveInit, StreamInv, StreamOK
<1>2. StreamInv /\ [ReceiveNext]_receiveVars => StreamInv'
  BY StreamStep
<1> QED
  BY <1>1, <1>2, StreamImplies, PTL DEF ReceiveSpec

-----------------------------------------------------------------------------
(***************************************************************************)
(* The peer's table is used as RouteTable says.                            *)
(***************************************************************************)

\* An update of a message that was sent is an operation with a route of the sets.
LEMMA HandledIsOperation ==
  ASSUME NEW m \in Message, handle_message(Normal(m))
  PROVE  [Next]_vars
<1>1. CASE m.type = "Update"
  <2>1. /\ Normal(m).type = "Update" /\ Normal(m).vni \in Vni
        /\ Normal(m).dest \in Dest /\ Normal(m).hop \in Hop
    <3>1. m = [type |-> m.type, action |-> m.action, vni |-> m.vni, dest |-> m.dest, hop |-> m.hop]
      BY <1>1, ReceiveAssumption DEF IsMessage
    <3>2. Normal(m).type = m.type /\ Normal(m).vni = m.vni /\ Normal(m).dest = m.dest
      BY <1>1, <3>1 DEF Normal
    <3> QED
      BY <1>1, <3>2, ReceiveAssumption
  <2> QED
    BY <2>1 DEF handle_message, Next
<1>2. CASE m.type # "Update"
  BY <1>2 DEF handle_message, Normal, vars
<1> QED
  BY <1>1, <1>2

\* Every step of the peer is an operation on the table or leaves it alone.
LEMMA TableIsUsed ==
  StreamInv /\ [ReceiveNext]_receiveVars => [Next]_vars
<1> SUFFICES ASSUME StreamInv, [ReceiveNext]_receiveVars
             PROVE  [Next]_vars
  OBVIOUS
<1>1. CASE HandleOne
  <2>1. PICK f \in Tails : StreamOK(f)
    BY <1>1 DEF StreamInv, HandleOne, Alive
  <2> DEFINE k == Len(handled)
             m == sent[k + 1]
  <2>2. decode(msg_buf).kind = "message"
    BY <1>1 DEF HandleOne
  <2>3. k # Len(sent) /\ decode(msg_buf).msg = Normal(m)
    <3>1. decode(msg_buf) # More /\ decode(msg_buf) # Error
      BY <2>2 DEF More, Error
    <3> QED
      BY <2>1, <3>1, DecodeNext
  <2>4. m \in Message
    BY <2>1, <2>3, NextMessage
  <2> HIDE DEF m
  <2>5. handle_message(Normal(m))
    BY <1>1, <2>3 DEF HandleOne
  <2> QED
    BY <2>4, <2>5, HandledIsOperation
<1>2. ASSUME NEW v \in Vni, Unsubscribe(v)
      PROVE  [Next]_vars
  BY <1>2 DEF Unsubscribe, Next
<1>3. CASE ClearReceived
  BY <1>3 DEF ClearReceived, Next
<1>4. CASE \/ \E m \in Message : Send(m)
           \/ \E bytes \in Foreign : SendForeign(bytes)
           \/ ReadSome \/ NeedMore \/ DecodeError \/ ConnectionEnds \/ Shutdown \/ Reconnect
           \/ UNCHANGED receiveVars
  BY <1>4 DEF Send, SendForeign, ReadSome, Read, NeedMore, DecodeError, ConnectionEnds,
              Shutdown, Reconnect, vars
<1> QED
  BY <1>1, <1>2, <1>3, <1>4 DEF ReceiveNext, Decode

\* received_routes of a peer task is a RouteTable: whatever the server sends, the
\* task only adds, removes and clears routes as route.rs does.
THEOREM PeerUsesTable == ReceiveSpec => Spec
<1>1. ReceiveInit => StreamInv /\ Init
  BY StreamStart DEF ReceiveInit, StreamInv, StreamOK
<1>2. StreamInv /\ [ReceiveNext]_receiveVars => StreamInv'
  BY StreamStep
<1> QED
  BY <1>1, <1>2, TableIsUsed, PTL DEF ReceiveSpec, Spec

\* So it is well formed at all times, across messages in pieces, foreign bytes,
\* Unsubscribe and lost connections (remove_next_hop, peer_task).
THEOREM ReceivedTableOK == ReceiveSpec => []TableOK
  BY PeerUsesTable, TableWellFormed, PTL

\* Its outer map tells of the routes the peer has received.
THEOREM ReceivedOuterMapTells == ReceiveSpec => []OuterMapTells
  BY PeerUsesTable, OuterMapTellsAlways, PTL

\* And it acts as a set of routes on every message, Unsubscribe and cleanup.
THEOREM ReceivedTableIsSet == ReceiveSpec => ImplementsSet
  BY PeerUsesTable, TableImplementsSet, PTL
=============================================================================
