-------------------------- MODULE RouteDedupProofs --------------------------
(***************************************************************************)
(* Proofs about RouteDedup, for any number of servers, VNIs and routes and *)
(* any number of updates and removals.                                     *)
(***************************************************************************)
EXTENDS RouteDedup, FiniteSetTheorems, TLAPS

USE DEF taskVars, vars

\* Before the first connection the variables are well typed.
LEMMA DedupTypeInit == Init => DedupTypeOK
  BY DedupAssumption DEF Init, DedupTypeOK, Thread

\* The calls the code decides on are calls of the handler.
LEMMA CallsAreCalls == \A k \in Key : AddCall(k) \in Call /\ RemoveCall(k) \in Call
  BY DEF Call, AddCall, RemoveCall

\* Every step keeps the types, and a task in its removal loop stays there until
\* nothing is left.
LEMMA DedupTypeStep == DedupTypeOK /\ [Next]_vars => DedupTypeOK'
<1> SUFFICES ASSUME DedupTypeOK, [Next]_vars PROVE DedupTypeOK'
  OBVIOUS
<1> USE DEF DedupTypeOK
<1>1. ASSUME NEW t \in Thread, NEW c \in Call, MakeCall(t, c) PROVE DedupTypeOK'
  <2>1. c.key \in Key
    BY DEF Call
  <2> QED
    BY <1>1, <2>1 DEF MakeCall
<1>2. ASSUME NEW s \in Server, NEW k \in Key, ClearRoute(s, k) PROVE DedupTypeOK'
  BY <1>2, CallsAreCalls DEF ClearRoute, RemoveOrigin, Thread
<1>3. ASSUME NEW s \in Server, Cleared(s) PROVE DedupTypeOK'
  BY <1>3 DEF Cleared
<1>4. ASSUME NEW s \in Server, Established(s) \/ ShutdownPeer(s) PROVE DedupTypeOK'
  BY <1>4 DEF Established, ShutdownPeer, Ready
<1>5. ASSUME NEW s \in Server, Disconnect(s) PROVE DedupTypeOK'
  BY <1>5 DEF Disconnect, Ready
<1>6. ASSUME NEW s \in Server, NEW k \in Key, RecvAdd(s, k) PROVE DedupTypeOK'
  BY <1>6, CallsAreCalls, DedupAssumption DEF RecvAdd, AddOrigin, Thread
<1>7. ASSUME NEW s \in Server, NEW k \in Key, RecvRemove(s, k) PROVE DedupTypeOK'
  BY <1>7, CallsAreCalls, DedupAssumption DEF RecvRemove, RemoveOrigin, Thread
<1>8. ASSUME NEW s \in Server, NEW v \in Vni, Unsubscribe(s, v) PROVE DedupTypeOK'
  BY <1>8 DEF Unsubscribe, Ready
<1>9. ASSUME NEW s \in Server, RemoveServerRoutes(s) PROVE DedupTypeOK'
  BY <1>9, CallsAreCalls, DedupAssumption DEF RemoveServerRoutes, Thread
<1>10. CASE UNCHANGED vars
  BY <1>10
<1> QED
  BY <1>1, <1>2, <1>3, <1>4, <1>5, <1>6, <1>7, <1>8, <1>9, <1>10 DEF Next, TaskStep, Thread

\* Types hold in every reachable state.
THEOREM DedupTypeCorrect == Spec => []DedupTypeOK
  BY DedupTypeInit, DedupTypeStep, PTL DEF Spec

-----------------------------------------------------------------------------
(* The tracker and the peer tasks. *)

\* Whatever a task does to its routes, it does to the tracker before it forgets
\* them; remove_server_routes only takes origins away.
LEMMA OriginsStep ==
  ASSUME DedupTypeOK, OriginsBacked, [Next]_vars
  PROVE  OriginsBacked'
<1> USE DEF DedupTypeOK, OriginsBacked
<1>1. ASSUME NEW t \in Thread, NEW c \in Call, MakeCall(t, c) PROVE OriginsBacked'
  BY <1>1 DEF MakeCall
<1>2. ASSUME NEW s \in Server, NEW k \in Key, ClearRoute(s, k) PROVE OriginsBacked'
  BY <1>2 DEF ClearRoute, RemoveOrigin
<1>3. ASSUME NEW s \in Server, Cleared(s) \/ Established(s) \/ ShutdownPeer(s) PROVE OriginsBacked'
  BY <1>3 DEF Cleared, Established, ShutdownPeer
<1>5. ASSUME NEW s \in Server, Disconnect(s) PROVE OriginsBacked'
  BY <1>5 DEF Disconnect, Ready
<1>6. ASSUME NEW s \in Server, NEW k \in Key, RecvAdd(s, k) PROVE OriginsBacked'
  BY <1>6 DEF RecvAdd, AddOrigin
<1>7. ASSUME NEW s \in Server, NEW k \in Key, RecvRemove(s, k) PROVE OriginsBacked'
  BY <1>7 DEF RecvRemove, RemoveOrigin
<1>8. ASSUME NEW s \in Server, NEW v \in Vni, Unsubscribe(s, v) PROVE OriginsBacked'
  BY <1>8 DEF Unsubscribe, Ready
<1>9. ASSUME NEW s \in Server, RemoveServerRoutes(s) PROVE OriginsBacked'
  BY <1>9 DEF RemoveServerRoutes
<1>10. CASE UNCHANGED vars
  BY <1>10
<1> QED
  BY <1>1, <1>2, <1>3, <1>5, <1>6, <1>7, <1>8, <1>9, <1>10 DEF Next, TaskStep, Thread

\* A server is an origin only of routes its task holds or is about to remove, so
\* that the tracker keeps no route of a server for ever.
THEOREM OriginsAreBacked == Spec => []OriginsBacked
<1>1. Init => OriginsBacked
  BY DEF Init, OriginsBacked
<1>2. DedupTypeOK /\ OriginsBacked /\ [Next]_vars => OriginsBacked'
  BY OriginsStep
<1> QED
  BY <1>1, <1>2, DedupTypeCorrect, PTL DEF Spec

-----------------------------------------------------------------------------
(* The balance of the calls. *)

\* The threads that have decided on call c.
Deciders(c) == {t \in Thread : c \in calls[t]}

\* Finitely many threads have.
LEMMA DecidersFinite == \A c : IsFiniteSet(Deciders(c))
<1>1. IsFiniteSet(Thread)
  BY DedupAssumption, FS_AddElement DEF Thread
<1>2. \A c : Deciders(c) \subseteq Thread
  BY DEF Deciders
<1> QED
  BY <1>1, <1>2, FS_Subset

\* Counting the pending calls when thread t exchanges what it has decided on for
\* S: a call counts one more, one less or the same.
LEMMA PendingStep ==
  ASSUME DedupTypeOK, NEW t \in Thread, NEW S, calls' = [calls EXCEPT ![t] = S], NEW c
  PROVE  /\ Pending(c) \in Nat
         /\ c \in S /\ c \notin calls[t] => Pending(c)' = Pending(c) + 1
         /\ c \notin S /\ c \in calls[t] => Pending(c)' = Pending(c) - 1
         /\ (c \in S <=> c \in calls[t]) => Pending(c)' = Pending(c)
<1>1. IsFiniteSet(Deciders(c)) /\ Pending(c) = Cardinality(Deciders(c))
  BY DecidersFinite DEF Pending, Deciders
<1>2. Pending(c) \in Nat
  BY <1>1, FS_CardinalityType
<1>3. Pending(c)' = Cardinality(Deciders(c)')
  BY DEF Pending, Deciders
<1>4. /\ calls'[t] = S
      /\ \A u \in Thread \ {t} : calls'[u] = calls[u]
  BY DEF DedupTypeOK
<1>5. CASE c \in S /\ c \notin calls[t]
  <2>1. Deciders(c)' = Deciders(c) \cup {t} /\ t \notin Deciders(c)
    BY <1>4, <1>5 DEF Deciders
  <2> QED
    BY <1>1, <1>2, <1>3, <1>5, <2>1, FS_AddElement
<1>6. CASE c \notin S /\ c \in calls[t]
  <2>1. Deciders(c)' = Deciders(c) \ {t} /\ t \in Deciders(c)
    BY <1>4, <1>6 DEF Deciders
  <2> QED
    BY <1>1, <1>2, <1>3, <1>6, <2>1, FS_RemoveElement
<1>7. CASE c \in S <=> c \in calls[t]
  <2>1. Deciders(c)' = Deciders(c)
    BY <1>4, <1>7 DEF Deciders
  <2> QED
    BY <1>1, <1>2, <1>3, <1>7, <2>1
<1> QED
  BY <1>2, <1>5, <1>6, <1>7

\* Nothing changes for the count when no thread decides on anything.
LEMMA PendingSame ==
  ASSUME calls' = calls, NEW c
  PROVE  Pending(c)' = Pending(c)
  BY DEF Pending

\* The calls of different kinds and keys are different calls.
LEMMA CallsDiffer ==
  \A j, k \in Key : /\ AddCall(j) # RemoveCall(k)
                    /\ AddCall(j) = AddCall(k) <=> j = k
                    /\ RemoveCall(j) = RemoveCall(k) <=> j = k
  BY DEF AddCall, RemoveCall

\* The balance of one route: one for a route with an origin, none without.
Balance(k) ==
  net[k] + Pending(AddCall(k)) - Pending(RemoveCall(k)) = IF origins[k] = {} THEN 0 ELSE 1

\* A decision keeps the balance: thread t has no decided call left and decides on
\* S, which has an add_route for k when k gets its first origin, a remove_route
\* when it loses its last, and neither when it keeps or lacks one.
LEMMA DecisionBalances ==
  ASSUME DedupTypeOK, NEW t \in Thread, calls[t] = {}, NEW S,
         calls' = [calls EXCEPT ![t] = S], net' = net,
         NEW k \in Key, Balance(k),
         AddCall(k) \in S <=> origins[k] = {} /\ origins'[k] # {},
         RemoveCall(k) \in S <=> origins[k] # {} /\ origins'[k] = {}
  PROVE  Balance(k)'
<1>1. /\ Pending(AddCall(k)) \in Nat /\ Pending(RemoveCall(k)) \in Nat /\ net[k] \in Int
      /\ Pending(AddCall(k))' = Pending(AddCall(k)) + (IF AddCall(k) \in S THEN 1 ELSE 0)
      /\ Pending(RemoveCall(k))' = Pending(RemoveCall(k)) + (IF RemoveCall(k) \in S THEN 1 ELSE 0)
  <2>1. \A c : c \notin calls[t]
    OBVIOUS
  <2>2. ASSUME NEW c
        PROVE  Pending(c) \in Nat /\ Pending(c)' = Pending(c) + (IF c \in S THEN 1 ELSE 0)
    <3>1. /\ Pending(c) \in Nat
          /\ c \in S => Pending(c)' = Pending(c) + 1
          /\ c \notin S => Pending(c)' = Pending(c)
      BY <2>1, PendingStep, Zenon
    <3> QED
      BY <3>1
  <2> QED
    BY <2>2 DEF DedupTypeOK
<1> QED
  BY <1>1 DEF Balance

\* Making a call moves it from the decided ones to the made ones.
LEMMA CallBalances ==
  ASSUME DedupTypeOK, NEW t \in Thread, NEW c \in Call, MakeCall(t, c), NEW k \in Key, Balance(k)
  PROVE  Balance(k)'
<1> DEFINE S == calls[t] \ {c}
<1>1. c \in calls[t] /\ calls' = [calls EXCEPT ![t] = S] /\ origins' = origins
  BY DEF MakeCall
<1>2. ASSUME NEW d
      PROVE  Pending(d) \in Nat /\ Pending(d)' = Pending(d) - (IF d = c THEN 1 ELSE 0)
  <2>1. (d = c => d \notin S /\ d \in calls[t]) /\ (d # c => (d \in S <=> d \in calls[t]))
    BY <1>1
  <2> HIDE DEF S
  <2>2. /\ Pending(d) \in Nat
        /\ d = c => Pending(d)' = Pending(d) - 1
        /\ d # c => Pending(d)' = Pending(d)
    BY <1>1, <2>1, PendingStep, Zenon
  <2> QED
    BY <2>2
<1>3. c.key \in Key /\ (c = AddCall(c.key) \/ c = RemoveCall(c.key)) /\ net \in [Key -> Int]
  BY DEF Call, AddCall, RemoveCall, DedupTypeOK
<1>4. CASE c = AddCall(c.key)
  <2>1. net' = [net EXCEPT ![c.key] = @ + 1]
    BY <1>4 DEF MakeCall, AddCall
  <2>2. /\ AddCall(k) = c <=> k = c.key
        /\ RemoveCall(k) # c
    BY <1>3, <1>4, CallsDiffer
  <2> QED
    BY <1>1, <1>2, <1>3, <2>1, <2>2 DEF Balance
<1>5. CASE c = RemoveCall(c.key)
  <2>1. net' = [net EXCEPT ![c.key] = @ - 1]
    BY <1>5 DEF MakeCall, RemoveCall
  <2>2. /\ RemoveCall(k) = c <=> k = c.key
        /\ AddCall(k) # c
    BY <1>3, <1>5, CallsDiffer
  <2> QED
    BY <1>1, <1>2, <1>3, <2>1, <2>2 DEF Balance
<1> QED
  BY <1>3, <1>4, <1>5

\* The tracker's decisions (add_origin, remove_origin, remove_server) and the
\* calls that follow keep every route in balance, in any interleaving.
LEMMA BalanceStep ==
  ASSUME DedupTypeOK, [Next]_vars, NEW k \in Key, Balance(k)
  PROVE  Balance(k)'
<1> USE DEF DedupTypeOK
<1>1. ASSUME NEW t \in Thread, NEW c \in Call, MakeCall(t, c) PROVE Balance(k)'
  BY <1>1, CallBalances
<1>2. ASSUME NEW s \in Server, NEW j \in Key, calls[s] = {}, RemoveOrigin(j, s), net' = net
      PROVE  Balance(k)'
  <2> DEFINE S == IF origins[j] = {s} THEN {RemoveCall(j)} ELSE {}
  <2>1. calls' = [calls EXCEPT ![s] = S] /\ s \in Thread
    BY <1>2 DEF RemoveOrigin, Thread
  <2>2. origins'[k] = IF k = j THEN origins[k] \ {s} ELSE origins[k]
    BY <1>2 DEF RemoveOrigin
  <2>3. /\ AddCall(k) \notin S
        /\ RemoveCall(k) \in S <=> k = j /\ origins[k] = {s}
    BY CallsDiffer
  <2>4. /\ ~(origins[k] = {} /\ origins'[k] # {})
        /\ (origins[k] # {} /\ origins'[k] = {}) <=> (k = j /\ origins[k] = {s})
    BY <2>2
  <2> HIDE DEF S
  <2> QED
    BY <1>2, <2>1, <2>3, <2>4, DecisionBalances
<1>3. ASSUME NEW s \in Server, NEW j \in Key, calls[s] = {}, AddOrigin(j, s), net' = net
      PROVE  Balance(k)'
  <2> DEFINE S == IF origins[j] = {} THEN {AddCall(j)} ELSE {}
  <2>1. calls' = [calls EXCEPT ![s] = S] /\ s \in Thread
    BY <1>3 DEF AddOrigin, Thread
  <2>2. origins'[k] = IF k = j THEN origins[k] \cup {s} ELSE origins[k]
    BY <1>3 DEF AddOrigin
  <2>3. /\ RemoveCall(k) \notin S
        /\ AddCall(k) \in S <=> k = j /\ origins[k] = {}
    BY CallsDiffer
  <2>4. /\ ~(origins[k] # {} /\ origins'[k] = {})
        /\ (origins[k] = {} /\ origins'[k] # {}) <=> (k = j /\ origins[k] = {})
    BY <2>2
  <2> HIDE DEF S
  <2> QED
    BY <1>3, <2>1, <2>3, <2>4, DecisionBalances
<1>4. ASSUME NEW s \in Server, RemoveServerRoutes(s) PROVE Balance(k)'
  <2> DEFINE S == {RemoveCall(j) : j \in {i \in Key : origins[i] = {s}}}
  <2>1. /\ calls' = [calls EXCEPT ![User] = S] /\ User \in Thread
        /\ calls[User] = {} /\ net' = net
        /\ origins'[k] = origins[k] \ {s}
    BY <1>4 DEF RemoveServerRoutes, Thread
  <2>2. /\ AddCall(k) \notin S
        /\ RemoveCall(k) \in S <=> origins[k] = {s}
    BY CallsDiffer
  <2>3. /\ ~(origins[k] = {} /\ origins'[k] # {})
        /\ (origins[k] # {} /\ origins'[k] = {}) <=> origins[k] = {s}
    BY <2>1
  <2> HIDE DEF S
  <2> QED
    BY <2>1, <2>2, <2>3, DecisionBalances
<1>5. CASE UNCHANGED <<calls, net, origins>>
  BY <1>5, PendingSame DEF Balance
<1>6. ASSUME NEW s \in Server, NEW j \in Key, ClearRoute(s, j) \/ RecvAdd(s, j) \/ RecvRemove(s, j)
      PROVE  Balance(k)'
  BY <1>2, <1>3, <1>6 DEF ClearRoute, RecvAdd, RecvRemove, Ready
<1>7. ASSUME NEW s \in Server,
             \/ Cleared(s) \/ Established(s) \/ ShutdownPeer(s) \/ Disconnect(s)
             \/ \E v \in Vni : Unsubscribe(s, v)
      PROVE  Balance(k)'
  BY <1>5, <1>7 DEF Cleared, Established, ShutdownPeer, Disconnect, Unsubscribe
<1> QED
  BY <1>1, <1>4, <1>5, <1>6, <1>7 DEF Next, TaskStep, Thread

\* One handler call per route, however many servers announce it and however the
\* threads interleave: made and decided calls balance for every route.
THEOREM CallsAlwaysBalance == Spec => []CallsBalance
<1>1. CallsBalance <=> \A k \in Key : Balance(k)
  BY DEF CallsBalance, Balance
<1>2. Init => CallsBalance
  <2> SUFFICES ASSUME Init, NEW k \in Key PROVE Balance(k)
    BY <1>1
  <2>1. \A c : Deciders(c) = {}
    BY DEF Init, Deciders
  <2>2. Pending(AddCall(k)) = 0 /\ Pending(RemoveCall(k)) = 0
    BY <2>1, FS_EmptySet DEF Pending, Deciders
  <2> QED
    BY <2>2 DEF Init, Balance
<1>3. DedupTypeOK /\ CallsBalance /\ [Next]_vars => CallsBalance'
  <2> SUFFICES ASSUME DedupTypeOK, CallsBalance, [Next]_vars PROVE CallsBalance'
    OBVIOUS
  <2>1. \A k \in Key : Balance(k)'
    BY <1>1, BalanceStep
  <2> QED
    BY <2>1 DEF CallsBalance, Balance
<1> QED
  BY <1>2, <1>3, DedupTypeCorrect, PTL DEF Spec

-----------------------------------------------------------------------------
(* RouteDedup implements OneServer. *)

Present == {k \in Key : origins[k] # {}}
DueCalls == [c \in Call |-> Pending(c)]

\* The tracker's counts are those of OneServer's calls.
LEMMA SameCalls ==
  /\ One!Call = Call
  /\ \A k : One!AddCall(k) = AddCall(k) /\ One!RemoveCall(k) = RemoveCall(k)
  BY DEF One!Call, Call, One!AddCall, AddCall, One!RemoveCall, RemoveCall

\* A thread that had nothing decided decides on the calls S.
LEMMA DueDecided ==
  ASSUME DedupTypeOK, NEW t \in Thread, calls[t] = {}, NEW S,
         calls' = [calls EXCEPT ![t] = S]
  PROVE  DueCalls' = [c \in Call |-> IF c \in S THEN DueCalls[c] + 1 ELSE DueCalls[c]]
<1>1. ASSUME NEW c \in Call
      PROVE  Pending(c)' = IF c \in S THEN Pending(c) + 1 ELSE Pending(c)
  <2>1. c \notin calls[t]
    OBVIOUS
  <2>2. /\ c \in S => Pending(c)' = Pending(c) + 1
        /\ c \notin S => Pending(c)' = Pending(c)
    BY <2>1, PendingStep, Zenon
  <2> QED
    BY <2>2
<1> QED
  BY <1>1 DEF DueCalls

\* The operations of OneServer in terms of the tracker and the threads.
LEMMA OneOps ==
  /\ \A k : One!Appear(k) <=>
       /\ k \notin Present /\ Present' = Present \cup {k}
       /\ DueCalls' = [c \in Call |-> IF c \in {AddCall(k)} THEN DueCalls[c] + 1 ELSE DueCalls[c]]
  /\ \A K : One!Vanish(K) <=>
       /\ K # {} /\ K \subseteq Present /\ Present' = Present \ K
       /\ DueCalls' = [c \in Call |-> IF c \in {RemoveCall(k) : k \in K} THEN DueCalls[c] + 1 ELSE DueCalls[c]]
  /\ \A c : One!Make(c) <=>
       /\ DueCalls[c] > 0 /\ DueCalls' = [DueCalls EXCEPT ![c] = @ - 1] /\ UNCHANGED Present
  BY SameCalls DEF One!Appear, One!Vanish, One!Make, One!Also, Present, DueCalls

OneStep == (\E k \in Key : One!Appear(k)) \/ (\E K \in SUBSET Key : One!Vanish(K))
             \/ (\E c \in Call : One!Make(c)) \/ UNCHANGED <<Present, DueCalls>>

\* add_origin: the route appears if it had no origin.
LEMMA OneAdd ==
  ASSUME DedupTypeOK, NEW s \in Server, NEW k \in Key, calls[s] = {}, AddOrigin(k, s)
  PROVE  OneStep
<1> DEFINE S == IF origins[k] = {} THEN {AddCall(k)} ELSE {}
<1>1. calls' = [calls EXCEPT ![s] = S] /\ s \in Thread
  BY DEF AddOrigin, Thread
<1>2. DueCalls' = [c \in Call |-> IF c \in S THEN DueCalls[c] + 1 ELSE DueCalls[c]]
  <2> HIDE DEF S
  <2> QED
    BY <1>1, DueDecided
<1>3. \A j \in Key : origins'[j] = IF j = k THEN origins[j] \cup {s} ELSE origins[j]
  BY DEF AddOrigin, DedupTypeOK
<1>4. Present' = Present \cup {k}
  BY <1>3 DEF Present
<1>5. CASE origins[k] = {}
  <2>1. k \notin Present /\ S = {AddCall(k)}
    BY <1>5 DEF Present
  <2>2. One!Appear(k)
    BY <1>2, <1>4, <2>1, OneOps
  <2> QED
    BY <2>2 DEF OneStep
<1>6. CASE origins[k] # {}
  <2>1. k \in Present /\ S = {}
    BY <1>6 DEF Present
  <2>2. UNCHANGED <<Present, DueCalls>>
    BY <1>2, <1>4, <2>1 DEF DueCalls
  <2> QED
    BY <2>2 DEF OneStep
<1> QED
  BY <1>5, <1>6

\* Routes K lose their last origin, no other route does, and thread t is to call
\* remove_route for each: they vanish.
LEMMA OneVanish ==
  ASSUME DedupTypeOK, NEW t \in Thread, calls[t] = {}, NEW K \in SUBSET Key,
         calls' = [calls EXCEPT ![t] = {RemoveCall(k) : k \in K}],
         K \subseteq Present, Present' = Present \ K
  PROVE  OneStep
<1> DEFINE S == {RemoveCall(k) : k \in K}
<1>1. DueCalls' = [c \in Call |-> IF c \in S THEN DueCalls[c] + 1 ELSE DueCalls[c]]
  <2>1. calls' = [calls EXCEPT ![t] = S]
    OBVIOUS
  <2> HIDE DEF S
  <2> QED
    BY <2>1, DueDecided
<1>2. CASE K = {}
  <2>1. DueCalls' = DueCalls
    BY <1>1, <1>2 DEF DueCalls
  <2> QED
    BY <1>2, <2>1 DEF OneStep
<1>3. CASE K # {}
  <2>1. One!Vanish(K)
    BY <1>1, <1>3, OneOps
  <2> QED
    BY <2>1 DEF OneStep
<1> QED
  BY <1>2, <1>3

\* remove_origin: the route vanishes if the server was its last origin.
LEMMA OneRemove ==
  ASSUME DedupTypeOK, NEW s \in Server, NEW k \in Key, calls[s] = {}, RemoveOrigin(k, s)
  PROVE  OneStep
<1> DEFINE K == IF origins[k] = {s} THEN {k} ELSE {}
<1>1. s \in Thread /\ calls' = [calls EXCEPT ![s] = {RemoveCall(j) : j \in K}]
  BY DEF RemoveOrigin, Thread
<1>2. \A j \in Key : origins'[j] = IF j = k THEN origins[j] \ {s} ELSE origins[j]
  BY DEF RemoveOrigin, DedupTypeOK
<1>3. K \in SUBSET Key /\ K \subseteq Present /\ Present' = Present \ K
  <2>1. K \in SUBSET Key /\ K \subseteq Present
    BY DEF Present
  <2>2. \A j \in Key : origins'[j] # {} <=> origins[j] # {} /\ j \notin K
    BY <1>2
  <2> HIDE DEF K
  <2> QED
    BY <2>1, <2>2 DEF Present
<1> HIDE DEF K
<1> QED
  BY <1>1, <1>3, OneVanish

\* remove_server_routes: all routes whose last origin it was vanish at once.
LEMMA OneGiveUp ==
  ASSUME DedupTypeOK, NEW s \in Server, RemoveServerRoutes(s)
  PROVE  OneStep
<1> DEFINE K == {j \in Key : origins[j] = {s}}
<1>1. /\ User \in Thread /\ calls[User] = {}
      /\ calls' = [calls EXCEPT ![User] = {RemoveCall(j) : j \in K}]
  BY DEF RemoveServerRoutes, Thread
<1>2. \A j \in Key : origins'[j] = origins[j] \ {s}
  BY DEF RemoveServerRoutes
<1>3. K \in SUBSET Key /\ K \subseteq Present /\ Present' = Present \ K
  BY <1>2 DEF Present
<1> HIDE DEF K
<1> QED
  BY <1>1, <1>3, OneVanish

\* A call is made that was due.
LEMMA OneMake ==
  ASSUME DedupTypeOK, NEW t \in Thread, NEW c \in Call, MakeCall(t, c)
  PROVE  OneStep
<1> DEFINE S == calls[t] \ {c}
<1>1. c \in calls[t] /\ calls' = [calls EXCEPT ![t] = S] /\ origins' = origins
  BY DEF MakeCall
<1>2. ASSUME NEW d \in Call
      PROVE  Pending(d) \in Nat /\ Pending(d)' = IF d = c THEN Pending(d) - 1 ELSE Pending(d)
  <2>1. (d = c => d \notin S /\ d \in calls[t]) /\ (d # c => (d \in S <=> d \in calls[t]))
    BY <1>1
  <2> HIDE DEF S
  <2>2. /\ Pending(d) \in Nat
        /\ d = c => Pending(d)' = Pending(d) - 1
        /\ d # c => Pending(d)' = Pending(d)
    BY <1>1, <2>1, PendingStep, Zenon
  <2> QED
    BY <2>2
<1>3. Pending(c) > 0
  <2>1. t \in Deciders(c) /\ IsFiniteSet(Deciders(c)) /\ Pending(c) = Cardinality(Deciders(c))
    BY <1>1, DecidersFinite DEF Deciders, Pending
  <2> QED
    BY <1>2, <2>1, FS_EmptySet
<1>4. DueCalls[c] > 0 /\ DueCalls' = [DueCalls EXCEPT ![c] = @ - 1]
  BY <1>2, <1>3 DEF DueCalls
<1>5. UNCHANGED Present
  BY <1>1 DEF Present
<1>6. One!Make(c)
  BY <1>4, <1>5, OneOps
<1> QED
  BY <1>6 DEF OneStep

\* Every step of the peer tasks and of the user is one of OneServer or a stutter.
LEMMA OneNext ==
  ASSUME DedupTypeOK, [Next]_vars
  PROVE  OneStep
<1>1. ASSUME NEW t \in Thread, NEW c \in Call, MakeCall(t, c) PROVE OneStep
  BY <1>1, OneMake
<1>2. ASSUME NEW s \in Server, NEW k \in Key, ClearRoute(s, k) \/ RecvAdd(s, k) \/ RecvRemove(s, k)
      PROVE  OneStep
  BY <1>2, OneAdd, OneRemove DEF ClearRoute, RecvAdd, RecvRemove, Ready
<1>3. ASSUME NEW s \in Server, RemoveServerRoutes(s) PROVE OneStep
  BY <1>3, OneGiveUp
<1>4. CASE UNCHANGED <<calls, origins>>
  BY <1>4, PendingSame DEF OneStep, Present, DueCalls
<1>5. ASSUME NEW s \in Server,
             \/ Cleared(s) \/ Established(s) \/ ShutdownPeer(s) \/ Disconnect(s)
             \/ \E v \in Vni : Unsubscribe(s, v)
      PROVE  OneStep
  BY <1>4, <1>5 DEF Cleared, Established, ShutdownPeer, Disconnect, Unsubscribe
<1>6. CASE UNCHANGED vars
  BY <1>4, <1>6 DEF vars
<1> QED
  BY <1>1, <1>2, <1>3, <1>5, <1>6 DEF Next, TaskStep, Thread

\* For any servers, VNIs and routes and any interleaving of the peer tasks with
\* remove_server_routes, the handler's calls are those of a single source of
\* routes: one when a route appears, one when it vanishes, and no other.
THEOREM ServersActAsOne == Spec => ImplementsOneServer
<1>1. Init => One!Init
  <2> SUFFICES ASSUME Init PROVE One!Init
    OBVIOUS
  <2>1. \A c : Deciders(c) = {}
    BY DEF Init, Deciders
  <2>2. \A c : Pending(c) = 0
    BY <2>1, FS_EmptySet DEF Pending, Deciders
  <2> QED
    BY <2>2, SameCalls DEF Init, One!Init
<1>2. DedupTypeOK /\ [Next]_vars => [One!Next]_<<Present, DueCalls>>
  BY OneNext, SameCalls DEF OneStep, One!Next
<1> QED
  BY <1>1, <1>2, DedupTypeCorrect, PTL DEF Spec, ImplementsOneServer, One!Spec, Present, DueCalls
=============================================================================
