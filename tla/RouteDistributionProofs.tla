---------------------- MODULE RouteDistributionProofs ----------------------
(***************************************************************************)
(* Proof that the server's subscribers converge (RouteDistribution), for   *)
(* any number of clients, VNIs and routes and any channel capacities.      *)
(***************************************************************************)
EXTENDS RouteDistribution, RoutingServerProofs

-----------------------------------------------------------------------------
(* What a queue of updates says last about a route. *)

\* Two queues, one after the other: the second has the last word.
LEMMA LastOfConcat ==
  ASSUME NEW S, NEW p \in Seq(S), NEW q \in Seq(S), NEW k
  PROVE  /\ Mentions(p \o q, k) <=> Mentions(p, k) \/ Mentions(q, k)
         /\ Mentions(q, k) => (LastIsAdd(p \o q, k) <=> LastIsAdd(q, k))
         /\ ~Mentions(q, k) => (LastIsAdd(p \o q, k) <=> LastIsAdd(p, k))
<1> DEFINE n == Len(p)
           m == Len(q)
           r == p \o q
<1>1. /\ n \in Nat /\ m \in Nat
      /\ DOMAIN p = 1..n /\ DOMAIN q = 1..m /\ DOMAIN r = 1..(n + m)
  BY ConcatProperties, LenProperties
<1>2. /\ \A i \in 1..n : r[i] = p[i]
      /\ \A i \in 1..m : r[n + i] = q[i]
  <2>1. \A i \in 1..(n + m) : r[i] = IF i <= n THEN p[i] ELSE q[i - n]
    BY ConcatProperties
  <2> HIDE DEF r, n, m
  <2>2. \A i \in 1..n : r[i] = p[i]
    BY <1>1, <2>1
  <2>3. ASSUME NEW i \in 1..m PROVE r[n + i] = q[i]
    <3>1. PICK j \in 1..(n + m) : j = n + i
      BY <1>1
    <3>2. ~(j <= n) /\ j - n = i
      BY <1>1, <3>1
    <3>3. r[j] = q[j - n]
      BY <2>1, <3>2
    <3> QED
      BY <3>1, <3>2, <3>3
  <2> QED
    BY <2>2, <2>3
<1> HIDE DEF n, m, r
<1>3. \A i \in 1..(n + m) : i \in 1..n \/ (i - n \in 1..m /\ n + (i - n) = i)
  BY <1>1
<1>4. \A i \in 1..m : n + i \in 1..(n + m)
  BY <1>1
<1>5. Mentions(r, k) <=> Mentions(p, k) \/ Mentions(q, k)
  <2>1. ASSUME NEW i \in 1..(n + m), r[i].key = k PROVE Mentions(p, k) \/ Mentions(q, k)
    <3>1. CASE i \in 1..n
      BY <1>1, <1>2, <2>1, <3>1 DEF Mentions
    <3>2. CASE i - n \in 1..m /\ n + (i - n) = i
      <4>1. q[i - n].key = k
        BY <1>2, <2>1, <3>2
      <4> QED
        BY <1>1, <3>2, <4>1 DEF Mentions
    <3> QED
      BY <1>3, <3>1, <3>2
  <2>2. Mentions(p, k) => Mentions(r, k)
    BY <1>1, <1>2 DEF Mentions
  <2>3. Mentions(q, k) => Mentions(r, k)
    BY <1>1, <1>2, <1>4 DEF Mentions
  <2> QED
    BY <1>1, <2>1, <2>2, <2>3 DEF Mentions
<1>6. ASSUME Mentions(q, k) PROVE LastIsAdd(r, k) <=> LastIsAdd(q, k)
  <2>1. PICK j \in 1..m : q[j].key = k
    BY <1>1, <1>6 DEF Mentions
  <2>2. ASSUME NEW i \in 1..(n + m), r[i] = Update("Add", k),
               \A l \in 1..(n + m) : l > i => r[l].key # k
        PROVE  LastIsAdd(q, k)
    <3>1. n + j \in 1..(n + m) /\ r[n + j].key = k
      BY <1>2, <1>4, <2>1
    <3>2. ~(n + j > i)
      BY <2>2, <3>1
    <3>3. i - n \in 1..m /\ n + (i - n) = i
      BY <1>1, <3>2
    <3>4. q[i - n] = Update("Add", k)
      BY <1>2, <2>2, <3>3
    <3>5. ASSUME NEW l \in 1..m, l > i - n PROVE q[l].key # k
      BY <1>1, <1>2, <1>4, <2>2, <3>5
    <3> QED
      BY <1>1, <3>3, <3>4, <3>5 DEF LastIsAdd
  <2>3. ASSUME NEW i \in 1..m, q[i] = Update("Add", k),
               \A l \in 1..m : l > i => q[l].key # k
        PROVE  LastIsAdd(r, k)
    <3>1. n + i \in 1..(n + m) /\ r[n + i] = Update("Add", k)
      BY <1>2, <1>4, <2>3
    <3>2. ASSUME NEW l \in 1..(n + m), l > n + i PROVE r[l].key # k
      <4>1. l - n \in 1..m /\ n + (l - n) = l /\ l - n > i
        BY <1>1, <3>2
      <4>2. r[n + (l - n)] = q[l - n]
        BY <1>2, <4>1
      <4> QED
        BY <2>3, <4>1, <4>2
    <3> QED
      BY <1>1, <3>1, <3>2 DEF LastIsAdd
  <2> QED
    BY <1>1, <2>2, <2>3 DEF LastIsAdd
<1>7. ASSUME ~Mentions(q, k) PROVE LastIsAdd(r, k) <=> LastIsAdd(p, k)
  <2>0. \A i \in 1..m : q[i].key # k
    BY <1>1, <1>7 DEF Mentions
  <2>1. \A i \in 1..(n + m) : r[i].key = k => i \in 1..n
    <3> SUFFICES ASSUME NEW i \in 1..(n + m), r[i].key = k, i \notin 1..n PROVE FALSE
      OBVIOUS
    <3>1. i - n \in 1..m /\ n + (i - n) = i
      BY <1>3
    <3>2. q[i - n].key = k
      BY <1>2, <3>1
    <3> QED
      BY <2>0, <3>1, <3>2
  <2>2. Update("Add", k).key = k
    BY DEF Update
  <2>3. LastIsAdd(r, k) => LastIsAdd(p, k)
    <3> SUFFICES ASSUME NEW i \in 1..(n + m), r[i] = Update("Add", k),
                        \A l \in 1..(n + m) : l > i => r[l].key # k
                 PROVE  LastIsAdd(p, k)
      BY <1>1 DEF LastIsAdd
    <3>1. i \in 1..n /\ p[i] = Update("Add", k)
      BY <1>2, <2>1, <2>2
    <3>2. \A l \in 1..n : l \in 1..(n + m) /\ r[l] = p[l]
      BY <1>1, <1>2
    <3> QED
      BY <1>1, <3>1, <3>2 DEF LastIsAdd
  <2>4. LastIsAdd(p, k) => LastIsAdd(r, k)
    BY <1>1, <1>2, <2>1, SMTT(30) DEF LastIsAdd
  <2> QED
    BY <2>3, <2>4
<1> QED
  BY <1>5, <1>6, <1>7 DEF r

\* A queue of one update.
LEMMA LastOfOne ==
  ASSUME NEW m \in UpdateMsg, NEW k
  PROVE  /\ Mentions(<<m>>, k) <=> m.key = k
         /\ LastIsAdd(<<m>>, k) <=> m = Update("Add", k)
  BY DEF Mentions, LastIsAdd

\* An update is added to a queue.
LEMMA LastOfAppended ==
  ASSUME NEW q \in Seq(UpdateMsg), NEW m \in UpdateMsg, NEW k
  PROVE  /\ m.key = k => Mentions(Append(q, m), k)
         /\ m.key = k => (LastIsAdd(Append(q, m), k) <=> m = Update("Add", k))
         /\ m.key # k => (Mentions(Append(q, m), k) <=> Mentions(q, k))
         /\ m.key # k => (LastIsAdd(Append(q, m), k) <=> LastIsAdd(q, k))
<1>1. Append(q, m) = q \o <<m>> /\ <<m>> \in Seq(UpdateMsg)
  BY AppendIsConcat
<1>2. /\ Mentions(q \o <<m>>, k) <=> Mentions(q, k) \/ Mentions(<<m>>, k)
      /\ Mentions(<<m>>, k) => (LastIsAdd(q \o <<m>>, k) <=> LastIsAdd(<<m>>, k))
      /\ ~Mentions(<<m>>, k) => (LastIsAdd(q \o <<m>>, k) <=> LastIsAdd(q, k))
  BY <1>1, LastOfConcat
<1>3. /\ Mentions(<<m>>, k) <=> m.key = k
      /\ LastIsAdd(<<m>>, k) <=> m = Update("Add", k)
  BY LastOfOne
<1> QED
  BY <1>1, <1>2, <1>3

\* The first update is taken off a queue.
LEMMA LastOfRest ==
  ASSUME NEW q \in Seq(UpdateMsg), q # <<>>, NEW k
  PROVE  /\ Head(q) \in UpdateMsg /\ Tail(q) \in Seq(UpdateMsg)
         /\ Mentions(q, k) <=> Head(q).key = k \/ Mentions(Tail(q), k)
         /\ Mentions(Tail(q), k) => (LastIsAdd(q, k) <=> LastIsAdd(Tail(q), k))
         /\ ~Mentions(Tail(q), k) => (LastIsAdd(q, k) <=> Head(q) = Update("Add", k))
<1>1. Head(q) \in UpdateMsg /\ Tail(q) \in Seq(UpdateMsg) /\ <<Head(q)>> \in Seq(UpdateMsg)
  BY HeadTailProperties
<1>2. q = <<Head(q)>> \o Tail(q)
  OBVIOUS
<1>3. /\ Mentions(q, k) <=> Mentions(<<Head(q)>>, k) \/ Mentions(Tail(q), k)
      /\ Mentions(Tail(q), k) => (LastIsAdd(q, k) <=> LastIsAdd(Tail(q), k))
      /\ ~Mentions(Tail(q), k) => (LastIsAdd(q, k) <=> LastIsAdd(<<Head(q)>>, k))
  <2> DEFINE h == <<Head(q)>>
             t == Tail(q)
  <2>1. h \in Seq(UpdateMsg) /\ t \in Seq(UpdateMsg) /\ q = h \o t
    BY <1>1, <1>2
  <2> HIDE DEF h, t
  <2>2. /\ Mentions(h \o t, k) <=> Mentions(h, k) \/ Mentions(t, k)
        /\ Mentions(t, k) => (LastIsAdd(h \o t, k) <=> LastIsAdd(t, k))
        /\ ~Mentions(t, k) => (LastIsAdd(h \o t, k) <=> LastIsAdd(h, k))
    BY <2>1, LastOfConcat
  <2> QED
    BY <2>1, <2>2 DEF h, t
<1>4. /\ Mentions(<<Head(q)>>, k) <=> Head(q).key = k
      /\ LastIsAdd(<<Head(q)>>, k) <=> Head(q) = Update("Add", k)
  BY <1>1, LastOfOne
<1> QED
  BY <1>1, <1>3, <1>4

\* The first n updates are taken off a queue.
LEMMA LastOfBatch ==
  ASSUME NEW q \in Seq(UpdateMsg), NEW n \in 1..Len(q), NEW p \in Seq(UpdateMsg), NEW k
  PROVE  LET old == SubSeq(q, 1, n)
             new == SubSeq(q, n + 1, Len(q))
         IN  /\ old \in Seq(UpdateMsg) /\ new \in Seq(UpdateMsg) /\ p \o old \in Seq(UpdateMsg)
             /\ Len(p \o old) = Len(p) + n
             /\ Mentions(q, k) <=> Mentions(old, k) \/ Mentions(new, k)
             /\ Mentions(new, k) => (LastIsAdd(q, k) <=> LastIsAdd(new, k))
             /\ ~Mentions(new, k) => (LastIsAdd(q, k) <=> LastIsAdd(old, k))
             /\ Mentions(p \o old, k) <=> Mentions(p, k) \/ Mentions(old, k)
             /\ Mentions(old, k) => (LastIsAdd(p \o old, k) <=> LastIsAdd(old, k))
             /\ ~Mentions(old, k) => (LastIsAdd(p \o old, k) <=> LastIsAdd(p, k))
<1> DEFINE old == SubSeq(q, 1, n)
           new == SubSeq(q, n + 1, Len(q))
<1>1. /\ old \in Seq(UpdateMsg) /\ new \in Seq(UpdateMsg) /\ Len(old) = n
      /\ Len(q) \in Nat
  BY SubSeqType, LenProperties
<1>2. q = old \o new
  <2>1. SubSeq(q, 1, Len(q)) = q
    BY SubSeqFull
  <2>2. SubSeq(q, 1, n) \o SubSeq(q, n + 1, Len(q)) = SubSeq(q, 1, Len(q))
    BY <1>1, ConcatAdjacentSubSeq
  <2> QED
    BY <2>1, <2>2
<1>3. p \o old \in Seq(UpdateMsg) /\ Len(p \o old) = Len(p) + n
  BY <1>1, ConcatProperties
<1> HIDE DEF old, new
<1>4. /\ Mentions(q, k) <=> Mentions(old, k) \/ Mentions(new, k)
      /\ Mentions(new, k) => (LastIsAdd(q, k) <=> LastIsAdd(new, k))
      /\ ~Mentions(new, k) => (LastIsAdd(q, k) <=> LastIsAdd(old, k))
  BY <1>1, <1>2, LastOfConcat
<1>5. /\ Mentions(p \o old, k) <=> Mentions(p, k) \/ Mentions(old, k)
      /\ Mentions(old, k) => (LastIsAdd(p \o old, k) <=> LastIsAdd(old, k))
      /\ ~Mentions(old, k) => (LastIsAdd(p \o old, k) <=> LastIsAdd(p, k))
  BY <1>1, LastOfConcat
<1> QED
  BY <1>1, <1>3, <1>4, <1>5 DEF old, new

(* The inductive invariant.  It speaks of connections that are open and had    *)
(* their address to themselves since their task was spawned.                   *)

Lone(c) == client[c] = "open" /\ c \notin overlapped

Queued(cmd) == \E i \in 1..Len(cmds) : cmds[i] = cmd

\* The actor has the channel of c, which is served.
Registered(c) == Serving(c) /\ peers[AddrOf[c]] = c

\* A disconnect of the address a, of whichever connection, is queued before place j.
DisconnectBefore(a, j) ==
  \E l \in 1..(j - 1) : cmds[l].op = "PeerDisconnected" /\ AddrOf[cmds[l].from] = a

\* The actor has nothing for address a.
Unknown(a) == peers[a] = NoConn /\ \A v \in Vni : a \notin subscriptions[v]

\* Until its registration is taken, the actor does not have the channel of a
\* connection, and what it has of the address is on its way out.
NewcomersUnknown ==
  \A c \in Conn : \A j \in 1..Len(cmds) : cmds[j] = PeerConnected(c) =>
    /\ peers[AddrOf[c]] # c
    /\ Lone(c) => DisconnectBefore(AddrOf[c], j) \/ Unknown(AddrOf[c])

\* A task that has nothing to do with the actor yet, or no more, has nothing for
\* its client; only the answer to SUBSCRIBE fills a snapshot; a client that is
\* gone holds nothing; the address being purged has no channel.
BlankTask(c) ==
  /\ conn[c] \in {"none", "handshake"} =>
       /\ inbound[c] = <<>> /\ outbound[c] = <<>> /\ chan[c] = <<>> /\ received[c] = {}
       /\ peers[AddrOf[c]] # c
  /\ conn[c] \in {"none", "returned"} => client[c] = "closed"
  /\ conn[c] # "replay" => snapshot[c] = {}
  /\ client[c] = "closed" => received[c] = {}

BlankTasks ==
  /\ \A c \in Conn : BlankTask(c)
  /\ purge.addr # NoAddr => peers[purge.addr] = NoConn

\* What a client asked for is in its history: its own keys T, the VNIs L it left.
Known(T, L, m) ==
  /\ \A k \in Key : \A t \in {"Add", "Remove"} : m = Update(t, k) => k \in T
  /\ \A v \in Vni : m = Unsubscribe(v) => v \in L

\* The requests under way from a client to the actor are in its history.
RequestsKnown ==
  \A c \in Conn : client[c] = "open" =>
    /\ \A i \in DOMAIN inbound[c] : Known(touched[c], left[c], inbound[c][i])
    /\ \A m \in Request : Queued(Forward(c, m)) => Known(touched[c], left[c], m)

\* No route of v is at the client or under way to it.
Absent(c, v) ==
  \A k \in Key : VniOf(k) = v =>
    /\ ~Mentions(chan[c], k) /\ k \notin snapshot[c]
    /\ ~Mentions(outbound[c], k) /\ k \notin received[c]

\* The registration of c is queued, or it never subscribed to v.
Fresh(c, v) ==
  \/ Queued(PeerConnected(c))
  \/ Registered(c) /\ v \notin left[c] /\ AddrOf[c] \notin subscriptions[v]

\* Such a client has no route of v.
FreshPeer(c) == \A v \in Vni : Lone(c) /\ Fresh(c, v) => Absent(c, v)
FreshPeers   == \A c \in Conn : FreshPeer(c)

DistInv == NewcomersUnknown /\ BlankTasks /\ RequestsKnown /\ FreshPeers /\ SubscribersConverge

-----------------------------------------------------------------------------
(* The queue of the actor. *)

USE DEF clientVars, handlerVars, tableVars, actorVars, vars

\* The commands, their fields and how to tell them apart.
LEMMA CommandFields ==
  /\ \A c \in Conn :
       /\ PeerConnected(c) \in Command /\ PeerConnected(c).from = c
       /\ PeerConnected(c).op = "PeerConnected"
       /\ PeerDisconnected(c) \in Command /\ PeerDisconnected(c).from = c
       /\ PeerDisconnected(c).op = "PeerDisconnected"
  /\ \A c \in Conn, m \in Request :
       /\ Forward(c, m) \in Command /\ Forward(c, m).from = c
       /\ Forward(c, m).op = m.type /\ Forward(c, m).msg = m
       /\ m.type \in {"Add", "Remove", "Subscribe", "Unsubscribe"}
  /\ \A v \in Vni : /\ Subscribe(v) \in Request /\ Subscribe(v).type = "Subscribe"
                    /\ Unsubscribe(v) \in Request /\ Unsubscribe(v).type = "Unsubscribe"
  /\ \A k \in Key, t \in {"Add", "Remove"} :
       /\ Update(t, k) \in Request /\ Update(t, k) \in UpdateMsg
       /\ Update(t, k).type = t /\ Update(t, k).key = k
<1>1. \A c \in Conn :
        /\ PeerConnected(c) \in Command /\ PeerConnected(c).from = c
        /\ PeerConnected(c).op = "PeerConnected"
        /\ PeerDisconnected(c) \in Command /\ PeerDisconnected(c).from = c
        /\ PeerDisconnected(c).op = "PeerDisconnected"
  BY DEF Command, PeerConnected, PeerDisconnected
<1>2. ASSUME NEW c \in Conn, NEW m \in Request
      PROVE  /\ Forward(c, m) \in Command /\ Forward(c, m).from = c
             /\ Forward(c, m).op = m.type /\ Forward(c, m).msg = m
             /\ m.type \in {"Add", "Remove", "Subscribe", "Unsubscribe"}
  BY DEF Command, Forward, Request, UpdateMsg
<1>3. \A v \in Vni : /\ Subscribe(v) \in Request /\ Subscribe(v).type = "Subscribe"
                    /\ Unsubscribe(v) \in Request /\ Unsubscribe(v).type = "Unsubscribe"
  BY DEF Request, Subscribe, Unsubscribe
<1>4. \A k \in Key, t \in {"Add", "Remove"} :
        /\ Update(t, k) \in Request /\ Update(t, k) \in UpdateMsg
        /\ Update(t, k).type = t /\ Update(t, k).key = k
  BY DEF Request, UpdateMsg, Update
<1> QED
  BY <1>1, <1>2, <1>3, <1>4

\* The requests as commands.
LEMMA RequestFields ==
  ASSUME NEW c \in Conn
  PROVE  /\ \A v \in Vni :
              /\ Forward(c, Subscribe(v)) \in Command
              /\ Forward(c, Subscribe(v)).from = c /\ Forward(c, Subscribe(v)).op = "Subscribe"
              /\ Forward(c, Unsubscribe(v)) \in Command
              /\ Forward(c, Unsubscribe(v)).from = c /\ Forward(c, Unsubscribe(v)).op = "Unsubscribe"
         /\ \A k \in Key, t \in {"Add", "Remove"} :
              /\ Forward(c, Update(t, k)) \in Command
              /\ Forward(c, Update(t, k)).from = c /\ Forward(c, Update(t, k)).op = t
<1>1. ASSUME NEW m \in Request
      PROVE  Forward(c, m) \in Command /\ Forward(c, m).from = c /\ Forward(c, m).op = m.type
  BY CommandFields
<1>2. ASSUME NEW v \in Vni
      PROVE  /\ Forward(c, Subscribe(v)) \in Command
             /\ Forward(c, Subscribe(v)).from = c /\ Forward(c, Subscribe(v)).op = "Subscribe"
             /\ Forward(c, Unsubscribe(v)) \in Command
             /\ Forward(c, Unsubscribe(v)).from = c /\ Forward(c, Unsubscribe(v)).op = "Unsubscribe"
  <2>1. /\ Subscribe(v) \in Request /\ Subscribe(v).type = "Subscribe"
        /\ Unsubscribe(v) \in Request /\ Unsubscribe(v).type = "Unsubscribe"
    BY CommandFields
  <2> QED
    BY <1>1, <2>1
<1>3. ASSUME NEW k \in Key, NEW t \in {"Add", "Remove"}
      PROVE  /\ Forward(c, Update(t, k)) \in Command
             /\ Forward(c, Update(t, k)).from = c /\ Forward(c, Update(t, k)).op = t
  <2>1. Update(t, k) \in Request /\ Update(t, k).type = t
    BY CommandFields
  <2> QED
    BY <1>1, <2>1
<1> QED
  BY <1>2, <1>3

\* A step without a command: channels and subscriptions may only go.
QueueKept ==
  /\ cmds' = cmds
  /\ \A a \in Addr : peers'[a] \in {peers[a], NoConn}
  /\ \A v \in Vni : subscriptions'[v] \subseteq subscriptions[v]

\* A task sends command cmd.
QueueSent(cmd) ==
  /\ cmds' = Append(cmds, cmd) /\ cmd \in Command
  /\ SendsCommand(cmd.from, cmd)
  /\ UNCHANGED <<tableVars, purge>>

\* The actor takes command cmd: only the address of its sender may come into the
\* maps, and that of a disconnect goes.
QueueTaken(cmd) ==
  /\ Take(cmd) /\ cmd \in Command
  /\ \A a \in Addr \ {AddrOf[cmd.from]} :
       /\ peers'[a] \in {peers[a], NoConn}
       /\ \A v \in Vni : a \in subscriptions'[v] => a \in subscriptions[v]
  /\ \A c \in Conn : peers'[AddrOf[c]] = c => peers[AddrOf[c]] = c \/ cmd = PeerConnected(c)
  /\ cmd.op = "PeerDisconnected" => Unknown(AddrOf[cmd.from])'

\* Every step is one of these.
LEMMA QueueSteps ==
  ASSUME TypeOK, [Next]_vars
  PROVE  QueueKept \/ (\E cmd \in Command : QueueSent(cmd) \/ QueueTaken(cmd))
<1>0. /\ AddrOf \in [Conn -> Addr] /\ NoConn \notin Conn
      /\ peers \in [Addr -> Conn \cup {NoConn}] /\ subscriptions \in [Vni -> SUBSET Addr]
      /\ conn \in [Conn -> ConnState]
  BY ConstantsAssumption DEF TypeOK
<1>1. ASSUME UNCHANGED actorVars PROVE QueueKept
  BY <1>1 DEF QueueKept
<1>2. ASSUME NEW c \in Conn, NEW m \in Request, HandleRequest(c, m)
      PROVE  QueueSent(Forward(c, m)) /\ Forward(c, m) \in Command
  <2>1. SendsCommand(c, Forward(c, m))
    BY <1>0, <1>2, CommandFields DEF SendsCommand, HandleRequest, Handling, InLoop, AfterRequest
  <2> QED
    BY <1>2, <2>1, CommandFields DEF QueueSent, HandleRequest, Enqueue
<1>3. ASSUME NEW c \in Conn, Register(c)
      PROVE  QueueSent(PeerConnected(c)) /\ PeerConnected(c) \in Command
  BY <1>0, <1>3, CommandFields DEF QueueSent, SendsCommand, Register, SendConnected, Enqueue
<1>4. ASSUME NEW c \in Conn, Cleanup(c)
      PROVE  QueueSent(PeerDisconnected(c)) /\ PeerDisconnected(c) \in Command
  BY <1>0, <1>4, CommandFields DEF QueueSent, SendsCommand, Cleanup, SendDisconnected, Enqueue, Return
<1>5. ASSUME NEW c \in Conn, ActorPeerConnected(c)
      PROVE  QueueTaken(PeerConnected(c)) /\ PeerConnected(c) \in Command
  BY <1>0, <1>5, CommandFields DEF QueueTaken, ActorPeerConnected
<1>6. ASSUME NEW c \in Conn, ActorPeerDisconnected(c)
      PROVE  QueueTaken(PeerDisconnected(c)) /\ PeerDisconnected(c) \in Command
  <2>1. /\ peers' = [a \in Addr |-> IF a = AddrOf[c] THEN NoConn ELSE peers[a]]
        /\ subscriptions' = [v \in Vni |-> subscriptions[v] \ {AddrOf[c]}]
        /\ Take(PeerDisconnected(c))
    BY <1>6 DEF ActorPeerDisconnected, DropPeers, ForgetChannels
  <2>2. Unknown(AddrOf[c])'
    BY <1>0, <2>1 DEF Unknown
  <2> QED
    BY <1>0, <2>1, <2>2, CommandFields DEF QueueTaken
<1>7. ASSUME NEW c \in Conn, NEW v \in Vni, ActorSubscribe(c, v)
      PROVE  QueueTaken(Forward(c, Subscribe(v))) /\ Forward(c, Subscribe(v)) \in Command
  BY <1>0, <1>7, RequestFields DEF QueueTaken, ActorSubscribe
<1>8. ASSUME NEW c \in Conn, NEW v \in Vni, ActorUnsubscribe(c, v)
      PROVE  QueueTaken(Forward(c, Unsubscribe(v))) /\ Forward(c, Unsubscribe(v)) \in Command
  BY <1>0, <1>8, RequestFields DEF QueueTaken, ActorUnsubscribe
<1>9. ASSUME NEW c \in Conn, NEW k \in Key, ActorAdd(c, k) \/ ActorRemove(c, k)
      PROVE  \E cmd \in Command : QueueTaken(cmd)
  <2>1. PICK t \in {"Add", "Remove"} :
          Take(Forward(c, Update(t, k))) /\ DropPeers(SlowConsumers(VniOf(k), AddrOf[c]))
    BY <1>9 DEF ActorAdd, ActorRemove
  <2>2. PICK cmd \in Command : cmd = Forward(c, Update(t, k)) /\ cmd.from = c /\ cmd.op = t
    BY RequestFields
  <2>3. /\ \A a \in Addr : peers'[a] \in {peers[a], NoConn}
        /\ \A v \in Vni : subscriptions'[v] \subseteq subscriptions[v]
    BY <1>0, <2>1 DEF DropPeers, ForgetChannels
  <2>4. \A d \in Conn : AddrOf[d] \in Addr /\ d # NoConn
    BY <1>0
  <2> QED
    BY <2>1, <2>2, <2>3, <2>4 DEF QueueTaken
<1>10. ASSUME NEW k \in Key, ActorPurgeRoute(k) PROVE QueueKept
  BY <1>10 DEF ActorPurgeRoute, QueueKept
<1>11. CASE ActorPurgeDone
  BY <1>0, <1>11 DEF ActorPurgeDone, DropPeers, ForgetChannels, QueueKept
<1>12. ASSUME NEW c \in Conn,
              \/ ClientStep(c) \/ ShutdownBreak(c) \/ HandshakeFail(c) \/ LoopError(c)
              \/ Replay(c) \/ ReplayDone(c) \/ Drain(c) \/ Eof(c)
              \/ \E m \in Request : BlockOnFull(c, m)
       PROVE  UNCHANGED actorVars
  BY <1>12 DEF ClientStep, Accept, ClientRead, ClientClose, ClientSend, ShutdownBreak,
               HandshakeFail, LoopError, Replay, ReplayDone, Drain, Eof, BlockOnFull
<1>13. CASE Shutdown \/ DropServer \/ StopAccepting \/ UNCHANGED vars
  BY <1>1, <1>13 DEF Shutdown, DropServer, StopAccepting
<1> QED
  BY <1>1, <1>2, <1>3, <1>4, <1>5, <1>6, <1>7, <1>8, <1>9, <1>10, <1>11, <1>12, <1>13
  DEF Next, HandlerStep, ActorStep, Terminated

\* A connection becomes open only when it is accepted, and overlapping is for ever.
LEMMA LoneStep ==
  ASSUME TypeOK, [Next]_vars, NEW c \in Conn, Lone(c)'
  PROVE  Lone(c) \/ Accept(c)
<1>1. client \in [Conn -> {"open", "closed"}]
  BY DEF TypeOK
<1>2. ASSUME UNCHANGED <<client, overlapped>> PROVE Lone(c)
  BY <1>2 DEF Lone
<1>3. ASSUME NEW d \in Conn, d # c, Accept(d) PROVE Lone(c)
  BY <1>1, <1>3 DEF Accept, Lone
<1>4. ASSUME NEW d \in Conn, ClientClose(d) \/ HandshakeFail(d) \/ Cleanup(d) PROVE Lone(c)
  BY <1>1, <1>4 DEF ClientClose, HandshakeFail, Cleanup, Return, Lone
<1>5. ASSUME NEW d \in Conn,
             \/ ClientRead(d) \/ \E m \in Request : ClientSend(d, m) \/ HandleRequest(d, m) \/ BlockOnFull(d, m)
             \/ Replay(d) \/ ReplayDone(d) \/ Drain(d) \/ Eof(d)
             \/ Register(d) \/ LoopError(d) \/ ShutdownBreak(d)
      PROVE  UNCHANGED <<client, overlapped>>
  BY <1>5 DEF ClientRead, ClientSend, HandleRequest, BlockOnFull, Replay, ReplayDone, Drain, Eof,
              Register, LoopError, ShutdownBreak
<1>6. ASSUME ActorStep PROVE UNCHANGED <<client, overlapped>>
  BY <1>6 DEF ActorStep, ActorPeerConnected, ActorPeerDisconnected, ActorSubscribe, ActorUnsubscribe,
              ActorAdd, ActorRemove, ActorPurgeRoute, ActorPurgeDone
<1>7. CASE Shutdown \/ DropServer \/ StopAccepting \/ UNCHANGED vars
  BY <1>2, <1>7 DEF Shutdown, DropServer, StopAccepting
<1> QED
  BY <1>2, <1>3, <1>4, <1>5, <1>6, <1>7 DEF Next, ClientStep, HandlerStep, Terminated

\* The queue after a command was sent, place by place.
LEMMA SentPlaces ==
  ASSUME TypeOK, NEW cmd \in Command, cmds' = Append(cmds, cmd)
  PROVE  /\ Len(cmds) \in Nat /\ Len(cmds') = Len(cmds) + 1
         /\ \A i \in 1..Len(cmds) : cmds'[i] = cmds[i] /\ cmds[i] \in Command
         /\ cmds'[Len(cmds) + 1] = cmd
         /\ \A x : Queued(x)' <=> Queued(x) \/ x = cmd
<1>1. cmds \in Seq(Command) /\ Len(cmds) \in Nat
  BY LenProperties DEF TypeOK
<1>2. \A i \in 1..Len(cmds) : cmds[i] \in Command
  BY <1>1, ElementOfSeq
<1>3. /\ Len(cmds') = Len(cmds) + 1
      /\ \A i \in 1..Len(cmds) : cmds'[i] = cmds[i]
      /\ cmds'[Len(cmds) + 1] = cmd
  BY <1>1, AppendProperties
<1>4. \A i : i \in 1..Len(cmds') <=> i \in 1..Len(cmds) \/ i = Len(cmds) + 1
  BY <1>1, <1>3
<1>5. \A x : Queued(x)' <=> Queued(x) \/ x = cmd
  BY <1>3, <1>4 DEF Queued
<1> QED
  BY <1>1, <1>2, <1>3, <1>5

\* The queue after the actor took a command, place by place.
LEMMA TakenPlaces ==
  ASSUME TypeOK, NEW cmd \in Command, Take(cmd)
  PROVE  /\ Len(cmds) \in Nat /\ Len(cmds) >= 1 /\ Len(cmds') = Len(cmds) - 1
         /\ \A i \in 1..Len(cmds) : cmds[i] \in Command
         /\ \A i \in 1..Len(cmds) - 1 : cmds'[i] = cmds[i + 1]
         /\ cmds[1] = cmd
         /\ \A x : Queued(x) <=> Queued(x)' \/ x = cmd
<1>1. cmds \in Seq(Command) /\ cmds # <<>> /\ cmds' = Tail(cmds) /\ Head(cmds) = cmd
  BY DEF TypeOK, Take
<1>2. \A i \in 1..Len(cmds) : cmds[i] \in Command
  BY <1>1, ElementOfSeq
<1>3. /\ Len(cmds) \in Nat /\ Len(cmds) >= 1 /\ Len(cmds') = Len(cmds) - 1
      /\ \A i \in 1..Len(cmds) - 1 : cmds'[i] = cmds[i + 1]
      /\ cmds[1] = cmd
  BY <1>1, TailType, LenProperties
<1>4. \A i \in 1..Len(cmds) : i = 1 \/ (i - 1 \in 1..Len(cmds') /\ cmds'[i - 1] = cmds[i])
  BY <1>3
<1>5. \A i \in 1..Len(cmds') : i + 1 \in 1..Len(cmds) /\ cmds'[i] = cmds[i + 1]
  BY <1>3
<1>6. \A x : Queued(x) <=> Queued(x)' \/ x = cmd
  <2>1. 1 \in 1..Len(cmds)
    BY <1>3
  <2> QED
    BY <1>3, <1>4, <1>5, <2>1 DEF Queued
<1> QED
  BY <1>2, <1>3, <1>6

\* The registration of a connection is the first of its commands: it is queued once,
\* and taken before any other.
LEMMA RegistrationFirst ==
  ASSUME TypeOK, Inv, NEW cmd \in Command, Take(cmd)
  PROVE  ~Queued(PeerConnected(cmd.from))'
<1>1. /\ Len(cmds) \in Nat /\ Len(cmds') = Len(cmds) - 1
      /\ \A i \in 1..Len(cmds) - 1 : cmds'[i] = cmds[i + 1]
      /\ cmds[1] = cmd
  BY TakenPlaces
<1>2. cmd.from \in Conn
  BY CommandFrom
<1>3. ASSUME NEW i \in 1..Len(cmds'), cmds'[i] = PeerConnected(cmd.from) PROVE FALSE
  <2>1. i + 1 \in 1..Len(cmds) /\ cmds[i + 1] = PeerConnected(cmd.from) /\ 1 \in 1..(i + 1 - 1)
    BY <1>1, <1>3
  <2>2. cmds[i + 1].op = "PeerConnected" /\ cmds[i + 1].from = cmd.from
    BY <1>2, <2>1, CommandFields
  <2>3. cmds[1].from # cmd.from
    BY <2>1, <2>2 DEF Inv, TaskQueue
  <2> QED
    BY <1>1, <2>3
<1> QED
  BY <1>3 DEF Queued

\* A lone connection whose registration is queued is served.
LEMMA QueuedServed ==
  ASSUME TypeOK, Inv, BlankTasks, NEW c \in Conn, Lone(c), NEW cmd \in Command,
         cmd.from = c, Queued(cmd)
  PROVE  Serving(c)
<1>1. PICK i \in 1..Len(cmds) : cmds[i] = cmd
  BY DEF Queued
<1>2. Serving(c) \/ conn[c] = "returned"
  BY <1>1 DEF Inv, TaskQueue
<1>3. conn[c] # "returned"
  BY DEF BlankTasks, BlankTask, Lone
<1> QED
  BY <1>2, <1>3

\* Commands of another connection of its address are ahead of the registration of
\* a lone connection, and a disconnect comes between them.
LEMMA EarlierConnections ==
  ASSUME TypeOK, Inv, BlankTasks, NEW c \in Conn, Lone(c), Serving(c),
         NEW i \in 1..Len(cmds), cmds[i].from # c, AddrOf[cmds[i].from] = AddrOf[c]
  PROVE  \E l \in i..Len(cmds), j \in 1..Len(cmds) :
           /\ l < j /\ cmds[j] = PeerConnected(c)
           /\ cmds[l].op = "PeerDisconnected" /\ AddrOf[cmds[l].from] = AddrOf[c]
<1>1. PICK d \in Conn : d = cmds[i].from
  BY CommandsFrom
<1>2. ~Active(d)
  <2>1. Active(c)
    BY DEF Serving, Active
  <2> QED
    BY <1>1, <2>1 DEF Inv, Alone, Lone
<1>3. ~Serving(d)
  BY <1>2 DEF Serving, Active
<1>4. PICK l \in i..Len(cmds) : cmds[l].op = "PeerDisconnected" /\ cmds[l].from = d
  <2>1. Covered(i)
    BY DEF Inv, CommandsBeforeDisconnect
  <2>2. CASE cmds[i].op = "PeerDisconnected"
    BY <1>1, <2>2
  <2>3. CASE \E l \in (i+1)..Len(cmds) : cmds[l] = PeerDisconnected(d)
    BY <1>1, <2>3, CommandFields
  <2> QED
    BY <1>1, <1>3, <2>1, <2>2, <2>3 DEF Covered
<1>5. Len(cmds) \in Nat /\ l \in 1..Len(cmds)
  BY LenProperties DEF TypeOK
<1>6. SilentAfter(c, l) \/ RegistersAfter(c, l)
  BY <1>1, <1>4, <1>5 DEF Inv, SessionsInOrder, Lone
<1>7. PICK j \in (l+1)..Len(cmds) : cmds[j] = PeerConnected(c)
  BY <1>6 DEF SilentAfter, RegistersAfter
<1>8. j \in 1..Len(cmds) /\ l < j
  BY <1>5, <1>7
<1> QED
  BY <1>1, <1>4, <1>7, <1>8

\* What the actor does for another connection of the address of a lone one, it does
\* before it has that one's channel.
LEMMA LoneTaken ==
  ASSUME TypeOK, Inv, BlankTasks, NewcomersUnknown, NEW c \in Conn, Lone(c),
         NEW cmd \in Command, Take(cmd), cmd.from # c, AddrOf[cmd.from] = AddrOf[c]
  PROVE  ~Registered(c)
<1>1. cmds[1] = cmd /\ 1 \in 1..Len(cmds)
  BY TakenPlaces
<1>2. ASSUME Serving(c) PROVE peers[AddrOf[c]] # c
  <2>1. PICK j \in 1..Len(cmds) : cmds[j] = PeerConnected(c)
    BY <1>1, <1>2, EarlierConnections
  <2> QED
    BY <2>1 DEF NewcomersUnknown
<1> QED
  BY <1>2 DEF Registered

\* Sending, taking and dropping keep newcomers unknown to the actor.
LEMMA NewcomersStep ==
  ASSUME TypeOK, Inv, BlankTasks, NewcomersUnknown, [Next]_vars
  PROVE  NewcomersUnknown'
<1>0. PICK n \in Nat : n = Len(cmds)
  BY LenProperties DEF TypeOK
<1> SUFFICES ASSUME NEW c \in Conn, NEW j \in 1..Len(cmds'), cmds'[j] = PeerConnected(c)
             PROVE  /\ peers'[AddrOf[c]] # c
                    /\ Lone(c)' => DisconnectBefore(AddrOf[c], j)' \/ Unknown(AddrOf[c])'
  BY DEF NewcomersUnknown
<1> DEFINE a == AddrOf[c]
<1>a. /\ a \in Addr /\ NoConn \notin Conn /\ AddrOf \in [Conn -> Addr]
      /\ peers \in [Addr -> Conn \cup {NoConn}] /\ conn \in [Conn -> ConnState]
  BY ConstantsAssumption DEF TypeOK
<1>b. /\ PeerConnected(c) \in Command /\ PeerConnected(c).from = c
      /\ PeerConnected(c).op = "PeerConnected"
  BY CommandFields
<1>c. ASSUME Queued(PeerConnected(c)), Lone(c)' PROVE Lone(c)
  <2>1. PICK i \in 1..Len(cmds) : cmds[i].from = c
    BY <1>b, <1>c DEF Queued
  <2>2. conn[c] # "none"
    BY <2>1 DEF Inv, TaskQueue, Serving
  <2> QED
    BY <1>c, <2>2, LoneStep DEF Accept
<1> HIDE DEF a
<1>1. CASE QueueKept
  <2>1. cmds' = cmds /\ j \in 1..Len(cmds) /\ cmds[j] = PeerConnected(c)
    BY <1>1 DEF QueueKept
  <2>2. peers[AddrOf[c]] # c /\ (Lone(c) => DisconnectBefore(AddrOf[c], j) \/ Unknown(AddrOf[c]))
    BY <2>1 DEF NewcomersUnknown
  <2>3. DisconnectBefore(AddrOf[c], j) => DisconnectBefore(AddrOf[c], j)'
    BY <2>1 DEF DisconnectBefore
  <2>4. Unknown(AddrOf[c]) => Unknown(AddrOf[c])'
    BY <1>1, <1>a DEF QueueKept, Unknown, a
  <2>5. peers'[AddrOf[c]] # c
    BY <1>1, <1>a, <2>2 DEF QueueKept, a
  <2>6. Queued(PeerConnected(c))
    BY <2>1 DEF Queued
  <2> QED
    BY <1>c, <2>2, <2>3, <2>4, <2>5, <2>6
<1>2. ASSUME NEW cmd \in Command, QueueSent(cmd)
      PROVE  /\ peers'[AddrOf[c]] # c
             /\ Lone(c)' => DisconnectBefore(AddrOf[c], j)' \/ Unknown(AddrOf[c])'
  <2>1. /\ Len(cmds') = n + 1
        /\ \A i \in 1..n : cmds'[i] = cmds[i] /\ cmds[i] \in Command
        /\ cmds'[n + 1] = cmd
    BY <1>0, <1>2, SentPlaces DEF QueueSent
  <2>2. /\ peers' = peers /\ subscriptions' = subscriptions /\ SendsCommand(cmd.from, cmd)
    BY <1>2 DEF QueueSent
  <2>3. CASE j \in 1..n
    <3>1. cmds[j] = PeerConnected(c)
      BY <2>1, <2>3
    <3>2. peers[AddrOf[c]] # c /\ (Lone(c) => DisconnectBefore(AddrOf[c], j) \/ Unknown(AddrOf[c]))
      BY <1>0, <2>3, <3>1 DEF NewcomersUnknown
    <3>3. DisconnectBefore(AddrOf[c], j) => DisconnectBefore(AddrOf[c], j)'
      BY <2>1, <2>3 DEF DisconnectBefore
    <3>4. Queued(PeerConnected(c))
      BY <1>0, <2>3, <3>1 DEF Queued
    <3> QED
      BY <1>c, <2>2, <3>2, <3>3, <3>4 DEF Unknown
  <2>4. CASE j = n + 1
    <3>1. cmd = PeerConnected(c) /\ conn[c] = "handshake"
      BY <1>b, <2>1, <2>2, <2>4, CommandFields DEF SendsCommand
    <3>2. peers[AddrOf[c]] # c
      BY <3>1 DEF BlankTasks, BlankTask
    <3>3. ASSUME Lone(c)', ~Unknown(AddrOf[c]) PROVE DisconnectBefore(AddrOf[c], j)'
      <4>1. Lone(c)
        BY <3>1, <3>3, LoneStep DEF Accept
      <4>2. Alive(AddrOf[c])
        BY <1>a, <3>3 DEF Unknown, Inv, SubscribersLive, a
      <4>3. PICK d \in Conn : AddrOf[d] = AddrOf[c] /\ (Serving(d) \/ PendingDisconnect(d))
        BY <4>2 DEF Alive
      <4>4. ~Serving(d)
        <5>1. CASE d = c
          BY <3>1, <5>1 DEF Serving
        <5>2. CASE d # c
          <6>1. Active(c)
            BY <3>1 DEF Active
          <6>2. ~Active(d)
            BY <4>1, <4>3, <5>2, <6>1 DEF Inv, Alone, Lone
          <6> QED
            BY <6>2 DEF Serving, Active
        <5> QED
          BY <5>1, <5>2
      <4>5. PICK l \in 1..n : cmds[l] = PeerDisconnected(d)
        BY <1>0, <4>3, <4>4 DEF PendingDisconnect
      <4>6. l \in 1..(j - 1) /\ cmds'[l].op = "PeerDisconnected" /\ cmds'[l].from = d
        BY <2>1, <2>4, <4>5, CommandFields
      <4> QED
        BY <4>3, <4>6 DEF DisconnectBefore
    <3> QED
      BY <2>2, <3>2, <3>3 DEF Unknown
  <2> QED
    BY <2>1, <2>3, <2>4
<1>3. ASSUME NEW cmd \in Command, QueueTaken(cmd)
      PROVE  /\ peers'[AddrOf[c]] # c
             /\ Lone(c)' => DisconnectBefore(AddrOf[c], j)' \/ Unknown(AddrOf[c])'
  <2>1. /\ Len(cmds') = n - 1
        /\ \A i \in 1..n : cmds[i] \in Command
        /\ \A i \in 1..n - 1 : cmds'[i] = cmds[i + 1]
        /\ cmds[1] = cmd /\ Take(cmd)
        /\ \A x : Queued(x) <=> Queued(x)' \/ x = cmd
    BY <1>0, <1>3, TakenPlaces DEF QueueTaken
  <2>2. j + 1 \in 1..n /\ cmds[j + 1] = PeerConnected(c) /\ j \in 1..n - 1
    BY <2>1
  <2>3. Queued(PeerConnected(c))' /\ Queued(PeerConnected(c))
    BY <2>1 DEF Queued
  <2>4. cmd.from # c
    BY <2>1, <2>3, RegistrationFirst
  <2>5. cmd # PeerConnected(c) /\ cmd.from \in Conn
    BY <1>b, <2>4, CommandFrom
  <2>6. /\ peers[AddrOf[c]] # c
        /\ Lone(c) => DisconnectBefore(AddrOf[c], j + 1) \/ Unknown(AddrOf[c])
    BY <1>0, <2>2 DEF NewcomersUnknown
  <2>7. peers'[AddrOf[c]] # c
    BY <1>3, <2>5, <2>6 DEF QueueTaken
  <2>8. ASSUME NEW l \in 1..j, cmds[l].op = "PeerDisconnected", AddrOf[cmds[l].from] = AddrOf[c]
        PROVE  DisconnectBefore(AddrOf[c], j)' \/ Unknown(AddrOf[c])'
    <3>1. CASE l = 1
      BY <1>3, <2>1, <2>8, <3>1 DEF QueueTaken
    <3>2. CASE l # 1
      <4>1. l - 1 \in 1..(j - 1) /\ cmds'[l - 1] = cmds[l]
        BY <2>1, <2>2, <3>2
      <4> QED
        BY <2>8, <4>1 DEF DisconnectBefore
    <3> QED
      BY <3>1, <3>2
  <2>9. ASSUME Lone(c)' PROVE DisconnectBefore(AddrOf[c], j)' \/ Unknown(AddrOf[c])'
    <3>1. Lone(c) /\ Serving(c)
      BY <1>b, <1>c, <2>3, <2>9, QueuedServed
    <3>2. CASE AddrOf[cmd.from] = AddrOf[c]
      <4>1. PICK l \in 1..Len(cmds), x \in 1..Len(cmds) :
              /\ l < x /\ cmds[x] = PeerConnected(c)
              /\ cmds[l].op = "PeerDisconnected" /\ AddrOf[cmds[l].from] = AddrOf[c]
        <5>1. 1 \in 1..Len(cmds)
          BY <1>0, <2>2
        <5> QED
          BY <2>1, <2>4, <3>1, <3>2, <5>1, EarlierConnections
      <4>2. x = j + 1
        <5>1. /\ cmds[x].op = "PeerConnected" /\ cmds[x].from = c
              /\ cmds[j + 1].op = "PeerConnected" /\ cmds[j + 1].from = c
          BY <1>b, <2>2, <4>1
        <5>2. x \notin 1..(j + 1 - 1)
          BY <1>0, <2>2, <5>1 DEF Inv, TaskQueue
        <5>3. j + 1 \notin 1..(x - 1)
          BY <1>0, <2>2, <5>1 DEF Inv, TaskQueue
        <5> QED
          BY <1>0, <2>2, <5>2, <5>3
      <4> QED
        BY <1>0, <2>2, <2>8, <4>1, <4>2
    <3>3. CASE AddrOf[cmd.from] # AddrOf[c]
      <4>1. CASE Unknown(AddrOf[c])
        <5>1. Unknown(AddrOf[c])'
          BY <1>3, <1>a, <3>3, <4>1 DEF QueueTaken, Unknown, a
        <5> QED
          BY <5>1
      <4>2. CASE DisconnectBefore(AddrOf[c], j + 1)
        <5>1. 1..(j + 1 - 1) = 1..j
          BY <2>2
        <5> QED
          BY <2>8, <4>2, <5>1 DEF DisconnectBefore
      <4> QED
        BY <2>6, <3>1, <4>1, <4>2
    <3> QED
      BY <3>2, <3>3
  <2> QED
    BY <2>7, <2>9
<1> QED
  BY <1>1, <1>2, <1>3, QueueSteps
-----------------------------------------------------------------------------
(* The clients, and tasks with nothing to do. *)

\* The client's table, whichever step it was (handle_message, Unsubscribe): a
\* message was read and applied, or routes of VNIs it left are gone.
LEMMA Observed ==
  ASSUME TypeOK', Observe, NEW d \in Conn
  PROVE  /\ client'[d] = "closed" => received'[d] = {}
         /\ client'[d] = "open" =>
              /\ touched[d] \subseteq touched'[d] /\ left[d] \subseteq left'[d]
              /\ Touches(d) \subseteq touched'[d] /\ Leaves(d) \subseteq left'[d]
              /\ Reads(d) => received'[d] = Apply(received[d], Head(outbound[d]))
              /\ ~Reads(d) =>
                   /\ received'[d] \subseteq received[d]
                   /\ \A k \in received[d] : VniOf(k) \notin left'[d] => k \in received'[d]
<1>1. client'[d] = "closed" => received'[d] = {}
  BY DEF Observe, Reads
<1>2. ASSUME client'[d] = "open"
      PROVE  /\ touched'[d] = touched[d] \cup Touches(d)
             /\ left'[d] = left[d] \cup Leaves(d)
  BY <1>2 DEF Observe
<1>3. ASSUME client'[d] = "open", Reads(d)
      PROVE  received'[d] = Apply(received[d], Head(outbound[d]))
  BY <1>3 DEF Observe
<1>4. ASSUME client'[d] = "open", ~Reads(d)
      PROVE  received'[d] = {k \in received[d] : VniOf(k) \notin Leaves(d)}
  BY <1>4 DEF Observe
<1> QED
  BY <1>1, <1>2, <1>3, <1>4

\* The stream did not get shorter: nothing was read.
LEMMA NotRead ==
  ASSUME TypeOK, NEW d \in Conn,
         \/ outbound'[d] = outbound[d]
         \/ \E ms \in Seq(UpdateMsg) : outbound'[d] = outbound[d] \o ms
  PROVE  ~Reads(d)
<1>1. outbound[d] \in Seq(UpdateMsg) /\ Len(outbound[d]) \in Nat
  BY LenProperties DEF TypeOK
<1>2. Len(outbound'[d]) >= Len(outbound[d])
  <2>1. ASSUME NEW ms \in Seq(UpdateMsg), outbound'[d] = outbound[d] \o ms
        PROVE  Len(outbound'[d]) = Len(outbound[d]) + Len(ms) /\ Len(ms) \in Nat
    BY <1>1, <2>1, ConcatProperties, LenProperties
  <2> QED
    BY <1>1, <2>1
<1>3. ASSUME outbound[d] # <<>>, outbound'[d] = Tail(outbound[d])
      PROVE  FALSE
  <2>1. Len(outbound'[d]) = Len(outbound[d]) - 1
    BY <1>1, <1>3, TailType
  <2> QED
    BY <1>1, <1>2, <2>1
<1> QED
  BY <1>3 DEF Reads

\* A client that holds nothing and is sent nothing holds nothing.
LEMMA EmptyStaysEmpty ==
  ASSUME TypeOK', Observe, NEW d \in Conn,
         outbound[d] = <<>>, received[d] = {} \/ client'[d] = "closed"
  PROVE  received'[d] = {}
<1>1. ~Reads(d)
  BY DEF Reads
<1>2. client'[d] \in {"open", "closed"}
  BY DEF TypeOK
<1> QED
  BY <1>1, <1>2, Observed

\* Distribution reaches a connection that is a target and has room, and no other.
LEMMA Distributed ==
  ASSUME NEW v, NEW from, NEW m, Distribute(v, from, m), NEW d \in Conn
  PROVE  \/ /\ d \in Targets(v, from) /\ AddrOf[d] \notin SlowConsumers(v, from)
            /\ chan'[d] = Append(chan[d], m)
         \/ /\ d \notin Targets(v, from) \/ AddrOf[d] \in SlowConsumers(v, from)
            /\ chan'[d] = chan[d]
<1>1. ASSUME d \in Targets(v, from) PROVE AddrOf[d] \in SlowConsumers(v, from) <=> Full(d)
  BY <1>1 DEF SlowConsumers, Targets
<1> QED
  BY <1>1 DEF Distribute

\* The targets are connections that the actor has the channel of.
LEMMA TargetsServed ==
  ASSUME TypeOK, BlankTasks, NEW v, NEW from, NEW d \in Targets(v, from)
  PROVE  /\ d \in Conn /\ AddrOf[d] \in subscriptions[v] /\ AddrOf[d] # from
         /\ peers[AddrOf[d]] = d
         /\ conn[d] \notin {"none", "handshake", "returned"} /\ Serving(d)
<1>1. /\ d \in Conn /\ AddrOf[d] \in subscriptions[v] /\ AddrOf[d] # from
      /\ peers[AddrOf[d]] = d /\ conn[d] # "returned"
  BY DEF Targets, RxAlive
<1>2. conn[d] \notin {"none", "handshake"} /\ conn[d] \in ConnState
  BY <1>1 DEF BlankTasks, BlankTask, TypeOK
<1> QED
  BY <1>1, <1>2 DEF Serving, ConnState

\* The tasks with nothing to do have nothing for their clients, whatever the
\* other tasks, the actor and the clients do.
LEMMA BlankStep ==
  ASSUME TypeOK, TypeOK', Inv, BlankTasks, Next, Observe
  PROVE  BlankTasks'
<1> USE DEF BlankTask
<1>0. /\ client \in [Conn -> {"open", "closed"}] /\ inbound \in [Conn -> Seq(Request)]
      /\ outbound \in [Conn -> Seq(UpdateMsg)] /\ conn \in [Conn -> ConnState]
      /\ chan \in [Conn -> Seq(UpdateMsg)] /\ snapshot \in [Conn -> SUBSET Key]
      /\ purge \in [addr : Addr \cup {NoAddr}, keys : SUBSET Key, slow : SUBSET Addr]
      /\ AddrOf \in [Conn -> Addr] /\ NoConn \notin Conn /\ NoAddr \notin Addr
      /\ peers \in [Addr -> Conn \cup {NoConn}] /\ peers' \in [Addr -> Conn \cup {NoConn}]
  BY ConstantsAssumption DEF TypeOK
<1>1. \A d \in Conn : BlankTask(d)
  BY DEF BlankTasks
<1>p. ASSUME NEW d \in Conn, conn[d] \in {"none", "handshake"} PROVE peers'[AddrOf[d]] # d
  <2>1. peers[AddrOf[d]] # d
    BY <1>1, <1>p
  <2>2. CASE QueueKept
    BY <1>0, <2>1, <2>2 DEF QueueKept
  <2>3. ASSUME NEW cmd \in Command, QueueSent(cmd) PROVE peers' = peers
    BY <2>3 DEF QueueSent
  <2>4. ASSUME NEW cmd \in Command, QueueTaken(cmd) PROVE peers'[AddrOf[d]] # d
    <3>1. cmds[1] = cmd /\ 1 \in 1..Len(cmds)
      BY <2>4, TakenPlaces DEF QueueTaken
    <3>2. PeerConnected(d).from = d
      BY CommandFields
    <3>3. cmd # PeerConnected(d)
      BY <1>p, <3>1, <3>2 DEF Inv, TaskQueue, Serving
    <3> QED
      BY <2>1, <2>4, <3>3 DEF QueueTaken
  <2> QED
    BY <2>1, <2>2, <2>3, <2>4, QueueSteps
<1>2. ASSUME NEW d \in Conn PROVE client'[d] = "closed" => received'[d] = {}
  BY Observed
<1>3. ASSUME NEW d \in Conn, conn[d] \in {"none", "handshake"} PROVE received'[d] = {}
  BY <1>1, <1>3, EmptyStaysEmpty
<1>4. ASSUME NEW d \in Conn, conn'[d] = conn[d], client'[d] = client[d],
             inbound'[d] = inbound[d], outbound'[d] = outbound[d],
             chan'[d] = chan[d], snapshot'[d] = snapshot[d]
      PROVE  BlankTask(d)'
  BY <1>1, <1>2, <1>3, <1>4, <1>p
<1> DEFINE Blanked(d) ==
             /\ conn'[d] \in {"none", "handshake"} =>
                  /\ conn[d] \in {"none", "handshake"}
                  /\ inbound'[d] = <<>> /\ outbound'[d] = <<>> /\ chan'[d] = <<>>
             /\ conn'[d] \in {"none", "returned"} => client'[d] = "closed"
             /\ conn'[d] # "replay" => snapshot'[d] = {}
<1>q. ASSUME NEW d \in Conn, Blanked(d) PROVE BlankTask(d)'
  BY <1>1, <1>2, <1>p, <1>3, <1>q
<1>5. ASSUME NEW d \in Conn, Accept(d) \/ HandshakeFail(d) PROVE BlankTask(d)'
  <2>1. Blanked(d)
    <3>1. CASE Accept(d)
      BY <1>0, <1>1, <3>1 DEF Accept
    <3>2. CASE HandshakeFail(d)
      BY <1>0, <1>1, <3>2, ZenonT(30) DEF HandshakeFail, Return
    <3> QED
      BY <1>5, <3>1, <3>2
  <2> HIDE DEF BlankTask, Blanked
  <2> QED
    BY <1>5, <2>1, <1>q
<1>6. ASSUME NEW d \in Conn, ClientRead(d) \/ ClientClose(d) PROVE BlankTask(d)'
  BY <1>0, <1>1, <1>2, <1>p, <1>3, <1>6 DEF ClientRead, ClientClose
<1>7. ASSUME NEW d \in Conn, NEW m \in Request, ClientSend(d, m) PROVE BlankTask(d)'
  BY <1>0, <1>1, <1>2, <1>p, <1>3, <1>7 DEF ClientSend
<1>8. ASSUME NEW d \in Conn, NEW m \in Request, HandleRequest(d, m) \/ BlockOnFull(d, m)
      PROVE  BlankTask(d)'
  <2>1. Blanked(d)
    <3>1. conn[d] \in {"loop", "blocked"} /\ conn'[d] \in {"loop", "subscribing", "blocked"}
      BY <1>0, <1>8 DEF HandleRequest, BlockOnFull, Handling, InLoop, AfterRequest
    <3>2. snapshot' = snapshot
      BY <1>8 DEF HandleRequest, BlockOnFull
    <3> QED
      BY <1>1, <3>1, <3>2
  <2> HIDE DEF BlankTask, Blanked
  <2> QED
    BY <1>8, <2>1, <1>q
<1>9. ASSUME NEW d \in Conn, Replay(d) \/ ReplayDone(d) \/ Drain(d) PROVE BlankTask(d)'
  BY <1>0, <1>1, <1>2, <1>p, <1>9 DEF Replay, ReplayDone, Drain, InLoop
<1>10. ASSUME NEW d \in Conn, Eof(d) \/ LoopError(d) \/ ShutdownBreak(d) PROVE BlankTask(d)'
  <2>1. Blanked(d)
    <3>1. conn[d] = "loop" /\ conn'[d] = "cleanup" /\ snapshot' = snapshot
      BY <1>0, <1>10 DEF Eof, LoopError, ShutdownBreak, InLoop
    <3> QED
      BY <1>1, <3>1
  <2> HIDE DEF BlankTask, Blanked
  <2> QED
    BY <1>10, <2>1, <1>q
<1>11. ASSUME NEW d \in Conn, Cleanup(d) PROVE BlankTask(d)'
  <2>1. Blanked(d)
    BY <1>0, <1>1, <1>11, ZenonT(30) DEF Cleanup, Return
  <2> HIDE DEF BlankTask, Blanked
  <2> QED
    BY <1>11, <2>1, <1>q
<1>12. ASSUME NEW d \in Conn, Register(d) PROVE BlankTask(d)'
  <2>1. Blanked(d)
    BY <1>0, <1>1, <1>12, ZenonT(30) DEF Register
  <2> HIDE DEF BlankTask, Blanked
  <2> QED
    BY <1>12, <2>1, <1>q
<1>13. ASSUME NEW d \in Conn, NEW v \in Vni, ActorSubscribe(d, v) PROVE BlankTask(d)'
  BY <1>0, <1>1, <1>2, <1>p, <1>13 DEF ActorSubscribe
<1>14. ASSUME NEW d \in Conn, NEW v, NEW from, NEW m, Distribute(v, from, m),
              UNCHANGED <<clientVars, conn, snapshot>>
       PROVE  BlankTask(d)'
  <2>1. CASE d \in Targets(v, from)
    <3>1. conn[d] \notin {"none", "handshake"}
      BY <2>1, TargetsServed DEF Serving
    <3> QED
      BY <1>0, <1>1, <1>2, <1>p, <1>14, <3>1
  <2>2. CASE d \notin Targets(v, from)
    BY <1>4, <1>14, <2>2, Distributed
  <2> QED
    BY <2>1, <2>2
<1>15. \A d \in Conn : BlankTask(d)'
  <2> SUFFICES ASSUME NEW d \in Conn PROVE BlankTask(d)'
    OBVIOUS
  <2>1. ASSUME NEW c \in Conn, c # d,
               \/ ClientStep(c) \/ HandlerStep(c) \/ ShutdownBreak(c)
               \/ Register(c) \/ HandshakeFail(c) \/ LoopError(c)
               \/ \E v \in Vni : ActorSubscribe(c, v)
        PROVE  BlankTask(d)'
    <3>1. /\ conn'[d] = conn[d] /\ client'[d] = client[d] /\ inbound'[d] = inbound[d]
          /\ outbound'[d] = outbound[d] /\ chan'[d] = chan[d] /\ snapshot'[d] = snapshot[d]
      BY <1>0, <2>1, ZenonT(40) DEF ClientStep, HandlerStep, Accept, ClientRead, ClientSend, ClientClose,
           HandleRequest, BlockOnFull, Replay, ReplayDone, Drain, Eof, Cleanup, Return,
           ShutdownBreak, Register, HandshakeFail, LoopError, ActorSubscribe
    <3> QED
      BY <1>4, <3>1
  <2>2. CASE \/ ClientStep(d) \/ HandlerStep(d) \/ ShutdownBreak(d)
             \/ Register(d) \/ HandshakeFail(d) \/ LoopError(d)
             \/ \E v \in Vni : ActorSubscribe(d, v)
    BY <1>5, <1>6, <1>7, <1>8, <1>9, <1>10, <1>11, <1>12, <1>13, <2>2 DEF ClientStep, HandlerStep
  <2>3. ASSUME NEW c \in Conn,
               \/ ActorPeerConnected(c) \/ ActorPeerDisconnected(c)
               \/ \E v \in Vni : ActorUnsubscribe(c, v)
        PROVE  BlankTask(d)'
    BY <1>4, <2>3 DEF ActorPeerConnected, ActorPeerDisconnected, ActorUnsubscribe
  <2>4. ASSUME NEW c \in Conn, NEW k \in Key, ActorAdd(c, k) \/ ActorRemove(c, k)
        PROVE  BlankTask(d)'
    BY <1>14, <2>4 DEF ActorAdd, ActorRemove
  <2>5. ASSUME NEW k \in Key, ActorPurgeRoute(k) PROVE BlankTask(d)'
    BY <1>14, <2>5 DEF ActorPurgeRoute
  <2>6. CASE ActorPurgeDone \/ Shutdown \/ DropServer \/ StopAccepting \/ Terminated
    BY <1>4, <2>6 DEF ActorPurgeDone, Shutdown, DropServer, StopAccepting, Terminated
  <2> QED
    BY <2>1, <2>2, <2>3, <2>4, <2>5, <2>6 DEF Next, ActorStep
<1>16. purge'.addr # NoAddr => peers'[purge'.addr] = NoConn
  <2>1. CASE UNCHANGED <<peers, purge>>
    BY <2>1 DEF BlankTasks
  <2>2. CASE purge = Idle /\ purge' = purge
    BY <2>2 DEF Idle
  <2>3. ASSUME NEW c \in Conn, ActorPeerDisconnected(c)
        PROVE  purge'.addr # NoAddr => peers'[purge'.addr] = NoConn
    BY <1>0, <2>3 DEF ActorPeerDisconnected, DropPeers, ForgetChannels
  <2>4. ASSUME NEW k \in Key, ActorPurgeRoute(k)
        PROVE  purge'.addr # NoAddr => peers'[purge'.addr] = NoConn
    BY <1>0, <2>4 DEF ActorPurgeRoute, BlankTasks
  <2>5. CASE ActorPurgeDone
    BY <2>5 DEF ActorPurgeDone, Idle
  <2>6. ASSUME NEW c \in Conn,
               \/ ClientStep(c) \/ HandlerStep(c) \/ ShutdownBreak(c)
               \/ Register(c) \/ HandshakeFail(c) \/ LoopError(c)
        PROVE  UNCHANGED <<peers, purge>>
    BY <2>6 DEF ClientStep, HandlerStep, Accept, ClientRead, ClientSend, ClientClose,
           HandleRequest, BlockOnFull, Replay, ReplayDone, Drain, Eof, Cleanup,
           ShutdownBreak, Register, HandshakeFail, LoopError
  <2>7. ASSUME NEW c \in Conn,
               \/ ActorPeerConnected(c)
               \/ \E v \in Vni : ActorSubscribe(c, v) \/ ActorUnsubscribe(c, v)
               \/ \E k \in Key : ActorAdd(c, k) \/ ActorRemove(c, k)
        PROVE  purge = Idle /\ purge' = purge
    BY <2>7 DEF ActorPeerConnected, ActorSubscribe, ActorUnsubscribe, ActorAdd, ActorRemove, Take
  <2>8. CASE Shutdown \/ DropServer \/ StopAccepting \/ Terminated
    BY <2>1, <2>8 DEF Shutdown, DropServer, StopAccepting, Terminated
  <2> QED
    BY <2>1, <2>2, <2>3, <2>4, <2>5, <2>6, <2>7, <2>8 DEF Next, ActorStep
<1> QED
  BY <1>15, <1>16 DEF BlankTasks
-----------------------------------------------------------------------------
(* The history of the clients' requests. *)

\* The steps of the actor that take a command.
Takes(cmd) ==
  \/ \E c \in Conn :
       \/ cmd = PeerConnected(c) /\ ActorPeerConnected(c)
       \/ cmd = PeerDisconnected(c) /\ ActorPeerDisconnected(c)
       \/ \E v \in Vni : \/ cmd = Forward(c, Subscribe(v)) /\ ActorSubscribe(c, v)
                         \/ cmd = Forward(c, Unsubscribe(v)) /\ ActorUnsubscribe(c, v)
       \/ \E k \in Key : \/ cmd = Forward(c, Update("Add", k)) /\ ActorAdd(c, k)
                         \/ cmd = Forward(c, Update("Remove", k)) /\ ActorRemove(c, k)

\* What they have in common.
LEMMA TakesCommand ==
  ASSUME NEW cmd, Takes(cmd)
  PROVE  cmd \in Command /\ Take(cmd) /\ UNCHANGED clientVars
<1>1. ASSUME NEW c \in Conn, cmd = PeerConnected(c), ActorPeerConnected(c)
      PROVE  cmd \in Command /\ Take(cmd) /\ UNCHANGED clientVars
  BY <1>1, CommandFields DEF ActorPeerConnected
<1>2. ASSUME NEW c \in Conn, cmd = PeerDisconnected(c), ActorPeerDisconnected(c)
      PROVE  cmd \in Command /\ Take(cmd) /\ UNCHANGED clientVars
  BY <1>2, CommandFields DEF ActorPeerDisconnected
<1>3. ASSUME NEW c \in Conn, NEW v \in Vni,
             \/ cmd = Forward(c, Subscribe(v)) /\ ActorSubscribe(c, v)
             \/ cmd = Forward(c, Unsubscribe(v)) /\ ActorUnsubscribe(c, v)
      PROVE  cmd \in Command /\ Take(cmd) /\ UNCHANGED clientVars
  BY <1>3, RequestFields DEF ActorSubscribe, ActorUnsubscribe
<1>4. ASSUME NEW c \in Conn, NEW k \in Key,
             \/ cmd = Forward(c, Update("Add", k)) /\ ActorAdd(c, k)
             \/ cmd = Forward(c, Update("Remove", k)) /\ ActorRemove(c, k)
      PROVE  cmd \in Command /\ Take(cmd) /\ UNCHANGED clientVars
  BY <1>4, RequestFields DEF ActorAdd, ActorRemove
<1> QED
  BY <1>1, <1>2, <1>3, <1>4 DEF Takes

\* A step that leaves the queue and the streams to the server alone.
LEMMA SameQueue ==
  ASSUME cmds' = cmds
  PROVE  \A x : Queued(x)' <=> Queued(x)
  BY DEF Queued

\* Every request under way stays in its client's history, which begins anew with
\* a connection.
LEMMA RequestsStep ==
  ASSUME TypeOK, TypeOK', Inv, BlankTasks, RequestsKnown, Next, Observe
  PROVE  RequestsKnown'
<1>0. /\ client \in [Conn -> {"open", "closed"}] /\ inbound \in [Conn -> Seq(Request)]
      /\ conn \in [Conn -> ConnState]
  BY DEF TypeOK
<1> SUFFICES ASSUME NEW d \in Conn, client'[d] = "open"
             PROVE  /\ \A i \in DOMAIN inbound'[d] : Known(touched'[d], left'[d], inbound'[d][i])
                    /\ \A m \in Request : Queued(Forward(d, m))' => Known(touched'[d], left'[d], m)
  BY DEF RequestsKnown
<1>1. ASSUME NEW m, Known(touched[d], left[d], m) PROVE Known(touched'[d], left'[d], m)
  <2>1. touched[d] \subseteq touched'[d] /\ left[d] \subseteq left'[d]
    BY Observed
  <2> QED
    BY <1>1, <2>1 DEF Known
<1>2. ASSUME client[d] = "open", inbound'[d] = inbound[d],
             \A m \in Request : Queued(Forward(d, m))' => Queued(Forward(d, m))
      PROVE  /\ \A i \in DOMAIN inbound'[d] : Known(touched'[d], left'[d], inbound'[d][i])
             /\ \A m \in Request : Queued(Forward(d, m))' => Known(touched'[d], left'[d], m)
  BY <1>1, <1>2 DEF RequestsKnown
<1>3. ASSUME Accept(d)
      PROVE  /\ \A i \in DOMAIN inbound'[d] : Known(touched'[d], left'[d], inbound'[d][i])
             /\ \A m \in Request : Queued(Forward(d, m))' => Known(touched'[d], left'[d], m)
  <2>1. inbound'[d] = <<>> /\ conn[d] = "none" /\ cmds' = cmds
    BY <1>3 DEF Accept, BlankTasks, BlankTask
  <2>2. DOMAIN inbound'[d] = {}
    BY <2>1
  <2>3. ASSUME NEW m \in Request PROVE ~Queued(Forward(d, m))'
    <3>1. ~Queued(Forward(d, m))
      <4> SUFFICES ASSUME NEW i \in 1..Len(cmds), cmds[i].from = d PROVE FALSE
        BY CommandFields DEF Queued
      <4> QED
        BY <2>1 DEF Inv, TaskQueue, Serving
    <3> QED
      BY <2>1, <3>1, SameQueue
  <2> QED
    BY <2>2, <2>3
<1>4. ASSUME NEW m \in Request, ClientSend(d, m)
      PROVE  /\ \A i \in DOMAIN inbound'[d] : Known(touched'[d], left'[d], inbound'[d][i])
             /\ \A r \in Request : Queued(Forward(d, r))' => Known(touched'[d], left'[d], r)
  <2>1. /\ inbound'[d] = Append(inbound[d], m) /\ cmds' = cmds /\ client[d] = "open"
        /\ inbound[d] \in Seq(Request)
    BY <1>0, <1>4 DEF ClientSend
  <2>2. Known(touched'[d], left'[d], m)
    <3>1. Touches(d) \subseteq touched'[d] /\ Leaves(d) \subseteq left'[d]
      BY Observed
    <3>2. Sends(d, m)
      BY <2>1 DEF Sends
    <3> QED
      BY <3>1, <3>2 DEF Known, Touches, Leaves
  <2>3. ASSUME NEW i \in DOMAIN inbound'[d] PROVE Known(touched'[d], left'[d], inbound'[d][i])
    <3>1. /\ DOMAIN inbound[d] = 1..Len(inbound[d]) /\ DOMAIN inbound'[d] = 1..(Len(inbound[d]) + 1)
          /\ \A j \in 1..Len(inbound[d]) : inbound'[d][j] = inbound[d][j]
          /\ inbound'[d][Len(inbound[d]) + 1] = m /\ Len(inbound[d]) \in Nat
      BY <2>1, AppendProperties, LenProperties
    <3>2. CASE i \in 1..Len(inbound[d])
      BY <1>1, <2>1, <3>1, <3>2 DEF RequestsKnown
    <3>3. CASE i = Len(inbound[d]) + 1
      BY <2>2, <3>1, <3>3
    <3> QED
      BY <3>1, <3>2, <3>3
  <2>4. ASSUME NEW r \in Request, Queued(Forward(d, r))' PROVE Known(touched'[d], left'[d], r)
    BY <1>1, <2>1, <2>4, SameQueue DEF RequestsKnown
  <2> QED
    BY <2>3, <2>4
<1>5. ASSUME NEW m \in Request, HandleRequest(d, m)
      PROVE  /\ \A i \in DOMAIN inbound'[d] : Known(touched'[d], left'[d], inbound'[d][i])
             /\ \A r \in Request : Queued(Forward(d, r))' => Known(touched'[d], left'[d], r)
  <2>1. /\ inbound'[d] = Tail(inbound[d]) /\ cmds' = Append(cmds, Forward(d, m))
        /\ inbound[d] # <<>> /\ Head(inbound[d]) = m /\ client[d] = "open"
        /\ inbound[d] \in Seq(Request)
    BY <1>0, <1>5 DEF HandleRequest, Handling, Enqueue
  <2>2. /\ Len(inbound[d]) \in Nat \ {0} /\ DOMAIN inbound[d] = 1..Len(inbound[d])
        /\ DOMAIN inbound'[d] = 1..(Len(inbound[d]) - 1)
        /\ \A i \in 1..(Len(inbound[d]) - 1) : inbound'[d][i] = inbound[d][i + 1]
        /\ inbound[d][1] = m
    BY <2>1, TailType, LenProperties
  <2>3. ASSUME NEW i \in DOMAIN inbound[d] PROVE Known(touched'[d], left'[d], inbound[d][i])
    BY <1>1, <2>1 DEF RequestsKnown
  <2>4. ASSUME NEW i \in DOMAIN inbound'[d] PROVE Known(touched'[d], left'[d], inbound'[d][i])
    <3>1. i + 1 \in DOMAIN inbound[d] /\ inbound'[d][i] = inbound[d][i + 1]
      BY <2>2
    <3>2. Known(touched'[d], left'[d], inbound[d][i + 1])
      BY <1>1, <2>1, <3>1 DEF RequestsKnown
    <3> QED
      BY <3>1, <3>2 DEF Known
  <2>5. Known(touched'[d], left'[d], m)
    <3>1. Known(touched[d], left[d], inbound[d][1])
      BY <2>1, <2>2 DEF RequestsKnown
    <3> QED
      BY <1>1, <2>2, <3>1
  <2>6. ASSUME NEW r \in Request, Queued(Forward(d, r))' PROVE Known(touched'[d], left'[d], r)
    <3>1. Forward(d, r) \in Command /\ Forward(d, m) \in Command /\ Forward(d, r).msg = r /\ Forward(d, m).msg = m
      BY CommandFields
    <3>2. Forward(d, r) = Forward(d, m) \/ Queued(Forward(d, r))
      BY <2>1, <2>6, <3>1, SentPlaces
    <3>3. CASE Forward(d, r) = Forward(d, m)
      BY <2>5, <3>1, <3>3
    <3>4. CASE Queued(Forward(d, r))
      BY <1>1, <2>1, <3>4 DEF RequestsKnown
    <3> QED
      BY <3>2, <3>3, <3>4
  <2> QED
    BY <2>4, <2>6
<1>6. ASSUME NEW cmd \in Command, cmds' = Append(cmds, cmd),
             cmd.from # d \/ cmd.op \in {"PeerConnected", "PeerDisconnected"},
             NEW m \in Request, Queued(Forward(d, m))'
      PROVE  Queued(Forward(d, m))
  <2>1. Forward(d, m) \in Command /\ Forward(d, m) # cmd
    BY <1>6, CommandFields
  <2> QED
    BY <1>6, <2>1, SentPlaces
<1>7. ASSUME NEW cmd \in Command, Take(cmd), NEW m \in Request, Queued(Forward(d, m))'
      PROVE  Queued(Forward(d, m))
  BY <1>7, TakenPlaces
<1>8. ASSUME NEW c \in Conn, NEW m \in Request, HandleRequest(c, m), c # d
      PROVE  /\ client[d] = "open" /\ inbound'[d] = inbound[d]
             /\ \A r \in Request : Queued(Forward(d, r))' => Queued(Forward(d, r))
  <2>1. Forward(c, m) \in Command /\ Forward(c, m).from = c
    BY CommandFields
  <2>2. cmds' = Append(cmds, Forward(c, m)) /\ client[d] = "open" /\ inbound'[d] = inbound[d]
    BY <1>0, <1>8 DEF HandleRequest, Enqueue
  <2> QED
    BY <1>6, <1>8, <2>1, <2>2
<1>9. ASSUME NEW c \in Conn, Register(c)
      PROVE  /\ client[d] = "open" /\ inbound'[d] = inbound[d]
             /\ \A r \in Request : Queued(Forward(d, r))' => Queued(Forward(d, r))
  <2>1. PeerConnected(c) \in Command /\ PeerConnected(c).op = "PeerConnected"
    BY CommandFields
  <2>2. cmds' = Append(cmds, PeerConnected(c)) /\ client[d] = "open" /\ inbound'[d] = inbound[d]
    BY <1>9 DEF Register, SendConnected, Enqueue
  <2> QED
    BY <1>6, <2>1, <2>2
<1>10. ASSUME NEW c \in Conn, Cleanup(c)
      PROVE  /\ client[d] = "open" /\ inbound'[d] = inbound[d]
             /\ \A r \in Request : Queued(Forward(d, r))' => Queued(Forward(d, r))
  <2>1. PeerDisconnected(c) \in Command /\ PeerDisconnected(c).op = "PeerDisconnected"
    BY CommandFields
  <2>2. cmds' = Append(cmds, PeerDisconnected(c)) /\ client[d] = "open" /\ inbound'[d] = inbound[d]
    BY <1>0, <1>10 DEF Cleanup, SendDisconnected, Enqueue, Return
  <2> QED
    BY <1>6, <2>1, <2>2
<1>11. ASSUME NEW cmd, Takes(cmd)
      PROVE  /\ client[d] = "open" /\ inbound'[d] = inbound[d]
             /\ \A r \in Request : Queued(Forward(d, r))' => Queued(Forward(d, r))
  BY <1>7, <1>11, TakesCommand
<1>12. ASSUME client[d] = "open", inbound'[d] = inbound[d], cmds' = cmds
      PROVE  /\ \A i \in DOMAIN inbound'[d] : Known(touched'[d], left'[d], inbound'[d][i])
             /\ \A m \in Request : Queued(Forward(d, m))' => Known(touched'[d], left'[d], m)
  BY <1>2, <1>12, SameQueue
<1>13. ASSUME NEW c \in Conn,
              \/ Accept(c) /\ c # d
              \/ ClientRead(c) \/ ClientClose(c) \/ HandshakeFail(c)
              \/ (\E m \in Request : ClientSend(c, m)) /\ c # d
              \/ \E m \in Request : BlockOnFull(c, m)
              \/ Replay(c) \/ ReplayDone(c) \/ Drain(c) \/ Eof(c) \/ LoopError(c) \/ ShutdownBreak(c)
       PROVE  client[d] = "open" /\ inbound'[d] = inbound[d] /\ cmds' = cmds
  BY <1>0, <1>13 DEF Accept, ClientRead, ClientClose, HandshakeFail, Return, ClientSend, BlockOnFull,
       Replay, ReplayDone, Drain, Eof, LoopError, ShutdownBreak
<1>14. CASE \/ \E k \in Key : ActorPurgeRoute(k)
            \/ ActorPurgeDone \/ Shutdown \/ DropServer \/ StopAccepting \/ Terminated
  <2>1. client[d] = "open" /\ inbound'[d] = inbound[d] /\ cmds' = cmds
    BY <1>14 DEF ActorPurgeRoute, ActorPurgeDone, Shutdown, DropServer, StopAccepting, Terminated
  <2> QED
    BY <1>12, <2>1
<1>15. ActorStep => \/ \E cmd : Takes(cmd)
                    \/ \E k \in Key : ActorPurgeRoute(k)
                    \/ ActorPurgeDone
  BY DEF ActorStep, Takes
<1>16. \A c \in Conn : c = d \/ c # d
  OBVIOUS
<1> QED
  BY <1>2, <1>3, <1>4, <1>5, <1>8, <1>9, <1>10, <1>11, <1>12, <1>13, <1>14, <1>15, <1>16
  DEF Next, ClientStep, HandlerStep
-----------------------------------------------------------------------------
(* What a subscriber holds and what is under way to it. *)

\* SubscribersConverge, for one subscriber and one route.
Converges(c, k) ==
  Served(c, VniOf(k)) /\ k \notin touched[c] /\ VniOf(k) \notin left[c]
    => (WillHold(c, k) <=> k \in routes)

PeerOK(c) == FreshPeer(c) /\ \A k \in Key : Converges(c, k)

\* WillHold as a function of the four places an update can be in.
Holds(ch, sn, out, rec, k) ==
  IF Mentions(ch, k) THEN LastIsAdd(ch, k)
  ELSE k \in sn \/ (IF Mentions(out, k) THEN LastIsAdd(out, k) ELSE k \in rec)

\* This is what WillHold says, now and after a step.
LEMMA WillHoldIs ==
  ASSUME NEW c, NEW k
  PROVE  /\ WillHold(c, k) <=> Holds(chan[c], snapshot[c], outbound[c], received[c], k)
         /\ WillHold(c, k)' <=> Holds(chan'[c], snapshot'[c], outbound'[c], received'[c], k)
<1>1. WillHold(c, k) <=> Holds(chan[c], snapshot[c], outbound[c], received[c], k)
  BY DEF WillHold, Holds
<1>2. WillHold(c, k)' <=> Holds(chan'[c], snapshot'[c], outbound'[c], received'[c], k)
  BY DEF WillHold, Holds
<1> QED
  BY <1>1, <1>2

\* The VNI of a key.
LEMMA KeyVni ==
  ASSUME NEW k \in Key
  PROVE  VniOf(k) \in Vni /\ \A v \in Vni : k \in KeysOf(v) <=> VniOf(k) = v
  BY DEF Key, VniOf, KeysOf

\* Nothing is claimed of a client that is gone or has shared its address.
LEMMA GoneIsOK ==
  ASSUME NEW d, ~Lone(d)'
  PROVE  PeerOK(d)'
  BY DEF PeerOK, FreshPeer, Converges, Served, Lone

\* A step that gives d nothing new to be served, and keeps what it will hold.
LEMMA PeerKept ==
  ASSUME TypeOK', Observe, NEW d \in Conn, PeerOK(d),
         Lone(d), Lone(d)', routes' = routes,
         \A v \in Vni : /\ Fresh(d, v)' => Fresh(d, v)
                        /\ Served(d, v)' => Served(d, v)
                        /\ Absent(d, v) => Absent(d, v)',
         \A k \in Key : VniOf(k) \notin left'[d] => (WillHold(d, k)' <=> WillHold(d, k))
  PROVE  PeerOK(d)'
<1>1. touched[d] \subseteq touched'[d] /\ left[d] \subseteq left'[d]
  BY Observed DEF Lone
<1>2. FreshPeer(d)'
  BY DEF PeerOK, FreshPeer
<1>3. ASSUME NEW k \in Key PROVE Converges(d, k)'
  <2>1. VniOf(k) \in Vni
    BY KeyVni
  <2>2. Converges(d, k)
    BY DEF PeerOK
  <2> QED
    BY <1>1, <2>1, <2>2 DEF Converges
<1> QED
  BY <1>2, <1>3 DEF PeerOK

\* The same for a step that leaves everything under way to d alone.
LEMMA PeerUntouched ==
  ASSUME TypeOK, TypeOK', Observe, NEW d \in Conn, PeerOK(d),
         Lone(d), Lone(d)', routes' = routes,
         chan'[d] = chan[d], snapshot'[d] = snapshot[d], outbound'[d] = outbound[d],
         \A v \in Vni : /\ Fresh(d, v)' => Fresh(d, v)
                        /\ Served(d, v)' => Served(d, v)
  PROVE  PeerOK(d)'
<1>1. /\ received'[d] \subseteq received[d]
      /\ \A k \in received[d] : VniOf(k) \notin left'[d] => k \in received'[d]
  BY NotRead, Observed DEF Lone
<1>2. \A v \in Vni : Absent(d, v) => Absent(d, v)'
  BY <1>1 DEF Absent
<1>3. ASSUME NEW k \in Key, VniOf(k) \notin left'[d]
      PROVE  WillHold(d, k)' <=> WillHold(d, k)
  BY <1>1, <1>3, WillHoldIs DEF Holds
<1> QED
  BY <1>2, <1>3, PeerKept

\* The tasks and the clients at work, the actor not involved.
LEMMA QuietPeer ==
  ASSUME TypeOK, TypeOK', Observe, NEW d \in Conn, PeerOK(d),
         Lone(d), Lone(d)', UNCHANGED actorVars,
         Serving(d)' => Serving(d),
         chan'[d] = chan[d], snapshot'[d] = snapshot[d], outbound'[d] = outbound[d]
  PROVE  PeerOK(d)'
<1>1. left[d] \subseteq left'[d]
  BY Observed DEF Lone
<1>2. /\ Queued(PeerConnected(d))' <=> Queued(PeerConnected(d))
      /\ Registered(d)' => Registered(d)
  BY SameQueue DEF Registered
<1>3. ASSUME NEW v \in Vni PROVE Fresh(d, v)' => Fresh(d, v)
  BY <1>1, <1>2 DEF Fresh
<1>4. ASSUME NEW v \in Vni PROVE Served(d, v)' => Served(d, v)
  BY <1>2 DEF Served, Registered, Lone
<1> QED
  BY <1>3, <1>4, PeerUntouched

\* A command is sent that is not the registration of d.
LEMMA SendPeer ==
  ASSUME TypeOK, TypeOK', Observe, NEW d \in Conn, PeerOK(d),
         Lone(d), Lone(d)', UNCHANGED <<tableVars, purge>>,
         NEW cmd \in Command, cmds' = Append(cmds, cmd), cmd # PeerConnected(d),
         Serving(d)' => Serving(d),
         chan'[d] = chan[d], snapshot'[d] = snapshot[d], outbound'[d] = outbound[d]
  PROVE  PeerOK(d)'
<1>1. left[d] \subseteq left'[d]
  BY Observed DEF Lone
<1>2. /\ Queued(PeerConnected(d))' => Queued(PeerConnected(d))
      /\ Registered(d)' => Registered(d)
  BY SentPlaces DEF Registered
<1>3. ASSUME NEW v \in Vni PROVE Fresh(d, v)' => Fresh(d, v)
  BY <1>1, <1>2 DEF Fresh
<1>4. ASSUME NEW v \in Vni PROVE Served(d, v)' => Served(d, v)
  BY <1>2 DEF Served, Registered, Lone
<1> QED
  BY <1>3, <1>4, PeerUntouched

\* Updates move along: d's task or its client takes them from one place to the
\* next.
LEMMA MovePeer ==
  ASSUME TypeOK', Observe, NEW d \in Conn, PeerOK(d),
         Lone(d), Lone(d)', UNCHANGED <<conn, actorVars>>,
         \A v \in Vni : Absent(d, v) => Absent(d, v)',
         \A k \in Key : VniOf(k) \notin left'[d] => (WillHold(d, k)' <=> WillHold(d, k))
  PROVE  PeerOK(d)'
<1>1. left[d] \subseteq left'[d]
  BY Observed DEF Lone
<1>2. /\ Queued(PeerConnected(d))' <=> Queued(PeerConnected(d))
      /\ Registered(d)' => Registered(d)
  BY SameQueue DEF Registered, Serving
<1>3. ASSUME NEW v \in Vni PROVE Fresh(d, v)' => Fresh(d, v)
  BY <1>1, <1>2 DEF Fresh
<1>4. ASSUME NEW v \in Vni PROVE Served(d, v)' => Served(d, v)
  BY <1>2 DEF Served, Registered, Lone
<1> QED
  BY <1>3, <1>4, PeerKept

\* The client applies the next message.
LEMMA ReadPeer ==
  ASSUME TypeOK, TypeOK', Observe, NEW d \in Conn, PeerOK(d), ClientRead(d), Lone(d)
  PROVE  PeerOK(d)'
<1>1. /\ outbound[d] # <<>> /\ outbound'[d] = Tail(outbound[d]) /\ outbound[d] \in Seq(UpdateMsg)
      /\ chan'[d] = chan[d] /\ snapshot'[d] = snapshot[d] /\ client'[d] = "open"
      /\ Lone(d)' /\ UNCHANGED <<conn, actorVars>>
  BY DEF ClientRead, TypeOK, Lone
<1> DEFINE m == Head(outbound[d])
           q == Tail(outbound[d])
<1>2. received'[d] = Apply(received[d], m)
  <2>1. Reads(d)
    BY <1>1 DEF Reads
  <2> QED
    BY <1>1, <2>1, Observed
<1>3. ASSUME NEW k \in Key
      PROVE  /\ m \in UpdateMsg
             /\ Mentions(outbound[d], k) <=> m.key = k \/ Mentions(q, k)
             /\ Mentions(q, k) => (LastIsAdd(outbound[d], k) <=> LastIsAdd(q, k))
             /\ ~Mentions(q, k) => (LastIsAdd(outbound[d], k) <=> m = Update("Add", k))
  BY <1>1, LastOfRest
<1> HIDE DEF m, q
<1>4. outbound'[d] = q
  BY <1>1 DEF q
<1>5. ASSUME NEW k \in Key
      PROVE  /\ k \in received'[d] <=> IF m.key = k THEN m = Update("Add", k) ELSE k \in received[d]
  <2>1. m \in UpdateMsg
    BY <1>3
  <2>2. m = Update("Add", k) <=> m.type = "Add" /\ m.key = k
    BY <2>1 DEF UpdateMsg, Update
  <2> QED
    BY <1>2, <2>2 DEF Apply
<1>6. ASSUME NEW k \in Key PROVE WillHold(d, k)' <=> WillHold(d, k)
  BY <1>1, <1>3, <1>4, <1>5, WillHoldIs DEF Holds
<1>7. ASSUME NEW v \in Vni, Absent(d, v) PROVE Absent(d, v)'
  BY <1>1, <1>3, <1>4, <1>5, <1>7 DEF Absent
<1> QED
  BY <1>1, <1>6, <1>7, MovePeer

\* The task writes the next route of the answer to SUBSCRIBE.
LEMMA ReplayPeer ==
  ASSUME TypeOK, TypeOK', Observe, NEW d \in Conn, PeerOK(d), Replay(d), Lone(d)
  PROVE  PeerOK(d)'
<1>1. PICK k \in snapshot[d] :
        /\ snapshot' = [snapshot EXCEPT ![d] = @ \ {k}]
        /\ outbound' = [outbound EXCEPT ![d] = Written(d, <<Update("Add", k)>>)]
  BY DEF Replay
<1> DEFINE m == Update("Add", k)
<1>2. /\ snapshot'[d] = snapshot[d] \ {k} /\ outbound'[d] = outbound[d] \o <<m>>
      /\ chan'[d] = chan[d] /\ client'[d] = "open" /\ outbound[d] \in Seq(UpdateMsg) /\ k \in Key
      /\ Lone(d)' /\ UNCHANGED <<conn, actorVars>>
  BY <1>1 DEF Replay, Written, TypeOK, Lone
<1>3. m \in UpdateMsg /\ m.key = k
  BY <1>2, CommandFields
<1>4. outbound'[d] = Append(outbound[d], m)
  BY <1>2, <1>3, AppendIsConcat
<1>5. /\ received'[d] \subseteq received[d]
      /\ \A x \in received[d] : VniOf(x) \notin left'[d] => x \in received'[d]
  <2>1. <<m>> \in Seq(UpdateMsg)
    BY <1>3
  <2>2. ~Reads(d)
    BY <1>2, <2>1, NotRead
  <2> QED
    BY <1>2, <2>2, Observed
<1>6. ASSUME NEW x \in Key
      PROVE  /\ k = x => Mentions(outbound'[d], x) /\ LastIsAdd(outbound'[d], x)
             /\ k # x => (Mentions(outbound'[d], x) <=> Mentions(outbound[d], x))
             /\ k # x => (LastIsAdd(outbound'[d], x) <=> LastIsAdd(outbound[d], x))
  <2>1. /\ m.key = x => Mentions(Append(outbound[d], m), x)
        /\ m.key = x => (LastIsAdd(Append(outbound[d], m), x) <=> m = Update("Add", x))
        /\ m.key # x => (Mentions(Append(outbound[d], m), x) <=> Mentions(outbound[d], x))
        /\ m.key # x => (LastIsAdd(Append(outbound[d], m), x) <=> LastIsAdd(outbound[d], x))
    BY <1>2, <1>3, LastOfAppended
  <2> QED
    BY <1>3, <1>4, <2>1
<1> HIDE DEF m
<1>7. ASSUME NEW x \in Key, VniOf(x) \notin left'[d] PROVE WillHold(d, x)' <=> WillHold(d, x)
  BY <1>2, <1>5, <1>6, <1>7, WillHoldIs DEF Holds
<1>8. ASSUME NEW v \in Vni, Absent(d, v) PROVE Absent(d, v)'
  <2>1. VniOf(k) # v
    BY <1>2, <1>8 DEF Absent
  <2> QED
    BY <1>2, <1>5, <1>6, <1>8, <2>1 DEF Absent
<1> QED
  BY <1>2, <1>7, <1>8, MovePeer

\* The task writes a batch of its channel: there is no answer to SUBSCRIBE left
\* that it could overtake.
LEMMA DrainPeer ==
  ASSUME TypeOK, TypeOK', Observe, NEW d \in Conn, PeerOK(d), BlankTask(d),
         Drain(d), Lone(d)
  PROVE  PeerOK(d)'
<1>0. PICK n : n = IF Len(chan[d]) < BatchMax THEN Len(chan[d]) ELSE BatchMax
  OBVIOUS
<1> DEFINE old == SubSeq(chan[d], 1, n)
           new == SubSeq(chan[d], n + 1, Len(chan[d]))
<1>1. /\ chan[d] \in Seq(UpdateMsg) /\ chan[d] # <<>> /\ outbound[d] \in Seq(UpdateMsg)
      /\ chan'[d] = new /\ outbound'[d] = outbound[d] \o old
      /\ snapshot[d] = {} /\ snapshot'[d] = {} /\ client'[d] = "open"
      /\ Lone(d)' /\ UNCHANGED <<conn, actorVars>>
  BY <1>0 DEF Drain, InLoop, Written, BlankTask, TypeOK, Lone
<1>2. n \in 1..Len(chan[d])
  BY <1>0, <1>1, TailType, ConstantsAssumption
<1>3. ASSUME NEW k \in Key
      PROVE  /\ old \in Seq(UpdateMsg)
             /\ Mentions(chan[d], k) <=> Mentions(old, k) \/ Mentions(new, k)
             /\ Mentions(new, k) => (LastIsAdd(chan[d], k) <=> LastIsAdd(new, k))
             /\ ~Mentions(new, k) => (LastIsAdd(chan[d], k) <=> LastIsAdd(old, k))
             /\ Mentions(outbound[d] \o old, k) <=> Mentions(outbound[d], k) \/ Mentions(old, k)
             /\ Mentions(old, k) => (LastIsAdd(outbound[d] \o old, k) <=> LastIsAdd(old, k))
             /\ ~Mentions(old, k) => (LastIsAdd(outbound[d] \o old, k) <=> LastIsAdd(outbound[d], k))
  BY <1>1, <1>2, LastOfBatch
<1>4. /\ received'[d] \subseteq received[d]
      /\ \A k \in received[d] : VniOf(k) \notin left'[d] => k \in received'[d]
  <2>1. old \in Seq(UpdateMsg)
    BY <1>1, <1>2, SubSeqType
  <2>2. ~Reads(d)
    <3> HIDE DEF old
    <3> QED
      BY <1>1, <2>1, NotRead
  <2> QED
    BY <1>1, <2>2, Observed
<1> HIDE DEF old, new
<1>5. ASSUME NEW k \in Key, VniOf(k) \notin left'[d] PROVE WillHold(d, k)' <=> WillHold(d, k)
  BY <1>1, <1>3, <1>4, <1>5, WillHoldIs DEF Holds
<1>6. ASSUME NEW v \in Vni, Absent(d, v) PROVE Absent(d, v)'
  BY <1>1, <1>3, <1>4, <1>6 DEF Absent
<1> QED
  BY <1>1, <1>5, <1>6, MovePeer
\* A new task registers: it has nothing for its client, and the actor does not
\* have its channel yet.
LEMMA RegisterPeer ==
  ASSUME TypeOK, TypeOK', Observe, NEW d \in Conn, BlankTask(d), Register(d)
  PROVE  PeerOK(d)'
<1>1. /\ conn[d] = "handshake" /\ cmds' = Append(cmds, PeerConnected(d))
      /\ chan[d] = <<>> /\ chan'[d] = <<>> /\ outbound'[d] = <<>> /\ snapshot'[d] = {}
      /\ outbound[d] = <<>> /\ received[d] = {}
      /\ UNCHANGED tableVars
  BY DEF Register, SendConnected, Enqueue, BlankTask, TypeOK
<1>2. received'[d] = {}
  BY <1>1, EmptyStaysEmpty
<1>3. ASSUME NEW v \in Vni PROVE Absent(d, v)'
  BY <1>1, <1>2 DEF Absent, Mentions
<1>4. ASSUME NEW v \in Vni PROVE ~Served(d, v)'
  BY <1>1 DEF Served, BlankTask
<1> QED
  BY <1>3, <1>4, KeyVni DEF PeerOK, FreshPeer, Converges

\* The actor takes a command that changes no route and sends nothing.
LEMMA TakePeer ==
  ASSUME TypeOK, TypeOK', Observe, NEW d \in Conn, PeerOK(d), Lone(d),
         UNCHANGED <<clientVars, conn, routes>>, chan'[d] = chan[d], snapshot'[d] = snapshot[d],
         NEW cmd \in Command, Take(cmd),
         Registered(d)' => Registered(d) \/ Queued(PeerConnected(d)),
         \A v \in Vni :
           /\ Registered(d) /\ Registered(d)' /\ AddrOf[d] \in subscriptions[v]
                => AddrOf[d] \in subscriptions'[v] \/ v \in left'[d]
           /\ Registered(d)' /\ AddrOf[d] \in subscriptions'[v]
                => Registered(d) /\ AddrOf[d] \in subscriptions[v]
  PROVE  PeerOK(d)'
<1>1. Lone(d)' /\ left[d] \subseteq left'[d] /\ outbound'[d] = outbound[d]
  BY Observed DEF Lone
<1>2. Queued(PeerConnected(d))' => Queued(PeerConnected(d))
  BY TakenPlaces
<1>3. purge.slow = {}
  BY DEF Take, Idle
<1>4. ASSUME NEW v \in Vni PROVE Fresh(d, v)' => Fresh(d, v)
  BY <1>1, <1>2 DEF Fresh
<1>5. ASSUME NEW v \in Vni, Served(d, v)' PROVE Served(d, v)
  <2>1. Registered(d)' /\ AddrOf[d] \in subscriptions'[v]
    BY <1>5 DEF Served, Registered
  <2>2. Registered(d) /\ AddrOf[d] \in subscriptions[v]
    BY <2>1
  <2> QED
    BY <1>3, <2>2 DEF Served, Registered, Lone
<1> QED
  BY <1>1, <1>4, <1>5, PeerUntouched

\* PeerConnected: the address is unknown to the actor, and the peer is fresh.
LEMMA ConnectedPeer ==
  ASSUME TypeOK, TypeOK', NewcomersUnknown, Observe, NEW d \in Conn, PeerOK(d), Lone(d),
         NEW c \in Conn, ActorPeerConnected(c)
  PROVE  PeerOK(d)'
<1>1. PeerConnected(c) \in Command
  BY CommandFields
<1>2. /\ Take(PeerConnected(c)) /\ peers' = [peers EXCEPT ![AddrOf[c]] = c]
      /\ subscriptions' = subscriptions /\ UNCHANGED <<clientVars, handlerVars, routes>>
      /\ peers \in [Addr -> Conn \cup {NoConn}] /\ AddrOf \in [Conn -> Addr]
  BY ConstantsAssumption DEF ActorPeerConnected, TypeOK
<1>3. cmds[1] = PeerConnected(c) /\ 1 \in 1..Len(cmds) /\ Queued(PeerConnected(c))
  <2>1. cmds[1] = PeerConnected(c) /\ 1 \in 1..Len(cmds)
    BY <1>1, <1>2, TakenPlaces
  <2> QED
    BY <2>1 DEF Queued
<1>4. CASE c = d
  <2>1. Unknown(AddrOf[d])
    BY <1>3, <1>4 DEF NewcomersUnknown, DisconnectBefore
  <2> QED
    BY <1>1, <1>2, <1>3, <1>4, <2>1, TakePeer DEF Unknown
<1>5. CASE c # d
  <2>1. Registered(d)' => Registered(d)
    BY <1>2, <1>5 DEF Registered, Serving
  <2> QED
    BY <1>1, <1>2, <2>1, TakePeer
<1> QED
  BY <1>4, <1>5

\* UNSUBSCRIBE: the client has left the VNI.
LEMMA UnsubscribedPeer ==
  ASSUME TypeOK, TypeOK', Inv, BlankTasks, NewcomersUnknown, RequestsKnown, Observe,
         NEW d \in Conn, PeerOK(d), Lone(d), NEW c \in Conn, NEW v \in Vni, ActorUnsubscribe(c, v)
  PROVE  PeerOK(d)'
<1>0. PICK cmd : cmd = Forward(c, Unsubscribe(v))
  OBVIOUS
<1>1. cmd \in Command /\ cmd.from = c /\ Unsubscribe(v) \in Request
  BY <1>0, RequestFields, CommandFields
<1>2. /\ Take(cmd) /\ peers' = peers
      /\ subscriptions' = [subscriptions EXCEPT ![v] = @ \ {AddrOf[c]}]
      /\ UNCHANGED <<clientVars, handlerVars, routes>>
      /\ subscriptions \in [Vni -> SUBSET Addr]
  BY <1>0 DEF ActorUnsubscribe, TypeOK
<1>3. left[d] \subseteq left'[d]
  BY <1>2, Observed DEF Lone
<1>4. AddrOf[c] = AddrOf[d] /\ Registered(d) => v \in left[d]
  <2>1. CASE c = d
    <3>1. Queued(cmd)
      BY <1>1, <1>2, TakenPlaces
    <3> QED
      BY <1>0, <1>1, <2>1, <3>1 DEF RequestsKnown, Known, Lone
  <2>2. CASE c # d
    BY <1>1, <1>2, <2>2, LoneTaken
  <2> QED
    BY <2>1, <2>2
<1>5. Registered(d)' <=> Registered(d)
  BY <1>2 DEF Registered, Serving
<1>6. \A w \in Vni :
        /\ Registered(d) /\ AddrOf[d] \in subscriptions[w]
             => AddrOf[d] \in subscriptions'[w] \/ w \in left'[d]
        /\ AddrOf[d] \in subscriptions'[w] => AddrOf[d] \in subscriptions[w]
  BY <1>2, <1>3, <1>4
<1> QED
  BY <1>1, <1>2, <1>5, <1>6, TakePeer

\* PeerDisconnected: the address is in no map any more.
LEMMA DisconnectedPeer ==
  ASSUME TypeOK, TypeOK', Observe, NEW d \in Conn, PeerOK(d), Lone(d),
         NEW c \in Conn, ActorPeerDisconnected(c)
  PROVE  PeerOK(d)'
<1>1. PeerDisconnected(c) \in Command
  BY CommandFields
<1>2. /\ Take(PeerDisconnected(c))
      /\ peers' = [a \in Addr |-> IF a = AddrOf[c] THEN NoConn ELSE peers[a]]
      /\ subscriptions' = [v \in Vni |-> subscriptions[v] \ {AddrOf[c]}]
      /\ UNCHANGED <<clientVars, handlerVars, routes>>
      /\ AddrOf \in [Conn -> Addr] /\ NoConn \notin Conn
  BY ConstantsAssumption DEF ActorPeerDisconnected, DropPeers, ForgetChannels
<1>3. Registered(d)' => Registered(d) /\ AddrOf[d] # AddrOf[c]
  BY <1>2 DEF Registered, Serving
<1> QED
  BY <1>1, <1>2, <1>3, TakePeer

\* The slow consumers of a purge are dropped from every map at once.
LEMMA PurgedPeer ==
  ASSUME TypeOK, TypeOK', Observe, NEW d \in Conn, PeerOK(d), Lone(d), ActorPurgeDone
  PROVE  PeerOK(d)'
<1>1. /\ peers' = [a \in Addr |-> IF a \in purge.slow THEN NoConn ELSE peers[a]]
      /\ subscriptions' = [v \in Vni |-> subscriptions[v] \ purge.slow]
      /\ UNCHANGED <<clientVars, handlerVars, routes, cmds>>
      /\ AddrOf \in [Conn -> Addr] /\ NoConn \notin Conn
  BY ConstantsAssumption DEF ActorPurgeDone, DropPeers, ForgetChannels
<1>2. Queued(PeerConnected(d))' <=> Queued(PeerConnected(d))
  BY <1>1, SameQueue
<1>3. Registered(d)' => Registered(d) /\ AddrOf[d] \notin purge.slow
  BY <1>1 DEF Registered, Serving
<1>4. left[d] \subseteq left'[d] /\ Lone(d)'
  BY <1>1, Observed DEF Lone
<1>5. ASSUME NEW v \in Vni PROVE Fresh(d, v)' => Fresh(d, v)
  BY <1>1, <1>2, <1>3, <1>4 DEF Fresh
<1>6. ASSUME NEW v \in Vni PROVE Served(d, v)' => Served(d, v)
  <2>1. Served(d, v)' => Registered(d)' /\ AddrOf[d] \in subscriptions'[v]
    BY DEF Served, Registered
  <2> QED
    BY <1>1, <1>3, <2>1 DEF Served, Registered, Lone
<1> QED
  BY <1>1, <1>4, <1>5, <1>6, PeerUntouched

\* SUBSCRIBE: the answer holds the routes of the VNI as they are now.  What is
\* under way already was either right for an earlier subscription or nothing.
LEMMA SubscribedPeer ==
  ASSUME TypeOK, TypeOK', Inv, BlankTasks, NewcomersUnknown, Observe,
         NEW d \in Conn, PeerOK(d), Lone(d), NEW c \in Conn, NEW v \in Vni, ActorSubscribe(c, v)
  PROVE  PeerOK(d)'
<1>0. PICK cmd : cmd = Forward(c, Subscribe(v))
  OBVIOUS
<1>1. /\ cmd \in Command /\ cmd.from = c /\ cmd.op = "Subscribe" /\ cmd # PeerConnected(d)
  BY <1>0, RequestFields, CommandFields
<1>2. /\ Take(cmd) /\ peers' = peers /\ routes' = routes /\ purge' = purge
      /\ subscriptions' = [subscriptions EXCEPT ![v] = @ \cup {AddrOf[c]}]
      /\ snapshot' = [snapshot EXCEPT ![c] = routes \cap KeysOf(v)]
      /\ conn' = [conn EXCEPT ![c] = "replay"]
      /\ chan' = chan /\ UNCHANGED clientVars
      /\ subscriptions \in [Vni -> SUBSET Addr] /\ conn \in [Conn -> ConnState]
      /\ snapshot \in [Conn -> SUBSET Key] /\ routes \subseteq Key
  BY <1>0 DEF ActorSubscribe, ExistingRoutes, TypeOK
<1>3. /\ left[d] \subseteq left'[d] /\ touched[d] \subseteq touched'[d]
      /\ Lone(d)' /\ outbound'[d] = outbound[d]
      /\ received'[d] \subseteq received[d]
      /\ \A k \in received[d] : VniOf(k) \notin left'[d] => k \in received'[d]
  BY <1>2, NotRead, Observed DEF Lone
<1>4. conn[c] = "subscribing"
  <2>1. cmds[1] = cmd /\ 1 \in 1..Len(cmds)
    BY <1>1, <1>2, TakenPlaces
  <2> QED
    BY <1>1, <2>1 DEF Inv, OneAnswerPerSubscribe
<1>5. /\ Queued(PeerConnected(d))' => Queued(PeerConnected(d))
      /\ Serving(d)' <=> Serving(d)
      /\ Registered(d)' <=> Registered(d)
  <2>1. Serving(d)' <=> Serving(d)
    BY <1>2, <1>4 DEF Serving
  <2> QED
    BY <1>1, <1>2, <2>1, TakenPlaces DEF Registered
<1>6. CASE c # d
  <2>1. snapshot'[d] = snapshot[d]
    BY <1>2, <1>6
  <2>2. Registered(d) => \A w \in Vni : AddrOf[d] \in subscriptions'[w] <=> AddrOf[d] \in subscriptions[w]
    <3>1. CASE AddrOf[c] = AddrOf[d]
      BY <1>1, <1>2, <1>6, <3>1, LoneTaken
    <3>2. CASE AddrOf[c] # AddrOf[d]
      BY <1>2, <3>2
    <3> QED
      BY <3>1, <3>2
  <2>3. ASSUME NEW w \in Vni PROVE Fresh(d, w)' => Fresh(d, w)
    BY <1>3, <1>5, <2>2 DEF Fresh
  <2>4. ASSUME NEW w \in Vni PROVE Served(d, w)' => Served(d, w)
    <3>1. Served(d, w)' => Registered(d)' /\ AddrOf[d] \in subscriptions'[w] \ purge.slow
      BY <1>2 DEF Served, Registered
    <3> QED
      BY <1>5, <2>2, <3>1 DEF Served, Registered, Lone
  <2> QED
    BY <1>2, <1>3, <2>1, <2>3, <2>4, PeerUntouched
<1>7. CASE c = d
  <2>1. Serving(d) /\ ~Queued(PeerConnected(d))' /\ snapshot[d] = {}
    BY <1>1, <1>2, <1>4, <1>7, RegistrationFirst DEF Serving, BlankTasks, BlankTask
  <2>2. /\ snapshot'[d] = routes \cap KeysOf(v)
        /\ \A w \in Vni : AddrOf[d] \in subscriptions'[w] <=> AddrOf[d] \in subscriptions[w] \/ w = v
    BY <1>2, <1>7, ConstantsAssumption
  <2>3. ASSUME NEW w \in Vni, Fresh(d, w)' PROVE Absent(d, w)'
    <3>1. w # v /\ Registered(d) /\ AddrOf[d] \notin subscriptions[w] /\ w \notin left[d]
      BY <1>3, <1>5, <2>1, <2>2, <2>3 DEF Fresh
    <3>2. Absent(d, w)
      BY <3>1 DEF Fresh, PeerOK, FreshPeer
    <3>3. \A k \in Key : VniOf(k) = w => k \notin snapshot'[d]
      BY <2>2, <3>1, KeyVni
    <3> QED
      BY <1>2, <1>3, <3>2, <3>3 DEF Absent
  <2>4. ASSUME NEW k \in Key, Served(d, VniOf(k))', k \notin touched'[d], VniOf(k) \notin left'[d]
        PROVE  WillHold(d, k)' <=> k \in routes
    <3>1. VniOf(k) \in Vni /\ (k \in KeysOf(v) <=> VniOf(k) = v)
      BY KeyVni
    <3>2. /\ Registered(d) /\ AddrOf[d] \notin purge.slow
          /\ VniOf(k) \notin left[d] /\ k \notin touched[d]
      BY <1>2, <1>3, <2>1, <2>4 DEF Served, Registered
    <3>3. CASE AddrOf[d] \in subscriptions[VniOf(k)]
      <4>1. Served(d, VniOf(k))
        BY <3>2, <3>3 DEF Served, Registered, Lone
      <4>2. WillHold(d, k) <=> k \in routes
        BY <3>2, <4>1 DEF PeerOK, Converges
      <4> QED
        BY <1>2, <1>3, <2>1, <2>2, <2>4, <4>2, WillHoldIs DEF Holds
    <3>4. CASE AddrOf[d] \notin subscriptions[VniOf(k)]
      <4>1. VniOf(k) = v
        BY <2>2, <2>4, <3>1, <3>4 DEF Served
      <4>2. Absent(d, v)
        BY <3>1, <3>2, <3>4, <4>1 DEF Fresh, PeerOK, FreshPeer
      <4> QED
        BY <1>2, <1>3, <2>2, <3>1, <4>1, <4>2, WillHoldIs DEF Holds, Absent
    <3> QED
      BY <3>3, <3>4
  <2> QED
    BY <1>2, <2>3, <2>4 DEF PeerOK, FreshPeer, Converges
<1> QED
  BY <1>6, <1>7
\* A route changes and the change is distributed: every subscriber that stays
\* gets it, behind everything else, or announced or withdrew the route itself.
LEMMA ChangedPeer ==
  ASSUME TypeOK, TypeOK', BlankTasks, NewcomersUnknown, Observe, NEW d \in Conn, PeerOK(d),
         Lone(d), UNCHANGED <<clientVars, conn, snapshot>>,
         NEW k \in Key, NEW t \in {"Add", "Remove"}, NEW from,
         Distribute(VniOf(k), from, Update(t, k)),
         routes' = IF t = "Add" THEN routes \cup {k} ELSE routes \ {k},
         from = AddrOf[d] /\ Registered(d) => k \in touched[d],
         \A w \in Vni : Fresh(d, w)' => Fresh(d, w),
         \A w \in Vni : Served(d, w)' => Served(d, w) /\ AddrOf[d] \notin SlowConsumers(VniOf(k), from)
  PROVE  PeerOK(d)'
<1> DEFINE m == Update(t, k)
           v == VniOf(k)
<1>1. /\ left[d] \subseteq left'[d] /\ touched[d] \subseteq touched'[d]
      /\ outbound'[d] = outbound[d] /\ snapshot'[d] = snapshot[d]
      /\ received'[d] \subseteq received[d]
      /\ \A x \in received[d] : VniOf(x) \notin left'[d] => x \in received'[d]
  BY NotRead, Observed DEF Lone
<1>2. /\ chan[d] \in Seq(UpdateMsg) /\ m \in UpdateMsg /\ m.key = k /\ m.type = t /\ v \in Vni
  BY CommandFields, KeyVni DEF TypeOK
<1>3. \/ /\ d \in Targets(v, from) /\ AddrOf[d] \notin SlowConsumers(v, from)
         /\ chan'[d] = Append(chan[d], m)
      \/ /\ d \notin Targets(v, from) \/ AddrOf[d] \in SlowConsumers(v, from)
         /\ chan'[d] = chan[d]
  BY Distributed
<1>4. ASSUME NEW x \in Key
      PROVE  /\ x # k => (Mentions(chan'[d], x) <=> Mentions(chan[d], x))
             /\ x # k => (LastIsAdd(chan'[d], x) <=> LastIsAdd(chan[d], x))
             /\ chan'[d] = Append(chan[d], m) =>
                  Mentions(chan'[d], k) /\ (LastIsAdd(chan'[d], k) <=> t = "Add")
  <2>1. /\ m.key # x => (Mentions(Append(chan[d], m), x) <=> Mentions(chan[d], x))
        /\ m.key # x => (LastIsAdd(Append(chan[d], m), x) <=> LastIsAdd(chan[d], x))
        /\ Mentions(Append(chan[d], m), k)
        /\ LastIsAdd(Append(chan[d], m), k) <=> m = Update("Add", k)
    <3> HIDE DEF m
    <3> QED
      BY <1>2, LastOfAppended
  <2>2. m = Update("Add", k) <=> t = "Add"
    BY DEF Update
  <2> HIDE DEF m
  <2> QED
    BY <1>2, <1>3, <2>1, <2>2
<1> HIDE DEF m
<1>5. ASSUME NEW w \in Vni, Fresh(d, w)' PROVE Absent(d, w)'
  <2>1. Absent(d, w)
    BY <1>5 DEF PeerOK, FreshPeer, Lone
  <2>2. CASE w # v
    BY <1>1, <1>4, <2>1, <2>2 DEF Absent
  <2>3. CASE w = v
    <3>1. d \notin Targets(v, from)
      <4> SUFFICES ASSUME d \in Targets(v, from) PROVE FALSE
        OBVIOUS
      <4>1. AddrOf[d] \in subscriptions[v] /\ peers[AddrOf[d]] = d
        BY TargetsServed
      <4>2. ~Queued(PeerConnected(d))
        BY <4>1 DEF Queued, NewcomersUnknown
      <4> QED
        BY <1>5, <2>3, <4>1, <4>2 DEF Fresh
    <3>2. chan'[d] = chan[d]
      BY <1>3, <3>1
    <3> QED
      BY <1>1, <2>1, <3>2 DEF Absent
  <2> QED
    BY <2>2, <2>3
<1>6. ASSUME NEW x \in Key, Served(d, VniOf(x))', x \notin touched'[d], VniOf(x) \notin left'[d]
      PROVE  WillHold(d, x)' <=> x \in routes'
  <2>1. /\ Served(d, VniOf(x)) /\ AddrOf[d] \notin SlowConsumers(v, from)
        /\ x \notin touched[d] /\ VniOf(x) \notin left[d]
    BY <1>1, <1>6, KeyVni
  <2>2. CASE x = k
    <3>1. d \in Targets(v, from)
      BY <1>1, <2>1, <2>2 DEF Served, Registered, Targets, RxAlive, Serving
    <3>2. chan'[d] = Append(chan[d], m)
      BY <1>3, <2>1, <3>1
    <3> QED
      BY <1>4, <2>2, <3>2, WillHoldIs DEF Holds
  <2>3. CASE x # k
    <3>1. WillHold(d, x) <=> x \in routes
      BY <2>1 DEF PeerOK, Converges
    <3>2. WillHold(d, x)' <=> WillHold(d, x)
      BY <1>1, <1>4, <1>6, <2>3, WillHoldIs DEF Holds
    <3> QED
      BY <2>3, <3>1, <3>2
  <2> QED
    BY <2>2, <2>3
<1> QED
  BY <1>5, <1>6 DEF PeerOK, FreshPeer, Converges

\* UPDATE: the sender knows; a slow consumer is dropped in the same step.
LEMMA UpdatedPeer ==
  ASSUME TypeOK, TypeOK', Inv, BlankTasks, NewcomersUnknown, RequestsKnown, Observe,
         NEW d \in Conn, PeerOK(d), Lone(d),
         NEW c \in Conn, NEW k \in Key, ActorAdd(c, k) \/ ActorRemove(c, k)
  PROVE  PeerOK(d)'
<1>0. PICK S : S = SlowConsumers(VniOf(k), AddrOf[c])
  OBVIOUS
<1>1. PICK t \in {"Add", "Remove"} :
        /\ Take(Forward(c, Update(t, k)))
        /\ Distribute(VniOf(k), AddrOf[c], Update(t, k))
        /\ routes' = IF t = "Add" THEN routes \cup {k} ELSE routes \ {k}
  BY DEF ActorAdd, ActorRemove
<1>2. /\ peers' = [a \in Addr |-> IF a \in S THEN NoConn ELSE peers[a]]
      /\ subscriptions' = [v \in Vni |-> subscriptions[v] \ S]
      /\ UNCHANGED <<clientVars, conn, snapshot, purge>>
      /\ AddrOf \in [Conn -> Addr] /\ NoConn \notin Conn
  BY <1>0, ConstantsAssumption DEF ActorAdd, ActorRemove, DropPeers, ForgetChannels
<1>3. PICK cmd : cmd = Forward(c, Update(t, k))
  OBVIOUS
<1>4. cmd \in Command /\ cmd.from = c /\ Update(t, k) \in Request /\ Take(cmd)
  BY <1>1, <1>3, RequestFields, CommandFields
<1>5. /\ Queued(PeerConnected(d))' => Queued(PeerConnected(d))
      /\ Registered(d)' => Registered(d) /\ AddrOf[d] \notin S
  BY <1>2, <1>4, TakenPlaces DEF Registered, Serving
<1>6. ASSUME AddrOf[c] = AddrOf[d], Registered(d) PROVE k \in touched[d]
  <2>1. c = d
    BY <1>4, <1>6, LoneTaken
  <2>2. Queued(cmd)
    BY <1>4, TakenPlaces
  <2>3. Known(touched[d], left[d], Update(t, k))
    BY <1>3, <1>4, <2>1, <2>2 DEF RequestsKnown, Lone
  <2> QED
    BY <2>3 DEF Known
<1>7. left[d] \subseteq left'[d]
  BY <1>2, Observed DEF Lone
<1>8. ASSUME NEW w \in Vni PROVE Fresh(d, w)' => Fresh(d, w)
  BY <1>2, <1>5, <1>7 DEF Fresh
<1>9. ASSUME NEW w \in Vni, Served(d, w)' PROVE Served(d, w) /\ AddrOf[d] \notin S
  <2>1. Registered(d)' /\ AddrOf[d] \in subscriptions'[w] \ purge.slow
    BY <1>2, <1>9 DEF Served, Registered
  <2> QED
    BY <1>2, <1>5, <2>1 DEF Served, Registered, Lone
<1> QED
  BY <1>0, <1>1, <1>2, <1>6, <1>8, <1>9, ChangedPeer

\* A route of a peer that disconnected is withdrawn: the slow consumers met on
\* the way are not served any more, though they are dropped only at the end.
LEMMA WithdrawnPeer ==
  ASSUME TypeOK, TypeOK', BlankTasks, NewcomersUnknown, Observe,
         NEW d \in Conn, PeerOK(d), Lone(d), NEW k \in Key, ActorPurgeRoute(k)
  PROVE  PeerOK(d)'
<1>0. PICK S : S = SlowConsumers(VniOf(k), purge.addr)
  OBVIOUS
<1>1. /\ Distribute(VniOf(k), purge.addr, Update("Remove", k)) /\ routes' = routes \ {k}
      /\ UNCHANGED <<clientVars, conn, snapshot, subscriptions, peers, cmds>>
      /\ purge' = [purge EXCEPT !.keys = @ \ {k}, !.slow = @ \cup S]
  BY <1>0 DEF ActorPurgeRoute
<1>2. purge'.slow = purge.slow \cup S
  BY <1>1 DEF TypeOK
<1>3. purge.addr = AddrOf[d] => ~Registered(d)
  BY ConstantsAssumption DEF BlankTasks, Registered
<1>4. /\ Queued(PeerConnected(d))' <=> Queued(PeerConnected(d))
      /\ Registered(d)' <=> Registered(d)
  BY <1>1, SameQueue DEF Registered, Serving
<1>5. left[d] \subseteq left'[d]
  BY <1>1, Observed DEF Lone
<1>6. ASSUME NEW w \in Vni PROVE Fresh(d, w)' => Fresh(d, w)
  BY <1>1, <1>4, <1>5 DEF Fresh
<1>7. ASSUME NEW w \in Vni, Served(d, w)' PROVE Served(d, w) /\ AddrOf[d] \notin S
  <2>1. Registered(d)' /\ AddrOf[d] \in subscriptions'[w] \ purge'.slow
    BY <1>7 DEF Served, Registered
  <2> QED
    BY <1>1, <1>2, <1>4, <2>1 DEF Served, Registered, Lone
<1>8. routes' = IF "Remove" = "Add" THEN routes \cup {k} ELSE routes \ {k}
  BY <1>1
<1> QED
  BY <1>0, <1>1, <1>3, <1>6, <1>7, <1>8, ChangedPeer

\* A connection is accepted: nothing of it is queued yet.
LEMMA AcceptedPeer ==
  ASSUME TypeOK, TypeOK', Inv, NEW d \in Conn, Accept(d)
  PROVE  PeerOK(d)'
<1>1. conn[d] = "none" /\ ~Serving(d)' /\ cmds' = cmds
  BY DEF Accept, Serving, TypeOK
<1>2. ~Queued(PeerConnected(d))'
  <2>1. ASSUME NEW i \in 1..Len(cmds) PROVE cmds[i].from # d
    BY <1>1 DEF Inv, TaskQueue, Serving
  <2>2. ~Queued(PeerConnected(d))
    BY <2>1, CommandFields DEF Queued
  <2> QED
    BY <1>1, <2>2, SameQueue
<1>3. ~Registered(d)' /\ \A v : ~Served(d, v)'
  BY <1>1 DEF Registered, Served
<1> QED
  BY <1>2, <1>3 DEF PeerOK, FreshPeer, Fresh, Converges

\* Every step keeps every subscriber on the way to the server's table; one case
\* per action.
LEMMA PeerStep ==
  ASSUME TypeOK, TypeOK', Inv, BlankTasks, NewcomersUnknown, RequestsKnown, Next, Observe,
         NEW d \in Conn, PeerOK(d)
  PROVE  PeerOK(d)'
<1>0. /\ client \in [Conn -> {"open", "closed"}] /\ inbound \in [Conn -> Seq(Request)]
      /\ outbound \in [Conn -> Seq(UpdateMsg)] /\ conn \in [Conn -> ConnState]
      /\ chan \in [Conn -> Seq(UpdateMsg)] /\ snapshot \in [Conn -> SUBSET Key]
      /\ BlankTask(d)
  BY DEF TypeOK, BlankTasks
<1> SUFFICES ASSUME Lone(d)' PROVE PeerOK(d)'
  BY GoneIsOK
<1>a. client'[d] = "open" /\ (Lone(d) \/ Accept(d))
  BY LoneStep DEF Lone
<1>1. CASE Accept(d)
  BY <1>1, AcceptedPeer
<1> SUFFICES ASSUME Lone(d) PROVE PeerOK(d)'
  BY <1>1, <1>a
<1>2. CASE ClientRead(d) \/ Replay(d) \/ Drain(d)
  BY <1>0, <1>2, ReadPeer, ReplayPeer, DrainPeer
<1>3. CASE Register(d)
  BY <1>0, <1>3, RegisterPeer
<1>4. ASSUME NEW c \in Conn,
             \/ c # d /\ (Accept(c) \/ ClientRead(c) \/ Replay(c) \/ Drain(c) \/ ReplayDone(c))
             \/ ClientClose(c) \/ HandshakeFail(c)
             \/ \E m \in Request : ClientSend(c, m) \/ BlockOnFull(c, m)
             \/ Eof(c) \/ LoopError(c) \/ ShutdownBreak(c)
      PROVE  PeerOK(d)'
  <2>1. /\ chan'[d] = chan[d] /\ snapshot'[d] = snapshot[d]
        /\ outbound'[d] = outbound[d] /\ UNCHANGED actorVars
    BY <1>0, <1>a, <1>4 DEF Accept, ClientRead, Replay, Drain, ReplayDone, ClientClose, HandshakeFail,
         Return, ClientSend, BlockOnFull, Eof, LoopError, ShutdownBreak
  <2>2. Serving(d)' => Serving(d)
    BY <1>0, <1>a, <1>4 DEF Serving, Accept, ClientRead, Replay, Drain, ReplayDone, ClientClose,
         HandshakeFail, Return, ClientSend, BlockOnFull, Eof, LoopError, ShutdownBreak, InLoop
  <2> QED
    BY <2>1, <2>2, QuietPeer
<1>5. CASE ReplayDone(d)
  <2>1. /\ chan'[d] = chan[d] /\ snapshot'[d] = snapshot[d]
        /\ outbound'[d] = outbound[d] /\ UNCHANGED actorVars /\ Serving(d)
    BY <1>0, <1>5 DEF ReplayDone, Serving, Lone
  <2> QED
    BY <2>1, QuietPeer
<1>6. ASSUME NEW c \in Conn, NEW m \in Request, HandleRequest(c, m) PROVE PeerOK(d)'
  <2>1. PICK cmd : cmd = Forward(c, m)
    OBVIOUS
  <2>2. cmd \in Command /\ cmd # PeerConnected(d)
    BY <2>1, CommandFields
  <2>3. /\ chan'[d] = chan[d] /\ snapshot'[d] = snapshot[d]
        /\ outbound'[d] = outbound[d] /\ cmds' = Append(cmds, cmd) /\ UNCHANGED <<tableVars, purge>>
    BY <1>6, <2>1 DEF HandleRequest, Enqueue
  <2>4. Serving(d)' => Serving(d)
    BY <1>0, <1>6 DEF Serving, HandleRequest, Handling, InLoop
  <2> QED
    BY <2>2, <2>3, <2>4, SendPeer
<1>7. ASSUME NEW c \in Conn, c # d, Register(c) PROVE PeerOK(d)'
  <2>1. PeerConnected(c) \in Command /\ PeerConnected(c) # PeerConnected(d)
    BY <1>7, CommandFields
  <2>2. /\ chan'[d] = chan[d] /\ snapshot'[d] = snapshot[d]
        /\ outbound'[d] = outbound[d] /\ cmds' = Append(cmds, PeerConnected(c))
        /\ UNCHANGED <<tableVars, purge>>
        /\ Serving(d)' => Serving(d)
    BY <1>0, <1>7 DEF Register, SendConnected, Enqueue, Serving
  <2> QED
    BY <2>1, <2>2, SendPeer
<1>8. ASSUME NEW c \in Conn, Cleanup(c) PROVE PeerOK(d)'
  <2>1. PeerDisconnected(c) \in Command /\ PeerDisconnected(c) # PeerConnected(d)
    BY CommandFields
  <2>2. /\ chan'[d] = chan[d] /\ snapshot'[d] = snapshot[d]
        /\ outbound'[d] = outbound[d] /\ cmds' = Append(cmds, PeerDisconnected(c))
        /\ UNCHANGED <<tableVars, purge>>
        /\ Serving(d)' => Serving(d)
    BY <1>0, <1>a, <1>8 DEF Cleanup, SendDisconnected, Enqueue, Return, Serving
  <2> QED
    BY <2>1, <2>2, SendPeer
<1>9. CASE ActorStep
  BY <1>9, ConnectedPeer, DisconnectedPeer, SubscribedPeer, UnsubscribedPeer,
     UpdatedPeer, WithdrawnPeer, PurgedPeer DEF ActorStep
<1>10. CASE Shutdown \/ DropServer \/ StopAccepting \/ Terminated
  <2>1. /\ chan'[d] = chan[d] /\ snapshot'[d] = snapshot[d]
        /\ outbound'[d] = outbound[d] /\ UNCHANGED actorVars /\ (Serving(d)' => Serving(d))
    BY <1>10 DEF Shutdown, DropServer, StopAccepting, Terminated, Serving
  <2> QED
    BY <2>1, QuietPeer
<1>11. \A c \in Conn : c = d \/ c # d
  OBVIOUS
<1> QED
  BY <1>1, <1>2, <1>3, <1>4, <1>5, <1>6, <1>7, <1>8, <1>9, <1>10, <1>11
  DEF Next, ClientStep, HandlerStep

-----------------------------------------------------------------------------
\* The invariant holds in a server that has just started and has no clients.
LEMMA DistInvInit == DistInit => DistInv
<1> SUFFICES ASSUME DistInit PROVE DistInv
  OBVIOUS
<1> USE DEF DistInit, Init
<1>1. NewcomersUnknown
  BY DEF NewcomersUnknown
<1>2. BlankTasks
  BY ConstantsAssumption DEF BlankTasks, BlankTask, Idle
<1>3. RequestsKnown /\ FreshPeers
  BY DEF RequestsKnown, FreshPeers, FreshPeer, Lone
<1>4. SubscribersConverge
  BY DEF SubscribersConverge, Served
<1> QED
  BY <1>1, <1>2, <1>3, <1>4 DEF DistInv

\* Every step of the server with its clients keeps the invariant.
LEMMA DistInvStep ==
  ASSUME TypeOK, TypeOK', Inv, DistInv, [DistNext]_distVars
  PROVE  DistInv'
<1>1. CASE UNCHANGED distVars
  BY <1>1 DEF distVars, DistInv, NewcomersUnknown, Lone, DisconnectBefore, Unknown, BlankTasks,
       BlankTask, RequestsKnown, Queued, FreshPeers, FreshPeer, Fresh, Registered, Serving, Absent,
       SubscribersConverge, Served, WillHold
<1>2. CASE DistNext
  <2>1. Next /\ Observe /\ [Next]_vars
    BY <1>2 DEF DistNext
  <2>2. NewcomersUnknown' /\ BlankTasks' /\ RequestsKnown'
    BY <2>1, NewcomersStep, BlankStep, RequestsStep DEF DistInv
  <2>3. ASSUME NEW d \in Conn PROVE PeerOK(d)'
    <3>1. PeerOK(d)
      BY DEF DistInv, FreshPeers, SubscribersConverge, PeerOK, Converges
    <3> QED
      BY <2>1, <3>1, PeerStep DEF DistInv
  <2>4. FreshPeers' /\ SubscribersConverge'
    BY <2>3 DEF FreshPeers, SubscribersConverge, PeerOK, Converges
  <2> QED
    BY <2>2, <2>4 DEF DistInv
<1> QED
  BY <1>1, <1>2

\* Convergence: in every reachable state, for any number of clients, VNIs and
\* routes, what is on a stream, in an answer to SUBSCRIBE and in a channel is
\* exactly what makes a subscriber's table the server's, if the task of its
\* connection never ran beside another one of its address.
THEOREM SubscribersAlwaysConverge == DistSpec => []SubscribersConverge
<1>1. DistInit => TypeOK /\ Inv /\ DistInv
  BY TypeInit, InvInit, DistInvInit DEF DistInit
<1>2. TypeOK /\ Inv /\ DistInv /\ [DistNext]_distVars => (TypeOK /\ Inv /\ DistInv)'
  <2> SUFFICES ASSUME TypeOK, Inv, DistInv, [DistNext]_distVars PROVE (TypeOK /\ Inv /\ DistInv)'
    OBVIOUS
  <2>1. [Next]_vars
    BY DEF DistNext, distVars
  <2>2. TypeOK'
    BY <2>1, TypeStep
  <2> QED
    BY <2>1, <2>2, InvStep, DistInvStep
<1>3. TypeOK /\ Inv /\ DistInv => SubscribersConverge
  BY DEF DistInv
<1> QED
  BY <1>1, <1>2, <1>3, PTL DEF DistSpec
=============================================================================
