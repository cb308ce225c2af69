------------------------ MODULE RoutingServerProofs ------------------------
(***************************************************************************)
(* Proofs about RoutingServer, for any number of connections, addresses,   *)
(* VNIs and routes and any channel capacities.                             *)
(***************************************************************************)
EXTENDS RoutingServer, SequenceTheorems, TLAPS

\* A batch taken off a channel (Drain): type and length of a subsequence.
LEMMA SubSeqType ==
  ASSUME NEW S, NEW q \in Seq(S), NEW n \in 1..Len(q)
  PROVE  /\ SubSeq(q, n + 1, Len(q)) \in Seq(S)
         /\ SubSeq(q, 1, n) \in Seq(S)
         /\ Len(SubSeq(q, n + 1, Len(q))) = Len(q) - n
         /\ Len(SubSeq(q, 1, n)) = n
<1>1. /\ Len(q) \in Nat /\ n \in Nat
      /\ \A i \in 1..Len(q) : q[i] \in S
  BY LenProperties, ElementOfSeq
<1>2. \A i \in n+1..Len(q) : q[i] \in S
  BY <1>1
<1>3. \A i \in 1..n : q[i] \in S
  BY <1>1
<1>4. /\ SubSeq(q, n + 1, Len(q)) \in Seq(S)
      /\ Len(SubSeq(q, n + 1, Len(q))) = IF n + 1 <= Len(q) THEN Len(q) - (n + 1) + 1 ELSE 0
  BY <1>1, <1>2, SubSeqProperties
<1>5. /\ SubSeq(q, 1, n) \in Seq(S)
      /\ Len(SubSeq(q, 1, n)) = IF 1 <= n THEN n - 1 + 1 ELSE 0
  BY <1>1, <1>3, SubSeqProperties
<1> QED
  BY <1>1, <1>4, <1>5

\* The definitions that an action is expanded into.
USE DEF clientVars, handlerVars, tableVars, actorVars, vars

\* RoutingActor::new and start leave the variables well typed.
LEMMA TypeInit == Init => TypeOK
  BY ConstantsAssumption DEF Init, TypeOK, Idle, ConnState

\* Taking the head off a queue keeps its type and shortens it by one.
LEMMA TailType ==
  ASSUME NEW S, NEW q \in Seq(S), q # <<>>
  PROVE  /\ Tail(q) \in Seq(S)
         /\ Len(q) \in Nat \ {0}
         /\ Len(Tail(q)) = Len(q) - 1
         /\ \A i \in 1..Len(q) - 1 : Tail(q)[i] = q[i + 1]
  BY HeadTailProperties, LenProperties, EmptySeq

\* The command queue stays well typed when the actor takes a command (run).
LEMMA TakeType ==
  ASSUME TypeOK, NEW cmd, Take(cmd)
  PROVE  cmds' \in Seq(Command) /\ Len(cmds') <= CmdCap
<1>1. cmds \in Seq(Command) /\ Len(cmds) <= CmdCap /\ cmds # <<>> /\ cmds' = Tail(cmds)
  BY DEF TypeOK, Take
<1> QED
  BY <1>1, TailType, ConstantsAssumption

WrittenOK(c, ms) ==
  /\ Written(c, ms) \in Seq(UpdateMsg)
  /\ Len(Written(c, ms)) <= SockCap + BatchMax

\* A batch or a route written to a stream with room (write_all) keeps the bound.
LEMMA WrittenType ==
  ASSUME TypeOK, NEW c \in Conn, WriteDone(c),
         NEW ms \in Seq(UpdateMsg), Len(ms) <= BatchMax
  PROVE  WrittenOK(c, ms)
<1>1. outbound[c] \in Seq(UpdateMsg) /\ Len(outbound[c]) \in Nat /\ Len(ms) \in Nat
  BY LenProperties DEF TypeOK
<1>2. outbound[c] \o ms \in Seq(UpdateMsg) /\ Len(outbound[c] \o ms) = Len(outbound[c]) + Len(ms)
  BY <1>1, ConcatProperties
<1> QED
  BY <1>1, <1>2, ConstantsAssumption DEF WrittenOK, Written, WriteDone

\* What distribution drops are addresses.
LEMMA SlowType ==
  ASSUME NEW v, NEW from
  PROVE  SlowConsumers(v, from) \subseteq Addr
  BY ConstantsAssumption DEF SlowConsumers, Targets

\* Forgetting channels and subscriptions (DropPeers) keeps the types.
LEMMA DropType ==
  ASSUME TypeOK, NEW S, DropPeers(S)
  PROVE  /\ peers' \in [Addr -> Conn \cup {NoConn}]
         /\ subscriptions' \in [Vni -> SUBSET Addr]
  BY DEF TypeOK, DropPeers, ForgetChannels

\* Distribution (try_send) keeps every channel within its capacity.
LEMMA DistributeType ==
  ASSUME TypeOK, NEW k \in Key, NEW from, NEW t \in {"Add", "Remove"},
         Distribute(VniOf(k), from, Update(t, k))
  PROVE  /\ chan' \in [Conn -> Seq(UpdateMsg)]
         /\ \A c \in Conn : Len(chan'[c]) <= MaxPending
<1>1. Update(t, k) \in UpdateMsg
  BY DEF Update, UpdateMsg
<1>2. ASSUME NEW c \in Conn
      PROVE  chan'[c] \in Seq(UpdateMsg) /\ Len(chan'[c]) <= MaxPending
  <2>1. chan[c] \in Seq(UpdateMsg) /\ Len(chan[c]) \in Nat /\ Len(chan[c]) <= MaxPending
    BY LenProperties DEF TypeOK
  <2>2. /\ Append(chan[c], Update(t, k)) \in Seq(UpdateMsg)
        /\ Len(Append(chan[c], Update(t, k))) = Len(chan[c]) + 1
    BY <1>1, <2>1, AppendProperties
  <2>3. CASE c \in Targets(VniOf(k), from) /\ ~Full(c)
    BY <2>1, <2>2, <2>3, ConstantsAssumption DEF Distribute, Full
  <2>4. CASE ~(c \in Targets(VniOf(k), from) /\ ~Full(c))
    BY <2>1, <2>4 DEF Distribute
  <2> QED
    BY <2>3, <2>4
<1> QED
  BY <1>2 DEF Distribute

\* Every step keeps the types and the bounds; one case per action.
LEMMA TypeStep ==
  ASSUME TypeOK, [Next]_vars
  PROVE  TypeOK'
<1> USE DEF TypeOK, ConnState
<1>1. ASSUME NEW c \in Conn, Accept(c) PROVE TypeOK'
  BY <1>1, ConstantsAssumption DEF Accept, Others
<1>2. ASSUME NEW c \in Conn, ClientRead(c) PROVE TypeOK'
  <2>1. /\ Tail(outbound[c]) \in Seq(UpdateMsg)
        /\ Len(Tail(outbound[c])) <= SockCap + BatchMax
    BY <1>2, TailType, ConstantsAssumption DEF ClientRead
  <2> QED
    BY <1>2, <2>1 DEF ClientRead
<1>3. ASSUME NEW c \in Conn, ClientClose(c) PROVE TypeOK'
  BY <1>3, ConstantsAssumption DEF ClientClose
<1>4. ASSUME NEW c \in Conn, NEW m \in Request, ClientSend(c, m) PROVE TypeOK'
  BY <1>4, ConstantsAssumption DEF ClientSend
<1>5. ASSUME NEW c \in Conn, NEW m \in Request, HandleRequest(c, m) PROVE TypeOK'
  BY <1>5, ConstantsAssumption, SMTT(40) DEF HandleRequest, Handling, Enqueue, Command, AfterRequest
<1>6. ASSUME NEW c \in Conn, NEW m \in Request, BlockOnFull(c, m) PROVE TypeOK'
  BY <1>6 DEF BlockOnFull
<1>7. ASSUME NEW c \in Conn, Replay(c) PROVE TypeOK'
  <2>1. PICK k \in snapshot[c] :
          /\ snapshot' = [snapshot EXCEPT ![c] = @ \ {k}]
          /\ outbound' = [outbound EXCEPT ![c] = Written(c, <<Update("Add", k)>>)]
    BY <1>7 DEF Replay
  <2>2. <<Update("Add", k)>> \in Seq(UpdateMsg) /\ Len(<<Update("Add", k)>>) <= BatchMax
    BY ConstantsAssumption DEF Update, UpdateMsg
  <2>3. WrittenOK(c, <<Update("Add", k)>>)
    BY <1>7, <2>2, WrittenType DEF Replay
  <2> QED
    BY <1>7, <2>1, <2>3 DEF Replay, WrittenOK
<1>8. ASSUME NEW c \in Conn, ReplayDone(c) PROVE TypeOK'
  BY <1>8 DEF ReplayDone
<1>9. ASSUME NEW c \in Conn, Drain(c) PROVE TypeOK'
  <2> DEFINE n == IF Len(chan[c]) < BatchMax THEN Len(chan[c]) ELSE BatchMax
  <2>1. chan[c] \in Seq(UpdateMsg) /\ Len(chan[c]) \in Nat /\ n \in 1..Len(chan[c]) /\ n <= BatchMax
    BY <1>9, TailType, ConstantsAssumption DEF Drain
  <2>2. /\ SubSeq(chan[c], n + 1, Len(chan[c])) \in Seq(UpdateMsg)
        /\ Len(SubSeq(chan[c], n + 1, Len(chan[c]))) <= MaxPending
        /\ SubSeq(chan[c], 1, n) \in Seq(UpdateMsg)
        /\ Len(SubSeq(chan[c], 1, n)) <= BatchMax
    <3> HIDE DEF n
    <3> QED BY <2>1, SubSeqType, ConstantsAssumption
  <2>3. WrittenOK(c, SubSeq(chan[c], 1, n))
    BY <1>9, <2>2, WrittenType DEF Drain, InLoop
  <2> QED
    BY <1>9, <2>2, <2>3 DEF Drain, WrittenOK
<1>10. ASSUME NEW c \in Conn, Eof(c) \/ LoopError(c) PROVE TypeOK'
  BY <1>10 DEF Eof, LoopError
<1>11. ASSUME NEW c \in Conn, ShutdownBreak(c) PROVE TypeOK'
  BY <1>11 DEF ShutdownBreak
<1>12. ASSUME NEW c \in Conn, Cleanup(c) PROVE TypeOK'
  BY <1>12, ConstantsAssumption, SMTT(30)
     DEF Cleanup, Return, SendDisconnected, Enqueue, PeerDisconnected, Command
<1>13. ASSUME NEW c \in Conn, Register(c) PROVE TypeOK'
  BY <1>13, ConstantsAssumption
     DEF Register, SendConnected, Enqueue, PeerConnected, Command
<1>14. ASSUME NEW c \in Conn, HandshakeFail(c) PROVE TypeOK'
  BY <1>14, ConstantsAssumption DEF HandshakeFail, Return
<1>15. ASSUME NEW c \in Conn, ActorPeerConnected(c) PROVE TypeOK'
  BY <1>15, TakeType, ConstantsAssumption DEF ActorPeerConnected
<1>16. ASSUME NEW c \in Conn, ActorPeerDisconnected(c) PROVE TypeOK'
  BY <1>16, TakeType, DropType, ConstantsAssumption DEF ActorPeerDisconnected
<1>17. ASSUME NEW c \in Conn, NEW v \in Vni, ActorSubscribe(c, v) PROVE TypeOK'
  BY <1>17, TakeType, ConstantsAssumption, ZenonT(30) DEF ActorSubscribe, ExistingRoutes
<1>18. ASSUME NEW c \in Conn, NEW v \in Vni, ActorUnsubscribe(c, v) PROVE TypeOK'
  BY <1>18, TakeType, ConstantsAssumption DEF ActorUnsubscribe
<1>19. ASSUME NEW c \in Conn, NEW k \in Key, ActorAdd(c, k) \/ ActorRemove(c, k) PROVE TypeOK'
  <2>1. /\ cmds' \in Seq(Command) /\ Len(cmds') <= CmdCap
        /\ chan' \in [Conn -> Seq(UpdateMsg)]
        /\ \A d \in Conn : Len(chan'[d]) <= MaxPending
    BY <1>19, TakeType, DistributeType DEF ActorAdd, ActorRemove
  <2>2. CASE ActorAdd(c, k)
    BY <2>1, <2>2, DropType, ConstantsAssumption DEF ActorAdd
  <2>3. CASE ActorRemove(c, k)
    BY <2>1, <2>3, DropType, ConstantsAssumption DEF ActorRemove
  <2> QED
    BY <1>19, <2>2, <2>3
<1>20. ASSUME NEW k \in Key, ActorPurgeRoute(k) PROVE TypeOK'
  <2>1. /\ chan' \in [Conn -> Seq(UpdateMsg)]
        /\ \A d \in Conn : Len(chan'[d]) <= MaxPending
    BY <1>20, DistributeType DEF ActorPurgeRoute
  <2>2. SlowConsumers(VniOf(k), purge.addr) \subseteq Addr
    BY SlowType
  <2> QED
    BY <1>20, <2>1, <2>2 DEF ActorPurgeRoute
<1>21. CASE ActorPurgeDone
  BY <1>21, DropType DEF ActorPurgeDone, Idle
<1>22. CASE Shutdown \/ DropServer \/ StopAccepting
  BY <1>22 DEF Shutdown, DropServer, StopAccepting, Active
<1>23. CASE UNCHANGED vars
  BY <1>23
<1> QED
  BY <1>1, <1>2, <1>3, <1>4, <1>5, <1>6, <1>7, <1>8, <1>9, <1>10, <1>11, <1>12, <1>13,
     <1>14, <1>15, <1>16, <1>17, <1>18, <1>19, <1>20, <1>21, <1>22, <1>23
  DEF Next, ClientStep, HandlerStep, ActorStep, Terminated


-----------------------------------------------------------------------------
(* The inductive invariant.  The properties are not inductive alone: what the *)
(* actor has stored depends on what is queued, and what is queued on where    *)
(* the task that sent it is and on the other tasks of its address.            *)

USE DEF Serving, PendingDisconnect, PeerDisconnected, PeerConnected, Forward

\* The commands of one task: the registration comes first, the disconnect last
\* and only from a task that has returned.
TaskQueue ==
  \A i \in 1..Len(cmds) :
    LET c == cmds[i].from
    IN  /\ Serving(c) \/ conn[c] = "returned"
        /\ cmds[i].op = "PeerDisconnected"
             => conn[c] = "returned" /\ \A j \in (i+1)..Len(cmds) : cmds[j].from # c
        /\ cmds[i].op = "PeerConnected" => \A j \in 1..(i-1) : cmds[j].from # c

\* A task that has not overlapped with another is the only one of its address.
Alone ==
  \A c \in Conn \ overlapped : \A d \in Conn \ {c} :
    AddrOf[d] = AddrOf[c] => ~Active(c) \/ ~Active(d)

Inv ==
  /\ RoutesHaveLiveOwner
  /\ SubscribersLive
  /\ CommandsBeforeDisconnect
  /\ SessionsInOrder
  /\ OneAnswerPerSubscribe
  /\ TaskQueue
  /\ Alone

\* Every RoutingCommand is that of a task, and a disconnect carries nothing else.
LEMMA CommandFrom ==
  ASSUME NEW cmd \in Command
  PROVE  /\ cmd.from \in Conn /\ AddrOf[cmd.from] \in Addr
         /\ cmd.op = "PeerDisconnected" => cmd = PeerDisconnected(cmd.from)
         /\ cmd.op = "PeerConnected" => cmd = PeerConnected(cmd.from)
  BY ConstantsAssumption DEF Command, Forward, Request, UpdateMsg

\* The same for the commands in the queue.
LEMMA CommandsFrom ==
  ASSUME TypeOK
  PROVE  \A i \in 1..Len(cmds) :
           /\ cmds[i] \in Command
           /\ cmds[i].from \in Conn /\ AddrOf[cmds[i].from] \in Addr
           /\ cmds[i].op = "PeerDisconnected" => cmds[i] = PeerDisconnected(cmds[i].from)
           /\ cmds[i].op = "PeerConnected" => cmds[i] = PeerConnected(cmds[i].from)
<1>1. \A i \in 1..Len(cmds) : cmds[i] \in Command
  BY ElementOfSeq DEF TypeOK
<1> QED
  BY <1>1, CommandFrom

\* What the actor has stored for an address stays justified while the address
\* stays alive.
LEMMA StoredStep ==
  ASSUME Inv, UNCHANGED <<tableVars, purge>>, \A a \in Addr : Alive(a) => Alive(a)'
  PROVE  RoutesHaveLiveOwner' /\ SubscribersLive'
<1>0. /\ routes' = routes /\ route_owners' = route_owners /\ subscriptions' = subscriptions
      /\ peers' = peers /\ purge' = purge
  OBVIOUS
<1>1. RoutesHaveLiveOwner'
  BY <1>0 DEF Inv, RoutesHaveLiveOwner
<1>2. SubscribersLive'
  BY <1>0 DEF Inv, SubscribersLive
<1> QED
  BY <1>1, <1>2

\* A step that leaves the actor alone and moves tasks only between control
\* states that the invariant does not tell apart.
LEMMA QuietStep ==
  ASSUME TypeOK, Inv, UNCHANGED actorVars, Alone', overlapped \subseteq overlapped',
         \A c \in Conn : /\ (Serving(c)' <=> Serving(c))
                         /\ (conn'[c] = "subscribing" <=> conn[c] = "subscribing")
                         /\ (conn[c] = "returned" => conn'[c] = "returned")
  PROVE  Inv'
<1>0. cmds' = cmds /\ \A i \in 1..Len(cmds) : cmds[i].from \in Conn
  BY CommandsFrom
<1>1. RoutesHaveLiveOwner' /\ SubscribersLive'
  BY <1>0, StoredStep DEF Alive
<1>2. CommandsBeforeDisconnect' /\ TaskQueue'
  BY <1>0 DEF Inv, CommandsBeforeDisconnect, Covered, TaskQueue
<1>3. SessionsInOrder'
  <2>1. ASSUME NEW c \in Conn, NEW i
        PROVE  /\ (SilentAfter(c, i) => SilentAfter(c, i)')
               /\ (RegistersAfter(c, i) => RegistersAfter(c, i)')
    BY <1>0 DEF SilentAfter, RegistersAfter
  <2> QED
    BY <1>0, <2>1 DEF Inv, SessionsInOrder
<1>4. OneAnswerPerSubscribe'
  BY <1>0 DEF Inv, OneAnswerPerSubscribe
<1> QED
  BY <1>1, <1>2, <1>3, <1>4 DEF Inv

\* No task starts: those that were alone stay so.
LEMMA AloneStep ==
  ASSUME Inv, overlapped' = overlapped, \A c \in Conn : Active(c)' => Active(c)
  PROVE  Alone'
  BY DEF Inv, Alone

\* The task of c sends command cmd: its registration, a request, or its disconnect.
SendsCommand(c, cmd) ==
  \/ /\ cmd = PeerConnected(c)
     /\ conn[c] = "handshake" /\ conn'[c] = "loop"
  \/ /\ cmd.op \in {"Add", "Remove", "Subscribe", "Unsubscribe"}
     /\ conn[c] \in {"loop", "blocked"}
     /\ conn'[c] = IF cmd.op = "Subscribe" THEN "subscribing" ELSE "loop"
  \/ /\ cmd = PeerDisconnected(c)
     /\ conn[c] = "cleanup" /\ conn'[c] = "returned"

\* A task appends one command to the queue (Register, handle_message, cleanup).
LEMMA SendStep ==
  ASSUME TypeOK, Inv, NEW c \in Conn, NEW cmd \in Command, cmd.from = c,
         cmds' = Append(cmds, cmd), SendsCommand(c, cmd),
         \A d \in Conn \ {c} : conn'[d] = conn[d],
         overlapped' = overlapped,
         UNCHANGED <<tableVars, purge>>
  PROVE  Inv'
<1>0. PICK n \in Nat : n = Len(cmds)
  BY LenProperties DEF TypeOK
<1>1. /\ n = Len(cmds) /\ Len(cmds') = n + 1
      /\ \A i \in 1..n : cmds'[i] = cmds[i]
      /\ cmds'[n + 1] = cmd
  <2>1. cmds \in Seq(Command)
    BY DEF TypeOK
  <2> QED
    BY <1>0, <2>1, AppendProperties
<1>2. \A i \in 1..n : cmds[i].from \in Conn
  BY <1>0, CommandsFrom
<1>3. \A d \in Conn : PendingDisconnect(d) => PendingDisconnect(d)'
  BY <1>1
<1>4. \A d \in Conn : Serving(d) => Serving(d)' \/ cmds'[n + 1] = PeerDisconnected(d)
  BY <1>1 DEF SendsCommand
<1>5. \A d \in Conn : Serving(d) => Serving(d)' \/ PendingDisconnect(d)'
  BY <1>1, <1>4
<1>6. RoutesHaveLiveOwner' /\ SubscribersLive'
  BY <1>3, <1>5, StoredStep DEF Alive
<1>7. Alone'
  BY AloneStep DEF Active, SendsCommand
<1>8. TaskQueue'
  <2>1. conn[c] \notin {"none", "returned"} /\ conn'[c] \notin {"none", "handshake"}
    BY DEF SendsCommand
  <2>2. conn[c] # "returned" /\ (Serving(c)' \/ conn'[c] = "returned")
    BY DEF SendsCommand
  <2>3. ASSUME NEW i \in 1..n
        PROVE  TaskQueue!(i)'
    <3> DEFINE d == cmds[i].from
    <3>1. cmds'[i] = cmds[i] /\ d \in Conn
      BY <1>1, <1>2
    <3>2. /\ Serving(d) \/ conn[d] = "returned"
          /\ cmds[i].op = "PeerDisconnected"
               => conn[d] = "returned" /\ \A j \in (i+1)..n : cmds[j].from # d
          /\ cmds[i].op = "PeerConnected" => \A j \in 1..(i-1) : cmds[j].from # d
      BY <1>1 DEF Inv, TaskQueue
    <3>3. Serving(d)' \/ conn'[d] = "returned"
      BY <2>2, <3>1, <3>2
    <3>4. ASSUME cmds[i].op = "PeerDisconnected"
          PROVE  conn'[d] = "returned" /\ \A j \in (i+1)..(n+1) : cmds'[j].from # d
      BY <1>1, <2>2, <3>1, <3>2, <3>4, SMTT(30)
    <3> QED
      BY <1>1, <3>1, <3>2, <3>3, <3>4
  <2>4. TaskQueue!(n + 1)'
    <3>1. ASSUME cmd.op = "PeerConnected", NEW j \in 1..n
          PROVE  cmds[j].from # c
      <4>1. ~Serving(c) /\ conn[c] # "returned"
        BY <3>1 DEF SendsCommand
      <4> QED
        BY <1>1, <4>1 DEF Inv, TaskQueue
    <3>2. cmd.op = "PeerDisconnected" => conn'[c] = "returned"
      BY DEF SendsCommand
    <3> QED
      BY <1>1, <2>2, <3>1, <3>2
  <2> QED
    BY <1>1, <2>3, <2>4 DEF TaskQueue
<1>9. CommandsBeforeDisconnect'
  <2>1. ASSUME NEW i \in 1..n
        PROVE  Covered(i)'
    <3>1. CASE Serving(cmds[i].from)
      BY <1>1, <1>2, <1>4, <3>1 DEF Covered
    <3>2. CASE \E j \in (i+1)..Len(cmds) : cmds[j] = PeerDisconnected(cmds[i].from)
      BY <1>1, <3>2 DEF Covered
    <3> QED
      BY <1>1, <3>1, <3>2, SMTT(30) DEF Inv, CommandsBeforeDisconnect, Covered
  <2>2. Covered(n + 1)'
    BY <1>1 DEF SendsCommand, Covered
  <2> QED
    BY <1>1, <2>1, <2>2 DEF CommandsBeforeDisconnect
<1>10. SessionsInOrder'
  <2>1. ASSUME NEW d \in Conn, NEW i \in 1..n, RegistersAfter(d, i)
        PROVE  RegistersAfter(d, i)'
    BY <1>1, <2>1 DEF RegistersAfter
  <2>2. ASSUME NEW d \in Conn, NEW i \in 1..n, SilentAfter(d, i)
        PROVE  (SilentAfter(d, i) \/ RegistersAfter(d, i))'
    <3>1. CASE d # c
      BY <1>1, <2>2, <3>1 DEF SilentAfter
    <3>2. CASE d = c
      <4>1. cmds'[n + 1] = PeerConnected(d)
        BY <1>1, <2>2, <3>2 DEF SilentAfter, SendsCommand
      <4>2. \A l \in (i+1)..n : cmds'[l].from # d
        BY <1>1, <2>2 DEF SilentAfter
      <4> QED
        BY <1>1, <4>1, <4>2 DEF RegistersAfter
    <3> QED
      BY <3>1, <3>2
  <2>3. ASSUME cmd.op = "PeerDisconnected", NEW d \in Conn \ overlapped, AddrOf[d] = AddrOf[c]
        PROVE  SilentAfter(d, n + 1)'
    <3>1. ~Serving(c)' /\ Active(c)
      BY <2>3 DEF SendsCommand, Active
    <3>2. d # c => ~Serving(d) /\ conn'[d] = conn[d]
      BY <2>3, <3>1 DEF Inv, Alone, Active
    <3>3. ~Serving(d)'
      BY <3>1, <3>2
    <3> QED
      BY <1>1, <3>3 DEF SilentAfter
  <2>4. ASSUME NEW d \in Conn \ overlapped, NEW i \in 1..n,
               cmds[i].op = "PeerDisconnected", AddrOf[cmds[i].from] = AddrOf[d]
        PROVE  SilentAfter(d, i) \/ RegistersAfter(d, i)
    BY <1>1, <2>4 DEF Inv, SessionsInOrder
  <2> QED
    BY <1>1, <2>1, <2>2, <2>3, <2>4 DEF SessionsInOrder
<1>11. OneAnswerPerSubscribe'
  <2> SUFFICES ASSUME NEW d \in Conn PROVE OneAnswerPerSubscribe!(d)'
    BY DEF OneAnswerPerSubscribe
  <2> DEFINE asks == {i \in 1..Len(cmds) : cmds[i].op = "Subscribe" /\ cmds[i].from = d}
  <2>1. asks' = asks \cup (IF cmd.op = "Subscribe" /\ d = c THEN {n + 1} ELSE {})
    BY <1>1
  <2>2. (conn[d] = "subscribing" <=> asks # {}) /\ \A i, j \in asks : i = j
    BY DEF Inv, OneAnswerPerSubscribe
  <2>3. CASE cmd.op = "Subscribe" /\ d = c
    BY <2>1, <2>2, <2>3 DEF SendsCommand
  <2>4. CASE ~(cmd.op = "Subscribe" /\ d = c)
    BY <2>1, <2>2, <2>4 DEF SendsCommand
  <2> QED
    BY <2>3, <2>4
<1> QED
  BY <1>6, <1>7, <1>8, <1>9, <1>10, <1>11 DEF Inv

\* What holds after the actor took command cmd.
TakePost(cmd) ==
  /\ CommandsBeforeDisconnect' /\ SessionsInOrder' /\ OneAnswerPerSubscribe'
  /\ TaskQueue' /\ Alone'
  /\ \A a \in Addr : Alive(a) /\ (cmd.op = "PeerDisconnected" => AddrOf[cmd.from] # a) => Alive(a)'
  /\ cmd.op # "PeerDisconnected" => Alive(AddrOf[cmd.from])'

\* The tasks as the actor takes cmd: the answer to SUBSCRIBE resumes its task.
Resumed(cmd) ==
  \A d \in Conn : conn'[d] = IF cmd.op = "Subscribe" /\ cmd.from = d
                               THEN "replay" ELSE conn[d]

\* The actor takes command cmd; a SUBSCRIBE answer resumes its task.
LEMMA TakeStep ==
  ASSUME TypeOK, Inv, NEW cmd \in Command, Take(cmd), Resumed(cmd), overlapped' = overlapped
  PROVE  TakePost(cmd)
<1>0. PICK n \in Nat : n = Len(cmds)
  BY LenProperties DEF TypeOK
<1>1. /\ n = Len(cmds) /\ n >= 1 /\ Len(cmds') = n - 1
      /\ \A i \in 1..n-1 : cmds'[i] = cmds[i + 1]
      /\ cmds[1] = cmd
  <2>1. cmds \in Seq(Command) /\ cmds # <<>> /\ cmds' = Tail(cmds) /\ Head(cmds) = cmd
    BY DEF TypeOK, Take
  <2> QED
    BY <1>0, <2>1, TailType
<1>2. \A i \in 1..n : cmds[i].from \in Conn
  BY <1>0, CommandsFrom
<1>3. \A d \in Conn : /\ (cmd.op = "Subscribe" /\ cmd.from = d => conn[d] = "subscribing")
                      /\ (Serving(d)' <=> Serving(d))
                      /\ (conn[d] = "returned" <=> conn'[d] = "returned")
                      /\ (Active(d)' => Active(d))
  BY <1>1 DEF Inv, OneAnswerPerSubscribe, Active, Resumed
<1>4. \A d \in Conn : PendingDisconnect(d) /\ cmd # PeerDisconnected(d) => PendingDisconnect(d)'
  <2> SUFFICES ASSUME NEW d \in Conn, NEW i \in 1..Len(cmds),
                      cmds[i] = PeerDisconnected(d), cmd # PeerDisconnected(d)
               PROVE  PendingDisconnect(d)'
    OBVIOUS
  <2>1. i - 1 \in 1..n-1 /\ cmds'[i - 1] = PeerDisconnected(d)
    BY <1>1
  <2> QED
    BY <1>1, <2>1
<1>5. \A i \in 1..n-1 : Covered(i + 1) => Covered(i)'
  <2> SUFFICES ASSUME NEW i \in 1..n-1, Covered(i + 1) PROVE Covered(i)'
    OBVIOUS
  <2>1. cmds'[i] = cmds[i + 1] /\ cmds[i + 1].from \in Conn
    BY <1>1, <1>2
  <2>2. ASSUME NEW j \in (i+2)..n, cmds[j] = PeerDisconnected(cmds[i + 1].from)
        PROVE  Covered(i)'
    <3>1. j - 1 \in (i+1)..n-1 /\ cmds'[j - 1] = PeerDisconnected(cmds'[i].from)
      BY <1>1, <2>1, <2>2
    <3> QED
      BY <1>1, <3>1 DEF Covered
  <2> QED
    BY <1>1, <1>3, <2>1, <2>2 DEF Covered
<1>6. CommandsBeforeDisconnect'
  BY <1>1, <1>5 DEF Inv, CommandsBeforeDisconnect
<1>7. ASSUME NEW a \in Addr, Alive(a), cmd.op = "PeerDisconnected" => AddrOf[cmd.from] # a
      PROVE  Alive(a)'
  BY <1>3, <1>4, <1>7 DEF Alive
<1>8. ASSUME cmd.op # "PeerDisconnected"
      PROVE  Alive(AddrOf[cmd.from])'
  <2>1. Covered(1) /\ cmd.from \in Conn /\ AddrOf[cmd.from] \in Addr
    BY <1>1, <1>2, CommandFrom DEF Inv, CommandsBeforeDisconnect
  <2>2. Serving(cmd.from) \/ PendingDisconnect(cmd.from)
    BY <1>1, <1>8, <2>1 DEF Covered
  <2> QED
    BY <1>7, <1>8, <2>1, <2>2, ZenonT(30) DEF Alive
<1>9. SessionsInOrder'
  <2> SUFFICES ASSUME NEW d \in Conn \ overlapped, NEW i \in 1..n-1,
                      cmds'[i].op = "PeerDisconnected", AddrOf[cmds'[i].from] = AddrOf[d]
               PROVE  (SilentAfter(d, i) \/ RegistersAfter(d, i))'
    BY <1>1 DEF SessionsInOrder
  <2>1. SilentAfter(d, i + 1) \/ RegistersAfter(d, i + 1)
    <3>1. i + 1 \in 1..n /\ cmds[i + 1] = cmds'[i]
      BY <1>1
    <3> QED
      BY <1>1, <3>1 DEF Inv, SessionsInOrder
  <2>2. CASE SilentAfter(d, i + 1)
    BY <1>1, <1>3, <2>2 DEF SilentAfter
  <2>3. CASE RegistersAfter(d, i + 1)
    <3>1. PICK j \in (i+2)..n : /\ cmds[j] = PeerConnected(d)
                                /\ \A l \in (i+2)..(j-1) : cmds[l].from # d
      BY <1>1, <2>3 DEF RegistersAfter
    <3>2. j - 1 \in (i+1)..n-1 /\ cmds'[j - 1] = PeerConnected(d)
      BY <1>1, <3>1
    <3>3. \A l \in (i+1)..(j-2) : cmds'[l].from # d
      BY <1>1, <3>1
    <3> QED
      BY <1>1, <3>2, <3>3 DEF RegistersAfter
  <2> QED
    BY <2>1, <2>2, <2>3
<1>10. OneAnswerPerSubscribe'
  <2> SUFFICES ASSUME NEW d \in Conn PROVE OneAnswerPerSubscribe!(d)'
    BY DEF OneAnswerPerSubscribe
  <2> DEFINE asks == {i \in 1..Len(cmds) : cmds[i].op = "Subscribe" /\ cmds[i].from = d}
  <2>1. (conn[d] = "subscribing" <=> asks # {}) /\ \A i, j \in asks : i = j
    BY DEF Inv, OneAnswerPerSubscribe
  <2>2. \A i \in asks' : i + 1 \in asks
    BY <1>1
  <2>3. \A i \in asks : i # 1 => i - 1 \in asks'
    BY <1>1
  <2>4. (1 \in asks) <=> (cmd.op = "Subscribe" /\ cmd.from = d)
    BY <1>1
  <2>5. \A i, j \in asks' : i = j
    BY <2>1, <2>2
  <2>6. CASE 1 \in asks
    <3>1. asks' = {}
      BY <2>1, <2>2, <2>6
    <3>2. conn'[d] = "replay"
      BY <2>4, <2>6 DEF Resumed
    <3> QED
      BY <3>1, <3>2
  <2>7. CASE 1 \notin asks
    <3>1. (asks # {}) <=> (asks' # {})
      BY <2>2, <2>3, <2>7
    <3>2. conn'[d] = conn[d]
      BY <2>4, <2>7 DEF Resumed
    <3> QED
      BY <2>1, <2>5, <3>1, <3>2
  <2> QED
    BY <2>6, <2>7
<1>11. TaskQueue'
  <2> SUFFICES ASSUME NEW i \in 1..n-1 PROVE TaskQueue!(i)'
    BY <1>1 DEF TaskQueue
  <2>0. PICK d \in Conn : d = cmds[i + 1].from
    BY <1>1, <1>2
  <2>1. cmds'[i] = cmds[i + 1] /\ cmds'[i].from = d /\ i + 1 \in 1..n
    BY <1>1, <2>0
  <2>2. /\ Serving(d) \/ conn[d] = "returned"
        /\ cmds[i + 1].op = "PeerDisconnected"
             => conn[d] = "returned" /\ \A j \in (i+2)..n : cmds[j].from # d
        /\ cmds[i + 1].op = "PeerConnected" => \A j \in 1..i : cmds[j].from # d
    <3>1. TaskQueue!(i + 1) /\ i + 1 + 1 = i + 2 /\ i + 1 - 1 = i
      BY <1>1, <2>1 DEF Inv, TaskQueue
    <3> QED
      BY <1>1, <2>0, <3>1
  <2>3. Serving(d)' \/ conn'[d] = "returned"
    BY <1>3, <2>1, <2>2
  <2>4. ASSUME cmds[i + 1].op = "PeerDisconnected"
        PROVE  conn'[d] = "returned" /\ \A j \in (i+1)..(n-1) : cmds'[j].from # d
    BY <1>1, <1>3, <2>1, <2>2, <2>4
  <2>5. ASSUME cmds[i + 1].op = "PeerConnected", NEW j \in 1..(i-1)
        PROVE  cmds'[j].from # d
    <3>1. j + 1 \in 1..i /\ cmds'[j] = cmds[j + 1]
      BY <1>1, <2>1
    <3> QED
      BY <2>2, <2>5, <3>1
  <2> QED
    BY <1>1, <2>1, <2>3, <2>4, <2>5
<1>12. Alone'
  BY <1>3, AloneStep
<1> QED
  BY <1>6, <1>7, <1>8, <1>9, <1>10, <1>11, <1>12 DEF TakePost

\* The invariant holds in a server that has just started.
LEMMA InvInit == Init => Inv
  BY DEF Init, Inv, RoutesHaveLiveOwner, SubscribersLive, CommandsBeforeDisconnect,
         SessionsInOrder, OneAnswerPerSubscribe, TaskQueue, Alone, Active, Idle

\* A step of RoutingActor that takes cmd and changes what is stored to what the
\* facts about addresses that stay alive allow.
LEMMA StoreStep ==
  ASSUME TypeOK, Inv, NEW cmd \in Command, Take(cmd), Resumed(cmd), overlapped' = overlapped,
         TakePost(cmd) => RoutesHaveLiveOwner' /\ SubscribersLive'
  PROVE  Inv'
<1>1. TakePost(cmd)
  BY TakeStep
<1> QED
  BY <1>1 DEF Inv, TakePost

\* Every step keeps the invariant; one case per action of handle_peer, the
\* actor and the server.
LEMMA InvStep ==
  ASSUME TypeOK, Inv, [Next]_vars
  PROVE  Inv'
<1> USE DEF ConnState
<1>0. /\ conn \in [Conn -> ConnState]
      /\ purge \in [addr : Addr \cup {NoAddr}, keys : SUBSET Key, slow : SUBSET Addr]
      /\ route_owners \in [Key -> Addr \cup {NoAddr}] /\ subscriptions \in [Vni -> SUBSET Addr]
      /\ peers \in [Addr -> Conn \cup {NoConn}]
      /\ AddrOf \in [Conn -> Addr] /\ NoConn \notin Conn /\ NoAddr \notin Addr
  BY ConstantsAssumption DEF TypeOK
<1>1. ASSUME NEW c \in Conn, Accept(c) PROVE Inv'
  <2>1. /\ conn' = [conn EXCEPT ![c] = "handshake"] /\ conn[c] = "none"
        /\ overlapped' = IF Others(c) = {} THEN overlapped
                         ELSE overlapped \cup Others(c) \cup {c}
    BY <1>1 DEF Accept
  <2>2. Alone'
    BY <1>0, <2>1 DEF Inv, Alone, Active, Others
  <2> QED
    BY <1>0, <1>1, <2>1, <2>2, QuietStep DEF Accept
<1>2. ASSUME NEW c \in Conn,
             \/ ClientRead(c) \/ ClientClose(c) \/ HandshakeFail(c)
             \/ \E m \in Request : ClientSend(c, m) \/ BlockOnFull(c, m)
             \/ Replay(c) \/ ReplayDone(c) \/ Drain(c)
             \/ Eof(c) \/ LoopError(c) \/ ShutdownBreak(c)
      PROVE  Inv'
  <2>1. UNCHANGED <<actorVars, overlapped>>
    BY <1>2 DEF ClientRead, ClientClose, HandshakeFail, ClientSend, BlockOnFull, Replay,
                ReplayDone, Drain, Eof, LoopError, ShutdownBreak
  <2>2. \/ conn' = conn
        \/ /\ conn[c] = "handshake" /\ conn' = [conn EXCEPT ![c] = "returned"]
        \/ /\ conn[c] \in {"loop", "replay"}
           /\ \E to \in {"loop", "blocked", "cleanup"} : conn' = [conn EXCEPT ![c] = to]
    BY <1>2 DEF ClientRead, ClientClose, HandshakeFail, Return, ClientSend, BlockOnFull, Replay,
                ReplayDone, Drain, Eof, LoopError, ShutdownBreak, InLoop
  <2>3. \A d \in Conn : /\ (Serving(d)' <=> Serving(d))
                        /\ (conn'[d] = "subscribing" <=> conn[d] = "subscribing")
                        /\ (conn[d] = "returned" => conn'[d] = "returned")
                        /\ (Active(d)' => Active(d))
    BY <1>0, <2>2 DEF Active
  <2> QED
    BY <2>1, <2>3, AloneStep, QuietStep
<1>3. CASE Shutdown \/ DropServer \/ StopAccepting \/ UNCHANGED vars
  <2>1. UNCHANGED <<actorVars, overlapped, conn>>
    BY <1>3 DEF Shutdown, DropServer, StopAccepting
  <2> QED
    BY <2>1, AloneStep, QuietStep DEF Active
<1>4. ASSUME NEW c \in Conn, NEW m \in Request, HandleRequest(c, m) PROVE Inv'
  <2>1. /\ Forward(c, m) \in Command /\ Forward(c, m).from = c
        /\ Forward(c, m).op = m.type
        /\ m.type \in {"Add", "Remove", "Subscribe", "Unsubscribe"}
    BY DEF Command, Request, UpdateMsg
  <2>2. SendsCommand(c, Forward(c, m))
    BY <1>0, <1>4, <2>1 DEF SendsCommand, HandleRequest, Handling, InLoop, AfterRequest
  <2> QED
    BY <1>0, <1>4, <2>1, <2>2, SendStep DEF HandleRequest, Enqueue
<1>5. ASSUME NEW c \in Conn, Register(c) PROVE Inv'
  <2>1. PeerConnected(c) \in Command /\ PeerConnected(c).from = c
    BY DEF Command
  <2>2. SendsCommand(c, PeerConnected(c))
    BY <1>0, <1>5 DEF SendsCommand, Register
  <2> QED
    BY <1>0, <1>5, <2>1, <2>2, SendStep DEF Register, SendConnected, Enqueue
<1>6. ASSUME NEW c \in Conn, Cleanup(c) PROVE Inv'
  <2>1. PeerDisconnected(c) \in Command /\ PeerDisconnected(c).from = c
    BY DEF Command
  <2>2. SendsCommand(c, PeerDisconnected(c))
    BY <1>0, <1>6 DEF SendsCommand, Cleanup, Return
  <2> QED
    BY <1>0, <1>6, <2>1, <2>2, SendStep DEF Cleanup, SendDisconnected, Enqueue, Return
<1>7. ASSUME NEW c \in Conn, ActorPeerConnected(c) PROVE Inv'
  <2>1. /\ PeerConnected(c) \in Command /\ Take(PeerConnected(c))
        /\ Resumed(PeerConnected(c)) /\ overlapped' = overlapped
    BY <1>7 DEF Command, ActorPeerConnected, Resumed
  <2>2. ASSUME TakePost(PeerConnected(c))
        PROVE  RoutesHaveLiveOwner' /\ SubscribersLive'
    <3>1. \A a \in Addr : Alive(a) => Alive(a)'
      BY <2>2 DEF TakePost
    <3>2. Alive(AddrOf[c])'
      BY <2>2 DEF TakePost
    <3>3. RoutesHaveLiveOwner'
      BY <1>7, <3>1 DEF ActorPeerConnected, Inv, RoutesHaveLiveOwner
    <3>4. \A a \in Addr \ {AddrOf[c]} : peers'[a] = peers[a]
      BY <1>0, <1>7 DEF ActorPeerConnected
    <3>5. SubscribersLive'
      BY <1>7, <3>1, <3>2, <3>4 DEF ActorPeerConnected, Inv, SubscribersLive
    <3> QED
      BY <3>3, <3>5
  <2> QED
    BY <2>1, <2>2, StoreStep
<1>8. ASSUME NEW c \in Conn, NEW v \in Vni, ActorSubscribe(c, v) \/ ActorUnsubscribe(c, v)
      PROVE  Inv'
  <2>1. PICK cmd \in Command : /\ cmd.op \in {"Subscribe", "Unsubscribe"} /\ cmd.from = c
                               /\ Take(cmd) /\ Resumed(cmd)
    <3>1. /\ Forward(c, Subscribe(v)) \in Command /\ Forward(c, Subscribe(v)).op = "Subscribe"
          /\ Forward(c, Unsubscribe(v)) \in Command /\ Forward(c, Unsubscribe(v)).op = "Unsubscribe"
          /\ Forward(c, Subscribe(v)).from = c /\ Forward(c, Unsubscribe(v)).from = c
      BY DEF Command, Subscribe, Unsubscribe, Request
    <3> QED
      BY <1>0, <1>8, <3>1 DEF ActorSubscribe, ActorUnsubscribe, Resumed
  <2>2. /\ routes' = routes /\ route_owners' = route_owners /\ peers' = peers
        /\ purge' = purge /\ overlapped' = overlapped
    BY <1>8 DEF ActorSubscribe, ActorUnsubscribe
  <2>3. \A w \in Vni : subscriptions'[w] \subseteq subscriptions[w] \cup {AddrOf[c]}
    BY <1>0, <1>8 DEF ActorSubscribe, ActorUnsubscribe
  <2>4. ASSUME TakePost(cmd)
        PROVE  RoutesHaveLiveOwner' /\ SubscribersLive'
    <3>1. (\A a \in Addr : Alive(a) => Alive(a)') /\ Alive(AddrOf[c])'
      BY <2>1, <2>4 DEF TakePost
    <3> HIDE DEF Serving, PendingDisconnect
    <3>2. RoutesHaveLiveOwner'
      BY <2>2, <3>1 DEF Inv, RoutesHaveLiveOwner
    <3>3. ASSUME NEW a \in Addr, peers'[a] # NoConn \/ \E w \in Vni : a \in subscriptions'[w]
          PROVE  Alive(a)'
      BY <2>2, <2>3, <3>1, <3>3 DEF Inv, SubscribersLive
    <3> QED
      BY <3>2, <3>3 DEF SubscribersLive
  <2> QED
    BY <2>1, <2>2, <2>4, StoreStep
<1>9. ASSUME NEW c \in Conn, NEW k \in Key, ActorAdd(c, k) \/ ActorRemove(c, k) PROVE Inv'
  <2>1. PICK t \in {"Add", "Remove"} :
          /\ Take(Forward(c, Update(t, k))) /\ conn' = conn /\ purge' = purge
          /\ routes' = IF t = "Add" THEN routes \cup {k} ELSE routes \ {k}
          /\ route_owners' = [route_owners EXCEPT ![k] = IF t = "Add" THEN AddrOf[c] ELSE NoAddr]
          /\ DropPeers(SlowConsumers(VniOf(k), AddrOf[c]))
          /\ overlapped' = overlapped
    BY <1>9 DEF ActorAdd, ActorRemove
  <2>2. PICK cmd \in Command : cmd.op = t /\ cmd.from = c /\ Take(cmd) /\ Resumed(cmd)
    <3>1. /\ Forward(c, Update(t, k)) \in Command /\ Forward(c, Update(t, k)).op = t
          /\ Forward(c, Update(t, k)).from = c
      BY DEF Command, Update, Request, UpdateMsg
    <3> QED
      BY <2>1, <3>1 DEF Resumed
  <2>3. /\ \A a \in Addr : peers'[a] # NoConn => peers'[a] = peers[a]
        /\ \A v \in Vni : subscriptions'[v] \subseteq subscriptions[v]
    BY <1>0, <2>1 DEF DropPeers, ForgetChannels
  <2>4. ASSUME TakePost(cmd)
        PROVE  RoutesHaveLiveOwner' /\ SubscribersLive'
    <3>1. (\A a \in Addr : Alive(a) => Alive(a)') /\ Alive(AddrOf[c])'
      BY <2>2, <2>4 DEF TakePost
    <3> HIDE DEF Serving, PendingDisconnect
    <3>2. RoutesHaveLiveOwner'
      BY <1>0, <2>1, <3>1 DEF Inv, RoutesHaveLiveOwner
    <3>3. SubscribersLive'
      BY <2>3, <3>1 DEF Inv, SubscribersLive
    <3> QED
      BY <3>2, <3>3
  <2> QED
    BY <2>1, <2>2, <2>4, StoreStep
<1>10. ASSUME NEW c \in Conn, ActorPeerDisconnected(c) PROVE Inv'
  <2>1. /\ PeerDisconnected(c) \in Command /\ Take(PeerDisconnected(c))
        /\ Resumed(PeerDisconnected(c)) /\ overlapped' = overlapped
    BY <1>10 DEF Command, ActorPeerDisconnected, Resumed
  <2>2. /\ routes' = routes /\ route_owners' = route_owners /\ purge.addr = NoAddr
        /\ purge'.addr = AddrOf[c] /\ purge'.keys = {k \in Key : route_owners[k] = AddrOf[c]}
        /\ peers' = [a \in Addr |-> IF a = AddrOf[c] THEN NoConn ELSE peers[a]]
        /\ subscriptions' = [v \in Vni |-> subscriptions[v] \ {AddrOf[c]}]
    BY <1>10 DEF ActorPeerDisconnected, Take, Idle, DropPeers, ForgetChannels
  <2>3. ASSUME TakePost(PeerDisconnected(c))
        PROVE  RoutesHaveLiveOwner' /\ SubscribersLive'
    <3>1. \A a \in Addr \ {AddrOf[c]} : Alive(a) => Alive(a)'
      BY <2>3 DEF TakePost
    <3> HIDE DEF Serving, PendingDisconnect
    <3>2. RoutesHaveLiveOwner'
      BY <1>0, <2>2, <3>1 DEF Inv, RoutesHaveLiveOwner
    <3>3. SubscribersLive'
      BY <1>0, <2>2, <3>1 DEF Inv, SubscribersLive
    <3> QED
      BY <3>2, <3>3
  <2> QED
    BY <2>1, <2>3, StoreStep
<1>11. ASSUME ActorPurgeDone \/ \E k \in Key : ActorPurgeRoute(k) PROVE Inv'
  <2>1. /\ conn' = conn /\ cmds' = cmds /\ overlapped' = overlapped
        /\ \A a \in Addr : peers'[a] # NoConn => peers'[a] = peers[a]
        /\ \A v \in Vni : subscriptions'[v] \subseteq subscriptions[v]
    <3>1. CASE ActorPurgeDone
      BY <1>0, <3>1 DEF ActorPurgeDone, DropPeers, ForgetChannels
    <3>2. CASE \E k \in Key : ActorPurgeRoute(k)
      BY <3>2 DEF ActorPurgeRoute
    <3> QED
      BY <1>11, <3>1, <3>2
  <2>2. RoutesHaveLiveOwner'
    <3>0. \A a \in Addr : Alive(a) => Alive(a)'
      BY <2>1 DEF Alive
    <3> HIDE DEF Serving, PendingDisconnect
    <3>1. CASE ActorPurgeDone
      <4>1. routes' = routes /\ route_owners' = route_owners /\ purge.keys = {}
        BY <3>1 DEF ActorPurgeDone
      <4>2. ASSUME NEW k \in Key, k \in routes
            PROVE  route_owners[k] \in Addr /\ Alive(route_owners[k])
        BY <4>1, <4>2 DEF Inv, RoutesHaveLiveOwner
      <4>3. \A k \in Key : k \notin routes => route_owners[k] = NoAddr
        BY DEF Inv, RoutesHaveLiveOwner
      <4> QED
        BY <3>0, <4>1, <4>2, <4>3 DEF RoutesHaveLiveOwner
    <3>2. ASSUME NEW k \in Key, ActorPurgeRoute(k) PROVE RoutesHaveLiveOwner'
      <4>1. /\ routes' = routes \ {k} /\ route_owners' = [route_owners EXCEPT ![k] = NoAddr]
            /\ purge'.addr = purge.addr /\ purge'.keys = purge.keys \ {k}
        BY <1>0, <3>2 DEF ActorPurgeRoute
      <4> QED
        BY <1>0, <3>0, <4>1 DEF Inv, RoutesHaveLiveOwner
    <3> QED
      BY <1>11, <3>1, <3>2
  <2>3. SubscribersLive'
    BY <2>1 DEF Inv, SubscribersLive, Alive
  <2>4. CommandsBeforeDisconnect' /\ TaskQueue'
    BY <2>1, ZenonT(30) DEF Inv, CommandsBeforeDisconnect, Covered, TaskQueue
  <2>5. SessionsInOrder' /\ OneAnswerPerSubscribe'
    BY <2>1 DEF Inv, SessionsInOrder, OneAnswerPerSubscribe, SilentAfter, RegistersAfter
  <2>6. Alone'
    BY <2>1, AloneStep DEF Active
  <2> QED
    BY <2>2, <2>3, <2>4, <2>5, <2>6 DEF Inv
<1> QED
  BY <1>1, <1>2, <1>3, <1>4, <1>5, <1>6, <1>7, <1>8, <1>9, <1>10, <1>11
  DEF Next, ClientStep, HandlerStep, ActorStep, Terminated

-----------------------------------------------------------------------------
\* Type correctness and bounded memory, in every reachable state: in particular
\* no peer's channel outgrows MAX_PENDING_MESSAGES.
THEOREM TypeCorrect == Spec => []TypeOK
<1>1. TypeOK /\ [Next]_vars => TypeOK'
  BY TypeStep
<1> QED
  BY <1>1, TypeInit, PTL DEF Spec

\* Types and invariant together hold in every reachable state.
LEMMA Invariance == Spec => [](TypeOK /\ Inv)
<1>1. TypeOK /\ Inv /\ [Next]_vars => (TypeOK /\ Inv)'
  BY TypeStep, InvStep
<1> QED
  BY <1>1, TypeInit, InvInit, PTL DEF Spec

\* No route outlives the peer that owns it: handle_peer_disconnected always
\* comes, and comes after everything the peer sent.
THEOREM NoOrphanedRoutes == Spec => []RoutesHaveLiveOwner
<1>1. TypeOK /\ Inv => RoutesHaveLiveOwner
  BY DEF Inv
<1> QED
  BY <1>1, Invariance, PTL

\* No subscription and no channel outlives its peer in the actor's maps.
THEOREM NoOrphanedSubscribers == Spec => []SubscribersLive
<1>1. TypeOK /\ Inv => SubscribersLive
  BY DEF Inv
<1> QED
  BY <1>1, Invariance, PTL

\* PeerDisconnected is queued after every other command of its connection.
THEOREM DisconnectComesLast == Spec => []CommandsBeforeDisconnect
<1>1. TypeOK /\ Inv => CommandsBeforeDisconnect
  BY DEF Inv
<1> QED
  BY <1>1, Invariance, PTL

\* A connection that had its address to itself since its task was spawned is
\* not taken for an earlier one in the command queue, the disconnect of that one
\* still queued or not (RoutingActor::run knows only the address); for the tasks
\* of an address that overlap, nothing is claimed.
THEOREM SessionsDoNotMix == Spec => []SessionsInOrder
<1>1. TypeOK /\ Inv => SessionsInOrder
  BY DEF Inv
<1> QED
  BY <1>1, Invariance, PTL

\* Every SUBSCRIBE has exactly one answer under way while its task waits.
THEOREM SubscribeAnswers == Spec => []OneAnswerPerSubscribe
<1>1. TypeOK /\ Inv => OneAnswerPerSubscribe
  BY DEF Inv
<1> QED
  BY <1>1, Invariance, PTL

-----------------------------------------------------------------------------
(* RoutingServer implements RouteBoard.  The members are the connections whose *)
(* session the actor is in, which the queue of commands and the tasks tell     *)
(* (InSession); what the actor has stored belongs to an address with a member, *)
(* or to the address whose routes it is removing.                              *)

\* The board as the server's variables make it.
Members == {c \in Conn : InSession(c)}
Present == {AddrOf[c] : c \in Members}
Owner   == [k \in Key |-> IF k \in routes THEN route_owners[k] ELSE NoAddr]

BoardVars == <<Members, Owner, subscriptions, purge.addr>>

StoredForMembers ==
  /\ \A k \in Key : route_owners[k] \in Present \cup {purge.addr, NoAddr}
  /\ \A v \in Vni : subscriptions[v] \subseteq Present
  /\ purge.slow \subseteq Present

PurgeOK ==
  IF purge.addr = NoAddr THEN purge = Idle
                         ELSE purge.keys = {k \in Key : route_owners[k] = purge.addr}

BoardInv == StoredForMembers /\ PurgeOK

\* What a step does to the board, and that it keeps the invariant.
BoardStep == BoardInv' /\ (Board!Next \/ UNCHANGED BoardVars)

\* A step that leaves what the actor stores and whose session it is in alone.
LEMMA BoardStays ==
  ASSUME BoardInv, UNCHANGED <<tableVars, purge>>,
         \A c \in Conn : InSession(c)' <=> InSession(c)
  PROVE  BoardStep
<1>0. /\ routes' = routes /\ route_owners' = route_owners /\ subscriptions' = subscriptions
      /\ purge' = purge
  OBVIOUS
<1>1. Members' = Members
  BY DEF Members
<1>2. Present' = Present
  BY <1>1 DEF Present
<1>3. BoardInv'
  BY <1>0, <1>2 DEF BoardInv, StoredForMembers, PurgeOK, Idle
<1>4. UNCHANGED BoardVars
  BY <1>0, <1>1 DEF BoardVars, Owner
<1> QED
  BY <1>3, <1>4 DEF BoardStep

\* Steps of the clients and the tasks that send no command.
LEMMA BoardQuiet ==
  ASSUME BoardInv, UNCHANGED actorVars, \A c \in Conn : Serving(c)' <=> Serving(c)
  PROVE  BoardStep
<1>1. cmds' = cmds /\ UNCHANGED <<tableVars, purge>>
  OBVIOUS
<1>2. \A c \in Conn : InSession(c)' <=> InSession(c)
  BY <1>1 DEF InSession
<1> QED
  BY <1>1, <1>2, BoardStays

\* Steps that send a command: the actor knows nothing of it yet.
LEMMA BoardSend ==
  ASSUME TypeOK, Inv, BoardInv, NEW c \in Conn, NEW cmd \in Command, cmd.from = c,
         cmds' = Append(cmds, cmd), SendsCommand(c, cmd),
         \A d \in Conn \ {c} : conn'[d] = conn[d],
         UNCHANGED <<tableVars, purge>>
  PROVE  BoardStep
<1>0. PICK n \in Nat : n = Len(cmds)
  BY LenProperties DEF TypeOK
<1>1. /\ n = Len(cmds) /\ Len(cmds') = n + 1
      /\ \A i \in 1..n : cmds'[i] = cmds[i]
      /\ cmds'[n + 1] = cmd
  <2>1. cmds \in Seq(Command)
    BY DEF TypeOK
  <2> QED
    BY <1>0, <2>1, AppendProperties
<1>2. \A i : i \in 1..Len(cmds') <=> i \in 1..n \/ i = n + 1
  BY <1>1
<1>3. ASSUME NEW d \in Conn \ {c} PROVE InSession(d)' <=> InSession(d)
  <2>1. cmd # PeerConnected(d) /\ cmd # PeerDisconnected(d)
    BY <1>3
  <2>2. Serving(d)' <=> Serving(d)
    BY <1>3
  <2>3. PendingDisconnect(d)' <=> PendingDisconnect(d)
    BY <1>1, <1>2, <2>1
  <2> QED
    BY <1>1, <1>2, <2>1, <2>2, <2>3 DEF InSession
<1>4. InSession(c)' <=> InSession(c)
  <2>1. CASE cmd = PeerConnected(c)
    <3>1. ~Serving(c) /\ ~PendingDisconnect(c)
      <4>1. conn[c] = "handshake"
        BY <2>1 DEF SendsCommand
      <4>2. \A i \in 1..Len(cmds) : cmds[i].from # c
        BY <4>1 DEF Inv, TaskQueue
      <4> QED
        BY <4>1, <4>2
    <3>2. n + 1 \in 1..Len(cmds') /\ cmds'[n + 1] = PeerConnected(c)
      BY <1>1, <2>1
    <3> QED
      BY <3>1, <3>2 DEF InSession
  <2>2. CASE cmd # PeerConnected(c)
    <3>1. Serving(c) /\ (Serving(c)' \/ cmd = PeerDisconnected(c))
      BY <2>2 DEF SendsCommand
    <3>2. cmd = PeerDisconnected(c) => PendingDisconnect(c)'
      <4>1. n + 1 \in 1..Len(cmds')
        BY <1>1
      <4> QED
        BY <1>1, <4>1
    <3>3. (\A i \in 1..Len(cmds) : cmds[i] # PeerConnected(c))
            <=> (\A i \in 1..Len(cmds') : cmds'[i] # PeerConnected(c))
      BY <1>1, <1>2, <2>2
    <3> QED
      BY <3>1, <3>2, <3>3 DEF InSession
  <2> QED
    BY <2>1, <2>2
<1> QED
  BY <1>3, <1>4, BoardStays

\* Who is a member after the actor took command cmd.
TakeMembers(cmd) ==
  /\ cmd.op = "PeerConnected" => cmd.from \notin Members /\ Members' = Members \cup {cmd.from}
  /\ cmd.op = "PeerDisconnected" => cmd.from \in Members /\ Members' = Members \ {cmd.from}
  /\ cmd.op \notin {"PeerConnected", "PeerDisconnected"}
       => cmd.from \in Members /\ Members' = Members

\* Taking a command off the queue begins a session, ends one, or belongs to one.
LEMMA TakeSession ==
  ASSUME TypeOK, Inv, NEW cmd \in Command, Take(cmd), Resumed(cmd)
  PROVE  TakeMembers(cmd)
<1>0. PICK n \in Nat : n = Len(cmds)
  BY LenProperties DEF TypeOK
<1>1. /\ n = Len(cmds) /\ n >= 1 /\ Len(cmds') = n - 1
      /\ \A i \in 1..n-1 : cmds'[i] = cmds[i + 1]
      /\ cmds[1] = cmd
  <2>1. cmds \in Seq(Command) /\ cmds # <<>> /\ cmds' = Tail(cmds) /\ Head(cmds) = cmd
    BY DEF TypeOK, Take
  <2> QED
    BY <1>0, <2>1, TailType
<1>2. \A x : (\E i \in 1..n : cmds[i] = x) <=> cmd = x \/ \E i \in 1..Len(cmds') : cmds'[i] = x
  <2>1. \A i \in 2..n : i - 1 \in 1..n-1 /\ cmds'[i - 1] = cmds[i]
    BY <1>1
  <2>2. \A i \in 1..n-1 : i + 1 \in 1..n
    BY <1>1
  <2>3. \A i \in 1..n : i = 1 \/ i \in 2..n
    BY <1>1
  <2> QED
    BY <1>1, <2>1, <2>2, <2>3
<1>3. PICK c \in Conn : c = cmd.from
  BY CommandFrom
<1>4. /\ cmd.op = "PeerDisconnected" => cmd = PeerDisconnected(c)
      /\ cmd.op = "PeerConnected" => cmd = PeerConnected(c)
  BY <1>3, CommandFrom
<1>5. \A d \in Conn : Serving(d)' <=> Serving(d)
  <2>1. cmd.op = "Subscribe" => conn[c] = "subscribing"
    <3>1. cmd.op = "Subscribe" => 1 \in {i \in 1..Len(cmds) : cmds[i].op = "Subscribe" /\ cmds[i].from = c}
      BY <1>1, <1>3
    <3> QED
      BY <3>1 DEF Inv, OneAnswerPerSubscribe
  <2> QED
    BY <1>3, <2>1 DEF Resumed
<1>6. ASSUME NEW d \in Conn, d # c PROVE InSession(d)' <=> InSession(d)
  <2>1. cmd # PeerConnected(d) /\ cmd # PeerDisconnected(d)
    BY <1>3, <1>6
  <2> QED
    BY <1>1, <1>2, <1>5, <2>1 DEF InSession
<1>7. 1 \in 1..n /\ \A j \in 2..n : 1 \in 1..(j-1)
  BY <1>1
<1>8. \A i \in 1..Len(cmds') : i + 1 \in 2..n /\ cmds'[i] = cmds[i + 1]
  BY <1>1
<1>9. \A j \in 2..n : cmds[j].op = "PeerConnected" => cmds[j].from # c
  <2>1. ASSUME NEW j \in 2..n, cmds[j].op = "PeerConnected" PROVE cmds[j].from # c
    <3>1. j \in 1..Len(cmds) /\ 1 \in 1..(j-1)
      BY <1>1
    <3>2. cmds[1].from # cmds[j].from
      BY <2>1, <3>1 DEF Inv, TaskQueue
    <3> QED
      BY <1>1, <1>3, <3>2
  <2> QED
    BY <2>1
<1>10. \A i \in 1..Len(cmds') : cmds'[i] # PeerConnected(c)
  BY <1>8, <1>9
<1>11. CASE cmd.op = "PeerDisconnected"
  <2>1. conn[c] = "returned" /\ \A j \in 2..n : cmds[j].from # c
    <3>1. 1 + 1 = 2
      OBVIOUS
    <3> QED
      BY <1>1, <1>3, <1>7, <1>11, <3>1 DEF Inv, TaskQueue
  <2>2. InSession(c)
    <3>1. 1 \in 1..Len(cmds) /\ cmds[1] = PeerDisconnected(c)
      BY <1>1, <1>4, <1>11
    <3>2. cmd # PeerConnected(c)
      BY <1>11
    <3>3. \A i \in 1..Len(cmds) : cmds[i] # PeerConnected(c)
      BY <1>1, <1>2, <1>10, <3>2
    <3> QED
      BY <3>1, <3>3 DEF InSession
  <2>3. ~InSession(c)'
    BY <1>5, <1>8, <2>1 DEF InSession
  <2>4. c \in Members /\ Members' = Members \ {c}
    BY <1>6, <2>2, <2>3 DEF Members
  <2> QED
    BY <1>3, <1>11, <2>4 DEF TakeMembers
<1>12. CASE cmd.op # "PeerDisconnected"
  <2>1. Serving(c) \/ \E j \in 2..n : cmds[j] = PeerDisconnected(c)
    <3>1. 1 + 1 = 2
      OBVIOUS
    <3> QED
      BY <1>1, <1>3, <1>7, <1>12, <3>1 DEF Inv, CommandsBeforeDisconnect, Covered
  <2>2. Serving(c)' \/ PendingDisconnect(c)'
    <3>1. \A j \in 2..n : j - 1 \in 1..Len(cmds') /\ cmds'[j - 1] = cmds[j]
      BY <1>1
    <3> QED
      BY <1>5, <2>1, <3>1
  <2>3. InSession(c)'
    BY <1>10, <2>2 DEF InSession
  <2>4. CASE cmd.op = "PeerConnected"
    <3>1. ~InSession(c)
      BY <1>1, <1>4, <1>7, <2>4 DEF InSession
    <3> QED
      BY <1>3, <1>6, <2>3, <2>4, <3>1 DEF TakeMembers, Members
  <2>5. CASE cmd.op # "PeerConnected"
    <3>1. cmd # PeerConnected(c)
      BY <2>5
    <3>2. InSession(c)
      <4>1. \A i \in 1..Len(cmds) : cmds[i] # PeerConnected(c)
        BY <1>1, <1>2, <1>10, <3>1
      <4>2. PendingDisconnect(c)' => PendingDisconnect(c)
        BY <1>1, <1>2
      <4> QED
        BY <1>5, <2>2, <4>1, <4>2 DEF InSession
    <3> QED
      BY <1>3, <1>6, <1>12, <2>3, <2>5, <3>2 DEF TakeMembers, Members
  <2> QED
    BY <2>4, <2>5
<1> QED
  BY <1>11, <1>12

\* The two maps of the actor, routes and route_owners, name the same routes.
LEMMA OwnerIs == TypeOK /\ Inv => Owner = route_owners
<1> SUFFICES ASSUME TypeOK, Inv PROVE Owner = route_owners
  OBVIOUS
<1>1. route_owners \in [Key -> Addr \cup {NoAddr}]
  BY DEF TypeOK
<1>2. \A k \in Key : k \notin routes => route_owners[k] = NoAddr
  BY DEF Inv, RoutesHaveLiveOwner
<1> QED
  BY <1>1, <1>2 DEF Owner

\* A server that has just started shows an empty board.
LEMMA BoardInit == Init => BoardInv /\ Board!Init
<1> SUFFICES ASSUME Init PROVE BoardInv /\ Board!Init
  OBVIOUS
<1>1. \A c \in Conn : ~InSession(c)
  BY DEF Init, InSession
<1>2. BoardInv
  BY ConstantsAssumption DEF Init, BoardInv, StoredForMembers, PurgeOK, Idle
<1>3. Board!Init
  BY <1>1 DEF Init, Board!Init, Board!Key, Key, Idle
<1> QED
  BY <1>2, <1>3

\* The operations of the board in terms of the server's variables.
LEMMA BoardOps ==
  /\ \A c : Board!Join(c) <=>
       /\ purge.addr = NoAddr /\ c \notin Members
       /\ AddrOf[c] \notin Present => /\ \A k \in Key : Owner[k] # AddrOf[c]
                                      /\ \A v \in Vni : AddrOf[c] \notin subscriptions[v]
       /\ Members' = Members \cup {c}
       /\ UNCHANGED <<Owner, subscriptions, purge.addr>>
  /\ \A c, v : Board!Subscribe(c, v) <=>
       /\ purge.addr = NoAddr /\ c \in Members
       /\ subscriptions' = [subscriptions EXCEPT ![v] = @ \cup {AddrOf[c]}]
       /\ UNCHANGED <<Members, Owner, purge.addr>>
  /\ \A c, v : Board!Unsubscribe(c, v) <=>
       /\ purge.addr = NoAddr /\ c \in Members
       /\ subscriptions' = [subscriptions EXCEPT ![v] = @ \ {AddrOf[c]}]
       /\ UNCHANGED <<Members, Owner, purge.addr>>
  /\ \A c, k, o : Board!Changed(c, k, o) <=>
       /\ purge.addr = NoAddr /\ c \in Members
       /\ Owner' = [Owner EXCEPT ![k] = o]
       /\ \E S \in SUBSET (subscriptions[k[1]] \ {AddrOf[c]}) :
            subscriptions' = [v \in Vni |-> subscriptions[v] \ S]
       /\ UNCHANGED <<Members, purge.addr>>
  /\ \A c : Board!Leave(c) <=>
       /\ purge.addr = NoAddr /\ c \in Members
       /\ Members' = Members \ {c}
       /\ (purge.addr)' = AddrOf[c]
       /\ subscriptions' = [v \in Vni |-> subscriptions[v] \ {AddrOf[c]}]
       /\ UNCHANGED Owner
  /\ \A k : Board!RemoveRoute(k) <=>
       /\ purge.addr # NoAddr /\ Owner[k] = purge.addr
       /\ Owner' = [Owner EXCEPT ![k] = NoAddr]
       /\ UNCHANGED <<Members, subscriptions, purge.addr>>
  /\ Board!Left <=>
       /\ purge.addr # NoAddr
       /\ \A k \in Key : Owner[k] # purge.addr
       /\ (purge.addr)' = NoAddr
       /\ \E S \in SUBSET Present : subscriptions' = [v \in Vni |-> subscriptions[v] \ S]
       /\ UNCHANGED <<Members, Owner>>
<1> USE DEF Members, Present, Owner, Key, Board!Key, Board!Acts, Board!Drop, Board!Present
<1> QED
  BY DEF Board!Join, Board!Subscribe, Board!Unsubscribe, Board!Changed, Board!Leave,
         Board!RemoveRoute, Board!Left

\* The steps of RoutingActor: each is one operation of the board.
LEMMA BoardActor ==
  ASSUME TypeOK, Inv, BoardInv, Owner = route_owners, Owner' = route_owners', ActorStep
  PROVE  BoardStep
<1>0. /\ purge \in [addr : Addr \cup {NoAddr}, keys : SUBSET Key, slow : SUBSET Addr]
      /\ route_owners \in [Key -> Addr \cup {NoAddr}]
      /\ subscriptions \in [Vni -> SUBSET Addr]
      /\ conn \in [Conn -> ConnState]
      /\ StoredForMembers /\ PurgeOK
      /\ AddrOf \in [Conn -> Addr] /\ NoAddr \notin Addr
      /\ Members \subseteq Conn /\ Present \subseteq Addr /\ NoAddr \notin Present
  BY ConstantsAssumption DEF TypeOK, BoardInv, Members, Present
<1>1. ASSUME NEW c \in Conn, ActorPeerConnected(c) PROVE BoardStep
  <2>1. /\ PeerConnected(c) \in Command /\ Take(PeerConnected(c))
        /\ Resumed(PeerConnected(c))
    BY <1>1 DEF Command, ActorPeerConnected, Resumed
  <2>2. TakeMembers(PeerConnected(c))
    BY <2>1, TakeSession
  <2>3. c \notin Members /\ Members' = Members \cup {c}
    BY <2>2 DEF TakeMembers
  <2>4. /\ purge = Idle /\ purge.addr = NoAddr /\ purge' = purge
        /\ route_owners' = route_owners /\ subscriptions' = subscriptions
    BY <1>1, <2>1 DEF ActorPeerConnected, Take, Idle
  <2>5. Board!Join(c)
    BY <1>0, <2>3, <2>4, BoardOps DEF StoredForMembers
  <2>6. Present \subseteq Present'
    BY <2>3 DEF Present
  <2>7. BoardInv'
    BY <1>0, <2>4, <2>6 DEF BoardInv, StoredForMembers, PurgeOK, Idle
  <2> QED
    BY <2>5, <2>7 DEF BoardStep, Board!Next
<1>2. ASSUME NEW c \in Conn, ActorPeerDisconnected(c) PROVE BoardStep
  <2>1. /\ PeerDisconnected(c) \in Command /\ Take(PeerDisconnected(c))
        /\ Resumed(PeerDisconnected(c))
    BY <1>2 DEF Command, ActorPeerDisconnected, Resumed
  <2>2. TakeMembers(PeerDisconnected(c))
    BY <2>1, TakeSession
  <2>3. c \in Members /\ Members' = Members \ {c}
    BY <2>2 DEF TakeMembers
  <2>4. /\ purge = Idle /\ purge.addr = NoAddr
        /\ purge' = [addr |-> AddrOf[c], keys |-> {k \in Key : route_owners[k] = AddrOf[c]},
                     slow |-> {}]
        /\ route_owners' = route_owners
        /\ subscriptions' = [v \in Vni |-> subscriptions[v] \ {AddrOf[c]}]
    BY <1>2, <2>1 DEF ActorPeerDisconnected, Take, Idle, DropPeers
  <2>5. Board!Leave(c)
    BY <2>3, <2>4, BoardOps
  <2>6. Present \subseteq Present' \cup {AddrOf[c]}
    BY <2>3 DEF Present
  <2>7. BoardInv'
    BY <1>0, <2>4, <2>6 DEF BoardInv, StoredForMembers, PurgeOK
  <2> QED
    BY <2>5, <2>7 DEF BoardStep, Board!Next
<1>3. ASSUME NEW c \in Conn, NEW v \in Vni, ActorSubscribe(c, v) \/ ActorUnsubscribe(c, v)
      PROVE  BoardStep
  <2>1. PICK cmd \in Command : /\ cmd.op \in {"Subscribe", "Unsubscribe"} /\ cmd.from = c
                               /\ Take(cmd) /\ Resumed(cmd)
    <3>1. /\ Forward(c, Subscribe(v)) \in Command /\ Forward(c, Subscribe(v)).op = "Subscribe"
          /\ Forward(c, Unsubscribe(v)) \in Command /\ Forward(c, Unsubscribe(v)).op = "Unsubscribe"
          /\ Forward(c, Subscribe(v)).from = c /\ Forward(c, Unsubscribe(v)).from = c
      BY DEF Command, Subscribe, Unsubscribe, Request
    <3> QED
      BY <1>0, <1>3, <3>1 DEF ActorSubscribe, ActorUnsubscribe, Resumed
  <2>2. TakeMembers(cmd)
    BY <2>1, TakeSession
  <2>3. c \in Members /\ Members' = Members
    BY <2>1, <2>2 DEF TakeMembers
  <2>4. Present' = Present /\ AddrOf[c] \in Present
    BY <2>3 DEF Present
  <2>5. /\ purge = Idle /\ purge.addr = NoAddr /\ purge' = purge /\ route_owners' = route_owners
        /\ \/ subscriptions' = [subscriptions EXCEPT ![v] = @ \cup {AddrOf[c]}]
           \/ subscriptions' = [subscriptions EXCEPT ![v] = @ \ {AddrOf[c]}]
    BY <1>3 DEF ActorSubscribe, ActorUnsubscribe, Take, Idle
  <2>6. Board!Subscribe(c, v) \/ Board!Unsubscribe(c, v)
    BY <2>3, <2>5, BoardOps
  <2>7. BoardInv'
    BY <1>0, <2>4, <2>5 DEF BoardInv, StoredForMembers, PurgeOK, Idle
  <2> QED
    BY <2>6, <2>7 DEF BoardStep, Board!Next
<1>4. ASSUME NEW c \in Conn, NEW k \in Key, ActorAdd(c, k) \/ ActorRemove(c, k)
      PROVE  BoardStep
  <2>1. PICK t \in {"Add", "Remove"} :
          /\ Take(Forward(c, Update(t, k))) /\ conn' = conn /\ purge' = purge
          /\ route_owners' = [route_owners EXCEPT ![k] = IF t = "Add" THEN AddrOf[c] ELSE NoAddr]
          /\ DropPeers(SlowConsumers(VniOf(k), AddrOf[c]))
    BY <1>4 DEF ActorAdd, ActorRemove
  <2>2. PICK cmd \in Command : cmd.op = t /\ cmd.from = c /\ Take(cmd) /\ Resumed(cmd)
    <3>1. /\ Forward(c, Update(t, k)) \in Command /\ Forward(c, Update(t, k)).op = t
          /\ Forward(c, Update(t, k)).from = c
      BY DEF Command, Update, Request, UpdateMsg
    <3> QED
      BY <2>1, <3>1 DEF Resumed
  <2>3. PICK S : S = SlowConsumers(VniOf(k), AddrOf[c])
    OBVIOUS
  <2>4. S \in SUBSET (subscriptions[k[1]] \ {AddrOf[c]})
    BY <2>3 DEF SlowConsumers, Targets, VniOf
  <2>5. PICK o : o = IF t = "Add" THEN AddrOf[c] ELSE NoAddr
    OBVIOUS
  <2>6. /\ purge = Idle /\ purge.addr = NoAddr /\ purge' = purge
        /\ route_owners' = [route_owners EXCEPT ![k] = o]
        /\ subscriptions' = [v \in Vni |-> subscriptions[v] \ S]
    BY <2>1, <2>2, <2>3, <2>5 DEF Take, Idle, DropPeers
  <2>7. TakeMembers(cmd)
    BY <2>2, TakeSession
  <2>8. c \in Members /\ Members' = Members
    BY <2>2, <2>7 DEF TakeMembers
  <2>9. Present' = Present /\ AddrOf[c] \in Present
    BY <2>8 DEF Present
  <2>10. Board!Changed(c, k, o)
    BY <2>4, <2>6, <2>8, BoardOps
  <2>11. Board!Announce(c, k) \/ Board!Withdraw(c, k)
    BY <2>5, <2>10 DEF Board!Announce, Board!Withdraw
  <2>12. BoardInv'
    BY <1>0, <2>5, <2>6, <2>9 DEF BoardInv, StoredForMembers, PurgeOK, Idle
  <2> QED
    BY <2>11, <2>12 DEF BoardStep, Board!Next, Board!Key, Key
<1>5. ASSUME NEW k \in Key, ActorPurgeRoute(k) PROVE BoardStep
  <2>1. /\ conn' = conn /\ cmds' = cmds /\ subscriptions' = subscriptions
        /\ purge # Idle /\ k \in purge.keys
        /\ route_owners' = [route_owners EXCEPT ![k] = NoAddr]
        /\ purge'.addr = purge.addr /\ purge'.keys = purge.keys \ {k}
        /\ purge'.slow = purge.slow \cup SlowConsumers(VniOf(k), purge.addr)
    BY <1>0, <1>5 DEF ActorPurgeRoute
  <2>2. Members' = Members /\ Present' = Present
    BY <2>1 DEF Members, Present, InSession
  <2>3. /\ purge.addr # NoAddr /\ purge.addr \in Addr /\ route_owners[k] = purge.addr
        /\ purge.keys = {j \in Key : route_owners[j] = purge.addr}
    BY <1>0, <2>1 DEF PurgeOK
  <2>4. SlowConsumers(VniOf(k), purge.addr) \subseteq Present
    BY <1>0 DEF SlowConsumers, Targets, VniOf, Key, StoredForMembers
  <2>5. Board!RemoveRoute(k)
    BY <2>1, <2>2, <2>3, BoardOps
  <2>6. StoredForMembers'
    BY <1>0, <2>1, <2>2, <2>4 DEF StoredForMembers
  <2>7. PurgeOK'
    BY <1>0, <2>1, <2>3 DEF PurgeOK
  <2> QED
    BY <2>5, <2>6, <2>7 DEF BoardStep, BoardInv, Board!Next, Board!Key, Key
<1>6. CASE ActorPurgeDone
  <2>1. /\ conn' = conn /\ cmds' = cmds /\ route_owners' = route_owners
        /\ purge # Idle /\ purge.keys = {} /\ purge' = Idle
        /\ subscriptions' = [v \in Vni |-> subscriptions[v] \ purge.slow]
    BY <1>6 DEF ActorPurgeDone, DropPeers
  <2>2. Members' = Members /\ Present' = Present
    BY <2>1 DEF Members, Present, InSession
  <2>3. purge.addr # NoAddr /\ \A k \in Key : route_owners[k] # purge.addr
    BY <1>0, <2>1 DEF PurgeOK
  <2>4. Idle.addr = NoAddr /\ Idle.slow = {} /\ purge.slow \subseteq Present
    BY <1>0 DEF Idle, StoredForMembers
  <2>5. Board!Left
    BY <2>1, <2>2, <2>3, <2>4, BoardOps
  <2>6. StoredForMembers' /\ PurgeOK'
    BY <1>0, <2>1, <2>2, <2>3, <2>4 DEF StoredForMembers, PurgeOK, Idle
  <2> QED
    BY <2>5, <2>6 DEF BoardStep, BoardInv, Board!Next
<1> QED
  BY <1>1, <1>2, <1>3, <1>4, <1>5, <1>6 DEF ActorStep

\* Every step of the server: an operation of the board or a stutter.
LEMMA BoardNext ==
  ASSUME TypeOK, Inv, BoardInv, Owner = route_owners, Owner' = route_owners', [Next]_vars
  PROVE  BoardStep
<1> USE DEF ConnState
<1>0. conn \in [Conn -> ConnState]
  BY DEF TypeOK
<1>1. ASSUME NEW c \in Conn, Accept(c) \/ HandshakeFail(c) PROVE BoardStep
  BY <1>0, <1>1, BoardQuiet DEF Accept, HandshakeFail, Return
<1>2. ASSUME NEW c \in Conn, ClientRead(c) \/ ClientClose(c) PROVE BoardStep
  BY <1>2, BoardQuiet DEF ClientRead, ClientClose
<1>3. ASSUME NEW c \in Conn, NEW m \in Request, ClientSend(c, m) PROVE BoardStep
  BY <1>3, BoardQuiet DEF ClientSend
<1>4. ASSUME NEW c \in Conn, NEW m \in Request, BlockOnFull(c, m) PROVE BoardStep
  BY <1>0, <1>4, BoardQuiet DEF BlockOnFull, InLoop
<1>5. ASSUME NEW c \in Conn, Replay(c) \/ ReplayDone(c) \/ Drain(c) PROVE BoardStep
  BY <1>0, <1>5, BoardQuiet DEF Replay, ReplayDone, Drain
<1>6. ASSUME NEW c \in Conn, Eof(c) \/ LoopError(c) \/ ShutdownBreak(c) PROVE BoardStep
  BY <1>0, <1>6, BoardQuiet DEF Eof, LoopError, ShutdownBreak, InLoop
<1>7. CASE Shutdown \/ DropServer \/ StopAccepting
  BY <1>7, BoardQuiet DEF Shutdown, DropServer, StopAccepting
<1>8. CASE UNCHANGED vars
  BY <1>8, BoardQuiet
<1>9. ASSUME NEW c \in Conn, NEW m \in Request, HandleRequest(c, m) PROVE BoardStep
  <2>1. /\ Forward(c, m) \in Command /\ Forward(c, m).from = c
        /\ Forward(c, m).op = m.type
        /\ m.type \in {"Add", "Remove", "Subscribe", "Unsubscribe"}
    BY DEF Command, Request, UpdateMsg
  <2>2. SendsCommand(c, Forward(c, m))
    BY <1>0, <1>9, <2>1 DEF SendsCommand, HandleRequest, Handling, InLoop, AfterRequest
  <2> QED
    BY <1>0, <1>9, <2>1, <2>2, BoardSend DEF HandleRequest, Enqueue
<1>10. ASSUME NEW c \in Conn, Register(c) PROVE BoardStep
  <2>1. PeerConnected(c) \in Command /\ PeerConnected(c).from = c
    BY DEF Command
  <2>2. SendsCommand(c, PeerConnected(c))
    BY <1>0, <1>10 DEF SendsCommand, Register
  <2> QED
    BY <1>0, <1>10, <2>1, <2>2, BoardSend DEF Register, SendConnected, Enqueue
<1>11. ASSUME NEW c \in Conn, Cleanup(c) PROVE BoardStep
  <2>1. PeerDisconnected(c) \in Command /\ PeerDisconnected(c).from = c
    BY DEF Command
  <2>2. SendsCommand(c, PeerDisconnected(c))
    BY <1>0, <1>11 DEF SendsCommand, Cleanup, Return
  <2> QED
    BY <1>0, <1>11, <2>1, <2>2, BoardSend DEF Cleanup, SendDisconnected, Enqueue, Return
<1>12. CASE ActorStep
  BY <1>12, BoardActor
<1> QED
  BY <1>1, <1>2, <1>3, <1>4, <1>5, <1>6, <1>7, <1>8, <1>9, <1>10, <1>11, <1>12
  DEF Next, ClientStep, HandlerStep, Terminated

\* For any number of connections, addresses, VNIs and routes and any channel sizes,
\* and however the tasks of one address overlap, the server is a board that each
\* connection uses between joining and leaving: nothing is done for a connection
\* before its registration or after its disconnect (RoutingActor::run), a
\* disconnect takes away all there is of its address, and a connection that joins
\* when no other of its address is there finds nothing of an earlier session.
THEOREM BoardImplemented == Spec => ImplementsBoard
<1>1. Init => BoardInv /\ Board!Init
  BY BoardInit
<1>2. TypeOK /\ Inv => Owner = route_owners
  BY OwnerIs
<1>3. (TypeOK /\ Inv => Owner = route_owners)'
  BY OwnerIs, PTL
<1>4. TypeOK /\ Inv /\ (TypeOK /\ Inv)' /\ BoardInv /\ [Next]_vars => BoardStep
  BY <1>2, <1>3, BoardNext
<1>5. TypeOK /\ Inv /\ (TypeOK /\ Inv)' /\ BoardInv /\ [Next]_vars
        => BoardInv' /\ [Board!Next]_<<Members, Owner, subscriptions, purge.addr>>
  BY <1>4 DEF BoardStep, BoardVars
<1> QED
  BY <1>1, <1>5, Invariance, PTL DEF Spec, ImplementsBoard, Board!Spec, Members, Owner
=============================================================================
