------------------------- MODULE PeerSessionProofs -------------------------
(***************************************************************************)
(* Proofs about PeerSession, for any number of servers, threads, VNIs and  *)
(* routes, any capacity of the command queues and any number of calls.     *)
(***************************************************************************)
EXTENDS PeerSession, SequenceTheorems, TLAPS

USE DEF clientVars, taskVars, vars

-----------------------------------------------------------------------------
(* Commands and queues. *)

\* The commands are commands.
LEMMA CommandTypes ==
  /\ \A v \in Vni : SubscribeCmd(v) \in Command /\ UnsubscribeCmd(v) \in Command
  /\ \A r \in Route : UpdateCmd("Add", r) \in Command /\ UpdateCmd("Remove", r) \in Command
  /\ ShutdownCmd \in Command
  BY DEF Command, SubscribeCmd, UnsubscribeCmd, UpdateCmd, ShutdownCmd

\* Taking the first command off a queue.
LEMMA QueueTail ==
  ASSUME NEW S, NEW q \in Seq(S), q # <<>>
  PROVE  /\ Tail(q) \in Seq(S) /\ Head(q) \in S /\ Head(q) = q[1]
         /\ Len(q) \in Nat \ {0}
         /\ Len(Tail(q)) = Len(q) - 1
         /\ \A i \in 1..Len(q) - 1 : Tail(q)[i] = q[i + 1]
  BY HeadTailProperties, LenProperties, EmptySeq

\* Adding a command to a queue.
LEMMA QueueAppend ==
  ASSUME NEW S, NEW q \in Seq(S), NEW c \in S
  PROVE  /\ Append(q, c) \in Seq(S)
         /\ Len(q) \in Nat
         /\ Len(Append(q, c)) = Len(q) + 1
         /\ \A i \in 1..Len(q) : Append(q, c)[i] = q[i]
         /\ Append(q, c)[Len(q) + 1] = c
  BY AppendProperties, LenProperties

\* The commands of a queue that are in C, and whether c is the last of them.
PlacesIn(q, C)  == {i \in DOMAIN q : q[i] \in C}
LastIn(q, C, c) == \E i \in PlacesIn(q, C) : q[i] = c /\ \A j \in PlacesIn(q, C) : j <= i

\* An empty queue has no last command.
LEMMA LastOfEmpty ==
  ASSUME NEW C, NEW c
  PROVE  PlacesIn(<<>>, C) = {} /\ ~LastIn(<<>>, C, c)
  BY EmptySeq DEF PlacesIn, LastIn

\* A command that is added is the last of its kind.
LEMMA LastOfAppend ==
  ASSUME NEW S, NEW q \in Seq(S), NEW x \in S, NEW C, NEW c \in C
  PROVE  /\ x \in C => PlacesIn(Append(q, x), C) # {} /\ (LastIn(Append(q, x), C, c) <=> x = c)
         /\ x \notin C => /\ PlacesIn(Append(q, x), C) = PlacesIn(q, C)
                          /\ LastIn(Append(q, x), C, c) <=> LastIn(q, C, c)
<1> DEFINE n == Len(q)
           a == Append(q, x)
<1>1. /\ n \in Nat /\ DOMAIN q = 1..n /\ DOMAIN a = 1..(n + 1)
      /\ a[n + 1] = x /\ \A i \in 1..n : a[i] = q[i]
  BY QueueAppend, LenProperties
<1> HIDE DEF n, a
<1>2. CASE x \in C
  <2>1. n + 1 \in PlacesIn(a, C)
    BY <1>1, <1>2 DEF PlacesIn
  <2>2. \A i \in PlacesIn(a, C) : i \in 1..(n + 1)
    BY <1>1 DEF PlacesIn
  <2> QED
    BY <1>1, <1>2, <2>1, <2>2 DEF LastIn, a
<1>3. CASE x \notin C
  <2>1. PlacesIn(a, C) = PlacesIn(q, C)
    BY <1>1, <1>3 DEF PlacesIn
  <2>2. \A i \in PlacesIn(q, C) : a[i] = q[i]
    BY <1>1 DEF PlacesIn
  <2> QED
    BY <1>3, <2>1, <2>2 DEF LastIn, a
<1> QED
  BY <1>2, <1>3

\* The first command counts only while it is the only one of its kind.
LEMMA LastOfTail ==
  ASSUME NEW S, NEW q \in Seq(S), q # <<>>, NEW C, NEW c \in C
  PROVE  /\ Head(q) \notin C => /\ PlacesIn(Tail(q), C) = {} <=> PlacesIn(q, C) = {}
                                /\ LastIn(Tail(q), C, c) <=> LastIn(q, C, c)
         /\ Head(q) \in C => PlacesIn(q, C) # {}
         /\ Head(q) \in C /\ PlacesIn(Tail(q), C) = {}
              => (LastIn(q, C, c) <=> Head(q) = c) /\ ~LastIn(Tail(q), C, c)
         /\ PlacesIn(Tail(q), C) # {} => (LastIn(Tail(q), C, c) <=> LastIn(q, C, c))
<1> DEFINE n == Len(q)
           t == Tail(q)
<1>1. /\ n \in Nat \ {0} /\ DOMAIN q = 1..n /\ DOMAIN t = 1..(n - 1)
      /\ Head(q) = q[1] /\ \A i \in 1..(n - 1) : t[i] = q[i + 1]
  BY QueueTail, LenProperties
<1> HIDE DEF n, t
<1>2. \A i \in PlacesIn(t, C) : i \in Nat /\ i + 1 \in PlacesIn(q, C) /\ q[i + 1] = t[i]
  BY <1>1 DEF PlacesIn
<1>3. \A i \in PlacesIn(q, C) :
         /\ i \in Nat \ {0}
         /\ i = 1 \/ (i - 1 \in PlacesIn(t, C) /\ q[i] = t[i - 1])
         /\ i = 1 => Head(q) \in C
  BY <1>1 DEF PlacesIn
<1>4. Head(q) \in C => 1 \in PlacesIn(q, C)
  BY <1>1 DEF PlacesIn
<1>5. LastIn(t, C, c) => LastIn(q, C, c)
  <2> SUFFICES ASSUME NEW i \in PlacesIn(t, C), t[i] = c, \A j \in PlacesIn(t, C) : j <= i
               PROVE  LastIn(q, C, c)
    BY DEF LastIn
  <2>1. \A j \in PlacesIn(q, C) : j <= i + 1
    BY <1>2, <1>3
  <2> QED
    BY <1>2, <2>1 DEF LastIn
<1>6. ASSUME NEW i \in PlacesIn(q, C), q[i] = c, \A j \in PlacesIn(q, C) : j <= i, i # 1
      PROVE  LastIn(t, C, c)
  <2>1. i - 1 \in PlacesIn(t, C) /\ t[i - 1] = c
    BY <1>3, <1>6
  <2>2. \A j \in PlacesIn(t, C) : j <= i - 1
    BY <1>2, <1>3, <1>6
  <2> QED
    BY <2>1, <2>2 DEF LastIn
<1>7. ASSUME PlacesIn(t, C) # {} PROVE LastIn(q, C, c) => LastIn(t, C, c)
  <2>1. PICK j \in PlacesIn(t, C) : TRUE
    BY <1>7
  <2>2. j \in Nat /\ j + 1 \in PlacesIn(q, C) /\ j # 0
    BY <1>1, <1>2 DEF PlacesIn
  <2> QED
    BY <1>6, <2>2 DEF LastIn
<1>8. ASSUME Head(q) \notin C PROVE /\ PlacesIn(t, C) = {} <=> PlacesIn(q, C) = {}
                                    /\ LastIn(q, C, c) => LastIn(t, C, c)
  <2>1. PlacesIn(t, C) = {} <=> PlacesIn(q, C) = {}
    BY <1>2, <1>3, <1>8
  <2>2. LastIn(q, C, c) => LastIn(t, C, c)
    BY <1>3, <1>6, <1>8 DEF LastIn
  <2> QED
    BY <2>1, <2>2
<1>9. ASSUME Head(q) \in C, PlacesIn(t, C) = {}
      PROVE  (LastIn(q, C, c) <=> Head(q) = c) /\ ~LastIn(t, C, c)
  <2>1. \A i \in PlacesIn(q, C) : i = 1
    BY <1>3, <1>9
  <2>2. 1 \in PlacesIn(q, C) /\ q[1] = Head(q)
    BY <1>1, <1>4, <1>9
  <2>3. LastIn(q, C, c) <=> Head(q) = c
    BY <2>1, <2>2 DEF LastIn
  <2> QED
    BY <1>9, <2>3 DEF LastIn
<1> QED
  BY <1>4, <1>5, <1>7, <1>8, <1>9 DEF t

\* A command served in the main loop (run_connection): a request about v decides
\* whether the server and the peer's subscriptions have v, an update of r whether
\* the server has r, and nothing else changes.
Served(s, c) ==
  /\ remote' \in [Server -> [subs : SUBSET Vni, routes : SUBSET Route]]
  /\ subs' \in [Server -> SUBSET Vni]
  /\ \A x \in Server \ {s} : remote'[x] = remote[x] /\ subs'[x] = subs[x]
  /\ \A v \in Vni :
       /\ c = SubscribeCmd(v) => v \in remote'[s].subs /\ v \in subs'[s]
       /\ c = UnsubscribeCmd(v) => v \notin remote'[s].subs /\ v \notin subs'[s]
       /\ c \notin RequestsOf(v) => /\ v \in remote'[s].subs <=> v \in remote[s].subs
                                    /\ v \in subs'[s] <=> v \in subs[s]
  /\ \A r \in Route :
       /\ c = UpdateCmd("Add", r) => r \in remote'[s].routes
       /\ c = UpdateCmd("Remove", r) => r \notin remote'[s].routes
       /\ c \notin UpdatesOf(r) => (r \in remote'[s].routes <=> r \in remote[s].routes)

\* Serving does that, for each of the four commands.
LEMMA ServeEffect ==
  ASSUME SessionTypeOK, NEW s \in Server, NEW c \in Command, Serve(s, c)
  PROVE  Served(s, c)
<1> USE DEF SubscribeCmd, UnsubscribeCmd, UpdateCmd, RequestsOf, UpdatesOf
<1> DEFINE Remote == [subs : SUBSET Vni, routes : SUBSET Route]
<1>0. remote \in [Server -> Remote] /\ subs \in [Server -> SUBSET Vni]
  BY DEF SessionTypeOK
<1>1. ASSUME NEW X \in SUBSET Vni, remote' = [remote EXCEPT ![s].subs = X]
      PROVE  /\ remote' \in [Server -> Remote]
             /\ remote'[s].subs = X /\ remote'[s].routes = remote[s].routes
             /\ \A x \in Server \ {s} : remote'[x] = remote[x]
  BY <1>0, <1>1
<1>2. ASSUME NEW X \in SUBSET Route, remote' = [remote EXCEPT ![s].routes = X]
      PROVE  /\ remote' \in [Server -> Remote]
             /\ remote'[s].routes = X /\ remote'[s].subs = remote[s].subs
             /\ \A x \in Server \ {s} : remote'[x] = remote[x]
  BY <1>0, <1>2
<1>3. CASE c.type = "Subscribe"
  <2>1. c.vni \in Vni /\ c = SubscribeCmd(c.vni)
    BY <1>3 DEF Command, ShutdownCmd
  <2>2. /\ remote' = [remote EXCEPT ![s].subs = remote[s].subs \cup {c.vni}]
        /\ subs' = [subs EXCEPT ![s] = @ \cup {c.vni}]
    BY <1>3 DEF Serve
  <2>3. /\ remote' \in [Server -> Remote]
        /\ remote'[s].subs = remote[s].subs \cup {c.vni} /\ remote'[s].routes = remote[s].routes
        /\ \A x \in Server \ {s} : remote'[x] = remote[x]
    BY <1>0, <1>1, <2>1, <2>2
  <2> QED
    BY <1>0, <2>1, <2>2, <2>3 DEF Served
<1>4. CASE c.type = "Unsubscribe"
  <2>1. c.vni \in Vni /\ c = UnsubscribeCmd(c.vni)
    BY <1>4 DEF Command, ShutdownCmd
  <2>2. /\ remote' = [remote EXCEPT ![s].subs = remote[s].subs \ {c.vni}]
        /\ subs' = [subs EXCEPT ![s] = @ \ {c.vni}]
    BY <1>4 DEF Serve
  <2>3. /\ remote' \in [Server -> Remote]
        /\ remote'[s].subs = remote[s].subs \ {c.vni} /\ remote'[s].routes = remote[s].routes
        /\ \A x \in Server \ {s} : remote'[x] = remote[x]
    BY <1>0, <1>1, <2>1, <2>2
  <2> QED
    BY <1>0, <2>1, <2>2, <2>3 DEF Served
<1>5. CASE c.type \in {"Add", "Remove"}
  <2> DEFINE X == IF c.type = "Add" THEN remote[s].routes \cup {c.route}
                                    ELSE remote[s].routes \ {c.route}
  <2>1. c.route \in Route /\ c = UpdateCmd(c.type, c.route)
    BY <1>5 DEF Command, ShutdownCmd
  <2>2. remote' = [remote EXCEPT ![s].routes = X] /\ subs' = subs
    BY <1>5 DEF Serve
  <2>3. X \in SUBSET Route
    BY <1>0, <2>1
  <2> HIDE DEF X
  <2>4. /\ remote' \in [Server -> Remote]
        /\ remote'[s].routes = X /\ remote'[s].subs = remote[s].subs
        /\ \A x \in Server \ {s} : remote'[x] = remote[x]
    BY <1>2, <2>2, <2>3
  <2> USE DEF X
  <2>5. \A v \in Vni : c \notin RequestsOf(v)
    BY <1>5
  <2> QED
    BY <1>0, <1>5, <2>1, <2>2, <2>4, <2>5 DEF Served
<1> QED
  BY <1>3, <1>4, <1>5 DEF Serve

-----------------------------------------------------------------------------
(* Types. *)

\* MetalBondClient::connect leaves the variables well typed.
LEMMA SessionTypeInit == Init => SessionTypeOK
<1> SUFFICES ASSUME Init PROVE SessionTypeOK
  OBVIOUS
<1>1. NoCall \in Call
  BY CommandTypes DEF NoCall, Call
<1>2. Nothing \in [subs : SUBSET Vni, routes : SUBSET Route]
  BY DEF Nothing
<1>3. cmds \in [Server -> Seq(Command)] /\ \A s \in Server : Len(cmds[s]) <= CmdCap
  BY SessionAssumption DEF Init
<1>4. call \in [User -> Call] /\ remote \in [Server -> [subs : SUBSET Vni, routes : SUBSET Route]]
  BY <1>1, <1>2 DEF Init
<1>5. \A s \in Server : replay[s] = {}
  BY DEF Init
<1>6. /\ wanted \in SUBSET Vni /\ announced \in SUBSET Route /\ withdrawn \in SUBSET Route
      /\ raced \in SUBSET (Route \cup Vni) /\ calls \in 0..MaxCalls
  BY SessionAssumption DEF Init
<1>9. dropped \in BOOLEAN
  BY Zenon DEF Init
<1>7. /\ pc \in [Server -> {"connect", "handshake", "resub", "reannounce", "loop",
                            "ended", "retry", "sleep", "done"}]
      /\ state \in [Server -> {"Connecting", "HelloSent", "HelloReceived",
                               "Established", "Retry", "Closed"}]
  BY DEF Init
<1>8. /\ subs \in [Server -> SUBSET Vni] /\ lost \in [Server -> SUBSET Vni]
      /\ replay \in [Server -> SUBSET (Vni \cup Route)]
  BY DEF Init
<1> QED
  BY <1>3, <1>4, <1>5, <1>6, <1>7, <1>8, <1>9 DEF SessionTypeOK

\* A call begins: its types, whatever its command.
LEMMA BeginType ==
  ASSUME SessionTypeOK, NEW u \in User, NEW cmd \in Command, Begin(u, cmd)
  PROVE  call' \in [User -> Call] /\ calls' \in 0..MaxCalls
<1>1. [cmd |-> cmd, todo |-> Server, at |-> None] \in Call
  BY DEF Call
<1> QED
  BY <1>1, SessionAssumption DEF Begin, SessionTypeOK

\* The calls of MetalBondClient.
LEMMA UserTypeStep ==
  ASSUME SessionTypeOK, NEW u \in User, UserStep(u)
  PROVE  SessionTypeOK'
<1> USE DEF SessionTypeOK
<1>1. ASSUME NEW v \in Vni, SubscribeCall(u, v) \/ UnsubscribeCall(u, v) PROVE SessionTypeOK'
  <2>1. PICK cmd \in Command : Begin(u, cmd)
    BY <1>1, CommandTypes DEF SubscribeCall, UnsubscribeCall
  <2>2. call' \in [User -> Call] /\ calls' \in 0..MaxCalls
    BY <2>1, BeginType
  <2> QED
    BY <1>1, <2>1, <2>2 DEF SubscribeCall, UnsubscribeCall, NoteRace, Begin
<1>2. ASSUME NEW r \in Route, Announce(u, r) \/ Withdraw(u, r) PROVE SessionTypeOK'
  <2>1. PICK cmd \in Command : Begin(u, cmd)
    BY <1>2, CommandTypes DEF Announce, Withdraw
  <2>2. call' \in [User -> Call] /\ calls' \in 0..MaxCalls
    BY <2>1, BeginType
  <2> QED
    BY <1>2, <2>1, <2>2 DEF Announce, Withdraw, NoteRace, Begin
<1>3. CASE Shutdown(u)
  <2>1. call' \in [User -> Call] /\ calls' \in 0..MaxCalls
    BY <1>3, CommandTypes, BeginType DEF Shutdown
  <2> QED
    BY <1>3, <2>1 DEF Shutdown, Begin
<1> QED
  BY <1>1, <1>2, <1>3 DEF UserStep

\* The loop over the peers.
LEMMA CallTypeStep ==
  ASSUME SessionTypeOK, NEW u \in User, NEW s \in Server, Visit(u, s) \/ SendCommand(u, s)
  PROVE  SessionTypeOK'
<1> USE DEF SessionTypeOK
<1>0. call[u] \in Call /\ call[u].cmd \in Command
  BY DEF Call
<1>1. CASE Visit(u, s)
  <2> DEFINE at == IF Addressed(call[u].cmd, s) THEN s ELSE None
  <2>1. [call[u] EXCEPT !.todo = @ \ {s}, !.at = at] \in Call
    BY <1>0 DEF Call
  <2>2. call' \in [User -> Call]
    BY <1>1, <2>1 DEF Visit
  <2>3. lost' \in [Server -> SUBSET Vni]
    <3>1. call[u].cmd.type = "Subscribe" => call[u].cmd.vni \in Vni
      BY <1>0 DEF Command, ShutdownCmd
    <3> QED
      BY <1>1, <3>1 DEF Visit, NoteSkip
  <2> QED
    BY <1>1, <2>2, <2>3 DEF Visit
<1>2. CASE SendCommand(u, s)
  <2>1. [call[u] EXCEPT !.at = None] \in Call
    BY <1>0 DEF Call
  <2>2. call' \in [User -> Call]
    BY <1>2, <2>1 DEF SendCommand
  <2>3. Append(cmds[s], call[u].cmd) \in Seq(Command) /\ Len(Append(cmds[s], call[u].cmd)) <= CmdCap
    BY <1>0, <1>2, QueueAppend, SessionAssumption DEF SendCommand
  <2>4. lost' \in [Server -> SUBSET Vni]
    BY <1>2 DEF SendCommand, NoteSent
  <2> QED
    BY <1>2, <2>2, <2>3, <2>4 DEF SendCommand
<1> QED
  BY <1>1, <1>2

\* The peer task.
LEMMA TaskTypeStep ==
  ASSUME SessionTypeOK, NEW s \in Server, Progress(s) \/ ConnectionLost(s)
  PROVE  SessionTypeOK'
<1> USE DEF SessionTypeOK, Goto
<1>0. Nothing \in [subs : SUBSET Vni, routes : SUBSET Route]
  BY DEF Nothing
<1>1. CASE Connect(s) \/ ConnectFail(s) \/ CleanUp(s) \/ RetryWait(s) \/ RetryTimer(s)
  BY <1>1 DEF Connect, ConnectFail, CleanUp, RetryWait, RetryTimer
<1>2. CASE Handshake(s)
  BY <1>2, ZenonT(40) DEF Handshake
<1>3. ASSUME NEW v \in Vni, Resubscribe(s, v) PROVE SessionTypeOK'
  <2>1. [remote[s] EXCEPT !.subs = @ \cup {v}] \in [subs : SUBSET Vni, routes : SUBSET Route]
    OBVIOUS
  <2> QED
    BY <1>3, <2>1 DEF Resubscribe
<1>4. ASSUME NEW r \in Route, Reannounce(s, r) PROVE SessionTypeOK'
  <2>1. [remote[s] EXCEPT !.routes = @ \cup {r}] \in [subs : SUBSET Vni, routes : SUBSET Route]
    OBVIOUS
  <2> QED
    BY <1>4, <2>1 DEF Reannounce
<1>5. CASE StartReannounce(s)
  BY <1>5 DEF StartReannounce, ToReannounce
<1>6. CASE EnterLoop(s)
  BY <1>6 DEF EnterLoop
<1>7. ASSUME cmds[s] # <<>> PROVE /\ Tail(cmds[s]) \in Seq(Command) /\ Len(Tail(cmds[s])) <= CmdCap
                                  /\ Head(cmds[s]) \in Command
  BY <1>7, QueueTail, SessionAssumption
<1>8. CASE TakeCommand(s)
  <2> DEFINE c == Head(cmds[s])
  <2>1. c \in Command /\ Tail(cmds[s]) \in Seq(Command) /\ Len(Tail(cmds[s])) <= CmdCap
    BY <1>7, <1>8 DEF TakeCommand
  <2>4. /\ subs' \in [Server -> SUBSET Vni]
        /\ remote' \in [Server -> [subs : SUBSET Vni, routes : SUBSET Route]]
    BY <1>8, <2>1, ServeEffect DEF TakeCommand, Served
  <2>6. /\ cmds' = [cmds EXCEPT ![s] = Tail(cmds[s])]
        /\ UNCHANGED <<clientVars, pc, state, replay, lost>>
    BY <1>8 DEF TakeCommand
  <2> QED
    BY <2>1, <2>4, <2>6
<1>9. ASSUME Return(s), replay[s] = {} PROVE SessionTypeOK'
  BY <1>0, <1>9, SessionAssumption DEF Return
<1>10. CASE TakeShutdown(s)
  BY <1>9, <1>10 DEF TakeShutdown
<1>11. ASSUME NoteDropped(s) PROVE lost' \in [Server -> SUBSET Vni]
  BY <1>11 DEF NoteDropped
<1>12. CASE ConnectionLost(s)
  BY <1>0, <1>12 DEF ConnectionLost, EndConnection
<1>13. CASE SendFails(s)
  <2>1. /\ Tail(cmds[s]) \in Seq(Command) /\ Len(Tail(cmds[s])) <= CmdCap
        /\ lost' \in [Server -> SUBSET Vni]
    BY <1>7, <1>11, <1>13 DEF SendFails
  <2> QED
    BY <1>0, <1>13, <2>1 DEF SendFails, EndConnection
<1>14. CASE RetryCommand(s)
  <2>1. CASE Head(cmds[s]) = ShutdownCmd
    BY <1>9, <1>14, <2>1 DEF RetryCommand
  <2>2. CASE Head(cmds[s]) # ShutdownCmd
    <3>1. /\ Tail(cmds[s]) \in Seq(Command) /\ Len(Tail(cmds[s])) <= CmdCap
          /\ lost' \in [Server -> SUBSET Vni]
      BY <1>7, <1>11, <1>14, <2>2 DEF RetryCommand
    <3>2. /\ cmds' = [cmds EXCEPT ![s] = Tail(@)]
          /\ Goto(s, "connect", "Connecting")
          /\ UNCHANGED <<clientVars, subs, replay, remote>> /\ replay[s] = {}
      BY <1>14, <2>2 DEF RetryCommand
    <3> QED
      BY <3>1, <3>2
  <2> QED
    BY <2>1, <2>2
<1> QED
  BY <1>1, <1>2, <1>3, <1>4, <1>5, <1>6, <1>8, <1>10, <1>12, <1>13, <1>14 DEF Progress, OwnStep, StreamStep

\* Every step keeps the types.
LEMMA SessionTypeStep == SessionTypeOK /\ [Next]_vars => SessionTypeOK'
<1> SUFFICES ASSUME SessionTypeOK, [Next]_vars PROVE SessionTypeOK'
  OBVIOUS
<1>1. CASE UNCHANGED vars
  BY <1>1 DEF SessionTypeOK
<1> QED
  BY <1>1, UserTypeStep, CallTypeStep, TaskTypeStep DEF Next, CallStep

\* Types and bounded queues in every reachable state.
THEOREM SessionTypeCorrect == Spec => []SessionTypeOK
  BY SessionTypeInit, SessionTypeStep, PTL DEF Spec

-----------------------------------------------------------------------------
(* The connection. *)

\* The client and the peers other than s are as they were.
OthersKept(s) ==
  /\ UNCHANGED clientVars
  /\ \A x \in Server \ {s} :
       /\ pc'[x] = pc[x] /\ state'[x] = state[x] /\ subs'[x] = subs[x]
       /\ replay'[x] = replay[x] /\ remote'[x] = remote[x] /\ cmds'[x] = cmds[x]
       /\ lost'[x] = lost[x]

\* A step of one peer task leaves the client and the other peers alone.
LEMMA OtherPeers ==
  ASSUME SessionTypeOK, NEW s \in Server, Progress(s) \/ ConnectionLost(s)
  PROVE  OthersKept(s)
<1> USE DEF SessionTypeOK, Goto, OthersKept
<1>1. CASE Connect(s) \/ ConnectFail(s) \/ Handshake(s) \/ StartReannounce(s) \/ EnterLoop(s)
  BY <1>1 DEF Connect, ConnectFail, Handshake, StartReannounce, EnterLoop
<1>2. CASE \/ \E v \in Vni : Resubscribe(s, v)
           \/ \E r \in Route : Reannounce(s, r)
  BY <1>2 DEF Resubscribe, Reannounce
<1>3. CASE TakeCommand(s)
  BY <1>3 DEF TakeCommand, Serve
<1>4. CASE TakeShutdown(s) \/ SendFails(s) \/ ConnectionLost(s)
  BY <1>4 DEF TakeShutdown, Return, SendFails, ConnectionLost, EndConnection, NoteDropped
<1>5. CASE CleanUp(s) \/ RetryCommand(s) \/ RetryWait(s) \/ RetryTimer(s)
  BY <1>5 DEF CleanUp, RetryCommand, RetryWait, RetryTimer, Return, NoteDropped
<1> QED
  BY <1>1, <1>2, <1>3, <1>4, <1>5 DEF Progress, OwnStep, StreamStep

\* What the server was told in this connection, by where the task is: the replay
\* completes the subscriptions, then the routes; the table of routes cannot change
\* while it is replayed.
ConnectionOK(s) ==
  /\ pc[s] = "resub" =>
       remote[s].routes = {} /\ remote[s].subs \cup replay[s] = subs[s]
  /\ pc[s] = "reannounce" =>
       remote[s].subs = subs[s] /\ remote[s].routes \cup replay[s] = announced
  /\ pc[s] = "loop" => remote[s].subs = subs[s]
  /\ IF pc[s] \in {"resub", "reannounce", "loop"}
       THEN state[s] = "Established"
       ELSE remote[s] = Nothing

ConnectionsOK == \A s \in Server : ConnectionOK(s)

\* The calls leave the connections alone, and the table of routes while a task
\* re-announces.
LEMMA UserConnections ==
  ASSUME SessionTypeOK, ConnectionsOK, NEW u \in User, UserStep(u) \/ CallStep(u)
  PROVE  ConnectionsOK'
<1>1. UNCHANGED <<pc, state, subs, replay, remote>>
  BY DEF UserStep, CallStep, SubscribeCall, UnsubscribeCall, Announce, Withdraw, Shutdown,
         Begin, Visit, SendCommand
<1>2. announced' = announced \/ Writable
  BY DEF UserStep, CallStep, SubscribeCall, UnsubscribeCall, Announce, Withdraw, Shutdown,
         Visit, SendCommand
<1> QED
  BY <1>1, <1>2 DEF ConnectionsOK, ConnectionOK, Writable

\* The peer task tells the server what it is to be told.
LEMMA TaskConnections ==
  ASSUME SessionTypeOK, ConnectionsOK, NEW s \in Server, Progress(s) \/ ConnectionLost(s)
  PROVE  ConnectionsOK'
<1> USE DEF SessionTypeOK, Goto, ConnectionOK
<1>0. ConnectionOK(s)
  BY DEF ConnectionsOK
<1>1. OthersKept(s)
  BY OtherPeers
<1>2. SUFFICES ConnectionOK(s)'
  BY <1>1, <1>2 DEF ConnectionsOK, OthersKept
<1>3. CASE Connect(s) \/ ConnectFail(s) \/ CleanUp(s) \/ RetryWait(s) \/ RetryTimer(s)
  BY <1>0, <1>3 DEF Connect, ConnectFail, CleanUp, RetryWait, RetryTimer
<1>4. CASE Handshake(s)
  BY <1>0, <1>4 DEF Handshake, Nothing
<1>5. ASSUME NEW v \in Vni, Resubscribe(s, v) PROVE ConnectionOK(s)'
  <2>1. remote'[s].subs = remote[s].subs \cup {v} /\ remote'[s].routes = remote[s].routes
    BY <1>5 DEF Resubscribe
  <2>2. replay'[s] = replay[s] \ {v} /\ v \in replay[s]
    BY <1>5 DEF Resubscribe
  <2> QED
    BY <1>0, <1>5, <2>1, <2>2 DEF Resubscribe
<1>6. ASSUME NEW r \in Route, Reannounce(s, r) PROVE ConnectionOK(s)'
  <2>1. remote'[s].routes = remote[s].routes \cup {r} /\ remote'[s].subs = remote[s].subs
    BY <1>6 DEF Reannounce
  <2>2. replay'[s] = replay[s] \ {r} /\ r \in replay[s]
    BY <1>6 DEF Reannounce
  <2> QED
    BY <1>0, <1>6, <2>1, <2>2 DEF Reannounce
<1>7. CASE StartReannounce(s)
  BY <1>0, <1>7 DEF StartReannounce, ToReannounce
<1>8. CASE EnterLoop(s)
  BY <1>0, <1>8 DEF EnterLoop
<1>9. CASE TakeCommand(s)
  <2>1. Served(s, Head(cmds[s]))
    BY <1>9, QueueTail, ServeEffect DEF TakeCommand
  <2>2. remote[s].subs = subs[s]
    BY <1>0, <1>9 DEF TakeCommand
  <2>3. \A v \in Vni : v \in remote'[s].subs <=> v \in subs'[s]
    BY <2>1, <2>2 DEF Served, RequestsOf
  <2>4. remote'[s].subs \subseteq Vni /\ subs'[s] \subseteq Vni
    BY <2>1 DEF Served
  <2>5. remote'[s].subs = subs'[s]
    BY <2>3, <2>4
  <2> QED
    BY <1>0, <1>9, <2>5 DEF TakeCommand
<1>10. CASE TakeShutdown(s) \/ ConnectionLost(s) \/ SendFails(s) \/ RetryCommand(s)
  BY <1>0, <1>10 DEF TakeShutdown, Return, ConnectionLost, SendFails, RetryCommand, EndConnection
<1> QED
  BY <1>3, <1>4, <1>5, <1>6, <1>7, <1>8, <1>9, <1>10 DEF Progress, OwnStep, StreamStep

\* MetalBondClient::connect: nothing was told to any server.
LEMMA ConnectionsInit == Init => ConnectionsOK
  BY DEF Init, ConnectionsOK, ConnectionOK

\* Every step keeps the connections.
LEMMA ConnectionsStep == SessionTypeOK /\ ConnectionsOK /\ [Next]_vars => ConnectionsOK'
<1> SUFFICES ASSUME SessionTypeOK, ConnectionsOK, [Next]_vars PROVE ConnectionsOK'
  OBVIOUS
<1>1. CASE UNCHANGED vars
  BY <1>1 DEF ConnectionsOK, ConnectionOK
<1> QED
  BY <1>1, UserConnections, TaskConnections DEF Next

\* The peer's subscriptions and the server's are the same in the main loop
\* (run_connection): whatever ended the earlier connections and whatever became
\* of the commands in the queue.
THEOREM SubscriptionsSurvive == Spec => []Resubscribed
<1>1. ConnectionsOK => Resubscribed
  BY DEF ConnectionsOK, ConnectionOK, Resubscribed
<1> QED
  BY <1>1, SessionTypeInit, SessionTypeStep, ConnectionsInit, ConnectionsStep, PTL DEF Spec

-----------------------------------------------------------------------------
(* The calls and the queues. *)

\* The call has yet to come to server s, or waits for its queue.
Owes(u, s) == s \in call[u].todo \/ call[u].at = s

\* What a call sends is about the present: unless two calls were under way at
\* once, the client's tables say what the command says.
Current(c) ==
  /\ \A r \in Route \ raced : /\ c = UpdateCmd("Add", r) => r \in announced
                              /\ c = UpdateCmd("Remove", r) => r \notin announced
  /\ \A r \in Route \ withdrawn : c # UpdateCmd("Remove", r)
  /\ \A v \in Vni \ raced : /\ c = SubscribeCmd(v) => v \in wanted
                            /\ c = UnsubscribeCmd(v) => v \notin wanted

CallsCurrent == \A u \in User : InCall(u) => Current(call[u].cmd)

\* A withdrawn route will be gone, or the withdrawal is on its way.
Withdrawing(s, r) ==
  r \notin announced \cup raced =>
    ~WillHave(s, r) \/ \E u \in User : call[u].cmd = UpdateCmd("Remove", r) /\ Owes(u, s)

\* A route that was never withdrawn has no withdrawal in a queue; a server that
\* is connected has it or will have it.
Announcing(s, r) ==
  r \notin withdrawn =>
    /\ \/ PlacesIn(cmds[s], UpdatesOf(r)) = {}
       \/ LastIn(cmds[s], UpdatesOf(r), UpdateCmd("Add", r))
    /\ r \in announced /\ pc[s] \in {"reannounce", "loop"} =>
         WillHave(s, r) \/ \E u \in User : call[u].cmd = UpdateCmd("Add", r) /\ Owes(u, s)

\* Will the peer be subscribed to v once the queue is served?
WillSubscribe(s, v) ==
  \/ LastIn(cmds[s], RequestsOf(v), SubscribeCmd(v))
  \/ PlacesIn(cmds[s], RequestsOf(v)) = {} /\ v \in subs[s]

\* The peer will be subscribed as wanted, or the call is on its way, or it was
\* lost.
Subscribing(s, v) ==
  v \notin lost[s] \cup raced /\ pc[s] # "done" =>
    \/ WillSubscribe(s, v) <=> v \in wanted
    \/ \E u \in User : call[u].cmd \in RequestsOf(v) /\ Owes(u, s)

Reached(s) ==
  /\ \A r \in Route : Withdrawing(s, r) /\ Announcing(s, r)
  /\ \A v \in Vni : Subscribing(s, v)

CallsReach == \A s \in Server : Reached(s)

\* Commands about different routes or VNIs are different commands.
LEMMA CommandsDiffer ==
  /\ \A v \in Vni : /\ SubscribeCmd(v) # UnsubscribeCmd(v) /\ ShutdownCmd \notin RequestsOf(v)
                    /\ SubscribeCmd(v) \in RequestsOf(v) /\ UnsubscribeCmd(v) \in RequestsOf(v)
  /\ \A r \in Route : /\ UpdateCmd("Add", r) # UpdateCmd("Remove", r)
                      /\ ShutdownCmd \notin UpdatesOf(r)
                      /\ UpdateCmd("Add", r) \in UpdatesOf(r)
                      /\ UpdateCmd("Remove", r) \in UpdatesOf(r)
  /\ \A v \in Vni : \A r \in Route : RequestsOf(v) \cap UpdatesOf(r) = {}
  /\ \A v, w \in Vni : v # w => RequestsOf(v) \cap RequestsOf(w) = {}
  /\ \A q, r \in Route : q # r => UpdatesOf(q) \cap UpdatesOf(r) = {}
  BY DEF SubscribeCmd, UnsubscribeCmd, UpdateCmd, ShutdownCmd, RequestsOf, UpdatesOf

\* A call that begins owes its command to every server, and the other calls go on.
LEMMA CallBegins ==
  ASSUME SessionTypeOK, NEW u \in User, NEW cmd \in Command, Begin(u, cmd)
  PROVE  /\ ~InCall(u) /\ call'[u].cmd = cmd
         /\ \A s \in Server : Owes(u, s)'
         /\ \A w \in User : InCall(w) => call'[w] = call[w]
         /\ \A w \in User \ {u} : call'[w] = call[w]
         /\ \A w \in User : \A s \in Server : Owes(w, s) => InCall(w)
<1>1. call' = [call EXCEPT ![u] = [cmd |-> cmd, todo |-> Server, at |-> None]] /\ ~InCall(u)
  BY DEF Begin
<1>2. call'[u] = [cmd |-> cmd, todo |-> Server, at |-> None]
  BY <1>1 DEF SessionTypeOK
<1>3. \A w \in User \ {u} : call'[w] = call[w]
  BY <1>1 DEF SessionTypeOK
<1>4. \A w \in User : \A s \in Server : Owes(w, s) => InCall(w)
  BY SessionAssumption DEF Owes, InCall
<1> QED
  BY <1>1, <1>2, <1>3, <1>4 DEF Owes

\* A call goes to its next server or hands its command to the queue of one: only
\* what it owes to that server may change.
LEMMA CallGoesOn ==
  ASSUME SessionTypeOK, NEW u \in User, NEW s \in Server, Visit(u, s) \/ SendCommand(u, s)
  PROVE  /\ InCall(u)
         /\ \A w \in User : call'[w].cmd = call[w].cmd /\ (InCall(w)' => InCall(w))
         /\ \A w \in User, x \in Server : Owes(w, x) /\ ~(w = u /\ x = s) => Owes(w, x)'
         /\ Visit(u, s) /\ Addressed(call[u].cmd, s) => Owes(u, s)'
<1>0. call \in [User -> Call]
  BY DEF SessionTypeOK
<1>1. call[u].todo \subseteq Server /\ call[u] \in Call
  BY <1>0 DEF Call
<1>2. \A w \in User \ {u} : call'[w] = call[w]
  BY <1>0 DEF Visit, SendCommand
<1>3. CASE Visit(u, s)
  <2>1. /\ call'[u].cmd = call[u].cmd /\ call'[u].todo = call[u].todo \ {s}
        /\ call'[u].at = IF Addressed(call[u].cmd, s) THEN s ELSE None
        /\ call[u].at = None /\ s \in call[u].todo
    BY <1>0, <1>1, <1>3 DEF Visit, Call
  <2> QED
    BY <1>2, <2>1, SessionAssumption DEF InCall, Owes
<1>4. CASE SendCommand(u, s)
  <2>1. /\ call'[u].cmd = call[u].cmd /\ call'[u].todo = call[u].todo
        /\ call'[u].at = None /\ call[u].at = s
    BY <1>0, <1>1, <1>4 DEF SendCommand, Call
  <2>2. ~Visit(u, s)
    BY <2>1, SessionAssumption DEF Visit
  <2> QED
    BY <1>2, <2>1, <2>2, SessionAssumption DEF InCall, Owes
<1> QED
  BY <1>3, <1>4

\* Another call about the same route or VNI is noted.
LEMMA RaceNoted ==
  ASSUME SessionTypeOK, NEW x, NEW C, NoteRace(x, C)
  PROVE  /\ raced \subseteq raced'
         /\ x \notin raced' => \A w \in User : InCall(w) => call[w].cmd \notin C
  BY DEF NoteRace, UnderWay

\* The calls of MetalBondClient leave the calls under way current.
LEMMA UserCurrent ==
  ASSUME SessionTypeOK, CallsCurrent, NEW u \in User, UserStep(u)
  PROVE  CallsCurrent'
<1>1. ASSUME NEW cmd \in Command, Begin(u, cmd), Current(cmd)',
             \A c \in Command : (\E w \in User : InCall(w) /\ c = call[w].cmd) => Current(c)'
      PROVE  CallsCurrent'
  <2> SUFFICES ASSUME NEW w \in User, InCall(w)' PROVE Current(call[w].cmd)'
    BY DEF CallsCurrent
  <2>1. CASE w = u
    BY <1>1, <2>1, CallBegins DEF Current
  <2>2. CASE w # u
    <3>1. call'[w] = call[w] /\ InCall(w)
      BY <1>1, <2>2, CallBegins DEF InCall
    <3>2. call[w].cmd \in Command
      BY DEF SessionTypeOK, Call
    <3> QED
      BY <1>1, <3>1, <3>2 DEF Current
  <2> QED
    BY <2>1, <2>2
<1>2. \A c \in Command : (\E w \in User : InCall(w) /\ c = call[w].cmd) => Current(c)
  BY DEF CallsCurrent
<1>3. ASSUME NEW v \in Vni, SubscribeCall(u, v) \/ UnsubscribeCall(u, v) PROVE CallsCurrent'
  <2>1. PICK cmd \in RequestsOf(v) : /\ Begin(u, cmd)
                                     /\ cmd = SubscribeCmd(v) => wanted' = wanted \cup {v}
                                     /\ cmd = UnsubscribeCmd(v) => wanted' = wanted \ {v}
    BY <1>3, CommandsDiffer DEF SubscribeCall, UnsubscribeCall
  <2>2. /\ cmd \in Command /\ raced \subseteq raced' /\ UNCHANGED <<announced, withdrawn>>
        /\ v \notin raced' => \A w \in User : InCall(w) => call[w].cmd \notin RequestsOf(v)
    BY <1>3, CommandTypes, RaceNoted DEF SubscribeCall, UnsubscribeCall, RequestsOf
  <2>3. Current(cmd)'
    BY <2>1, <2>2, CommandsDiffer DEF Current
  <2>4. ASSUME NEW c \in Command, Current(c), v \notin raced' => c \notin RequestsOf(v)
        PROVE  Current(c)'
    BY <2>1, <2>2, <2>4, CommandsDiffer DEF Current, RequestsOf
  <2> QED
    BY <1>1, <1>2, <2>1, <2>2, <2>3, <2>4
<1>4. ASSUME NEW r \in Route, Announce(u, r) \/ Withdraw(u, r) PROVE CallsCurrent'
  <2>1. PICK cmd \in UpdatesOf(r) :
           /\ Begin(u, cmd)
           /\ cmd = UpdateCmd("Add", r) => announced' = announced \cup {r} /\ withdrawn' = withdrawn
           /\ cmd = UpdateCmd("Remove", r) =>
                announced' = announced \ {r} /\ withdrawn' = withdrawn \cup {r}
    BY <1>4, CommandsDiffer DEF Announce, Withdraw
  <2>2. /\ cmd \in Command /\ raced \subseteq raced' /\ UNCHANGED wanted
        /\ r \notin raced' => \A w \in User : InCall(w) => call[w].cmd \notin UpdatesOf(r)
    BY <1>4, CommandTypes, RaceNoted DEF Announce, Withdraw, UpdatesOf
  <2>3. Current(cmd)'
    BY <2>1, <2>2, CommandsDiffer DEF Current, UpdatesOf
  <2>4. ASSUME NEW c \in Command, Current(c), r \notin raced' => c \notin UpdatesOf(r)
        PROVE  Current(c)'
    BY <2>1, <2>2, <2>4, CommandsDiffer DEF Current, UpdatesOf
  <2> QED
    BY <1>1, <1>2, <2>1, <2>2, <2>3, <2>4
<1>5. CASE Shutdown(u)
  <2>1. Begin(u, ShutdownCmd) /\ UNCHANGED <<wanted, announced, withdrawn, raced>>
    BY <1>5 DEF Shutdown
  <2>2. Current(ShutdownCmd)'
    BY CommandsDiffer DEF Current
  <2>3. \A c \in Command : Current(c) => Current(c)'
    BY <2>1 DEF Current
  <2> QED
    BY <1>1, <1>2, <2>1, <2>2, <2>3, CommandTypes
<1> QED
  BY <1>3, <1>4, <1>5 DEF UserStep

\* So do the loops over the peers, and the tasks.
LEMMA CurrentStep == SessionTypeOK /\ CallsCurrent /\ [Next]_vars => CallsCurrent'
<1> SUFFICES ASSUME SessionTypeOK, CallsCurrent, [Next]_vars PROVE CallsCurrent'
  OBVIOUS
<1>1. CASE UNCHANGED clientVars
  BY <1>1 DEF CallsCurrent, Current, InCall
<1>2. ASSUME NEW u \in User, NEW s \in Server, Visit(u, s) \/ SendCommand(u, s)
      PROVE  CallsCurrent'
  <2>1. UNCHANGED <<wanted, announced, withdrawn, raced>>
    BY <1>2 DEF Visit, SendCommand
  <2>2. \A w \in User : call'[w].cmd = call[w].cmd /\ (InCall(w)' => InCall(w))
    BY <1>2, CallGoesOn DEF Visit, SendCommand
  <2> QED
    BY <2>1, <2>2 DEF CallsCurrent, Current
<1>3. ASSUME NEW s \in Server, Progress(s) \/ ConnectionLost(s) PROVE UNCHANGED clientVars
  BY <1>3, OtherPeers DEF OthersKept
<1> QED
  BY <1>1, <1>2, <1>3, UserCurrent DEF Next, CallStep

\* What the queue of a server decides, now and after a step.
LEMMA QueueDecides ==
  ASSUME NEW s \in Server
  PROVE  /\ \A r \in Route :
              WillHave(s, r) <=>
                \/ LastIn(cmds[s], UpdatesOf(r), UpdateCmd("Add", r))
                \/ PlacesIn(cmds[s], UpdatesOf(r)) = {} /\ r \in remote[s].routes \cup replay[s]
         /\ \A r \in Route :
              WillHave(s, r)' <=>
                \/ LastIn(cmds'[s], UpdatesOf(r), UpdateCmd("Add", r))
                \/ PlacesIn(cmds'[s], UpdatesOf(r)) = {} /\ r \in remote'[s].routes \cup replay'[s]
         /\ \A v \in Vni :
              WillServe(s, v) <=>
                \/ LastIn(cmds[s], RequestsOf(v), SubscribeCmd(v))
                \/ PlacesIn(cmds[s], RequestsOf(v)) = {} /\ v \in remote[s].subs \cup replay[s]
  BY DEF WillHave, WillServe, Places, Last, PlacesIn, LastIn

\* A call that begins is on its way to every server; what the queues decide and
\* the other calls stay as they were.
LEMMA UserReach ==
  ASSUME SessionTypeOK, CallsReach, NEW u \in User, UserStep(u)
  PROVE  CallsReach'
<1> SUFFICES ASSUME NEW s \in Server PROVE Reached(s)'
  BY DEF CallsReach
<1>0. Reached(s)
  BY DEF CallsReach
<1>1. ASSUME NEW cmd \in Command, Begin(u, cmd)
      PROVE  /\ UNCHANGED <<cmds, pc, lost, subs>>
             /\ \A r \in Route : WillHave(s, r)' <=> WillHave(s, r)
             /\ \A v \in Vni : WillSubscribe(s, v)' <=> WillSubscribe(s, v)
             /\ Owes(u, s)' /\ call'[u].cmd = cmd
             /\ \A w \in User : Owes(w, s) => Owes(w, s)' /\ call'[w].cmd = call[w].cmd
  <2>1. UNCHANGED taskVars
    BY <1>1 DEF Begin
  <2>2. \A w \in User : Owes(w, s) => Owes(w, s)' /\ call'[w].cmd = call[w].cmd
    BY <1>1, CallBegins DEF Owes
  <2> QED
    BY <1>1, <2>1, <2>2, CallBegins, QueueDecides DEF WillSubscribe
<1>2. ASSUME NEW v \in Vni, SubscribeCall(u, v) \/ UnsubscribeCall(u, v) PROVE Reached(s)'
  <2>1. PICK cmd \in RequestsOf(v) : Begin(u, cmd)
    BY <1>2, CommandsDiffer DEF SubscribeCall, UnsubscribeCall
  <2>2. /\ cmd \in Command /\ UNCHANGED <<announced, withdrawn>> /\ raced \subseteq raced'
        /\ \A w \in Vni \ {v} : w \in wanted' <=> w \in wanted
    BY <1>2, CommandTypes, RaceNoted DEF SubscribeCall, UnsubscribeCall, RequestsOf
  <2>3. \A r \in Route : Withdrawing(s, r)'
    BY <1>0, <1>1, <2>1, <2>2 DEF Reached, Withdrawing
  <2>4. \A r \in Route : Announcing(s, r)'
    BY <1>0, <1>1, <2>1, <2>2 DEF Reached, Announcing
  <2>5. \A w \in Vni : Subscribing(s, w)'
    BY <1>0, <1>1, <2>1, <2>2 DEF Reached, Subscribing
  <2> QED
    BY <2>3, <2>4, <2>5 DEF Reached
<1>3. ASSUME NEW r \in Route, Announce(u, r) \/ Withdraw(u, r) PROVE Reached(s)'
  <2>1. PICK cmd \in UpdatesOf(r) :
           /\ Begin(u, cmd)
           /\ cmd = UpdateCmd("Add", r) => announced' = announced \cup {r} /\ withdrawn' = withdrawn
           /\ cmd = UpdateCmd("Remove", r) =>
                announced' = announced \ {r} /\ withdrawn' = withdrawn \cup {r}
    BY <1>3, CommandsDiffer DEF Announce, Withdraw
  <2>2. cmd \in Command /\ UNCHANGED wanted /\ raced \subseteq raced'
    BY <1>3, CommandTypes, RaceNoted DEF Announce, Withdraw, UpdatesOf
  <2>3. \A q \in Route : Withdrawing(s, q)'
    BY <1>0, <1>1, <2>1, <2>2 DEF Reached, Withdrawing, UpdatesOf
  <2>4. \A q \in Route : Announcing(s, q)'
    BY <1>0, <1>1, <2>1, <2>2 DEF Reached, Announcing, UpdatesOf
  <2>5. \A v \in Vni : Subscribing(s, v)'
    BY <1>0, <1>1, <2>1, <2>2 DEF Reached, Subscribing
  <2> QED
    BY <2>3, <2>4, <2>5 DEF Reached
<1>4. CASE Shutdown(u)
  <2>1. Begin(u, ShutdownCmd) /\ UNCHANGED <<wanted, announced, withdrawn, raced>>
    BY <1>4 DEF Shutdown
  <2>3. \A r \in Route : Withdrawing(s, r)'
    BY <1>0, <1>1, <2>1, CommandTypes DEF Reached, Withdrawing
  <2>4. \A r \in Route : Announcing(s, r)'
    BY <1>0, <1>1, <2>1, CommandTypes DEF Reached, Announcing
  <2>5. \A v \in Vni : Subscribing(s, v)'
    BY <1>0, <1>1, <2>1, CommandTypes DEF Reached, Subscribing
  <2> QED
    BY <2>3, <2>4, <2>5 DEF Reached
<1> QED
  BY <1>2, <1>3, <1>4 DEF UserStep

\* A call passes over a server only if the replay, or nothing, is to tell it.
LEMMA VisitReach ==
  ASSUME SessionTypeOK, ConnectionsOK, CallsReach, NEW u \in User, NEW s \in Server, Visit(u, s)
  PROVE  CallsReach'
<1> SUFFICES ASSUME NEW x \in Server PROVE Reached(x)'
  BY DEF CallsReach
<1> DEFINE c == call[u].cmd
<1>0. Reached(x) /\ ConnectionOK(x) /\ c \in Command
  BY DEF CallsReach, ConnectionsOK, SessionTypeOK, Call
<1>1. UNCHANGED <<wanted, announced, withdrawn, raced, pc, state, cmds, subs, replay, remote>>
  BY DEF Visit
<1>2. /\ \A r \in Route : WillHave(x, r)' <=> WillHave(x, r)
      /\ \A v \in Vni : WillSubscribe(x, v)' <=> WillSubscribe(x, v)
  BY <1>1, QueueDecides DEF WillSubscribe
<1>3. /\ \A w \in User : call'[w].cmd = call[w].cmd
      /\ \A w \in User : Owes(w, x) => \/ Owes(w, x)'
                                       \/ w = u /\ x = s /\ ~Addressed(c, s)
  BY CallGoesOn
<1>4. /\ lost[x] \subseteq lost'[x]
      /\ c.type = "Subscribe" /\ ~Addressed(c, s) => c.vni \in lost'[s]
  BY DEF Visit, NoteSkip, Addressed, SessionTypeOK
<1>5. \A r \in Route : Withdrawing(x, r)'
  <2>1. \A r \in Route : c = UpdateCmd("Remove", r) => Addressed(c, s)
    BY DEF UpdateCmd, Addressed
  <2> QED
    BY <1>0, <1>1, <1>2, <1>3, <2>1 DEF Reached, Withdrawing
<1>6. \A r \in Route : Announcing(x, r)'
  <2>1. ~Addressed(c, s) /\ x = s => pc[x] \notin {"reannounce", "loop"}
    BY <1>0 DEF Addressed, ConnectionOK
  <2> QED
    BY <1>0, <1>1, <1>2, <1>3, <2>1 DEF Reached, Announcing
<1>7. \A v \in Vni : Subscribing(x, v)'
  <2>1. \A v \in Vni : c \in RequestsOf(v) /\ ~Addressed(c, s) => v \in lost'[s]
    BY <1>4 DEF RequestsOf, SubscribeCmd, UnsubscribeCmd, Addressed
  <2> QED
    BY <1>0, <1>1, <1>2, <1>3, <1>4, <2>1 DEF Reached, Subscribing
<1> QED
  BY <1>5, <1>6, <1>7 DEF Reached

\* A command that is handed to a queue is the last of its kind there.
LEMMA SendReach ==
  ASSUME SessionTypeOK, CallsCurrent, CallsReach,
         NEW u \in User, NEW s \in Server, SendCommand(u, s)
  PROVE  CallsReach'
<1> SUFFICES ASSUME NEW x \in Server PROVE Reached(x)'
  BY DEF CallsReach
<1> DEFINE c == call[u].cmd
<1>0. Reached(x) /\ c \in Command
  BY DEF CallsReach, SessionTypeOK, Call
<1>1. UNCHANGED <<wanted, announced, withdrawn, raced, pc, state, subs, replay, remote>>
  BY DEF SendCommand
<1>2. /\ Current(c) /\ \A w \in User : call'[w].cmd = call[w].cmd
      /\ \A w \in User : Owes(w, x) => Owes(w, x)' \/ (w = u /\ x = s)
  BY CallGoesOn DEF CallsCurrent
<1>3. CASE x # s
  <2>1. cmds'[x] = cmds[x] /\ lost'[x] = lost[x]
    BY <1>3 DEF SendCommand, NoteSent, SessionTypeOK
  <2>2. /\ \A r \in Route : WillHave(x, r)' <=> WillHave(x, r)
        /\ \A v \in Vni : WillSubscribe(x, v)' <=> WillSubscribe(x, v)
    BY <1>1, <2>1, QueueDecides DEF WillSubscribe
  <2>3. \A r \in Route : Withdrawing(x, r)'
    BY <1>0, <1>1, <1>2, <1>3, <2>2 DEF Reached, Withdrawing
  <2>4. \A r \in Route : Announcing(x, r)'
    BY <1>0, <1>1, <1>2, <1>3, <2>1, <2>2 DEF Reached, Announcing
  <2>5. \A v \in Vni : Subscribing(x, v)'
    BY <1>0, <1>1, <1>2, <1>3, <2>1, <2>2 DEF Reached, Subscribing
  <2> QED
    BY <2>3, <2>4, <2>5 DEF Reached
<1>4. CASE x = s
  <2>1. /\ cmds[s] \in Seq(Command) /\ cmds'[s] = Append(cmds[s], c)
        /\ \A v \in Vni : v \in lost'[s] <=> v \in lost[s] /\ c \notin RequestsOf(v)
    BY DEF SendCommand, NoteSent, SessionTypeOK
  <2>2. ASSUME NEW r \in Route PROVE Withdrawing(s, r)' /\ Announcing(s, r)'
    <3>1. CASE c \notin UpdatesOf(r)
      <4>1. /\ PlacesIn(cmds'[s], UpdatesOf(r)) = PlacesIn(cmds[s], UpdatesOf(r))
            /\ LastIn(cmds'[s], UpdatesOf(r), UpdateCmd("Add", r))
                 <=> LastIn(cmds[s], UpdatesOf(r), UpdateCmd("Add", r))
        BY <1>0, <2>1, <3>1, LastOfAppend, CommandsDiffer
      <4>2. WillHave(s, r)' <=> WillHave(s, r)
        BY <1>1, <4>1, QueueDecides
      <4>3. \A w \in User : call[w].cmd \in UpdatesOf(r) /\ Owes(w, s) => Owes(w, s)'
        BY <1>2, <1>4, <3>1
      <4>4. Withdrawing(s, r)'
        BY <1>0, <1>1, <1>2, <1>4, <4>2, <4>3, CommandsDiffer DEF Reached, Withdrawing
      <4>5. Announcing(s, r)'
        BY <1>0, <1>1, <1>2, <1>4, <4>1, <4>2, <4>3, CommandsDiffer DEF Reached, Announcing
      <4> QED
        BY <4>4, <4>5
    <3>2. CASE c \in UpdatesOf(r)
      <4>1. /\ PlacesIn(cmds'[s], UpdatesOf(r)) # {}
            /\ LastIn(cmds'[s], UpdatesOf(r), UpdateCmd("Add", r)) <=> c = UpdateCmd("Add", r)
        BY <1>0, <2>1, <3>2, LastOfAppend, CommandsDiffer
      <4>2. WillHave(s, r)' <=> c = UpdateCmd("Add", r)
        BY <4>1, QueueDecides
      <4> QED
        BY <1>1, <1>2, <3>2, <4>1, <4>2 DEF Withdrawing, Announcing, Current, UpdatesOf
    <3> QED
      BY <3>1, <3>2
  <2>3. ASSUME NEW v \in Vni PROVE Subscribing(s, v)'
    <3>1. CASE c \notin RequestsOf(v)
      <4>1. WillSubscribe(s, v)' <=> WillSubscribe(s, v)
        BY <1>0, <1>1, <2>1, <3>1, LastOfAppend, CommandsDiffer DEF WillSubscribe
      <4> QED
        BY <1>0, <1>1, <1>2, <1>4, <2>1, <3>1, <4>1 DEF Reached, Subscribing
    <3>2. CASE c \in RequestsOf(v)
      <4>1. WillSubscribe(s, v)' <=> c = SubscribeCmd(v)
        BY <1>0, <2>1, <3>2, LastOfAppend, CommandsDiffer DEF WillSubscribe
      <4> QED
        BY <1>1, <1>2, <3>2, <4>1, CommandsDiffer DEF Subscribing, Current, RequestsOf
    <3> QED
      BY <3>1, <3>2
  <2> QED
    BY <1>4, <2>2, <2>3 DEF Reached
<1> QED
  BY <1>3, <1>4

\* What a step of a peer task must not undo for its server: no withdrawn route
\* comes back, a connected server still gets the announced ones, and the
\* subscriptions stay as the queue leaves them, unless a request is noted as lost.
TaskKeeps(s) ==
  /\ \A r \in Route \ announced : WillHave(s, r)' => WillHave(s, r)
  /\ \A r \in Route \ withdrawn :
       /\ \/ PlacesIn(cmds'[s], UpdatesOf(r)) = {}
          \/ LastIn(cmds'[s], UpdatesOf(r), UpdateCmd("Add", r))
       /\ r \in announced /\ pc'[s] \in {"reannounce", "loop"} =>
            \/ WillHave(s, r)'
            \/ pc[s] \in {"reannounce", "loop"} /\ ~WillHave(s, r)
  /\ \A v \in Vni : v \notin lost'[s] /\ pc'[s] # "done" =>
       /\ v \notin lost[s] /\ pc[s] # "done"
       /\ WillSubscribe(s, v)' <=> WillSubscribe(s, v)

\* That is enough for everything on its way to every server to stay so.
LEMMA TaskKeepsReach ==
  ASSUME SessionTypeOK, CallsReach,
         NEW s \in Server, Progress(s) \/ ConnectionLost(s), TaskKeeps(s)
  PROVE  CallsReach'
<1> SUFFICES ASSUME NEW x \in Server PROVE Reached(x)'
  BY DEF CallsReach
<1>0. OthersKept(s) /\ Reached(x)
  BY OtherPeers DEF CallsReach
<1>1. /\ UNCHANGED <<wanted, announced, call, withdrawn, raced>>
      /\ \A u \in User : Owes(u, x)' <=> Owes(u, x)
  BY <1>0 DEF OthersKept, Owes
<1>2. CASE x = s
  <2>1. \A r \in Route : Withdrawing(x, r)'
    BY <1>0, <1>1, <1>2 DEF TaskKeeps, Reached, Withdrawing
  <2>2. \A r \in Route : Announcing(x, r)'
    BY <1>0, <1>1, <1>2 DEF TaskKeeps, Reached, Announcing
  <2>3. \A v \in Vni : Subscribing(x, v)'
    BY <1>0, <1>1, <1>2 DEF TaskKeeps, Reached, Subscribing
  <2> QED
    BY <2>1, <2>2, <2>3 DEF Reached
<1>3. CASE x # s
  <2>0. /\ cmds'[x] = cmds[x] /\ pc'[x] = pc[x] /\ lost'[x] = lost[x] /\ subs'[x] = subs[x]
        /\ replay'[x] = replay[x] /\ remote'[x] = remote[x]
    BY <1>0, <1>3 DEF OthersKept
  <2>1. /\ \A r \in Route : WillHave(x, r)' <=> WillHave(x, r)
        /\ \A v \in Vni : WillSubscribe(x, v)' <=> WillSubscribe(x, v)
    BY <2>0, QueueDecides DEF WillSubscribe
  <2> QED
    BY <1>0, <1>1, <2>0, <2>1 DEF Reached, Withdrawing, Announcing, Subscribing
<1> QED
  BY <1>2, <1>3

\* A step in which the queue stays, the connection is not past its subscriptions
\* and no route is added to what the server has.
LEMMA QuietKeeps ==
  ASSUME SessionTypeOK, CallsReach, NEW s \in Server,
         cmds'[s] = cmds[s], subs'[s] = subs[s], lost'[s] = lost[s], pc[s] # "done",
         pc'[s] \notin {"reannounce", "loop"},
         \A r \in Route : r \in remote'[s].routes \cup replay'[s]
                            => r \in remote[s].routes \cup replay[s]
  PROVE  TaskKeeps(s)
<1>1. \A r \in Route : WillHave(s, r)' => WillHave(s, r)
  BY QueueDecides
<1>2. \A r \in Route : Announcing(s, r)
  BY DEF CallsReach, Reached
<1> QED
  BY <1>1, <1>2 DEF TaskKeeps, Announcing, WillSubscribe

\* The first command is dropped with the connection, or while there is none.
LEMMA DropKeeps ==
  ASSUME SessionTypeOK, CallsReach, NEW s \in Server,
         cmds[s] # <<>>, cmds'[s] = Tail(cmds[s]), subs'[s] = subs[s], NoteDropped(s),
         pc[s] # "done", pc'[s] \notin {"reannounce", "loop"},
         remote'[s].routes = {}, replay'[s] = {}
  PROVE  TaskKeeps(s)
<1> DEFINE h == Head(cmds[s])
<1>0. /\ cmds[s] \in Seq(Command) /\ Len(cmds[s]) \in Nat \ {0}
      /\ \A r \in Route : Announcing(s, r)
  BY QueueTail DEF SessionTypeOK, CallsReach, Reached
<1>1. ASSUME NEW C, NEW c \in C
      PROVE  /\ LastIn(Tail(cmds[s]), C, c) => LastIn(cmds[s], C, c)
             /\ h \notin C => /\ LastIn(Tail(cmds[s]), C, c) <=> LastIn(cmds[s], C, c)
                              /\ PlacesIn(Tail(cmds[s]), C) = {} <=> PlacesIn(cmds[s], C) = {}
             /\ PlacesIn(cmds[s], C) = {} => PlacesIn(Tail(cmds[s]), C) = {}
             /\ PlacesIn(Tail(cmds[s]), C) # {}
                  => (LastIn(Tail(cmds[s]), C, c) <=> LastIn(cmds[s], C, c))
             /\ LastIn(cmds[s], C, c) => PlacesIn(cmds[s], C) # {}
  <2>1. LastIn(Tail(cmds[s]), C, c) => PlacesIn(Tail(cmds[s]), C) # {}
    BY DEF LastIn
  <2>2. LastIn(cmds[s], C, c) => PlacesIn(cmds[s], C) # {}
    BY DEF LastIn
  <2> QED
    BY <1>0, <2>1, <2>2, LastOfTail
<1>2. \A r \in Route : WillHave(s, r)' => WillHave(s, r)
  BY <1>1, QueueDecides, CommandsDiffer
<1>3. \A r \in Route \ withdrawn :
        \/ PlacesIn(cmds'[s], UpdatesOf(r)) = {}
        \/ LastIn(cmds'[s], UpdatesOf(r), UpdateCmd("Add", r))
  BY <1>0, <1>1, CommandsDiffer DEF Announcing
<1>4. ASSUME NEW v \in Vni, v \notin lost'[s]
      PROVE  v \notin lost[s] /\ (WillSubscribe(s, v)' <=> WillSubscribe(s, v))
  <2>1. /\ v \notin lost[s]
        /\ h \in RequestsOf(v) => \E i \in 2..Len(cmds[s]) : cmds[s][i] \in RequestsOf(v)
    BY <1>4 DEF NoteDropped, SessionTypeOK
  <2>2. CASE h \notin RequestsOf(v)
    BY <1>1, <2>1, <2>2, CommandsDiffer DEF WillSubscribe
  <2>3. CASE h \in RequestsOf(v)
    <3>1. PICK i \in 2..Len(cmds[s]) : cmds[s][i] \in RequestsOf(v)
      BY <2>1, <2>3
    <3>2. /\ i - 1 \in DOMAIN Tail(cmds[s]) /\ Tail(cmds[s])[i - 1] \in RequestsOf(v)
          /\ i \in DOMAIN cmds[s]
      BY <1>0, <3>1, QueueTail, LenProperties
    <3>3. PlacesIn(Tail(cmds[s]), RequestsOf(v)) # {} /\ PlacesIn(cmds[s], RequestsOf(v)) # {}
      BY <3>1, <3>2 DEF PlacesIn
    <3> QED
      BY <1>1, <2>1, <3>3, CommandsDiffer DEF WillSubscribe
  <2> QED
    BY <2>2, <2>3
<1> QED
  BY <1>2, <1>3, <1>4 DEF TaskKeeps

\* The first command is written: what the queue decides stays the same.
LEMMA TakeKeeps ==
  ASSUME SessionTypeOK, CallsReach, NEW s \in Server, TakeCommand(s)
  PROVE  TaskKeeps(s)
<1> DEFINE h == Head(cmds[s])
<1>0. /\ cmds[s] \in Seq(Command) /\ cmds[s] # <<>> /\ cmds'[s] = Tail(cmds[s])
      /\ \A r \in Route : Announcing(s, r)
  BY DEF SessionTypeOK, CallsReach, Reached, TakeCommand
<1>1. Served(s, h) /\ replay[s] = {} /\ replay'[s] = {} /\ pc[s] = "loop" /\ pc'[s] = "loop"
      /\ lost'[s] = lost[s]
  BY <1>0, QueueTail, ServeEffect DEF TakeCommand, SessionTypeOK
<1>2. ASSUME NEW C, NEW c \in C
      PROVE  /\ h \notin C => /\ PlacesIn(Tail(cmds[s]), C) = {} <=> PlacesIn(cmds[s], C) = {}
                              /\ LastIn(Tail(cmds[s]), C, c) <=> LastIn(cmds[s], C, c)
             /\ h \in C => PlacesIn(cmds[s], C) # {}
             /\ h \in C /\ PlacesIn(Tail(cmds[s]), C) = {}
                  => (LastIn(cmds[s], C, c) <=> h = c) /\ ~LastIn(Tail(cmds[s]), C, c)
             /\ PlacesIn(Tail(cmds[s]), C) # {}
                  => (LastIn(Tail(cmds[s]), C, c) <=> LastIn(cmds[s], C, c))
  BY <1>0, <1>2, LastOfTail
<1>3. ASSUME NEW r \in Route
      PROVE  /\ WillHave(s, r)' <=> WillHave(s, r)
             /\ r \notin withdrawn => \/ PlacesIn(cmds'[s], UpdatesOf(r)) = {}
                                      \/ LastIn(cmds'[s], UpdatesOf(r), UpdateCmd("Add", r))
  <2>1. /\ h = UpdateCmd("Add", r) => r \in remote'[s].routes
        /\ h = UpdateCmd("Remove", r) => r \notin remote'[s].routes
        /\ h \notin UpdatesOf(r) => (r \in remote'[s].routes <=> r \in remote[s].routes)
    BY <1>1 DEF Served
  <2>2. h \in UpdatesOf(r) => h = UpdateCmd("Add", r) \/ h = UpdateCmd("Remove", r)
    BY DEF UpdatesOf
  <2>3. WillHave(s, r)' <=> WillHave(s, r)
    <3> DEFINE C == UpdatesOf(r)
               c == UpdateCmd("Add", r)
    <3>1. /\ WillHave(s, r) <=> \/ LastIn(cmds[s], C, c)
                                \/ PlacesIn(cmds[s], C) = {} /\ r \in remote[s].routes
          /\ WillHave(s, r)' <=> \/ LastIn(Tail(cmds[s]), C, c)
                                 \/ PlacesIn(Tail(cmds[s]), C) = {} /\ r \in remote'[s].routes
      BY <1>0, <1>1, QueueDecides
    <3>2. c \in C /\ c # UpdateCmd("Remove", r)
      BY CommandsDiffer
    <3> HIDE DEF C, c, h
    <3>3. CASE h \notin C
      BY <1>2, <2>1, <3>1, <3>2, <3>3 DEF C
    <3>4. CASE h \in C
      BY <1>2, <2>1, <2>2, <3>1, <3>2, <3>4 DEF C, c
    <3> QED
      BY <3>3, <3>4
  <2>4. LastIn(cmds[s], UpdatesOf(r), UpdateCmd("Add", r)) => PlacesIn(cmds[s], UpdatesOf(r)) # {}
    BY DEF LastIn
  <2> QED
    BY <1>0, <1>2, <2>3, <2>4, CommandsDiffer DEF Announcing
<1>4. ASSUME NEW v \in Vni PROVE WillSubscribe(s, v)' <=> WillSubscribe(s, v)
  <2>1. /\ h = SubscribeCmd(v) => v \in subs'[s]
        /\ h = UnsubscribeCmd(v) => v \notin subs'[s]
        /\ h \notin RequestsOf(v) => (v \in subs'[s] <=> v \in subs[s])
    BY <1>1 DEF Served
  <2>2. h \in RequestsOf(v) => h = SubscribeCmd(v) \/ h = UnsubscribeCmd(v)
    BY DEF RequestsOf
  <2> QED
    BY <1>0, <1>2, <2>1, <2>2, CommandsDiffer DEF WillSubscribe
<1> QED
  BY <1>1, <1>3, <1>4 DEF TaskKeeps

\* No step of a peer task undoes any of it.
LEMMA TaskReach ==
  ASSUME SessionTypeOK, ConnectionsOK, CallsReach,
         NEW s \in Server, Progress(s) \/ ConnectionLost(s)
  PROVE  CallsReach'
<1> USE DEF Goto
<1>0. ConnectionOK(s) /\ (pc[s] \notin {"resub", "reannounce"} => replay[s] = {})
  BY DEF ConnectionsOK, SessionTypeOK
<1>1. CASE Connect(s) \/ ConnectFail(s) \/ CleanUp(s) \/ RetryWait(s) \/ RetryTimer(s)
  <2>1. /\ pc[s] # "done" /\ pc'[s] \notin {"reannounce", "loop"}
        /\ UNCHANGED <<cmds, subs, replay, lost, remote>>
    BY <1>1 DEF Connect, ConnectFail, CleanUp, RetryWait, RetryTimer, SessionTypeOK
  <2>2. TaskKeeps(s)
    BY <2>1, QuietKeeps
  <2> QED
    BY <2>2, TaskKeepsReach
<1>2. CASE Handshake(s)
  <2>1. /\ pc[s] = "handshake" /\ pc'[s] \notin {"reannounce", "loop"}
        /\ UNCHANGED <<cmds, subs, lost, remote>>
        /\ replay'[s] \subseteq Vni
    BY <1>0, <1>2 DEF Handshake, SessionTypeOK
  <2>2. TaskKeeps(s)
    BY <2>1, QuietKeeps, SessionAssumption
  <2> QED
    BY <2>2, TaskKeepsReach
<1>3. ASSUME NEW v \in Vni, Resubscribe(s, v) PROVE CallsReach'
  <2>1. /\ pc[s] = "resub" /\ pc'[s] = "resub" /\ UNCHANGED <<cmds, subs, lost>>
        /\ replay'[s] \subseteq replay[s] /\ remote'[s].routes = remote[s].routes
    BY <1>3 DEF Resubscribe, SessionTypeOK
  <2>2. TaskKeeps(s)
    BY <2>1, QuietKeeps
  <2> QED
    BY <2>2, TaskKeepsReach
<1>4. CASE ConnectionLost(s)
  <2>1. /\ pc[s] # "done" /\ pc'[s] = "ended" /\ UNCHANGED <<cmds, subs, lost>>
        /\ replay'[s] = {} /\ remote'[s].routes = {}
    BY <1>4 DEF ConnectionLost, EndConnection, Nothing, SessionTypeOK
  <2>2. TaskKeeps(s)
    BY <2>1, QuietKeeps
  <2> QED
    BY <2>2, TaskKeepsReach
<1>5. CASE StartReannounce(s)
  <2>1. /\ pc[s] = "resub" /\ pc'[s] = "reannounce" /\ UNCHANGED <<cmds, subs, lost, remote>>
        /\ replay'[s] = announced /\ remote[s].routes = {}
    BY <1>0, <1>5 DEF StartReannounce, ToReannounce, ConnectionOK, SessionTypeOK
  <2>2. \A r \in Route : Announcing(s, r)
    BY DEF CallsReach, Reached
  <2>3. /\ \A r \in Route \ announced : WillHave(s, r)' => WillHave(s, r)
        /\ \A r \in announced \ withdrawn : r \in Route => WillHave(s, r)'
    BY <2>1, <2>2, QueueDecides DEF Announcing
  <2>4. TaskKeeps(s)
    BY <2>1, <2>2, <2>3 DEF TaskKeeps, Announcing, WillSubscribe
  <2> QED
    BY <2>4, TaskKeepsReach
<1>6. CASE EnterLoop(s) \/ \E r \in Route : Reannounce(s, r)
  <2>1. /\ pc[s] = "reannounce" /\ pc'[s] \in {"reannounce", "loop"}
        /\ UNCHANGED <<cmds, subs, lost>>
    BY <1>6 DEF EnterLoop, Reannounce, SessionTypeOK
  <2>2. remote'[s].routes \cup replay'[s] = remote[s].routes \cup replay[s]
    BY <1>6 DEF EnterLoop, Reannounce, SessionTypeOK
  <2>3. \A r \in Route : WillHave(s, r)' <=> WillHave(s, r)
    BY <2>1, <2>2, QueueDecides
  <2>4. \A r \in Route : Announcing(s, r)
    BY DEF CallsReach, Reached
  <2>5. TaskKeeps(s)
    BY <2>1, <2>3, <2>4 DEF TaskKeeps, Announcing, WillSubscribe
  <2> QED
    BY <2>5, TaskKeepsReach
<1>7. CASE TakeCommand(s)
  BY <1>7, TakeKeeps, TaskKeepsReach
<1>8. ASSUME Return(s), pc[s] \notin {"resub", "reannounce"} PROVE CallsReach'
  <2>1. cmds'[s] = <<>> /\ pc'[s] = "done" /\ remote'[s].routes = {} /\ replay'[s] = {}
    BY <1>0, <1>8 DEF Return, Nothing, SessionTypeOK
  <2>2. \A r \in Route : ~WillHave(s, r)'
    BY <2>1, QueueDecides, LastOfEmpty
  <2>3. TaskKeeps(s)
    BY <2>1, <2>2, LastOfEmpty DEF TaskKeeps
  <2> QED
    BY <2>3, TaskKeepsReach
<1>9. CASE TakeShutdown(s)
  BY <1>8, <1>9 DEF TakeShutdown
<1>10. CASE SendFails(s)
  <2>1. /\ pc[s] # "done" /\ pc'[s] = "ended" /\ cmds[s] # <<>> /\ cmds'[s] = Tail(cmds[s])
        /\ subs'[s] = subs[s] /\ NoteDropped(s) /\ replay'[s] = {} /\ remote'[s].routes = {}
    BY <1>10 DEF SendFails, EndConnection, Nothing, SessionTypeOK
  <2>2. TaskKeeps(s)
    BY <2>1, DropKeeps
  <2> QED
    BY <2>2, TaskKeepsReach
<1>11. CASE RetryCommand(s)
  <2>0. pc[s] \in {"retry", "sleep"} /\ cmds[s] # <<>>
    BY <1>11 DEF RetryCommand
  <2>1. CASE Head(cmds[s]) = ShutdownCmd
    BY <1>8, <1>11, <2>0, <2>1 DEF RetryCommand
  <2>2. CASE Head(cmds[s]) # ShutdownCmd
    <3>1. /\ pc'[s] = "connect" /\ cmds'[s] = Tail(cmds[s])
          /\ subs'[s] = subs[s] /\ NoteDropped(s) /\ replay'[s] = {} /\ remote'[s].routes = {}
      BY <1>0, <1>11, <2>0, <2>2 DEF RetryCommand, ConnectionOK, Nothing, SessionTypeOK
    <3>2. TaskKeeps(s)
      BY <2>0, <3>1, DropKeeps
    <3> QED
      BY <3>2, TaskKeepsReach
  <2> QED
    BY <2>1, <2>2
<1> QED
  BY <1>1, <1>2, <1>3, <1>4, <1>5, <1>6, <1>7, <1>9, <1>10, <1>11 DEF Progress, OwnStep, StreamStep

-----------------------------------------------------------------------------
(* What the servers come to hold. *)

\* The inductive invariant.
SessionInv == SessionTypeOK /\ ConnectionsOK /\ CallsCurrent /\ CallsReach

\* At MetalBondClient::connect no route is announced and nothing is queued.
LEMMA SessionInvInit == Init => SessionInv
<1> SUFFICES ASSUME Init PROVE SessionInv
  OBVIOUS
<1>1. CallsCurrent
  BY DEF Init, CallsCurrent, InCall, NoCall
<1>2. ASSUME NEW s \in Server PROVE Reached(s)
  <2>1. cmds[s] = <<>> /\ remote[s].routes = {} /\ replay[s] = {} /\ subs[s] = {}
    BY DEF Init, Nothing
  <2>2. /\ \A r \in Route : ~WillHave(s, r)
        /\ \A v \in Vni : ~WillSubscribe(s, v)
    BY <2>1, QueueDecides, LastOfEmpty DEF WillSubscribe
  <2> QED
    BY <2>1, <2>2, LastOfEmpty DEF Init, Reached, Withdrawing, Announcing, Subscribing
<1> QED
  BY <1>1, <1>2, SessionTypeInit, ConnectionsInit DEF SessionInv, CallsReach

\* Every step of the calls and of the tasks keeps the invariant.
LEMMA SessionInvStep == SessionInv /\ [Next]_vars => SessionInv'
<1> SUFFICES ASSUME SessionInv, [Next]_vars PROVE CallsReach'
  BY SessionTypeStep, ConnectionsStep, CurrentStep DEF SessionInv
<1>1. CASE UNCHANGED vars
  <2> SUFFICES ASSUME NEW s \in Server PROVE Reached(s)'
    BY DEF CallsReach
  <2>1. /\ \A r \in Route : WillHave(s, r)' <=> WillHave(s, r)
        /\ \A v \in Vni : WillSubscribe(s, v)' <=> WillSubscribe(s, v)
    BY <1>1, QueueDecides DEF WillSubscribe
  <2>2. \A u \in User : Owes(u, s)' <=> Owes(u, s)
    BY <1>1 DEF Owes
  <2> QED
    BY <1>1, <2>1, <2>2 DEF SessionInv, CallsReach, Reached, Withdrawing, Announcing, Subscribing
<1> QED
  BY <1>1, UserReach, VisitReach, SendReach, TaskReach DEF SessionInv, Next, CallStep

\* The inductive invariant holds in every reachable state of the client.
THEOREM SessionInvariant == Spec => []SessionInv
  BY SessionInvInit, SessionInvStep, PTL DEF Spec

\* A call that owes its command to a server is under way.
LEMMA OwingIsUnderWay ==
  ASSUME NEW C, NEW u \in User, NEW s \in Server, call[u].cmd \in C, Owes(u, s)
  PROVE  UnderWay(C)
  BY SessionAssumption DEF UnderWay, Owes, InCall

\* A withdrawn route leaves every server (withdraw): no order of queued commands,
\* lost connections, failed writes and re-announcements brings it back, unless two
\* calls about the route overlapped.
THEOREM WithdrawalsHold == Spec => []WithdrawnRoutesGone
<1>1. SessionInv => WithdrawnRoutesGone
  <2> SUFFICES ASSUME SessionInv, NEW s \in Server, NEW r \in Route \ (announced \cup raced),
                      ~UnderWay(UpdatesOf(r))
               PROVE  ~WillHave(s, r)
    BY DEF WithdrawnRoutesGone
  <2>1. Withdrawing(s, r)
    BY DEF SessionInv, CallsReach, Reached
  <2> QED
    BY <2>1, OwingIsUnderWay, CommandsDiffer DEF Withdrawing
<1> QED
  BY <1>1, SessionInvariant, PTL

\* An announced route that was never withdrawn is at, or on its way to, every
\* server in its main loop (announce, run_connection).
THEOREM AnnouncementsArrive == Spec => []AnnouncedRoutesReach
<1>1. SessionInv => AnnouncedRoutesReach
  <2> SUFFICES ASSUME SessionInv, NEW s \in Server, NEW r \in announced \ withdrawn,
                      pc[s] = "loop", ~UnderWay(UpdatesOf(r))
               PROVE  WillHave(s, r)
    BY DEF AnnouncedRoutesReach
  <2>1. r \in Route /\ Announcing(s, r)
    BY DEF SessionInv, SessionTypeOK, CallsReach, Reached
  <2> QED
    BY <2>1, OwingIsUnderWay, CommandsDiffer DEF Announcing
<1> QED
  BY <1>1, SessionInvariant, PTL

\* A server that is replayed to or served gets exactly the wanted VNIs (subscribe,
\* unsubscribe), but for those whose last call was lost on its way to it or
\* overlapped with another.
THEOREM SubscriptionsAreFollowed == Spec => []SubscriptionsFollow
<1>1. SessionInv => SubscriptionsFollow
  <2> SUFFICES ASSUME SessionInv, NEW s \in Server, NEW v \in Vni \ (lost[s] \cup raced),
                      pc[s] \in {"reannounce", "loop"}, ~UnderWay(RequestsOf(v))
               PROVE  WillServe(s, v) <=> v \in wanted
    BY DEF SubscriptionsFollow
  <2>1. Subscribing(s, v)
    BY DEF SessionInv, CallsReach, Reached
  <2>2. WillSubscribe(s, v) <=> v \in wanted
    BY <2>1, OwingIsUnderWay DEF Subscribing
  <2>3. remote[s].subs = subs[s]
    BY DEF SessionInv, ConnectionsOK, ConnectionOK
  <2>4. v \notin replay[s]
    BY SessionAssumption DEF SessionInv, SessionTypeOK, ConnectionsOK, ConnectionOK
  <2> QED
    BY <2>2, <2>3, <2>4, QueueDecides DEF WillSubscribe
<1> QED
  BY <1>1, SessionInvariant, PTL
=============================================================================
