---------------------------- MODULE PeerSession ----------------------------
(***************************************************************************)
(* The client of src/client.rs and src/peer.rs as its servers see it: the  *)
(* calls of MetalBondClient (subscribe, unsubscribe, announce, withdraw,   *)
(* shutdown), the command queue to each peer task, and the task itself,    *)
(* which connects, greets, replays the client's subscriptions and routes,  *)
(* serves its queue, and starts over when the connection ends.             *)
(*                                                                         *)
(* A call is not atomic: it updates the shared tables under their locks,   *)
(* then visits the peers one after the other, looks at the state of each   *)
(* and waits for room in its queue.  A route announced now may reach a     *)
(* server through the queue or through the replay after a reconnect, and   *)
(* nothing but the code keeps the two in order.                            *)
(*                                                                         *)
(* remote is the state that a server keeps for the current connection.  It *)
(* is updated when a request is written: the stream is FIFO, and the       *)
(* server forgets everything with the connection (RoutingServer).          *)
(***************************************************************************)
EXTENDS Integers, Sequences

CONSTANTS
  Server,   \* configured servers, one peer task each
  User,     \* threads that call the client
  Vni,
  Route,    \* (vni, destination, next hop)
  CmdCap,   \* capacity of a peer's command queue (256)
  None,     \* not a server: a call that waits for no queue
  MaxCalls  \* bound: calls in a behaviour

ASSUME SessionAssumption ==
  /\ None \notin Server
  /\ Vni \cap Route = {}
  /\ CmdCap \in Nat \ {0}
  /\ MaxCalls \in Nat

\* enum PeerCommand.
SubscribeCmd(v)   == [type |-> "Subscribe", vni |-> v]
UnsubscribeCmd(v) == [type |-> "Unsubscribe", vni |-> v]
UpdateCmd(t, r)   == [type |-> t, route |-> r]
ShutdownCmd       == [type |-> "Shutdown"]

Command == [type : {"Subscribe", "Unsubscribe"}, vni : Vni]
             \cup [type : {"Add", "Remove"}, route : Route]
             \cup {ShutdownCmd}

\* A call: its command, the peers still to visit, the queue it waits for.
Call   == [cmd : Command, todo : SUBSET Server, at : Server \cup {None}]
NoCall == [cmd |-> ShutdownCmd, todo |-> {}, at |-> None]

VARIABLES
  \* MetalBondClient and its shared state
  wanted,     \* ClientSharedState.subscriptions
  announced,  \* announced_routes, shared with the peer tasks
  call,       \* the call each thread is in
  dropped,    \* the client was consumed by shutdown
  calls,      \* calls used up (bound)
  withdrawn,  \* history: routes that were ever withdrawn
  raced,      \* history: routes and VNIs with two calls under way at once
  \* one peer task per server
  pc,         \* where the task is
  state,      \* PeerState: the connection state that calls look at
  cmds,       \* cmd_rx
  subs,       \* PeerState.subscriptions
  replay,     \* what the task has left to re-subscribe or re-announce
  lost,       \* history: VNIs whose last call did not get through to the server
  \* the server's end
  remote

clientVars == <<wanted, announced, call, dropped, calls, withdrawn, raced>>
taskVars   == <<pc, state, cmds, subs, replay, lost, remote>>
vars       == <<clientVars, taskVars>>

Nothing == [subs |-> {}, routes |-> {}]

\* The types of the variables; a queue never outgrows its capacity and only a
\* task that is replaying has something left to replay.
SessionTypeOK ==
  /\ wanted \in SUBSET Vni
  /\ announced \in SUBSET Route
  /\ call \in [User -> Call]
  /\ dropped \in BOOLEAN
  /\ calls \in 0..MaxCalls
  /\ withdrawn \in SUBSET Route
  /\ raced \in SUBSET (Route \cup Vni)
  /\ pc \in [Server -> {"connect", "handshake", "resub", "reannounce", "loop",
                        "ended", "retry", "sleep", "done"}]
  /\ state \in [Server -> {"Connecting", "HelloSent", "HelloReceived",
                           "Established", "Retry", "Closed"}]
  /\ cmds \in [Server -> Seq(Command)]
  /\ subs \in [Server -> SUBSET Vni]
  /\ replay \in [Server -> SUBSET (Vni \cup Route)]
  /\ lost \in [Server -> SUBSET Vni]
  /\ remote \in [Server -> [subs : SUBSET Vni, routes : SUBSET Route]]
  /\ \A s \in Server : Len(cmds[s]) <= CmdCap
  /\ \A s \in Server : replay[s] # {} => pc[s] \in {"resub", "reannounce"}

Init ==
  /\ wanted = {} /\ announced = {} /\ withdrawn = {} /\ raced = {}
  /\ call = [u \in User |-> NoCall]
  /\ dropped = FALSE
  /\ calls = 0
  /\ pc = [s \in Server |-> "connect"]
  /\ state = [s \in Server |-> "Connecting"]
  /\ cmds = [s \in Server |-> <<>>]
  /\ subs = [s \in Server |-> {}]
  /\ replay = [s \in Server |-> {}]
  /\ lost = [s \in Server |-> {}]
  /\ remote = [s \in Server |-> Nothing]

-----------------------------------------------------------------------------
(* The calls. *)

InCall(u) == call[u].todo # {} \/ call[u].at # None

Begin(u, cmd) ==
  /\ ~InCall(u) /\ ~dropped
  /\ calls < MaxCalls
  /\ calls' = calls + 1
  /\ call' = [call EXCEPT ![u] = [cmd |-> cmd, todo |-> Server, at |-> None]]
  /\ UNCHANGED taskVars

\* The write lock on announced_routes: a task that re-announces reads the table
\* for as long as it sends.
Writable == \A s \in Server : pc[s] # "reannounce"

\* The commands about route r, about VNI v.
UpdatesOf(r)  == {UpdateCmd("Add", r), UpdateCmd("Remove", r)}
RequestsOf(v) == {SubscribeCmd(v), UnsubscribeCmd(v)}

\* One of these commands is being sent by a call that is under way.
UnderWay(C) == \E u \in User : InCall(u) /\ call[u].cmd \in C

\* History: a call about x begins while another one is under way.
NoteRace(x, C) == raced' = IF UnderWay(C) THEN raced \cup {x} ELSE raced

SubscribeCall(u, v) ==
  /\ Begin(u, SubscribeCmd(v))
  /\ wanted' = wanted \cup {v}
  /\ NoteRace(v, RequestsOf(v))
  /\ UNCHANGED <<announced, dropped, withdrawn>>

UnsubscribeCall(u, v) ==
  /\ Begin(u, UnsubscribeCmd(v))
  /\ wanted' = wanted \ {v}
  /\ NoteRace(v, RequestsOf(v))
  /\ UNCHANGED <<announced, dropped, withdrawn>>

\* A route that is announced already is refused (RouteAlreadyAnnounced).
Announce(u, r) ==
  /\ Writable /\ r \notin announced
  /\ Begin(u, UpdateCmd("Add", r))
  /\ announced' = announced \cup {r}
  /\ NoteRace(r, UpdatesOf(r))
  /\ UNCHANGED <<wanted, dropped, withdrawn>>

\* A route that is not announced is refused (RouteNotFound).
Withdraw(u, r) ==
  /\ Writable /\ r \in announced
  /\ Begin(u, UpdateCmd("Remove", r))
  /\ announced' = announced \ {r}
  /\ withdrawn' = withdrawn \cup {r}
  /\ NoteRace(r, UpdatesOf(r))
  /\ UNCHANGED <<wanted, dropped>>

\* shutdown consumes the client: no other call is under way and none follows.
Shutdown(u) ==
  /\ \A w \in User : ~InCall(w)
  /\ Begin(u, ShutdownCmd)
  /\ dropped' = TRUE
  /\ UNCHANGED <<wanted, announced, withdrawn, raced>>

\* A mutant of Addressed: every call skips the peers that are not established.
AddressedEstablished(cmd, s) == state[s] = "Established"

\* subscribe and announce leave out a peer that is not established; the other
\* calls go to every peer.
Addressed(cmd, s) == cmd.type \in {"Subscribe", "Add"} => state[s] = "Established"

\* History: subscribe passes over a peer that is not established.
NoteSkip(cmd, s) ==
  lost' = [lost EXCEPT ![s] =
    IF cmd.type = "Subscribe" /\ state[s] # "Established" THEN @ \cup {cmd.vni} ELSE @]

\* History: the command is in the queue and may get through.
NoteSent(cmd, s) ==
  lost' = [lost EXCEPT ![s] = {v \in @ : cmd \notin RequestsOf(v)}]

\* History: the first command is dropped, and no later one is about its VNI.
NoteDropped(s) ==
  lost' = [lost EXCEPT ![s] = @ \cup
    {v \in Vni : /\ Head(cmds[s]) \in RequestsOf(v)
                 /\ \A i \in 2..Len(cmds[s]) : cmds[s][i] \notin RequestsOf(v)}]

\* The next peer of the loop, in any order (peers is a HashMap).
Visit(u, s) ==
  /\ call[u].at = None /\ s \in call[u].todo
  /\ call' = [call EXCEPT ![u].todo = @ \ {s},
                          ![u].at = IF Addressed(call[u].cmd, s) THEN s ELSE None]
  /\ NoteSkip(call[u].cmd, s)
  /\ UNCHANGED <<wanted, announced, dropped, calls, withdrawn, raced,
                 pc, state, cmds, subs, replay, remote>>

\* A mutant of SendCommand: an unbounded queue.
SendCommandUnbounded(u, s) ==
  /\ call[u].at = s
  /\ cmds' = [cmds EXCEPT ![s] = Append(@, call[u].cmd)]
  /\ call' = [call EXCEPT ![u].at = None]
  /\ NoteSent(call[u].cmd, s)
  /\ UNCHANGED <<wanted, announced, dropped, calls, withdrawn, raced,
                 pc, state, subs, replay, remote>>

\* cmd_tx.send waits for room.  The task is there: it ends after Shutdown only,
\* the last command it is sent.
SendCommand(u, s) ==
  /\ call[u].at = s
  /\ Len(cmds[s]) < CmdCap
  /\ cmds' = [cmds EXCEPT ![s] = Append(@, call[u].cmd)]
  /\ call' = [call EXCEPT ![u].at = None]
  /\ NoteSent(call[u].cmd, s)
  /\ UNCHANGED <<wanted, announced, dropped, calls, withdrawn, raced,
                 pc, state, subs, replay, remote>>

-----------------------------------------------------------------------------
(* The peer task. *)

Goto(s, label, st) ==
  /\ pc' = [pc EXCEPT ![s] = label]
  /\ state' = [state EXCEPT ![s] = st]

Connect(s) ==
  /\ pc[s] = "connect"
  /\ Goto(s, "handshake", "Connecting")
  /\ UNCHANGED <<clientVars, cmds, subs, replay, lost, remote>>

ConnectFail(s) ==
  /\ pc[s] = "connect"
  /\ Goto(s, "retry", "Retry")
  /\ UNCHANGED <<clientVars, cmds, subs, replay, lost, remote>>

\* HELLO sent; HELLO received; KEEPALIVE sent and received, which establishes
\* the connection.
Handshake(s) ==
  /\ pc[s] = "handshake"
  /\ \/ /\ state[s] = "Connecting" /\ Goto(s, "handshake", "HelloSent")
        /\ UNCHANGED replay
     \/ /\ state[s] = "HelloSent" /\ Goto(s, "handshake", "HelloReceived")
        /\ UNCHANGED replay
     \/ /\ state[s] = "HelloReceived" /\ Goto(s, "resub", "Established")
        /\ replay' = [replay EXCEPT ![s] = subs[s]]
  /\ UNCHANGED <<clientVars, cmds, subs, lost, remote>>

Resubscribe(s, v) ==
  /\ pc[s] = "resub" /\ v \in replay[s]
  /\ replay' = [replay EXCEPT ![s] = @ \ {v}]
  /\ remote' = [remote EXCEPT ![s].subs = @ \cup {v}]
  /\ UNCHANGED <<clientVars, pc, state, cmds, subs, lost>>

\* A mutant of ToReannounce: subscriptions are replayed, routes are not.
ToReannounceNothing(s) == {}

\* The routes to re-announce: the table as it is once the connection is
\* established.
ToReannounce(s) == announced

StartReannounce(s) ==
  /\ pc[s] = "resub" /\ replay[s] = {}
  /\ Goto(s, "reannounce", state[s])
  /\ replay' = [replay EXCEPT ![s] = ToReannounce(s)]
  /\ UNCHANGED <<clientVars, cmds, subs, lost, remote>>

Reannounce(s, r) ==
  /\ pc[s] = "reannounce" /\ r \in replay[s]
  /\ replay' = [replay EXCEPT ![s] = @ \ {r}]
  /\ remote' = [remote EXCEPT ![s].routes = @ \cup {r}]
  /\ UNCHANGED <<clientVars, pc, state, cmds, subs, lost>>

EnterLoop(s) ==
  /\ pc[s] = "reannounce" /\ replay[s] = {}
  /\ Goto(s, "loop", state[s])
  /\ UNCHANGED <<clientVars, cmds, subs, replay, lost, remote>>

\* A mutant of Serve: PeerState.subscriptions only grows.
ServeKeepSubscription(s, cmd) ==
  /\ remote' = [remote EXCEPT ![s] =
       CASE cmd.type = "Subscribe"   -> [@ EXCEPT !.subs = @ \cup {cmd.vni}]
         [] cmd.type = "Unsubscribe" -> [@ EXCEPT !.subs = @ \ {cmd.vni}]
         [] cmd.type = "Add"         -> [@ EXCEPT !.routes = @ \cup {cmd.route}]
         [] cmd.type = "Remove"      -> [@ EXCEPT !.routes = @ \ {cmd.route}]]
  /\ subs' = [subs EXCEPT ![s] =
       IF cmd.type = "Subscribe" THEN @ \cup {cmd.vni} ELSE @]

\* A command served in the main loop: the request is written, then
\* PeerState.subscriptions follows.
Serve(s, cmd) ==
  \/ /\ cmd.type = "Subscribe"
     /\ remote' = [remote EXCEPT ![s].subs = @ \cup {cmd.vni}]
     /\ subs' = [subs EXCEPT ![s] = @ \cup {cmd.vni}]
  \/ /\ cmd.type = "Unsubscribe"
     /\ remote' = [remote EXCEPT ![s].subs = @ \ {cmd.vni}]
     /\ subs' = [subs EXCEPT ![s] = @ \ {cmd.vni}]
  \/ /\ cmd.type = "Add"
     /\ remote' = [remote EXCEPT ![s].routes = @ \cup {cmd.route}]
     /\ UNCHANGED subs
  \/ /\ cmd.type = "Remove"
     /\ remote' = [remote EXCEPT ![s].routes = @ \ {cmd.route}]
     /\ UNCHANGED subs

TakeCommand(s) ==
  /\ pc[s] = "loop" /\ cmds[s] # <<>>
  /\ Head(cmds[s]) # ShutdownCmd
  /\ cmds' = [cmds EXCEPT ![s] = Tail(@)]
  /\ Serve(s, Head(cmds[s]))
  /\ UNCHANGED <<clientVars, pc, state, replay, lost>>

\* The task returns: the queue goes with it, the server loses the connection.
Return(s) ==
  /\ Goto(s, "done", "Closed")
  /\ cmds' = [cmds EXCEPT ![s] = <<>>]
  /\ remote' = [remote EXCEPT ![s] = Nothing]
  /\ UNCHANGED <<clientVars, subs, replay, lost>>

TakeShutdown(s) ==
  /\ pc[s] = "loop" /\ cmds[s] # <<>>
  /\ Head(cmds[s]) = ShutdownCmd
  /\ Return(s)

\* run_connection returns.  The state still says what it said before.
EndConnection(s) ==
  /\ Goto(s, "ended", state[s])
  /\ replay' = [replay EXCEPT ![s] = {}]
  /\ remote' = [remote EXCEPT ![s] = Nothing]

\* A read, a write or a timer finds the connection closed, broken or silent; or
\* the server answers the handshake with something else.
ConnectionLost(s) ==
  /\ pc[s] \in {"handshake", "resub", "reannounce", "loop"}
  /\ EndConnection(s)
  /\ UNCHANGED <<clientVars, cmds, subs, lost>>

\* The write of a command fails: the command is lost with the connection.
SendFails(s) ==
  /\ pc[s] = "loop" /\ cmds[s] # <<>>
  /\ Head(cmds[s]) # ShutdownCmd
  /\ cmds' = [cmds EXCEPT ![s] = Tail(@)]
  /\ NoteDropped(s)
  /\ EndConnection(s)
  /\ UNCHANGED <<clientVars, subs>>

\* Back in peer_task: the received routes are cleared (RouteDedup), and only
\* then does the state say Retry.
CleanUp(s) ==
  /\ pc[s] = "ended"
  /\ Goto(s, "retry", "Retry")
  /\ UNCHANGED <<clientVars, cmds, subs, replay, lost, remote>>

\* A mutant of RetryCommand: any command only ends the wait, Shutdown too.
RetryCommandDropped(s) ==
  /\ pc[s] \in {"retry", "sleep"} /\ cmds[s] # <<>>
  /\ cmds' = [cmds EXCEPT ![s] = Tail(@)]
  /\ NoteDropped(s)
  /\ Goto(s, "connect", "Connecting")
  /\ UNCHANGED <<clientVars, subs, replay, remote>>

\* A command that arrives while the task waits to reconnect ends the wait and
\* is dropped, unless it is Shutdown.
RetryCommand(s) ==
  /\ pc[s] \in {"retry", "sleep"} /\ cmds[s] # <<>>
  /\ \/ /\ Head(cmds[s]) # ShutdownCmd
        /\ cmds' = [cmds EXCEPT ![s] = Tail(@)]
        /\ NoteDropped(s)
        /\ Goto(s, "connect", "Connecting")
        /\ UNCHANGED <<clientVars, subs, replay, remote>>
     \/ Head(cmds[s]) = ShutdownCmd /\ Return(s)

\* With no command waiting the task goes to sleep.
RetryWait(s) ==
  /\ pc[s] = "retry" /\ cmds[s] = <<>>
  /\ Goto(s, "sleep", "Retry")
  /\ UNCHANGED <<clientVars, cmds, subs, replay, lost, remote>>

RetryTimer(s) ==
  /\ pc[s] = "sleep"
  /\ Goto(s, "connect", "Connecting")
  /\ UNCHANGED <<clientVars, cmds, subs, replay, lost, remote>>

-----------------------------------------------------------------------------
UserStep(u) ==
  \/ \E v \in Vni : SubscribeCall(u, v) \/ UnsubscribeCall(u, v)
  \/ \E r \in Route : Announce(u, r) \/ Withdraw(u, r)
  \/ Shutdown(u)

CallStep(u) == \E s \in Server : Visit(u, s) \/ SendCommand(u, s)

\* What the task does by itself.
OwnStep(s) ==
  \/ Connect(s) \/ ConnectFail(s)
  \/ StartReannounce(s) \/ EnterLoop(s)
  \/ CleanUp(s) \/ RetryCommand(s) \/ RetryWait(s) \/ RetryTimer(s)

\* What it does only once a write to the server has ended, or the server has
\* answered: receive_hello and write_all have no timeout, and the main loop takes
\* no command while it writes one, or a KEEPALIVE.
StreamStep(s) ==
  \/ Handshake(s)
  \/ \E v \in Vni : Resubscribe(s, v)
  \/ \E r \in Route : Reannounce(s, r)
  \/ TakeCommand(s) \/ TakeShutdown(s) \/ SendFails(s)

Progress(s) == OwnStep(s) \/ StreamStep(s)

Next ==
  \/ \E u \in User : UserStep(u) \/ CallStep(u)
  \/ \E s \in Server : Progress(s) \/ ConnectionLost(s)

Spec == Init /\ [][Next]_vars

\* The runtime runs every task that can go on, and a connect succeeds or fails.
\* Connections may break for ever, or hang for ever.
FairSpec ==
  /\ Spec
  /\ \A u \in User : WF_vars(CallStep(u))
  /\ \A s \in Server : WF_vars(OwnStep(s))

\* The servers answer and go on reading, or the connection fails.
ServerFairness == \A s \in Server : WF_vars(StreamStep(s))

-----------------------------------------------------------------------------
(* What the servers come to hold. *)

\* The places of these commands in the queue, and whether cmd is the last one.
Places(s, C)     == {i \in DOMAIN cmds[s] : cmds[s][i] \in C}
Last(s, C, cmd)  == \E i \in Places(s, C) : cmds[s][i] = cmd /\ \A j \in Places(s, C) : j <= i

\* Will server s have route r, or serve VNI v, once the queue is served?  The
\* last queued command decides; without one, what was written or is about to
\* be replayed.
WillHave(s, r) ==
  \/ Last(s, UpdatesOf(r), UpdateCmd("Add", r))
  \/ Places(s, UpdatesOf(r)) = {} /\ r \in remote[s].routes \cup replay[s]

WillServe(s, v) ==
  \/ Last(s, RequestsOf(v), SubscribeCmd(v))
  \/ Places(s, RequestsOf(v)) = {} /\ v \in remote[s].subs \cup replay[s]

\* A withdrawn route leaves every server: once withdraw has returned, neither a
\* queue, nor the replay after a reconnect, nor a command that outlived a
\* connection brings the route back (withdraw, "Withdraws a route from all
\* servers").  Excepted are routes for which two calls were under way at once:
\* the order of the table updates need not be the order of the commands.
WithdrawnRoutesGone ==
  \A s \in Server : \A r \in Route \ (announced \cup raced) :
    ~UnderWay(UpdatesOf(r)) => ~WillHave(s, r)

\* An announced route reaches every server that is connected, whatever became
\* of the connection and of the queued commands between the call and now
\* (announce, run_connection).  For routes that were never withdrawn: see
\* ReannouncedRoutesStay.
AnnouncedRoutesReach ==
  \A s \in Server : \A r \in announced \ withdrawn :
    pc[s] = "loop" /\ ~UnderWay(UpdatesOf(r)) => WillHave(s, r)

\* A connection in its main loop serves exactly the VNIs of the peer's
\* subscriptions: a lost connection or a failed write loses none of them.
Resubscribed ==
  \A s \in Server : pc[s] = "loop" => remote[s].subs = subs[s]

\* "Subscribes to a VNI on all connected servers", "Unsubscribes from a VNI on
\* all servers" (client.rs): a server that is replayed to or served gets exactly
\* the VNIs the user wants, through any number of lost connections.  Excepted
\* are the VNIs whose last call was lost on its way to this server, because
\* subscribe met the peer unestablished, the retry wait swallowed the command or
\* its write failed, and those with two calls under way at once.
SubscriptionsFollow ==
  \A s \in Server : \A v \in Vni \ (lost[s] \cup raced) :
    pc[s] \in {"reannounce", "loop"} /\ ~UnderWay(RequestsOf(v))
      => (WillServe(s, v) <=> v \in wanted)

\* After shutdown every peer task ends, although connections break and commands
\* are in the queue before it (Shutdown in peer_task and run_connection), as long
\* as no server that has the connection open stops reading: behind a write that
\* never ends Shutdown stays in the queue, and a queue that is full keeps shutdown
\* from the peers after it.
ShutdownEnds == ServerFairness => (dropped ~> \A s \in Server : pc[s] = "done")

\* "Route should be re-announced after reconnection" (tests/integration.rs): a
\* server in its main loop has, or is about to get, every announced route.
ReannouncedRoutesStay ==
  \A s \in Server : \A r \in announced :
    pc[s] = "loop" /\ ~UnderWay(UpdatesOf(r)) => WillHave(s, r)
=============================================================================
