---------------------------- MODULE PeerReceive ----------------------------
(***************************************************************************)
(* The receiving half of run_connection (src/peer.rs): the bytes that the  *)
(* server writes arrive in pieces of any size, are put together again in   *)
(* msg_buf and handled message by message; received_routes, the peer's     *)
(* RouteTable, follows, and the handler is told.  When the connection ends *)
(* the routes are cleared and the peer starts over.                        *)
(*                                                                         *)
(* The server's task (src/server.rs) puts its messages together in the     *)
(* same loop.  The handshake is modelled in Connection.                    *)
(***************************************************************************)
EXTENDS RouteTable, Wire

CONSTANTS
  Message,   \* messages the other end may send
  Foreign,   \* bytes of messages this version does not understand
  MaxSent,   \* bound: messages sent
  MaxConns   \* bound: connections

\* What decoding makes of a message: a target VNI of 0 becomes none.
Normal(m) == IF m.type = "Update" THEN [m EXCEPT !.hop.target_vni = @ \ {0}] ELSE m

\* No part of foreign bytes is a message of this version.
IsForeign(bytes) ==
  /\ bytes \in Seq({bytes[i] : i \in DOMAIN bytes})
  /\ \A n \in 0..Len(bytes) : decode(SubSeq(bytes, 1, n)) \in {More, Error}

ASSUME ReceiveAssumption ==
  /\ \A m \in Message : IsMessage(m) /\ HasProtoLen(m) /\ ~TooLong(m)
  /\ \A m \in Message :
       m.type = "Update" => m.vni \in Vni /\ m.dest \in Dest /\ Normal(m).hop \in Hop
  /\ \A bytes \in Foreign : IsForeign(bytes)
  /\ MaxSent \in Nat /\ MaxConns \in Nat

Seqs == INSTANCE SequencesExt

Key == Vni \X Dest \X Hop

VARIABLES
  phase,    \* of the task
  wire,     \* bytes written by the server and not yet read
  msg_buf,  \* bytes read and not yet handled
  told,     \* add_route calls of the handler minus remove_route calls, per route
  conns, sends,  \* connections and messages so far (bounds)
  \* history of the connection
  sent,     \* the messages the server has written
  foreign,  \* the server has written something else after them
  handled   \* the messages handled

streamVars  == <<wire, sends, sent, foreign>>
tableVars   == <<routes, ret, told>>
receiveVars == <<tableVars, streamVars, phase, msg_buf, conns, handled>>

ReceiveInit ==
  /\ Init
  /\ told = [k \in Key |-> 0]
  /\ phase = "loop" /\ conns = 1
  /\ wire = <<>> /\ msg_buf = <<>> /\ sends = 0
  /\ sent = <<>> /\ foreign = FALSE /\ handled = <<>>

Alive == phase \in {"loop", "decode"}

-----------------------------------------------------------------------------
(* The server's end of the stream. *)

Send(m) ==
  /\ Alive /\ ~foreign /\ sends < MaxSent
  /\ sends' = sends + 1
  /\ sent' = Append(sent, m)
  /\ wire' = wire \o encode(m)
  /\ UNCHANGED <<tableVars, phase, msg_buf, conns, handled, foreign>>

\* A server of another version sends what this one does not understand.
SendForeign(bytes) ==
  /\ Alive /\ ~foreign
  /\ foreign' = TRUE
  /\ wire' = wire \o bytes
  /\ UNCHANGED <<tableVars, phase, msg_buf, conns, sends, handled, sent>>

-----------------------------------------------------------------------------
(* The peer task. *)

\* stream.read returns n bytes, at least one.
Read(n) ==
  /\ phase = "loop"
  /\ phase' = "decode"
  /\ msg_buf' = msg_buf \o SubSeq(wire, 1, n)
  /\ wire' = SubSeq(wire, n + 1, Len(wire))
  /\ UNCHANGED <<tableVars, conns, sends, handled, sent, foreign>>

\* Mutant of TellAdd: the handler is told whatever the table says.
TellAddAlways(k) == told' = [told EXCEPT ![k] = @ + 1]

\* handler.add_route when the route is new.
TellAdd(k) == told' = IF ret'.ok THEN [told EXCEPT ![k] = @ + 1] ELSE told

TellRemove(S) == told' = [k \in Key |-> IF k \in S THEN told[k] - 1 ELSE told[k]]

\* Only updates matter to a client.
handle_message(m) ==
  \/ /\ m.type = "Update" /\ m.action = "Add"
     /\ add_next_hop(m.vni, m.dest, m.hop)
     /\ TellAdd(<<m.vni, m.dest, m.hop>>)
  \/ /\ m.type = "Update" /\ m.action = "Remove"
     /\ remove_next_hop(m.vni, m.dest, m.hop)
     /\ TellRemove(IF ret'.ok THEN {<<m.vni, m.dest, m.hop>>} ELSE {})
  \/ /\ m.type # "Update"
     /\ UNCHANGED tableVars

\* The loop over the buffer: a complete message is taken out and handled.
HandleOne ==
  /\ phase = "decode"
  /\ \E d \in {decode(msg_buf)} :
       /\ d.kind = "message"
       /\ msg_buf' = SubSeq(msg_buf, d.used + 1, Len(msg_buf))
       /\ \E m \in {d.msg} : handled' = Append(handled, m) /\ handle_message(m)
  /\ UNCHANGED <<streamVars, phase, conns>>

NeedMore ==
  /\ phase = "decode" /\ decode(msg_buf) = More
  /\ phase' = "loop"
  /\ UNCHANGED <<tableVars, streamVars, msg_buf, conns, handled>>

DecodeError ==
  /\ phase = "decode" /\ decode(msg_buf) = Error
  /\ phase' = "ended"
  /\ UNCHANGED <<tableVars, streamVars, msg_buf, conns, handled>>

\* The server closes, or the connection breaks or times out.
ConnectionEnds ==
  /\ phase = "loop"
  /\ phase' = "ended"
  /\ UNCHANGED <<tableVars, streamVars, msg_buf, conns, handled>>

\* PeerCommand::Unsubscribe: the routes of the VNI go at once.
Unsubscribe(v) ==
  /\ phase = "loop"
  /\ remove_vni(v)
  /\ TellRemove({<<v, r[1], r[2]>> : r \in ret'.removed})
  /\ UNCHANGED <<streamVars, phase, msg_buf, conns, handled>>

\* PeerCommand::Shutdown: the task ends and leaves the routes to the client.
Shutdown ==
  /\ phase = "loop"
  /\ phase' = "closed"
  /\ UNCHANGED <<tableVars, streamVars, msg_buf, conns, handled>>

\* Back in peer_task: the handler loses the routes of the connection.
ClearReceived ==
  /\ phase = "ended"
  /\ TellRemove(get_all_routes)
  /\ clear
  /\ phase' = "retry"
  /\ UNCHANGED <<streamVars, msg_buf, conns, handled>>

\* A new connection has new buffers.
Reconnect ==
  /\ phase = "retry" /\ conns < MaxConns
  /\ phase' = "loop" /\ conns' = conns + 1
  /\ wire' = <<>> /\ msg_buf' = <<>>
  /\ sent' = <<>> /\ foreign' = FALSE /\ handled' = <<>>
  /\ UNCHANGED <<tableVars, sends>>

-----------------------------------------------------------------------------
ReadSome == \E n \in 1..Len(wire) : Read(n)

Decode == HandleOne \/ NeedMore \/ DecodeError

ReceiveNext ==
  \/ \E m \in Message : Send(m)
  \/ \E bytes \in Foreign : SendForeign(bytes)
  \/ ReadSome \/ Decode
  \/ \E v \in Vni : Unsubscribe(v)
  \/ ConnectionEnds \/ Shutdown \/ ClearReceived \/ Reconnect

\* The task runs, and bytes that were written can be read in the end.
ReceiveSpec ==
  /\ ReceiveInit /\ [][ReceiveNext]_receiveVars
  /\ WF_receiveVars(ReadSome \/ Decode)

-----------------------------------------------------------------------------
\* Whatever pieces the bytes arrive in, the messages handled are the first ones
\* sent, in their order and with every field as it was (Some(0) as the target VNI
\* excepted), and nothing else; the bytes in the buffer and on the wire are exactly
\* the rest; and there is an error only when all messages are handled and foreign
\* bytes follow them (encode, decode, drain, the conversions of types.rs).
NothingLost ==
  Alive =>
    /\ Len(handled) <= Len(sent)
    /\ \A i \in DOMAIN handled : handled[i] = Normal(sent[i])
    /\ decode(msg_buf) = Error => foreign /\ Len(handled) = Len(sent)
    /\ ~foreign => msg_buf \o wire
         = Seqs!FlattenSeq([i \in 1..(Len(sent) - Len(handled)) |-> encode(sent[Len(handled) + i])])

\* The handler's calls come in turn for every route and agree with the table:
\* one add_route more than remove_route for a route that is there, as many for
\* any other, across repeated updates, Unsubscribe and lost connections
\* (handle_message, peer_task).  RouteDedup and Netlink rely on it.
HandlerMirrors == \A k \in Key : told[k] = IF k \in get_all_routes THEN 1 ELSE 0

\* Every message that was sent is handled or the connection ends: no complete
\* message waits in the buffer for a byte that may never come, and what is not
\* understood ends the connection rather than being waited for ("too short",
\* "truncated" in run_connection).
AllHandled == []<>(~Alive \/ (~foreign /\ Len(handled) = Len(sent)))
=============================================================================
