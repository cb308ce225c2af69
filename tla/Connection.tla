----------------------------- MODULE Connection -----------------------------
(***************************************************************************)
(* One connection from its first byte on, seen from both ends: the         *)
(* handshake, the keepalive timers and the blocking writes of              *)
(* run_connection (src/peer.rs) and handle_peer (src/server.rs).           *)
(*                                                                         *)
(* Each end is a select loop that does one thing at a time: while it       *)
(* writes it neither reads nor looks at its timers.  The client sends a    *)
(* KEEPALIVE in every interval and looks at the time since its last read   *)
(* then; the server answers, and looks at the time when a sleep ends that  *)
(* every turn of its loop starts anew.  The handshake reads once per       *)
(* message, without a buffer, and the wait for HELLO has no timeout.       *)
(*                                                                         *)
(* Time passes in ticks of half a second; an interval of n seconds is 2n   *)
(* ticks and its timeout, 5/2 of it, 5n.  Timers count down.  Nothing that *)
(* can happen at once lets time pass before it: a task that is ready runs, *)
(* and a message is read at most Delay ticks after it was written.  The    *)
(* link may die silently at any time.  TCP is external: a stream holds Cap *)
(* messages.                                                               *)
(***************************************************************************)
EXTENDS Integers, Sequences

CONSTANTS
  ClientInterval,  \* DEFAULT_KEEPALIVE_INTERVAL of the client, in seconds
  ServerInterval,  \* ServerConfig.keepalive_interval: what servers may offer
  Delay,           \* ticks from write to read
  Cap,             \* messages a stream holds
  Replay,          \* routes a client re-announces
  Snapshot,        \* routes that a SUBSCRIBE is answered with
  MaxTraffic       \* bound: other updates, from each end

ASSUME ConnectionAssumption ==
  /\ ClientInterval \in Nat \ {0}
  /\ ServerInterval \subseteq Nat
  /\ Delay \in Nat /\ Cap \in Nat \ {0}
  /\ Replay \in Nat /\ Snapshot \in Nat /\ MaxTraffic \in Nat
  \* a round trip is within timeout - interval
  /\ \A n \in (ServerInterval \cup {ClientInterval}) \ {0} : 2 * Delay < 3 * n

Ticks(n)   == 2 * n
Timeout(n) == 5 * n

\* Mutant of Negotiated: each end keeps its own interval.
NegotiatedOwn(own, other) == own

Negotiated(own, other) == IF own < other THEN own ELSE other

Hello(n)  == [type |-> "Hello", interval |-> n]
Keepalive == [type |-> "Keepalive"]
Subscribe == [type |-> "Subscribe"]
Update    == [type |-> "Update"]

Times(m, n) == [i \in 1..n |-> m]

VARIABLES
  offer,  \* the server's own interval
  link,   \* "up" or "dead"
  toServer, toClient,  \* the streams: messages and their ages
  \* the client's end
  c,        \* where the task is
  cout,     \* what it has left to write; it does nothing else meanwhile
  cneg,     \* negotiated_keepalive
  ctimer,   \* ticks to the end of the wait, then to the next tick of the interval
  csince,   \* ticks since last_received
  \* the server's end
  s, sout, sneg, ssince,
  stimer,   \* ticks to the end of the wait, then of the sleep
  sbuf,     \* messages read and not yet handled
  subscribed,  \* the client has subscribed: changes come to its channel
  \* bounds and history
  ctraffic, straffic,
  silent,   \* ticks since the link died
  awake,    \* turns of the server's loop since then
  swallowed, \* messages that a read of the handshake threw away
  held      \* since its last read the client has waited for room to write

streams    == <<toServer, toClient>>
clientVars == <<c, cout, cneg, ctimer, csince, ctraffic>>
serverVars == <<s, sout, sneg, ssince, stimer, sbuf, straffic, subscribed>>
history    == <<silent, awake, swallowed, held>>
vars       == <<offer, link, streams, clientVars, serverVars, history>>

Ended == {"ended", "timeout", "panicked"}

ConnectionInit ==
  /\ offer \in ServerInterval
  /\ link = "up" /\ toServer = <<>> /\ toClient = <<>>
  /\ c = "wait_hello" /\ cout = <<Hello(ClientInterval)>>
  /\ cneg = 0 /\ ctimer = 0 /\ csince = 0 /\ ctraffic = 0
  /\ s = "wait_hello" /\ sout = <<>> /\ sbuf = <<>> /\ subscribed = FALSE
  /\ sneg = 0 /\ stimer = 0 /\ ssince = 0 /\ straffic = 0
  /\ silent = 0 /\ awake = 0 /\ swallowed = {} /\ held = FALSE

-----------------------------------------------------------------------------
(* The streams. *)

Arriving(stream) == link = "up" /\ stream # <<>>
Sent(stream, m)  == Append(stream, [msg |-> m, age |-> 0])
Rest(stream, n)  == SubSeq(stream, n + 1, Len(stream))
Messages(stream, n) == [i \in 1..n |-> stream[i].msg]

\* Mutant of ClientWrite: a stream without limit.
ClientWriteUnbounded ==
  /\ c \notin Ended /\ cout # <<>>
  /\ toServer' = Sent(toServer, Head(cout))
  /\ cout' = Tail(cout)
  /\ UNCHANGED <<offer, link, toClient, c, cneg, ctimer, csince, ctraffic, serverVars, history>>

\* write_all goes on while there is room.
ClientWrite ==
  /\ c \notin Ended /\ cout # <<>> /\ Len(toServer) < Cap
  /\ toServer' = Sent(toServer, Head(cout))
  /\ cout' = Tail(cout)
  /\ UNCHANGED <<offer, link, toClient, c, cneg, ctimer, csince, ctraffic, serverVars, history>>

ServerWrite ==
  /\ s \notin Ended /\ sout # <<>> /\ Len(toClient) < Cap
  /\ toClient' = Sent(toClient, Head(sout))
  /\ sout' = Tail(sout)
  /\ UNCHANGED <<offer, link, toServer, s, sneg, ssince, stimer, sbuf, straffic, subscribed, clientVars, history>>

ClientBlocked == c \notin Ended /\ cout # <<>> /\ Len(toServer) = Cap
ServerBlocked == s \notin Ended /\ sout # <<>> /\ Len(toClient) = Cap

\* A write to a dead link or to a closed connection fails in the end.
ClientWriteFails ==
  /\ ClientBlocked /\ (link = "dead" \/ s \in Ended)
  /\ c' = "ended"
  /\ UNCHANGED <<offer, link, streams, cout, cneg, ctimer, csince, ctraffic, serverVars, history>>

\* After an answer that fails, which is only logged, the server handles what it has
\* read: those answers fail at once, and so does the next read.
ServerWriteFails ==
  /\ ServerBlocked /\ (link = "dead" \/ c \in Ended)
  /\ s' = "ended"
  /\ sbuf' = <<>>
  /\ subscribed' = (subscribed \/ \E i \in DOMAIN sbuf : sbuf[i] = Subscribe)
  /\ UNCHANGED <<offer, link, streams, sout, sneg, ssince, stimer, straffic, clientVars, history>>

LinkDies ==
  /\ link = "up"
  /\ link' = "dead"
  /\ UNCHANGED <<offer, streams, clientVars, serverVars, history>>

-----------------------------------------------------------------------------
(* The client: run_connection. *)

ClientReads == c \in {"wait_hello", "wait_keepalive", "loop"} /\ cout = <<>>

\* A read of n messages; the handshake decodes the first and drops the rest.
ClientTakes(n) ==
  /\ ClientReads /\ Arriving(toClient) /\ n \in 1..Len(toClient)
  /\ toClient' = Rest(toClient, n)
  /\ UNCHANGED <<offer, link, toServer, serverVars, ctraffic, silent, awake>>

Swallow(stream, n) == swallowed' = swallowed \cup {stream[i].msg : i \in 2..n}

\* receive_hello, negotiation and KEEPALIVE.
ClientHello(n) ==
  /\ c = "wait_hello" /\ ClientTakes(n)
  /\ Swallow(toClient, n)
  /\ LET m == toClient[1].msg
     IN  \/ /\ m.type = "Hello"
            /\ c' = "wait_keepalive"
            /\ cneg' = Negotiated(ClientInterval, m.interval)
            /\ cout' = <<Keepalive>>
            /\ ctimer' = Timeout(cneg')
         \/ /\ m.type # "Hello"
            /\ c' = "ended"
            /\ UNCHANGED <<cneg, cout, ctimer>>
  /\ UNCHANGED <<csince, held>>

\* KEEPALIVE establishes the connection; a client with subscriptions and routes
\* replays them.
ClientEstablished(n) ==
  /\ c = "wait_keepalive" /\ ClientTakes(n)
  /\ Swallow(toClient, n)
  /\ \/ /\ toClient[1].msg = Keepalive
        /\ c' = "replay"
        /\ cout' \in {<<>>, <<Subscribe>> \o Times(Update, Replay)}
     \/ /\ toClient[1].msg # Keepalive
        /\ c' = "ended"
        /\ UNCHANGED cout
  /\ UNCHANGED <<cneg, ctimer, csince, held>>

\* A read that returns a part of the message ends the handshake: decode fails.
ClientSplit ==
  /\ c \in {"wait_hello", "wait_keepalive"} /\ ClientReads /\ Arriving(toClient)
  /\ c' = "ended"
  /\ UNCHANGED <<offer, link, streams, cout, cneg, ctimer, csince, ctraffic, serverVars, history>>

ClientWaitTimeout ==
  /\ c = "wait_keepalive" /\ cout = <<>> /\ ctimer = 0
  /\ c' = "timeout"
  /\ UNCHANGED <<offer, link, streams, cout, cneg, ctimer, csince, ctraffic, serverVars, history>>

\* The main loop begins: the first tick of the interval is due at once.  An
\* interval of 0 panics.
ClientEnterLoop ==
  /\ c = "replay" /\ cout = <<>>
  /\ c' = IF cneg = 0 THEN "panicked" ELSE "loop"
  /\ ctimer' = 0 /\ csince' = 0
  /\ UNCHANGED <<offer, link, streams, cout, cneg, ctraffic, serverVars, history>>

\* Mutant of ClientTick: the time of the last read is not looked at.
ClientTickBlind ==
  /\ c = "loop" /\ cout = <<>> /\ ctimer <= 0
  /\ ctimer' = ctimer + Ticks(cneg)
  /\ cout' = <<Keepalive>>
  /\ UNCHANGED <<offer, link, streams, c, cneg, csince, ctraffic, serverVars, history>>

\* keepalive_timer.tick; ticks that were missed follow at once.
ClientTick ==
  /\ c = "loop" /\ cout = <<>> /\ ctimer <= 0
  /\ ctimer' = ctimer + Ticks(cneg)
  /\ IF csince > Timeout(cneg) THEN c' = "timeout" /\ UNCHANGED cout
                               ELSE cout' = <<Keepalive>> /\ UNCHANGED c
  /\ UNCHANGED <<offer, link, streams, cneg, csince, ctraffic, serverVars, history>>

\* Handling what was read writes nothing (PeerReceive).
ClientRead(n) ==
  /\ c = "loop" /\ ClientTakes(n)
  /\ csince' = 0 /\ held' = FALSE
  /\ UNCHANGED <<c, cout, cneg, ctimer, swallowed>>

\* A command from the queue (PeerSession).
ClientCommand ==
  /\ c = "loop" /\ cout = <<>> /\ ctraffic < MaxTraffic
  /\ ctraffic' = ctraffic + 1
  /\ cout' \in {<<Subscribe>>, <<Update>>}
  /\ UNCHANGED <<offer, link, streams, c, cneg, ctimer, csince, serverVars, history>>

ClientEof ==
  /\ ClientReads /\ link = "up" /\ toClient = <<>> /\ s \in Ended
  /\ c' = "ended"
  /\ UNCHANGED <<offer, link, streams, cout, cneg, ctimer, csince, ctraffic, serverVars, history>>

-----------------------------------------------------------------------------
(* The server: handle_peer. *)

ServerReads == s \in {"wait_hello", "wait_keepalive", "loop"} /\ sout = <<>> /\ sbuf = <<>>

ServerTakes(n) ==
  /\ ServerReads /\ Arriving(toServer) /\ n \in 1..Len(toServer)
  /\ toServer' = Rest(toServer, n)
  /\ UNCHANGED <<offer, link, toClient, clientVars, straffic, subscribed, silent, awake, held>>

\* Mutant of Greeting: KEEPALIVE does not wait for the client's.
GreetingEager == <<Hello(offer), Keepalive>>

Greeting == <<Hello(offer)>>

ServerHello(n) ==
  /\ s = "wait_hello" /\ ServerTakes(n)
  /\ Swallow(toServer, n)
  /\ LET m == toServer[1].msg
     IN  \/ /\ m.type = "Hello"
            /\ s' = "wait_keepalive"
            /\ sneg' = Negotiated(offer, m.interval)
            /\ sout' = Greeting
            /\ stimer' = Timeout(sneg')
         \/ /\ m.type # "Hello"
            /\ s' = "ended"
            /\ UNCHANGED <<sneg, sout, stimer>>
  /\ UNCHANGED <<ssince, sbuf>>

ServerEstablished(n) ==
  /\ s = "wait_keepalive" /\ ServerTakes(n)
  /\ Swallow(toServer, n)
  /\ \/ /\ toServer[1].msg = Keepalive
        /\ s' = "loop"
        /\ sout' = <<Keepalive>>
        /\ ssince' = 0 /\ stimer' = Timeout(sneg)
     \/ /\ toServer[1].msg # Keepalive
        /\ s' = "ended"
        /\ UNCHANGED <<sout, ssince, stimer>>
  /\ UNCHANGED <<sneg, sbuf>>

ServerSplit ==
  /\ s \in {"wait_hello", "wait_keepalive"} /\ ServerReads /\ Arriving(toServer)
  /\ s' = "ended"
  /\ UNCHANGED <<offer, link, streams, sout, sneg, ssince, stimer, sbuf, straffic, subscribed, clientVars, history>>

ServerWaitTimeout ==
  /\ s = "wait_keepalive" /\ sout = <<>> /\ stimer = 0
  /\ s' = "timeout"
  /\ UNCHANGED <<offer, link, streams, sout, sneg, ssince, stimer, sbuf, straffic, subscribed, clientVars, history>>

\* The sleep of this turn is over.  After exactly the timeout the comparison may
\* go either way.
ServerSleep ==
  /\ s = "loop" /\ ServerReads /\ stimer = 0
  /\ \/ ssince >= Timeout(sneg) /\ s' = "timeout" /\ UNCHANGED stimer
     \/ ssince <= Timeout(sneg) /\ stimer' = Timeout(sneg) /\ UNCHANGED s
  /\ UNCHANGED <<offer, link, streams, sout, sneg, ssince, sbuf, straffic, subscribed, clientVars, history>>

ServerRead(n) ==
  /\ s = "loop" /\ ServerTakes(n)
  /\ sbuf' = Messages(toServer, n)
  /\ ssince' = 0 /\ stimer' = Timeout(sneg)
  /\ UNCHANGED <<s, sout, sneg, swallowed>>

\* handle_message: a KEEPALIVE is answered, a SUBSCRIBE with the routes there are.
ServerHandle ==
  /\ s = "loop" /\ sout = <<>> /\ sbuf # <<>>
  /\ sbuf' = Tail(sbuf)
  /\ sout' = CASE Head(sbuf) = Keepalive -> <<Keepalive>>
               [] Head(sbuf) = Subscribe -> Times(Update, Snapshot)
               [] OTHER -> <<>>
  /\ subscribed' = (subscribed \/ Head(sbuf) = Subscribe)
  /\ UNCHANGED <<offer, link, streams, s, sneg, ssince, stimer, straffic, clientVars, history>>

\* The peer's channel has a message (RoutingServer).
ServerSend ==
  /\ s = "loop" /\ ServerReads /\ subscribed /\ straffic < MaxTraffic
  /\ straffic' = straffic + 1
  /\ sout' = <<Update>>
  /\ stimer' = Timeout(sneg)
  /\ awake' = IF link = "dead" THEN awake + 1 ELSE awake
  /\ UNCHANGED <<offer, link, streams, s, sneg, ssince, sbuf, subscribed, clientVars, silent, swallowed, held>>

ServerEof ==
  /\ ServerReads /\ link = "up" /\ toServer = <<>> /\ c \in Ended
  /\ s' = "ended"
  /\ UNCHANGED <<offer, link, streams, sout, sneg, ssince, stimer, sbuf, straffic, subscribed, clientVars, history>>

-----------------------------------------------------------------------------
(* Time. *)

Due(stream) == Arriving(stream) /\ Head(stream).age >= Delay

\* Something is to be done before time passes.
Urgent ==
  \/ c \notin Ended /\ cout # <<>> /\ Len(toServer) < Cap
  \/ s \notin Ended /\ sout # <<>> /\ Len(toClient) < Cap
  \/ c = "replay" /\ cout = <<>>
  \/ s = "loop" /\ sout = <<>> /\ sbuf # <<>>
  \/ c \in {"wait_keepalive", "loop"} /\ cout = <<>> /\ ctimer <= 0
  \/ s \in {"wait_keepalive", "loop"} /\ ServerReads /\ stimer = 0
  \/ ClientReads /\ Due(toClient)
  \/ ServerReads /\ Due(toServer)

Older(stream) == [i \in DOMAIN stream |->
                    [stream[i] EXCEPT !.age = IF @ < Delay THEN @ + 1 ELSE @]]
UpTo(x, n)    == IF x < n THEN x + 1 ELSE x
Down(x, n)    == IF x > n THEN x - 1 ELSE x

\* The longest time that LossDetected asks about.
Horizon == (2 + MaxTraffic) * Timeout(ClientInterval) + 1

Tick ==
  /\ ~Urgent
  /\ toServer' = Older(toServer) /\ toClient' = Older(toClient)
  /\ ctimer' = CASE c = "wait_keepalive" -> Down(ctimer, 0)
                 [] c = "loop" -> Down(ctimer, -Ticks(cneg))
                 [] OTHER -> ctimer
  /\ csince' = IF c = "loop" THEN UpTo(csince, Timeout(cneg) + 1) ELSE csince
  /\ stimer' = IF s \in {"wait_keepalive", "loop"} /\ ServerReads THEN Down(stimer, 0) ELSE stimer
  /\ ssince' = IF s = "loop" THEN UpTo(ssince, Timeout(sneg) + 1) ELSE ssince
  /\ silent' = IF link = "dead" THEN UpTo(silent, Horizon) ELSE silent
  /\ held' = (held \/ (c = "loop" /\ ClientBlocked))
  /\ UNCHANGED <<offer, link, c, cout, cneg, ctraffic, s, sout, sneg, sbuf, straffic, subscribed, awake, swallowed>>

-----------------------------------------------------------------------------
ClientStep ==
  \/ \E n \in 1..Cap : ClientHello(n) \/ ClientEstablished(n) \/ ClientRead(n)
  \/ ClientWrite \/ ClientWriteFails \/ ClientSplit \/ ClientWaitTimeout \/ ClientEnterLoop
  \/ ClientTick \/ ClientEof

ServerStep ==
  \/ \E n \in 1..Cap : ServerHello(n) \/ ServerEstablished(n) \/ ServerRead(n)
  \/ ServerWrite \/ ServerWriteFails \/ ServerSplit \/ ServerWaitTimeout
  \/ ServerSleep \/ ServerHandle \/ ServerEof

Next ==
  \/ ClientStep \/ ClientCommand
  \/ ServerStep \/ ServerSend
  \/ LinkDies \/ Tick

Spec == ConnectionInit /\ [][Next]_vars

\* Tasks that can go on do, and time passes.
FairSpec == Spec /\ WF_vars(ClientStep) /\ WF_vars(ServerStep) /\ WF_vars(Tick)

-----------------------------------------------------------------------------
\* The types of the variables; no stream holds more than it can.
ConnectionTypeOK ==
  /\ offer \in ServerInterval
  /\ link \in {"up", "dead"}
  /\ c \in {"wait_hello", "wait_keepalive", "replay", "loop"} \cup Ended
  /\ s \in {"wait_hello", "wait_keepalive", "loop", "ended", "timeout"}
  /\ Len(toServer) <= Cap /\ Len(toClient) <= Cap
  /\ cneg \in 0..ClientInterval /\ sneg \in 0..ClientInterval
  /\ ctraffic \in 0..MaxTraffic /\ straffic \in 0..MaxTraffic
  /\ subscribed \in BOOLEAN
  /\ silent \in 0..Horizon /\ awake \in 0..MaxTraffic

\* A connection that works does not time out: an end gives up only when the link
\* is dead or the other end has gone, however reads, writes, ticks and traffic
\* fall together (the intervals the two ends work out, the answer to KEEPALIVE,
\* 5/2 of the interval).  Excepted are a negotiated interval of 0 and a client
\* that since its last read has waited for room to write: commands may keep it from
\* reading what is there until the next tick of its interval finds the time over.
NoFalseTimeout ==
  /\ c = "timeout" /\ cneg > 0 /\ ~held => link = "dead" \/ s \in Ended
  /\ s = "timeout" /\ sneg > 0 => link = "dead" \/ c \in Ended

\* "Keepalive: ... to detect connection loss" (README.md): an end of a dead link
\* gives up, the client within the timeout and one interval, the server within
\* twice the timeout and once more for every time it had something to send:
\* each turn of its loop starts the sleep anew.  Excepted are an end that still
\* waits for HELLO, which has no timeout, and one in a write, which is TCP's to
\* give up.
LossDetected ==
  /\ silent > Timeout(cneg) + Ticks(cneg) => c \in Ended \cup {"wait_hello"} \/ ClientBlocked
  /\ silent > (2 + awake) * Timeout(sneg) => s \in Ended \cup {"wait_hello"} \/ ServerBlocked

\* The handshake reads without a buffer and throws away what follows the message
\* it waits for (receive_hello, receive_message_with_timeout): nothing does, as
\* each end waits for the other before it sends on.
NothingSwallowed == swallowed = {}

\* "TCP backpressure naturally throttles clients when the server can't keep up"
\* (examples/stress_test.rs): a client in a write that finds no room gets on, or
\* the connection ends.
BackpressureEnds == ClientBlocked ~> ~ClientBlocked
=============================================================================
