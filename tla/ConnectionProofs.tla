-------------------------- MODULE ConnectionProofs --------------------------
(***************************************************************************)
(* Proofs about one connection (Connection), for any intervals, delays,    *)
(* stream sizes and amounts of traffic: the types, that the handshake      *)
(* throws nothing away, that a dead link is noticed in time, and that a    *)
(* working one is kept.                                                    *)
(*                                                                         *)
(* The inductive invariant has a part for the order of the handshake       *)
(* (Turns), one for what the timers can still be (TimersBounded) and one   *)
(* for each race of a timer with a message: how long the end has waited,   *)
(* and how long the message that it waits for may still take, are together *)
(* less than the timeout.                                                  *)
(***************************************************************************)
EXTENDS Connection, SequenceTheorems, TLAPS

-----------------------------------------------------------------------------
(* The inductive invariant. *)

FromClient == {Hello(ClientInterval), Keepalive, Subscribe, Update}
FromServer == {Hello(offer), Keepalive, Update}
Stream(M)  == Seq([msg : M, age : 0..Delay])

Types ==
  /\ ConnectionTypeOK
  /\ toServer \in Stream(FromClient) /\ toClient \in Stream(FromServer)
  /\ cout \in Seq(FromClient) /\ sout \in Seq(FromServer) /\ sbuf \in Seq(FromClient)
  /\ ctimer \in Int /\ csince \in Nat
  /\ stimer \in Nat /\ ssince \in Nat
  /\ awake <= straffic
  /\ held \in BOOLEAN

\* While one end or the other is in the handshake there is one message, and the
\* other end has nothing to add until it has read it.
Turns ==
  /\ c = "wait_hello" /\ s \notin Ended =>
       \/ /\ s = "wait_hello" /\ Len(cout) + Len(toServer) = 1
          /\ sout = <<>> /\ toClient = <<>>
       \/ /\ s = "wait_keepalive" /\ Len(sout) + Len(toClient) = 1
          /\ cout = <<>> /\ toServer = <<>>
  /\ c = "wait_keepalive" /\ s \notin Ended =>
       \/ /\ s = "wait_keepalive" /\ Len(cout) + Len(toServer) = 1
          /\ sout = <<>> /\ toClient = <<>>
       \/ /\ s = "loop" /\ Len(sout) + Len(toClient) = 1
          /\ cout = <<>> /\ toServer = <<>> /\ sbuf = <<>> /\ ~subscribed
  /\ c \in {"replay", "loop"} /\ s \notin Ended => s = "loop"
  /\ s \in {"wait_hello", "wait_keepalive"} => sbuf = <<>> /\ ~subscribed
  /\ s \in {"wait_hello", "wait_keepalive"} /\ c \in Ended => Len(toServer) <= 1
  /\ c \in {"wait_hello", "wait_keepalive"} /\ s \in Ended => Len(toClient) <= 1

\* Both ends have worked out the same interval.
Agreed == Negotiated(ClientInterval, offer)

Agreement ==
  /\ c \in {"wait_keepalive", "replay", "loop"} => cneg = Agreed
  /\ s \in {"wait_keepalive", "loop"} => sneg = Agreed

TimersBounded ==
  /\ c = "wait_keepalive" => ctimer \in 0..Timeout(cneg)
  /\ c = "loop" => ctimer <= Ticks(cneg)
  /\ s \in {"wait_keepalive", "loop"} => stimer <= Timeout(sneg)

\* A stream keeps the order of its messages.
OldestFirst(stream) ==
  \A i, j \in 1..Len(stream) : i <= j => stream[j].age <= stream[i].age

Age(stream) == IF stream = <<>> THEN 0 ELSE Head(stream).age

\* How long a wait of the handshake has taken: the way of one message or of two.
HandshakeInTime ==
  link = "up" =>
    /\ c = "wait_keepalive" /\ s = "wait_keepalive" =>
         /\ Timeout(cneg) - ctimer <= Age(toServer)
         /\ Timeout(sneg) - stimer <= Delay + Age(toServer)
    /\ c = "wait_keepalive" /\ s = "loop" =>
         Timeout(cneg) - ctimer <= Delay + Age(toClient)
    /\ c = "wait_hello" /\ s = "wait_keepalive" =>
         Timeout(sneg) - stimer <= Age(toClient)

\* The longest wait of the main loops: an interval and a round trip.
Longest(n) == Ticks(n) + 2 * Delay

\* After waited ticks of its sleep the server hears of the client before the
\* longest wait is over: a message is under way, or the client is about to write.
ServerHears(waited) ==
  \/ toServer # <<>> /\ waited + Delay - Age(toServer) <= Longest(sneg)
  \/ c = "wait_keepalive" /\ waited + 2 * Delay - Age(toClient) <= Longest(sneg)
  \/ /\ c = "replay" \/ (c = "loop" /\ cout # <<>>)
     /\ waited + Delay <= Longest(sneg)
  \/ /\ c = "loop" /\ waited + Delay <= Longest(sneg)
     /\ waited + Delay + ctimer <= Longest(sneg)

ServerInTime ==
  link = "up" /\ s = "loop" /\ c \notin Ended => ServerHears(Timeout(sneg) - stimer)

\* The client hears of the server: a message is under way, the server is about to
\* write, or a KEEPALIVE is on its way to it or will be.
ClientHears ==
  \/ toClient # <<>> /\ csince + Delay - Age(toClient) <= Longest(cneg)
  \/ /\ sout # <<>> \/ \E i \in 1..Len(sbuf) : sbuf[i] = Keepalive
     /\ csince + Delay <= Longest(cneg)
  \/ \E i \in 1..Len(toServer) :
       /\ toServer[i].msg = Keepalive
       /\ csince + 2 * Delay - toServer[i].age <= Longest(cneg)
  \/ cout # <<>> /\ Head(cout) = Keepalive /\ csince + 2 * Delay <= Longest(cneg)
  \/ /\ csince + 2 * Delay <= Longest(cneg)
     /\ csince + 2 * Delay + ctimer <= Longest(cneg)

ClientInTime ==
  link = "up" /\ c = "loop" /\ s = "loop" /\ ~held => ClientHears

\* How long the link may have been dead.
ClientNotices ==
  link = "dead" /\ ~ClientBlocked =>
    /\ c = "wait_keepalive" => silent + ctimer <= Timeout(cneg)
    /\ c = "replay" => silent = 0
    /\ c = "loop" /\ csince <= Timeout(cneg) => silent <= csince
    /\ c = "loop" /\ csince > Timeout(cneg) =>
         /\ silent <= Timeout(cneg) + Ticks(cneg)
         /\ silent + ctimer <= Timeout(cneg) + Ticks(cneg)

ServerNotices ==
  link = "dead" /\ ~ServerBlocked =>
    /\ s = "wait_keepalive" => silent + stimer <= Timeout(sneg)
    /\ s = "loop" => silent + stimer <= (2 + awake) * Timeout(sneg)
    /\ s = "loop" /\ ssince <= Timeout(sneg) => silent <= ssince

Unsilent == link = "up" => silent = 0 /\ awake = 0

ConnInv ==
  /\ Types /\ Turns /\ Agreement /\ TimersBounded
  /\ OldestFirst(toServer) /\ OldestFirst(toClient)
  /\ HandshakeInTime /\ ServerInTime /\ ClientInTime
  /\ Unsilent /\ ClientNotices /\ ServerNotices
  /\ NoFalseTimeout /\ NothingSwallowed

-----------------------------------------------------------------------------
(* The operators of the model. *)

\* The kinds of message are told apart, and HELLO has the sender's interval.
LEMMA Kinds ==
  /\ \A m \in FromClient : m.type = "Hello" => m.interval = ClientInterval
  /\ \A m \in FromServer : m.type = "Hello" => m.interval = offer
  /\ Keepalive # Subscribe /\ Keepalive # Update /\ Subscribe # Update
  /\ \A n : Hello(n) # Keepalive /\ Hello(n) # Subscribe
  BY DEF FromClient, FromServer, Hello, Keepalive, Subscribe, Update

\* A sequence of messages: its length, its head and what is left.
LEMMA Queue ==
  ASSUME NEW S, NEW q \in Seq(S)
  PROVE  /\ Len(q) \in Nat
         /\ q = <<>> <=> Len(q) = 0
         /\ q # <<>> => /\ Head(q) \in S /\ Head(q) = q[1]
                        /\ Tail(q) \in Seq(S) /\ Len(Tail(q)) = Len(q) - 1
                        /\ \A i \in 1..Len(q) - 1 : Tail(q)[i] = q[i + 1]
         /\ \A i \in 1..Len(q) : q[i] \in S
<1>1. /\ Len(q) \in Nat
      /\ q = <<>> <=> Len(q) = 0
      /\ \A i \in 1..Len(q) : q[i] \in S
  BY LenProperties, EmptySeq, ElementOfSeq
<1>2. ASSUME q # <<>>
      PROVE  /\ Head(q) \in S /\ Head(q) = q[1]
             /\ Tail(q) \in Seq(S) /\ Len(Tail(q)) = Len(q) - 1
             /\ \A i \in 1..Len(q) - 1 : Tail(q)[i] = q[i + 1]
  BY <1>1, <1>2, HeadTailProperties
<1> QED
  BY <1>1, <1>2

\* The same of a stream, with the age of its first message.
LEMMA StreamFacts ==
  ASSUME NEW M, NEW stream \in Stream(M)
  PROVE  /\ Len(stream) \in Nat
         /\ stream = <<>> <=> Len(stream) = 0
         /\ stream # <<>> => /\ Head(stream) = stream[1]
                             /\ Age(stream) = Head(stream).age
         /\ stream = <<>> => Age(stream) = 0
         /\ Age(stream) \in 0..Delay
         /\ \A i \in 1..Len(stream) : stream[i].msg \in M /\ stream[i].age \in 0..Delay
<1>1. /\ Len(stream) \in Nat
      /\ stream = <<>> <=> Len(stream) = 0
      /\ stream # <<>> => Head(stream) = stream[1]
      /\ \A i \in 1..Len(stream) : stream[i] \in [msg : M, age : 0..Delay]
  BY Queue DEF Stream
<1>2. \A i \in 1..Len(stream) : stream[i].msg \in M /\ stream[i].age \in 0..Delay
  BY <1>1
<1>3. stream # <<>> => 1 \in 1..Len(stream)
  BY <1>1
<1> QED
  BY <1>1, <1>2, <1>3, ConnectionAssumption DEF Age

\* A message that is written joins at the end (write_all).
LEMMA SentFacts ==
  ASSUME NEW M, NEW stream \in Stream(M), NEW m \in M
  PROVE  LET t == Sent(stream, m)
         IN  /\ t \in Stream(M) /\ t # <<>> /\ Len(t) = Len(stream) + 1
             /\ Age(t) = Age(stream) /\ Head(t).age = Age(stream)
             /\ \A i \in 1..Len(stream) : t[i] = stream[i]
             /\ t[Len(stream) + 1].msg = m /\ t[Len(stream) + 1].age = 0
             /\ OldestFirst(stream) => OldestFirst(t)
<1> DEFINE t == Sent(stream, m)
<1>1. [msg |-> m, age |-> 0] \in [msg : M, age : 0..Delay]
  BY ConnectionAssumption
<1>2. /\ t \in Stream(M) /\ t # <<>> /\ Len(t) = Len(stream) + 1
      /\ \A i \in 1..Len(stream) : t[i] = stream[i]
      /\ t[Len(stream) + 1] = [msg |-> m, age |-> 0]
  BY <1>1, AppendProperties DEF Sent, Stream
<1> HIDE DEF t
<1>3. Len(stream) \in Nat /\ Head(t) = t[1]
  BY <1>2, StreamFacts
<1>4. Head(t).age = Age(stream)
  <2>1. CASE stream = <<>>
    BY <1>2, <1>3, <2>1, StreamFacts DEF Age
  <2>2. CASE stream # <<>>
    <3>1. 1 \in 1..Len(stream)
      BY <2>2, StreamFacts
    <3> QED
      BY <1>2, <1>3, <2>2, <3>1, StreamFacts
  <2> QED
    BY <2>1, <2>2
<1>5. Age(t) = Head(t).age
  BY <1>2, StreamFacts
<1>6. ASSUME OldestFirst(stream) PROVE OldestFirst(t)
  <2>1. ASSUME NEW i \in 1..Len(t), NEW j \in 1..Len(t), i <= j
        PROVE  t[j].age <= t[i].age
    <3>1. t[i].age \in 0..Delay /\ t[j].age \in 0..Delay
      BY <1>2, StreamFacts
    <3>2. CASE j = Len(stream) + 1
      BY <1>2, <3>1, <3>2
    <3>3. CASE j \in 1..Len(stream) /\ i \in 1..Len(stream)
      BY <1>2, <1>6, <2>1, <3>3 DEF OldestFirst
    <3> QED
      BY <1>2, <1>3, <2>1, <3>2, <3>3
  <2> QED
    BY <2>1 DEF OldestFirst
<1> QED
  BY <1>2, <1>4, <1>5, <1>6 DEF t

\* A read takes the first messages.
LEMMA RestFacts ==
  ASSUME NEW M, NEW stream \in Stream(M), NEW n \in 1..Len(stream)
  PROVE  LET t == Rest(stream, n)
         IN  /\ t \in Stream(M) /\ Len(t) = Len(stream) - n
             /\ \A i \in 1..Len(t) : t[i] = stream[i + n]
             /\ OldestFirst(stream) => OldestFirst(t)
<1> DEFINE t == Rest(stream, n)
<1> DEFINE E == [msg : M, age : 0..Delay]
<1>1. stream \in Seq(E) /\ Len(stream) \in Nat /\ n \in Nat
  BY StreamFacts DEF Stream
<1>2. \A i \in 1..Len(stream) : stream[i] \in E
  BY <1>1, Queue
<1> HIDE DEF E
<1>3. \A i \in n+1..Len(stream) : stream[i] \in E
  BY <1>1, <1>2
<1>4. /\ t \in Seq(E)
      /\ Len(t) = IF n + 1 <= Len(stream) THEN Len(stream) - (n + 1) + 1 ELSE 0
      /\ \A i \in 1..Len(stream) - (n + 1) + 1 : t[i] = stream[(n + 1) + i - 1]
  BY <1>1, <1>3, SubSeqProperties DEF Rest
<1>5. t \in Stream(M)
  BY <1>4 DEF Stream, E
<1> HIDE DEF t
<1>6. Len(t) = Len(stream) - n /\ \A i \in 1..Len(t) : t[i] = stream[i + n]
  BY <1>1, <1>4
<1>7. ASSUME OldestFirst(stream) PROVE OldestFirst(t)
  BY <1>1, <1>6, <1>7, SMTT(30) DEF OldestFirst
<1> QED
  BY <1>5, <1>6, <1>7 DEF t

\* Time makes every message older, up to Delay.
LEMMA OlderFacts ==
  ASSUME NEW M, NEW stream \in Stream(M)
  PROVE  LET t == Older(stream)
         IN  /\ t \in Stream(M) /\ Len(t) = Len(stream)
             /\ t = <<>> <=> stream = <<>>
             /\ \A i \in 1..Len(stream) :
                  /\ t[i].msg = stream[i].msg
                  /\ t[i].age = IF stream[i].age < Delay THEN stream[i].age + 1 ELSE stream[i].age
             /\ Age(t) = Age(stream) \/ Age(t) = Age(stream) + 1
             /\ stream # <<>> /\ Age(stream) < Delay => Age(t) = Age(stream) + 1
             /\ OldestFirst(stream) => OldestFirst(t)
<1> DEFINE t == Older(stream)
<1>1. /\ stream \in [1..Len(stream) -> [msg : M, age : 0..Delay]] /\ Len(stream) \in Nat
      /\ DOMAIN stream = 1..Len(stream)
  BY LenProperties DEF Stream
<1>2. Delay \in Nat
  BY ConnectionAssumption
<1>3. ASSUME NEW i \in 1..Len(stream)
      PROVE  /\ t[i] \in [msg : M, age : 0..Delay]
             /\ t[i].msg = stream[i].msg
             /\ t[i].age = IF stream[i].age < Delay THEN stream[i].age + 1 ELSE stream[i].age
  <2>1. stream[i] \in [msg : M, age : 0..Delay]
    BY <1>1
  <2>2. t[i] = [stream[i] EXCEPT !.age = IF stream[i].age < Delay THEN stream[i].age + 1 ELSE stream[i].age]
    BY <1>1 DEF Older
  <2> HIDE DEF t
  <2> QED
    BY <1>2, <2>1, <2>2
<1>4. t \in Stream(M) /\ Len(t) = Len(stream)
  <2>1. t = [i \in 1..Len(stream) |-> t[i]]
    BY <1>1 DEF Older
  <2> HIDE DEF t
  <2> QED
    BY <1>1, <1>3, <2>1, IsASeq, LenProperties DEF Stream
<1> HIDE DEF t
<1>5. t = <<>> <=> stream = <<>>
  BY <1>4, StreamFacts
<1>6. /\ Age(t) = Age(stream) \/ Age(t) = Age(stream) + 1
      /\ stream # <<>> /\ Age(stream) < Delay => Age(t) = Age(stream) + 1
  <2>1. CASE stream = <<>>
    BY <1>5, <2>1, StreamFacts DEF Age
  <2>2. CASE stream # <<>>
    <3>1. /\ 1 \in 1..Len(stream) /\ Age(t) = t[1].age
          /\ Age(stream) = stream[1].age /\ Age(stream) \in 0..Delay
      BY <1>4, <1>5, <2>2, StreamFacts
    <3> QED
      BY <1>2, <1>3, <3>1
  <2> QED
    BY <2>1, <2>2
<1>7. ASSUME OldestFirst(stream) PROVE OldestFirst(t)
  <2>1. ASSUME NEW i \in 1..Len(stream), NEW j \in 1..Len(stream), i <= j
        PROVE  t[j].age <= t[i].age
    <3>1. /\ stream[j].age <= stream[i].age
          /\ stream[i].age \in 0..Delay /\ stream[j].age \in 0..Delay
      BY <1>7, <2>1, StreamFacts DEF OldestFirst
    <3> QED
      BY <1>2, <1>3, <3>1
  <2> QED
    BY <1>4, <2>1 DEF OldestFirst
<1> QED
  BY <1>3, <1>4, <1>5, <1>6, <1>7 DEF t

\* Equal messages, as many as are asked for.
LEMMA TimesFacts ==
  ASSUME NEW S, NEW m \in S, NEW n \in Nat
  PROVE  Times(m, n) \in Seq(S) /\ Len(Times(m, n)) = n
<1>1. Times(m, n) \in Seq(S)
  BY IsASeq DEF Times
<1> QED
  BY <1>1, LenProperties DEF Times

-----------------------------------------------------------------------------
(* Types. *)

\* The definitions that an action is expanded into.
USE DEF streams, clientVars, serverVars, history, vars, Ended

\* What the ends write.
LEMMA MessageTypes ==
  /\ Hello(ClientInterval) \in FromClient /\ Keepalive \in FromClient
  /\ Subscribe \in FromClient /\ Update \in FromClient
  /\ Hello(offer) \in FromServer /\ Keepalive \in FromServer /\ Update \in FromServer
  /\ FromClient' = FromClient
  /\ offer' = offer => FromServer' = FromServer
  /\ \A S, m : m \in S => <<m>> \in Seq(S) /\ Len(<<m>>) = 1 /\ Head(<<m>>) = m
  /\ \A S : <<>> \in Seq(S)
  BY DEF FromClient, FromServer

\* The interval that is worked out is the smaller one.
LEMMA NegotiatedFacts ==
  ASSUME offer \in ServerInterval
  PROVE  /\ Agreed \in 0..ClientInterval
         /\ Negotiated(offer, ClientInterval) = Agreed
         /\ Agreed > 0 => 2 * Delay < 3 * Agreed
  BY ConnectionAssumption DEF Agreed, Negotiated

\* SUBSCRIBE and the routes again.
LEMMA ReplayType ==
  <<Subscribe>> \o Times(Update, Replay) \in Seq(FromClient)
<1>1. Times(Update, Replay) \in Seq(FromClient) /\ <<Subscribe>> \in Seq(FromClient)
  BY TimesFacts, MessageTypes, ConnectionAssumption
<1> QED
  BY <1>1, ConcatProperties

\* The types are the same after a step.
LEMMA TypesPrimed ==
  ASSUME offer' = offer
  PROVE  /\ FromServer' = FromServer /\ FromClient' = FromClient
         /\ Stream(FromServer)' = Stream(FromServer) /\ Stream(FromClient)' = Stream(FromClient)
         /\ Seq(FromServer)' = Seq(FromServer) /\ Seq(FromClient)' = Seq(FromClient)
  BY DEF FromServer, FromClient, Stream

\* The client's read.
LEMMA ClientTakesType ==
  ASSUME Types, NEW n, ClientTakes(n)
  PROVE  /\ toClient' \in Stream(FromServer) /\ Len(toClient') = Len(toClient) - n
         /\ Len(toClient') <= Cap
         /\ toClient[1].msg \in FromServer /\ n \in 1..Len(toClient)
         /\ c \in {"wait_hello", "wait_keepalive", "loop"} /\ cout = <<>> /\ link = "up"
<1>1. n \in 1..Len(toClient) /\ toClient' = Rest(toClient, n) /\ toClient \in Stream(FromServer)
  BY DEF Types, ClientTakes
<1>2. toClient' \in Stream(FromServer) /\ Len(toClient') = Len(toClient) - n
  BY <1>1, RestFacts
<1>3. 1 \in 1..Len(toClient) /\ Len(toClient) \in Nat
  BY <1>1, StreamFacts
<1> QED
  BY <1>1, <1>2, <1>3, StreamFacts, ConnectionAssumption, SMTT(40) DEF Types, ConnectionTypeOK, ClientTakes, ClientReads, Arriving

\* The server's read, and the messages it takes.
LEMMA ServerTakesType ==
  ASSUME Types, NEW n, ServerTakes(n)
  PROVE  /\ toServer' \in Stream(FromClient) /\ Len(toServer') = Len(toServer) - n
         /\ Len(toServer') <= Cap
         /\ toServer[1].msg \in FromClient /\ n \in 1..Len(toServer)
         /\ s \in {"wait_hello", "wait_keepalive", "loop"} /\ sout = <<>> /\ sbuf = <<>>
         /\ link = "up"
         /\ Messages(toServer, n) \in Seq(FromClient)
<1>1. n \in 1..Len(toServer) /\ toServer' = Rest(toServer, n) /\ toServer \in Stream(FromClient)
  BY DEF Types, ServerTakes
<1>2. toServer' \in Stream(FromClient) /\ Len(toServer') = Len(toServer) - n
  BY <1>1, RestFacts
<1>3. 1 \in 1..Len(toServer) /\ Len(toServer) \in Nat
  BY <1>1, StreamFacts
<1>4. \A i \in 1..n : toServer[i].msg \in FromClient
  BY <1>1, <1>3, StreamFacts
<1>5. Messages(toServer, n) \in Seq(FromClient)
  BY <1>1, <1>4, IsASeq DEF Messages
<1> QED
  BY <1>1, <1>2, <1>3, <1>5, StreamFacts, ConnectionAssumption, SMTT(30) DEF Types, ConnectionTypeOK, ServerTakes, ServerReads, Arriving

\* The steps of the client keep the types.
LEMMA ClientTypes ==
  ASSUME Types, ClientStep \/ ClientCommand
  PROVE  Types'
<1> USE DEF Types, ConnectionTypeOK
<1>0. /\ offer \in ServerInterval /\ ClientInterval \in Nat /\ MaxTraffic \in Nat
      /\ cneg \in Nat /\ Ticks(cneg) \in Nat /\ Timeout(cneg) \in Nat /\ Cap \in Nat
  BY ConnectionAssumption DEF Ticks, Timeout
<1>9. Len(toServer) \in Nat
  BY StreamFacts
<1>1. ASSUME NEW n, ClientHello(n) PROVE Types'
  <2>0. ClientTakes(n) /\ offer' = offer
    BY <1>1 DEF ClientHello, ClientTakes
  <2>1. CASE toClient[1].msg.type = "Hello"
    <3>1. cneg' = Negotiated(ClientInterval, offer)
      BY <1>1, <2>0, <2>1, ClientTakesType, Kinds DEF ClientHello
    <3>2. cneg' \in 0..ClientInterval /\ Timeout(cneg') \in Nat
      BY <1>0, <3>1, NegotiatedFacts DEF Agreed, Timeout
    <3>3. c' = "wait_keepalive" /\ cout' = <<Keepalive>> /\ ctimer' = Timeout(cneg')
      BY <1>1, <2>1 DEF ClientHello
    <3>4. cout' \in Seq(FromClient) /\ ctimer' \in Int
      BY <3>2, <3>3, MessageTypes
    <3> QED
      BY <1>1, <2>0, <3>2, <3>3, <3>4, ClientTakesType, TypesPrimed DEF ClientHello, ClientTakes
  <2>2. CASE toClient[1].msg.type # "Hello"
    BY <1>1, <2>0, <2>2, ClientTakesType, TypesPrimed DEF ClientHello, ClientTakes
  <2> QED
    BY <2>1, <2>2
<1>2. ASSUME NEW n, ClientEstablished(n) PROVE Types'
  <2>0. ClientTakes(n) /\ offer' = offer
    BY <1>2 DEF ClientEstablished, ClientTakes
  <2> QED
    BY <1>2, <2>0, ClientTakesType, TypesPrimed, ReplayType, MessageTypes DEF ClientEstablished, ClientTakes
<1>3. ASSUME NEW n, ClientRead(n) PROVE Types'
  <2>0. ClientTakes(n) /\ offer' = offer
    BY <1>3 DEF ClientRead, ClientTakes
  <2> QED
    BY <1>3, <2>0, ClientTakesType, TypesPrimed DEF ClientRead, ClientTakes
<1>4. CASE ClientWrite
  <2>1. /\ Head(cout) \in FromClient /\ Tail(cout) \in Seq(FromClient)
        /\ Sent(toServer, Head(cout)) \in Stream(FromClient)
        /\ Len(Sent(toServer, Head(cout))) = Len(toServer) + 1
    BY <1>4, Queue, SentFacts, SMTT(30) DEF ClientWrite
  <2> QED
    BY <1>0, <1>9, <1>4, <2>1, TypesPrimed DEF ClientWrite
<1>5. CASE ClientWriteFails \/ ClientSplit \/ ClientWaitTimeout \/ ClientEof
  BY <1>5, TypesPrimed DEF ClientWriteFails, ClientSplit, ClientWaitTimeout, ClientEof
<1>6. CASE ClientEnterLoop
  BY <1>6, TypesPrimed DEF ClientEnterLoop
<1>7. CASE ClientTick
  <2>1. cout' \in Seq(FromClient)
    BY <1>7, MessageTypes DEF ClientTick
  <2>2. ctimer' \in Int
    BY <1>0, <1>7 DEF ClientTick
  <2> QED
    BY <1>7, <2>1, <2>2, TypesPrimed DEF ClientTick
<1>8. CASE ClientCommand
  <2>1. cout' \in Seq(FromClient)
    BY <1>8, MessageTypes DEF ClientCommand
  <2>2. ctraffic' \in 0..MaxTraffic
    BY <1>0, <1>8 DEF ClientCommand
  <2> QED
    BY <1>8, <2>1, <2>2, TypesPrimed DEF ClientCommand
<1> QED
  BY <1>1, <1>2, <1>3, <1>4, <1>5, <1>6, <1>7, <1>8 DEF ClientStep

\* The steps of the server keep the types.
LEMMA ServerTypes ==
  ASSUME Types, ServerStep \/ ServerSend
  PROVE  Types'
<1> USE DEF Types, ConnectionTypeOK
<1>0. /\ offer \in ServerInterval /\ ClientInterval \in Nat /\ MaxTraffic \in Nat
      /\ sneg \in Nat /\ Timeout(sneg) \in Nat /\ Snapshot \in Nat /\ Cap \in Nat
  BY ConnectionAssumption DEF Timeout
<1>9. Len(toClient) \in Nat
  BY StreamFacts
<1>1. ASSUME NEW n, ServerHello(n) PROVE Types'
  <2>0. ServerTakes(n) /\ offer' = offer
    BY <1>1 DEF ServerHello, ServerTakes
  <2>1. CASE toServer[1].msg.type = "Hello"
    <3>1. sneg' = Negotiated(offer, ClientInterval)
      BY <1>1, <2>0, <2>1, ServerTakesType, Kinds DEF ServerHello
    <3>2. sneg' \in 0..ClientInterval /\ Timeout(sneg') \in Nat
      BY <1>0, <3>1, NegotiatedFacts DEF Timeout
    <3> QED
      BY <1>1, <2>0, <2>1, <3>2, ServerTakesType, TypesPrimed, MessageTypes DEF ServerHello, ServerTakes, Greeting
  <2>2. CASE toServer[1].msg.type # "Hello"
    BY <1>1, <2>0, <2>2, ServerTakesType, TypesPrimed DEF ServerHello, ServerTakes
  <2> QED
    BY <2>1, <2>2
<1>2. ASSUME NEW n, ServerEstablished(n) PROVE Types'
  <2>0. ServerTakes(n) /\ offer' = offer
    BY <1>2 DEF ServerEstablished, ServerTakes
  <2>1. sout' \in Seq(FromServer)
    BY <1>2, MessageTypes DEF ServerEstablished
  <2>2. ssince' \in Nat /\ stimer' \in Nat
    BY <1>0, <1>2 DEF ServerEstablished
  <2> QED
    BY <1>2, <2>0, <2>1, <2>2, ServerTakesType, TypesPrimed DEF ServerEstablished, ServerTakes
<1>3. ASSUME NEW n, ServerRead(n) PROVE Types'
  <2>0. ServerTakes(n) /\ offer' = offer
    BY <1>3 DEF ServerRead, ServerTakes
  <2> QED
    BY <1>0, <1>3, <2>0, ServerTakesType, TypesPrimed DEF ServerRead, ServerTakes
<1>4. CASE ServerWrite
  <2>1. /\ Head(sout) \in FromServer /\ Tail(sout) \in Seq(FromServer)
        /\ Sent(toClient, Head(sout)) \in Stream(FromServer)
        /\ Len(Sent(toClient, Head(sout))) = Len(toClient) + 1
    BY <1>4, Queue, SentFacts, SMTT(40) DEF ServerWrite
  <2> QED
    BY <1>0, <1>9, <1>4, <2>1, TypesPrimed DEF ServerWrite
<1>5. CASE ServerSplit \/ ServerWaitTimeout \/ ServerEof
  BY <1>5, TypesPrimed DEF ServerSplit, ServerWaitTimeout, ServerEof
<1>6. CASE ServerSleep
  BY <1>0, <1>6, TypesPrimed DEF ServerSleep
<1>7. CASE ServerHandle
  <2>1. Times(Update, Snapshot) \in Seq(FromServer) /\ Tail(sbuf) \in Seq(FromClient)
    BY <1>0, <1>7, MessageTypes, TimesFacts, Queue DEF ServerHandle
  <2>2. sout' \in {<<Keepalive>>, Times(Update, Snapshot), <<>>}
    BY <1>7 DEF ServerHandle
  <2> QED
    BY <1>7, <2>1, <2>2, TypesPrimed, MessageTypes DEF ServerHandle
<1>8. CASE ServerSend
  BY <1>0, <1>8, TypesPrimed, MessageTypes DEF ServerSend
<1>10. CASE ServerWriteFails
  <2>1. sbuf' \in Seq(FromClient) /\ subscribed' \in BOOLEAN
    BY <1>10 DEF ServerWriteFails
  <2> QED
    BY <1>10, <2>1, TypesPrimed DEF ServerWriteFails
<1> QED
  BY <1>1, <1>2, <1>3, <1>4, <1>5, <1>6, <1>7, <1>8, <1>10 DEF ServerStep

\* Types hold after every step; time passes within the bounds of the counters.
LEMMA TypesStep ==
  ASSUME Types, [Next]_vars
  PROVE  Types'
<1>1. CASE ClientStep \/ ClientCommand
  BY <1>1, ClientTypes
<1>2. CASE ServerStep \/ ServerSend
  BY <1>2, ServerTypes
<1> USE DEF Types, ConnectionTypeOK
<1>3. CASE LinkDies
  BY <1>3, TypesPrimed DEF LinkDies
<1>4. CASE Tick
  <2>1. /\ toServer' \in Stream(FromClient) /\ toClient' \in Stream(FromServer)
        /\ Len(toServer') = Len(toServer) /\ Len(toClient') = Len(toClient)
    BY <1>4, OlderFacts DEF Tick
  <2>2. cneg \in Nat /\ sneg \in Nat /\ Horizon \in Nat
    BY ConnectionAssumption DEF Horizon, Timeout
  <2>3. ctimer' \in Int
    BY <1>4, <2>2 DEF Tick, Down, Ticks
  <2>5. csince' \in Nat /\ ssince' \in Nat
    <3>1. csince' \in {csince, csince + 1} /\ ssince' \in {ssince, ssince + 1}
      BY <1>4 DEF Tick, UpTo
    <3> QED
      BY <3>1
  <2>6. stimer' \in Nat
    BY <1>4, <2>2, SMTT(30) DEF Tick, Down
  <2>4. silent' \in 0..Horizon /\ held' \in BOOLEAN
    BY <1>4, <2>2, SMTT(30) DEF Tick, UpTo
  <2> QED
    BY <1>4, <2>1, <2>3, <2>4, <2>5, <2>6, TypesPrimed DEF Tick
<1>5. CASE UNCHANGED vars
  BY <1>5, TypesPrimed
<1> QED
  BY <1>1, <1>2, <1>3, <1>4, <1>5 DEF Next

\* Types of the initial states.
LEMMA TypesInit == ConnectionInit => Types
<1> SUFFICES ASSUME ConnectionInit PROVE Types
  OBVIOUS
<1>1. <<Hello(ClientInterval)>> \in Seq(FromClient) /\ \A S : <<>> \in Seq(S)
  BY MessageTypes
<1>2. Horizon \in Nat
  BY ConnectionAssumption DEF Horizon, Timeout
<1>3. /\ toServer \in Stream(FromClient) /\ toClient \in Stream(FromServer)
      /\ cout \in Seq(FromClient) /\ sout \in Seq(FromServer) /\ sbuf \in Seq(FromClient)
      /\ Len(toServer) = 0 /\ Len(toClient) = 0
  BY <1>1 DEF ConnectionInit, Stream
<1>4. /\ offer \in ServerInterval /\ link = "up" /\ c = "wait_hello" /\ s = "wait_hello"
      /\ cneg = 0 /\ sneg = 0 /\ ctimer = 0 /\ csince = 0 /\ stimer = 0 /\ ssince = 0
      /\ ctraffic = 0 /\ straffic = 0 /\ silent = 0 /\ awake = 0
      /\ subscribed \in BOOLEAN /\ held \in BOOLEAN
  BY DEF ConnectionInit
<1>5. ConnectionTypeOK
  BY <1>2, <1>3, <1>4, ConnectionAssumption DEF ConnectionTypeOK
<1> QED
  BY <1>3, <1>4, <1>5 DEF Types

\* The variables keep their types and no stream outgrows its bound.
THEOREM ConnectionTypeCorrect == Spec => []ConnectionTypeOK
<1>1. ConnectionInit => Types
  BY TypesInit
<1>2. Types /\ [Next]_vars => Types'
  BY TypesStep
<1>3. Types => ConnectionTypeOK
  BY DEF Types
<1> QED
  BY <1>1, <1>2, <1>3, PTL DEF Spec

-----------------------------------------------------------------------------
(* The handshake. *)

\* A read of a stream with one message takes that message.
LEMMA OneMessage ==
  ASSUME NEW M, NEW stream \in Stream(M), Len(stream) <= 1, NEW n \in 1..Len(stream)
  PROVE  n = 1 /\ Rest(stream, n) = <<>> /\ Len(stream) = 1
<1>1. Len(stream) \in Nat
  BY StreamFacts
<1> DEFINE k == Len(stream)
<1>3. k \in Nat /\ k <= 1 /\ n \in 1..k
  BY <1>1
<1> HIDE DEF k
<1>4. n = 1 /\ k = 1
  BY <1>3
<1>2. n = 1 /\ Len(stream) = 1
  BY <1>4 DEF k
<1> QED
  BY <1>2, RestFacts, StreamFacts

\* The first reads of the client find one message.
LEMMA ClientTurn ==
  ASSUME Types, Turns, NEW n, ClientTakes(n), c \in {"wait_hello", "wait_keepalive"}
  PROVE  /\ n = 1 /\ toClient' = <<>> /\ Len(toClient) = 1 /\ cout = <<>>
         /\ s \notin Ended =>
              /\ sout = <<>> /\ toServer = <<>>
              /\ c = "wait_hello" => s = "wait_keepalive"
              /\ c = "wait_keepalive" => s = "loop" /\ sbuf = <<>> /\ ~subscribed
<1>1. /\ n \in 1..Len(toClient) /\ toClient' = Rest(toClient, n) /\ toClient # <<>>
      /\ toClient \in Stream(FromServer) /\ Len(toClient) \in Nat /\ Len(sout) \in Nat
      /\ sout = <<>> <=> Len(sout) = 0
      /\ cout = <<>>
  BY Queue, StreamFacts DEF Types, ClientTakes, Arriving, ClientReads
<1>2. Len(toClient) <= 1
  BY <1>1 DEF Turns
<1>3. n = 1 /\ toClient' = <<>> /\ Len(toClient) = 1
  BY <1>1, <1>2, OneMessage
<1> QED
  BY <1>1, <1>3 DEF Turns

\* The first reads of the server find one message.
LEMMA ServerTurn ==
  ASSUME Types, Turns, NEW n, ServerTakes(n), s \in {"wait_hello", "wait_keepalive"}
  PROVE  /\ n = 1 /\ toServer' = <<>> /\ Len(toServer) = 1 /\ sout = <<>> /\ sbuf = <<>>
         /\ ~subscribed
         /\ c \notin Ended => cout = <<>> /\ toClient = <<>> /\ c = s
<1>1. /\ n \in 1..Len(toServer) /\ toServer' = Rest(toServer, n) /\ toServer # <<>>
      /\ toServer \in Stream(FromClient) /\ Len(toServer) \in Nat /\ Len(cout) \in Nat
      /\ cout = <<>> <=> Len(cout) = 0
      /\ sout = <<>> /\ sbuf = <<>>
      /\ c \in {"wait_hello", "wait_keepalive", "replay", "loop"} \cup Ended
  BY Queue, StreamFacts DEF Types, ConnectionTypeOK, ServerTakes, Arriving, ServerReads
<1>2. Len(toServer) <= 1
  BY <1>1 DEF Turns
<1>3. n = 1 /\ toServer' = <<>> /\ Len(toServer) = 1
  BY <1>1, <1>2, OneMessage
<1> QED
  BY <1>1, <1>3 DEF Turns

\* A message that is written moves from the end to the stream.
LEMMA ClientWrites ==
  ASSUME Types, ClientWrite
  PROVE  /\ Len(cout') = Len(cout) - 1 /\ Len(toServer') = Len(toServer) + 1
         /\ Len(cout) \in Nat /\ Len(toServer) \in Nat /\ cout # <<>>
         /\ cout' = <<>> <=> Len(cout') = 0
         /\ toServer' # <<>>
<1>1. /\ cout \in Seq(FromClient) /\ cout # <<>> /\ toServer \in Stream(FromClient)
      /\ cout' = Tail(cout) /\ toServer' = Sent(toServer, Head(cout))
  BY DEF Types, ClientWrite
<1>2. /\ Head(cout) \in FromClient /\ cout' \in Seq(FromClient)
      /\ Len(cout') = Len(cout) - 1 /\ Len(cout) \in Nat
  BY <1>1, Queue
<1>3. cout' = <<>> <=> Len(cout') = 0
  BY <1>2, Queue
<1>4. toServer' # <<>> /\ Len(toServer') = Len(toServer) + 1
  BY <1>1, <1>2, SentFacts
<1>5. Len(toServer) \in Nat
  BY <1>1, StreamFacts
<1> QED
  BY <1>1, <1>2, <1>3, <1>4, <1>5

\* The same at the server's end.
LEMMA ServerWrites ==
  ASSUME Types, ServerWrite
  PROVE  /\ Len(sout') = Len(sout) - 1 /\ Len(toClient') = Len(toClient) + 1
         /\ Len(sout) \in Nat /\ Len(toClient) \in Nat /\ sout # <<>>
         /\ sout' = <<>> <=> Len(sout') = 0
         /\ toClient' # <<>>
<1>1. /\ sout \in Seq(FromServer) /\ sout # <<>> /\ toClient \in Stream(FromServer)
      /\ sout' = Tail(sout) /\ toClient' = Sent(toClient, Head(sout))
  BY DEF Types, ServerWrite
<1>2. /\ Head(sout) \in FromServer /\ sout' \in Seq(FromServer)
      /\ Len(sout') = Len(sout) - 1 /\ Len(sout) \in Nat
  BY <1>1, Queue
<1>3. sout' = <<>> <=> Len(sout') = 0
  BY <1>2, Queue
<1>4. toClient' # <<>> /\ Len(toClient') = Len(toClient) + 1
  BY <1>1, <1>2, SentFacts
<1>5. Len(toClient) \in Nat
  BY <1>1, StreamFacts
<1> QED
  BY <1>1, <1>2, <1>3, <1>4, <1>5

\* An end of a handshake that is over is never in it again.
LEMMA TurnsStep ==
  ASSUME Types, Turns, [Next]_vars
  PROVE  Turns'
<1>0. /\ Len(toServer) \in Nat /\ Len(toClient) \in Nat /\ Len(cout) \in Nat /\ Len(sout) \in Nat
      /\ toServer = <<>> <=> Len(toServer) = 0
      /\ toClient = <<>> <=> Len(toClient) = 0
      /\ cout = <<>> <=> Len(cout) = 0
      /\ sout = <<>> <=> Len(sout) = 0
      /\ c \in {"wait_hello", "wait_keepalive", "replay", "loop"} \cup Ended
      /\ s \in {"wait_hello", "wait_keepalive", "loop", "ended", "timeout"}
  BY Queue, StreamFacts DEF Types, ConnectionTypeOK
<1>1. ASSUME NEW n, ClientHello(n) PROVE Turns'
  <2>1. /\ n = 1 /\ toClient' = <<>> /\ Len(toClient) = 1 /\ cout = <<>>
        /\ s \notin Ended => s = "wait_keepalive" /\ sout = <<>> /\ toServer = <<>>
    BY <1>1, ClientTurn DEF ClientHello
  <2>2. CASE toClient[1].msg.type = "Hello"
    <3>1. /\ c' = "wait_keepalive" /\ Len(cout') = 1 /\ toServer' = toServer
          /\ UNCHANGED <<s, sout, sbuf, subscribed>>
      BY <1>1, <2>2, MessageTypes DEF ClientHello, ClientTakes
    <3> QED
      BY <1>0, <2>1, <3>1 DEF Turns
  <2>3. CASE toClient[1].msg.type # "Hello"
    <3>1. /\ c' = "ended" /\ toServer' = toServer
          /\ UNCHANGED <<s, sout, sbuf, subscribed>>
      BY <1>1, <2>3 DEF ClientHello, ClientTakes
    <3> QED
      BY <1>0, <1>1, <2>1, <3>1 DEF Turns
  <2> QED
    BY <2>2, <2>3
<1>2. ASSUME NEW n, ClientEstablished(n) PROVE Turns'
  <2>1. /\ toClient' = <<>>
        /\ s \notin Ended => s = "loop"
    BY <1>2, ClientTurn DEF ClientEstablished
  <2>2. c' \in {"replay", "ended"} /\ UNCHANGED <<s, toServer, sbuf, subscribed>>
    BY <1>2 DEF ClientEstablished, ClientTakes
  <2> QED
    BY <1>0, <2>1, <2>2 DEF Turns
<1>3. ASSUME NEW n, ClientRead(n) PROVE Turns'
  BY <1>3 DEF Turns, ClientRead, ClientTakes
<1>4. CASE ClientWrite
  <2>1. /\ UNCHANGED <<c, s, sout, sbuf, subscribed, toClient>> /\ c \notin Ended
    BY <1>4 DEF ClientWrite
  <2> QED
    BY <1>0, <1>4, <2>1, ClientWrites DEF Turns
<1>5. CASE ClientWriteFails \/ ClientSplit \/ ClientWaitTimeout \/ ClientEof
  <2>1. /\ c \notin Ended /\ c' \in Ended
        /\ UNCHANGED <<s, sout, sbuf, subscribed, toClient, toServer>>
    BY <1>5 DEF ClientWriteFails, ClientBlocked, ClientSplit, ClientWaitTimeout, ClientEof, ClientReads
  <2> QED
    BY <1>0, <2>1 DEF Turns
<1>6. CASE ClientEnterLoop
  <2>1. /\ c = "replay" /\ c' \in {"loop", "panicked"}
        /\ UNCHANGED <<s, sout, sbuf, subscribed, toClient, toServer>>
    BY <1>6 DEF ClientEnterLoop
  <2> QED
    BY <1>0, <2>1 DEF Turns
<1>7. CASE ClientTick \/ ClientCommand
  <2>1. /\ c = "loop" /\ c' \in {"loop", "timeout"}
        /\ UNCHANGED <<s, sout, sbuf, subscribed, toClient, toServer>>
    BY <1>7 DEF ClientTick, ClientCommand
  <2> QED
    BY <1>0, <2>1 DEF Turns
<1>8. ASSUME NEW n, ServerHello(n) PROVE Turns'
  <2>1. /\ toServer' = <<>> /\ Len(toServer) = 1 /\ sout = <<>> /\ sbuf = <<>> /\ ~subscribed
        /\ c \notin Ended => c = "wait_hello" /\ cout = <<>> /\ toClient = <<>>
    BY <1>8, ServerTurn DEF ServerHello
  <2>2. CASE toServer[1].msg.type = "Hello"
    <3>1. /\ s' = "wait_keepalive" /\ Len(sout') = 1 /\ toClient' = toClient
          /\ UNCHANGED <<c, cout, sbuf, subscribed>>
      BY <1>8, <2>2, MessageTypes DEF ServerHello, ServerTakes, Greeting
    <3> QED
      BY <1>0, <2>1, <3>1 DEF Turns
  <2>3. CASE toServer[1].msg.type # "Hello"
    <3>1. s' = "ended" /\ UNCHANGED <<c, cout, toClient, sbuf, subscribed>>
      BY <1>8, <2>3 DEF ServerHello, ServerTakes
    <3> QED
      BY <1>0, <2>1, <3>1 DEF Turns
  <2> QED
    BY <2>2, <2>3
<1>9. ASSUME NEW n, ServerEstablished(n) PROVE Turns'
  <2>1. /\ toServer' = <<>> /\ Len(toServer) = 1 /\ sout = <<>> /\ sbuf = <<>> /\ ~subscribed
        /\ c \notin Ended => c = "wait_keepalive" /\ cout = <<>> /\ toClient = <<>>
    BY <1>9, ServerTurn DEF ServerEstablished
  <2>2. CASE toServer[1].msg = Keepalive
    <3>1. /\ s' = "loop" /\ Len(sout') = 1 /\ toClient' = toClient
          /\ UNCHANGED <<c, cout, sbuf, subscribed>>
      BY <1>9, <2>2, MessageTypes DEF ServerEstablished, ServerTakes
    <3> QED
      BY <1>0, <2>1, <3>1 DEF Turns
  <2>3. CASE toServer[1].msg # Keepalive
    <3>1. s' = "ended" /\ UNCHANGED <<c, cout, toClient, sbuf, subscribed>>
      BY <1>9, <2>3 DEF ServerEstablished, ServerTakes
    <3> QED
      BY <1>0, <2>1, <3>1 DEF Turns
  <2> QED
    BY <2>2, <2>3
<1>10. ASSUME NEW n, ServerRead(n) PROVE Turns'
  <2>1. /\ s = "loop" /\ s' = "loop" /\ toServer # <<>>
        /\ UNCHANGED <<c, cout, toClient, sout, subscribed>>
    BY <1>10 DEF ServerRead, ServerTakes, Arriving
  <2> QED
    BY <1>0, <2>1 DEF Turns
<1>11. CASE ServerWrite
  <2>1. /\ UNCHANGED <<c, s, cout, sbuf, subscribed, toServer>> /\ s \notin Ended
    BY <1>11 DEF ServerWrite
  <2> QED
    BY <1>0, <1>11, <2>1, ServerWrites DEF Turns
<1>12. CASE ServerWriteFails \/ ServerSplit \/ ServerWaitTimeout \/ ServerEof
  <2>1. /\ s \notin Ended /\ s' \in Ended
        /\ UNCHANGED <<c, cout, toClient, toServer>>
    BY <1>12 DEF ServerWriteFails, ServerBlocked, ServerSplit, ServerWaitTimeout, ServerEof, ServerReads
  <2> QED
    BY <1>0, <2>1 DEF Turns
<1>13. CASE ServerSleep
  <2>1. /\ s = "loop" /\ s' \in {"loop", "timeout"}
        /\ UNCHANGED <<c, cout, toClient, toServer, sout, sbuf, subscribed>>
    BY <1>13 DEF ServerSleep
  <2> QED
    BY <1>0, <2>1 DEF Turns
<1>14. CASE ServerHandle
  <2>1. /\ s = "loop" /\ s' = "loop" /\ sbuf # <<>> /\ UNCHANGED <<c, cout, toClient, toServer>>
    BY <1>14 DEF ServerHandle
  <2> QED
    BY <1>0, <2>1 DEF Turns
<1>15. CASE ServerSend
  <2>1. /\ s = "loop" /\ s' = "loop" /\ subscribed /\ UNCHANGED <<c, cout, toClient, toServer>>
    BY <1>15 DEF ServerSend
  <2> QED
    BY <1>0, <2>1 DEF Turns
<1>16. CASE LinkDies \/ UNCHANGED vars
  BY <1>16 DEF Turns, LinkDies
<1>17. CASE Tick
  <2>1. /\ Len(toServer') = Len(toServer) /\ Len(toClient') = Len(toClient)
        /\ toServer' = <<>> <=> toServer = <<>>
        /\ toClient' = <<>> <=> toClient = <<>>
        /\ UNCHANGED <<c, cout, s, sout, sbuf, subscribed>>
    BY <1>17, OlderFacts DEF Tick, Types
  <2> QED
    BY <1>0, <2>1 DEF Turns
<1> QED
  BY <1>1, <1>2, <1>3, <1>4, <1>5, <1>6, <1>7, <1>8, <1>9, <1>10, <1>11, <1>12, <1>13, <1>14,
     <1>15, <1>16, <1>17 DEF Next, ClientStep, ServerStep

\* Nothing is swallowed by a step.
LEMMA SwallowStep ==
  ASSUME Types, Turns, NothingSwallowed, [Next]_vars
  PROVE  NothingSwallowed'
<1>1. ASSUME NEW n, ClientHello(n) \/ ClientEstablished(n) PROVE NothingSwallowed'
  <2>1. n = 1
    BY <1>1, ClientTurn DEF ClientHello, ClientEstablished
  <2> QED
    BY <1>1, <2>1 DEF ClientHello, ClientEstablished, Swallow, NothingSwallowed
<1>2. ASSUME NEW n, ServerHello(n) \/ ServerEstablished(n) PROVE NothingSwallowed'
  <2>1. n = 1
    BY <1>2, ServerTurn DEF ServerHello, ServerEstablished
  <2> QED
    BY <1>2, <2>1 DEF ServerHello, ServerEstablished, Swallow, NothingSwallowed
<1>3. ASSUME NEW n, ClientRead(n) \/ ServerRead(n) PROVE NothingSwallowed'
  BY <1>3 DEF ClientRead, ServerRead, NothingSwallowed
<1>4. CASE \/ ClientWrite \/ ClientWriteFails \/ ClientSplit \/ ClientWaitTimeout
           \/ ClientEnterLoop \/ ClientTick \/ ClientEof \/ ClientCommand
  BY <1>4 DEF ClientWrite, ClientWriteFails, ClientSplit, ClientWaitTimeout, ClientEnterLoop,
              ClientTick, ClientEof, ClientCommand, NothingSwallowed
<1>5. CASE \/ ServerWrite \/ ServerWriteFails \/ ServerSplit \/ ServerWaitTimeout
           \/ ServerSleep \/ ServerHandle \/ ServerEof \/ ServerSend
  BY <1>5 DEF ServerWrite, ServerWriteFails, ServerSplit, ServerWaitTimeout, ServerSleep,
              ServerHandle, ServerEof, ServerSend, NothingSwallowed
<1>6. CASE LinkDies \/ Tick \/ UNCHANGED vars
  BY <1>6 DEF LinkDies, Tick, NothingSwallowed
<1> QED
  BY <1>1, <1>2, <1>3, <1>4, <1>5, <1>6 DEF Next, ClientStep, ServerStep

-----------------------------------------------------------------------------
(* Intervals, timers and the order of the streams. *)

\* The steps that change no interval and no timer of the client, or end it.
LEMMA AgreementStep ==
  ASSUME Types, Agreement, TimersBounded, [Next]_vars
  PROVE  Agreement' /\ TimersBounded'
<1> USE DEF Agreement, TimersBounded
<1>0. /\ cneg \in Nat /\ sneg \in Nat /\ offer \in ServerInterval
      /\ Timeout(cneg) \in Nat /\ Timeout(sneg) \in Nat /\ Ticks(cneg) \in Nat
      /\ ctimer \in Int /\ stimer \in Nat
      /\ c \in {"wait_hello", "wait_keepalive", "replay", "loop"} \cup Ended
      /\ s \in {"wait_hello", "wait_keepalive", "loop", "ended", "timeout"}
  BY ConnectionAssumption DEF Types, ConnectionTypeOK, Timeout, Ticks
<1>1. ASSUME UNCHANGED offer PROVE Agreed' = Agreed
  BY <1>1 DEF Agreed
<1>2. ASSUME NEW n, ClientHello(n) PROVE Agreement' /\ TimersBounded'
  <2>0. ClientTakes(n) /\ UNCHANGED <<offer, s, sneg, stimer>>
    BY <1>2 DEF ClientHello, ClientTakes
  <2>1. CASE toClient[1].msg.type = "Hello"
    <3>1. cneg' = Negotiated(ClientInterval, offer) /\ c' = "wait_keepalive" /\ ctimer' = Timeout(cneg')
      BY <1>2, <2>0, <2>1, ClientTakesType, Kinds DEF ClientHello
    <3>2. cneg' = Agreed /\ Timeout(cneg') \in Nat
      BY <1>0, <3>1, NegotiatedFacts DEF Agreed, Timeout
    <3> QED
      BY <1>0, <1>1, <2>0, <3>1, <3>2
  <2>2. CASE toClient[1].msg.type # "Hello"
    <3>1. c' = "ended"
      BY <1>2, <2>2 DEF ClientHello
    <3> QED
      BY <1>0, <1>1, <2>0, <3>1
  <2> QED
    BY <2>1, <2>2
<1>3. ASSUME NEW n, ServerHello(n) PROVE Agreement' /\ TimersBounded'
  <2>0. ServerTakes(n) /\ UNCHANGED <<offer, c, cneg, ctimer>>
    BY <1>3 DEF ServerHello, ServerTakes
  <2>1. CASE toServer[1].msg.type = "Hello"
    <3>1. sneg' = Negotiated(offer, ClientInterval) /\ s' = "wait_keepalive" /\ stimer' = Timeout(sneg')
      BY <1>3, <2>0, <2>1, ServerTakesType, Kinds DEF ServerHello
    <3>2. sneg' = Agreed /\ Timeout(sneg') \in Nat
      BY <1>0, <3>1, NegotiatedFacts DEF Timeout
    <3> QED
      BY <1>0, <1>1, <2>0, <3>1, <3>2
  <2>2. CASE toServer[1].msg.type # "Hello"
    <3>1. s' = "ended"
      BY <1>3, <2>2 DEF ServerHello
    <3> QED
      BY <1>0, <1>1, <2>0, <3>1
  <2> QED
    BY <2>1, <2>2
<1>4. CASE ClientEnterLoop
  <2>1. /\ c = "replay" /\ c' \in {"loop", "panicked"} /\ ctimer' = 0
        /\ UNCHANGED <<offer, cneg, s, sneg, stimer>>
    BY <1>4 DEF ClientEnterLoop
  <2> QED
    BY <1>0, <1>1, <2>1
<1>5. CASE ClientTick
  <2>1. /\ c = "loop" /\ c' \in {"loop", "timeout"} /\ ctimer <= 0 /\ ctimer' = ctimer + Ticks(cneg)
        /\ UNCHANGED <<offer, cneg, s, sneg, stimer>>
    BY <1>5 DEF ClientTick
  <2> QED
    BY <1>0, <1>1, <2>1
<1>6. ASSUME NEW n, ClientEstablished(n) PROVE Agreement' /\ TimersBounded'
  <2>1. /\ c = "wait_keepalive" /\ c' \in {"replay", "ended"}
        /\ UNCHANGED <<offer, cneg, ctimer, s, sneg, stimer>>
    BY <1>6 DEF ClientEstablished, ClientTakes
  <2> QED
    BY <1>0, <1>1, <2>1
<1>7. ASSUME NEW n, ServerEstablished(n) \/ ServerRead(n) PROVE Agreement' /\ TimersBounded'
  <2>1. /\ s \in {"wait_keepalive", "loop"} /\ s' \in {"loop", "ended"}
        /\ stimer' \in {stimer, Timeout(sneg)}
        /\ UNCHANGED <<offer, c, cneg, ctimer, sneg>>
    BY <1>7 DEF ServerEstablished, ServerRead, ServerTakes
  <2> QED
    BY <1>0, <1>1, <2>1
<1>8. CASE ServerSleep \/ ServerSend
  <2>1. /\ s = "loop" /\ s' \in {"loop", "timeout"}
        /\ stimer' \in {stimer, Timeout(sneg)}
        /\ UNCHANGED <<offer, c, cneg, ctimer, sneg>>
    BY <1>8 DEF ServerSleep, ServerSend
  <2> QED
    BY <1>0, <1>1, <2>1
<1>9. CASE \/ ClientWriteFails \/ ClientSplit \/ ClientWaitTimeout \/ ClientEof
           \/ ServerWriteFails \/ ServerSplit \/ ServerWaitTimeout \/ ServerEof
  <2>1. /\ \/ c' \in Ended /\ UNCHANGED s
           \/ s' \in Ended /\ UNCHANGED c
        /\ UNCHANGED <<offer, cneg, ctimer, sneg, stimer>>
    BY <1>9 DEF ClientWriteFails, ClientSplit, ClientWaitTimeout, ClientEof,
                ServerWriteFails, ServerSplit, ServerWaitTimeout, ServerEof
  <2> QED
    BY <1>0, <1>1, <2>1
<1>10. CASE \/ ClientWrite \/ (\E n \in 1..Cap : ClientRead(n)) \/ ClientCommand
            \/ ServerWrite \/ ServerHandle \/ LinkDies \/ UNCHANGED vars
  <2>1. UNCHANGED <<offer, c, cneg, ctimer, s, sneg, stimer>>
    BY <1>10 DEF ClientWrite, ClientRead, ClientTakes, ClientCommand, ServerWrite, ServerHandle, LinkDies
  <2> QED
    BY <1>0, <1>1, <2>1
<1>11. CASE Tick
  <2>1. /\ UNCHANGED <<offer, c, cneg, s, sneg>>
        /\ c = "wait_keepalive" => ctimer' = Down(ctimer, 0)
        /\ c = "loop" => ctimer' = Down(ctimer, -Ticks(cneg))
        /\ stimer' \in {stimer, Down(stimer, 0)}
    BY <1>11 DEF Tick
  <2>2. /\ c = "wait_keepalive" => ctimer' \in 0..Timeout(cneg)
        /\ c = "loop" => ctimer' <= Ticks(cneg)
        /\ stimer' \in Nat /\ stimer' <= stimer
    BY <1>0, <2>1 DEF Down
  <2> QED
    BY <1>0, <1>1, <2>1, <2>2
<1> QED
  BY <1>2, <1>3, <1>4, <1>5, <1>6, <1>7, <1>8, <1>9, <1>10, <1>11 DEF Next, ClientStep, ServerStep

\* What a step does to a stream: nothing, a write, a read, or time.
LEMMA StreamSteps ==
  ASSUME Types, [Next]_vars
  PROVE  /\ \/ UNCHANGED toServer
            \/ ClientWrite
            \/ \E n \in 1..Len(toServer) : toServer' = Rest(toServer, n) /\ link = "up"
            \/ Tick
         /\ \/ UNCHANGED toClient
            \/ ServerWrite
            \/ \E n \in 1..Len(toClient) : toClient' = Rest(toClient, n) /\ link = "up"
            \/ Tick
<1>1. ASSUME NEW n, ClientHello(n) \/ ClientEstablished(n) \/ ClientRead(n)
      PROVE  /\ UNCHANGED toServer
             /\ n \in 1..Len(toClient) /\ toClient' = Rest(toClient, n) /\ link = "up"
  BY <1>1 DEF ClientHello, ClientEstablished, ClientRead, ClientTakes, Arriving
<1>2. ASSUME NEW n, ServerHello(n) \/ ServerEstablished(n) \/ ServerRead(n)
      PROVE  /\ UNCHANGED toClient
             /\ n \in 1..Len(toServer) /\ toServer' = Rest(toServer, n) /\ link = "up"
  BY <1>2 DEF ServerHello, ServerEstablished, ServerRead, ServerTakes, Arriving
<1>3. CASE ClientWrite \/ ServerWrite
  BY <1>3 DEF ClientWrite, ServerWrite
<1>4. CASE \/ ClientWriteFails \/ ClientSplit \/ ClientWaitTimeout \/ ClientEnterLoop
           \/ ClientTick \/ ClientEof \/ ClientCommand
  BY <1>4 DEF ClientWriteFails, ClientSplit, ClientWaitTimeout, ClientEnterLoop,
              ClientTick, ClientEof, ClientCommand
<1>5. CASE \/ ServerWriteFails \/ ServerSplit \/ ServerWaitTimeout
           \/ ServerSleep \/ ServerHandle \/ ServerEof \/ ServerSend
  BY <1>5 DEF ServerWriteFails, ServerSplit, ServerWaitTimeout, ServerSleep,
              ServerHandle, ServerEof, ServerSend
<1>6. CASE LinkDies \/ Tick \/ UNCHANGED vars
  BY <1>6 DEF LinkDies
<1> QED
  BY <1>1, <1>2, <1>3, <1>4, <1>5, <1>6 DEF Next, ClientStep, ServerStep

\* Streams keep the order of their messages.
LEMMA OldestFirstStep ==
  ASSUME Types, OldestFirst(toServer), OldestFirst(toClient), [Next]_vars
  PROVE  OldestFirst(toServer)' /\ OldestFirst(toClient)'
<1>0. toServer \in Stream(FromClient) /\ toClient \in Stream(FromServer)
  BY DEF Types
<1>1. OldestFirst(toServer')
  <2>1. CASE ClientWrite
    <3>1. toServer' = Sent(toServer, Head(cout)) /\ Head(cout) \in FromClient
      BY <2>1, Queue DEF ClientWrite, Types
    <3> QED
      BY <1>0, <3>1, SentFacts
  <2>2. ASSUME NEW n \in 1..Len(toServer), toServer' = Rest(toServer, n) PROVE OldestFirst(toServer')
    BY <1>0, <2>2, RestFacts
  <2>3. CASE Tick
    BY <1>0, <2>3, OlderFacts DEF Tick
  <2> QED
    BY <2>1, <2>2, <2>3, StreamSteps
<1>2. OldestFirst(toClient')
  <2>1. CASE ServerWrite
    <3>1. toClient' = Sent(toClient, Head(sout)) /\ Head(sout) \in FromServer
      BY <2>1, Queue DEF ServerWrite, Types
    <3> QED
      BY <1>0, <3>1, SentFacts
  <2>2. ASSUME NEW n \in 1..Len(toClient), toClient' = Rest(toClient, n) PROVE OldestFirst(toClient')
    BY <1>0, <2>2, RestFacts
  <2>3. CASE Tick
    BY <1>0, <2>3, OlderFacts DEF Tick
  <2> QED
    BY <2>1, <2>2, <2>3, StreamSteps
<1> QED
  BY <1>1, <1>2 DEF OldestFirst

-----------------------------------------------------------------------------
(* A dead link. *)

\* The link does not come back, and the counters of its silence start with its end.
LEMMA UnsilentStep ==
  ASSUME Types, Unsilent, [Next]_vars
  PROVE  /\ Unsilent'
         /\ link' = "up" => link = "up"
         /\ link = "up" /\ ~LinkDies => link' = "up"
<1> USE DEF Unsilent
<1>1. ASSUME NEW n, \/ ClientHello(n) \/ ClientEstablished(n) \/ ClientRead(n)
                    \/ ServerHello(n) \/ ServerEstablished(n) \/ ServerRead(n)
      PROVE  UNCHANGED <<link, silent, awake>>
  BY <1>1 DEF ClientHello, ClientEstablished, ClientRead, ClientTakes,
              ServerHello, ServerEstablished, ServerRead, ServerTakes
<1>2. CASE \/ ClientWrite \/ ClientWriteFails \/ ClientSplit \/ ClientWaitTimeout
           \/ ClientEnterLoop \/ ClientTick \/ ClientEof \/ ClientCommand
  BY <1>2 DEF ClientWrite, ClientWriteFails, ClientSplit, ClientWaitTimeout, ClientEnterLoop,
              ClientTick, ClientEof, ClientCommand
<1>3. CASE \/ ServerWrite \/ ServerWriteFails \/ ServerSplit \/ ServerWaitTimeout
           \/ ServerSleep \/ ServerHandle \/ ServerEof
  BY <1>3 DEF ServerWrite, ServerWriteFails, ServerSplit, ServerWaitTimeout, ServerSleep,
              ServerHandle, ServerEof
<1>4. CASE ServerSend \/ LinkDies \/ Tick \/ UNCHANGED vars
  BY <1>4 DEF ServerSend, LinkDies, Tick
<1> QED
  BY <1>1, <1>2, <1>3, <1>4 DEF Next, ClientStep, ServerStep

\* Nothing is read from a dead link.
LEMMA DeadLink ==
  ASSUME link = "dead", NEW n
  PROVE  /\ ~ClientHello(n) /\ ~ClientEstablished(n) /\ ~ClientRead(n)
         /\ ~ServerHello(n) /\ ~ServerEstablished(n) /\ ~ServerRead(n)
         /\ ~ClientSplit /\ ~ServerSplit /\ ~ClientEof /\ ~ServerEof /\ ~LinkDies
  BY DEF ClientHello, ClientEstablished, ClientRead, ClientTakes, Arriving, ClientSplit, ClientEof,
         ServerHello, ServerEstablished, ServerRead, ServerTakes, ServerSplit, ServerEof, LinkDies

\* Time passes only while nobody can write (Urgent).
LEMMA TickWaits ==
  ASSUME Types, Tick
  PROVE  /\ c \notin Ended /\ cout # <<>> => ClientBlocked
         /\ s \notin Ended /\ sout # <<>> => ServerBlocked
         /\ cout = <<>> => c # "replay" /\ (c \in {"wait_keepalive", "loop"} => ctimer > 0)
         /\ s = "loop" /\ sout = <<>> => sbuf = <<>>
         /\ s \in {"wait_keepalive", "loop"} /\ ServerReads => stimer > 0
         /\ ClientReads => ~Due(toClient)
         /\ ServerReads => ~Due(toServer)
<1>1. Len(toServer) \in Nat /\ Len(toClient) \in Nat
  BY StreamFacts DEF Types
<1>2. Len(toServer) <= Cap /\ Len(toClient) <= Cap /\ Cap \in Nat /\ ctimer \in Int /\ stimer \in Nat
  BY ConnectionAssumption DEF Types, ConnectionTypeOK
<1>3. /\ Len(toServer) < Cap \/ Len(toServer) = Cap
      /\ Len(toClient) < Cap \/ Len(toClient) = Cap
  BY <1>1, <1>2
<1>4. /\ ~(ctimer <= 0) => ctimer > 0
      /\ ~(stimer = 0) => stimer > 0
  BY <1>2
<1> QED
  BY <1>3, <1>4 DEF Tick, Urgent, ClientBlocked, ServerBlocked

\* What has no room on a dead link never gets on.
LEMMA BlockedForGood ==
  ASSUME Types, link = "dead", [Next]_vars
  PROVE  /\ ClientBlocked => ClientBlocked' \/ c' \in Ended
         /\ ServerBlocked => ServerBlocked' \/ s' \in Ended
<1>1. CASE \/ ClientWrite \/ ClientWriteFails \/ ClientWaitTimeout
           \/ ClientEnterLoop \/ ClientTick \/ ClientCommand
  BY <1>1 DEF ClientWrite, ClientWriteFails, ClientWaitTimeout, ClientEnterLoop,
              ClientTick, ClientCommand, ClientBlocked, ServerBlocked
<1>2. CASE \/ ServerWrite \/ ServerWriteFails \/ ServerWaitTimeout
           \/ ServerSleep \/ ServerHandle \/ ServerSend
  BY <1>2 DEF ServerWrite, ServerWriteFails, ServerWaitTimeout, ServerSleep,
              ServerHandle, ServerSend, ServerReads, ClientBlocked, ServerBlocked
<1>3. CASE Tick
  BY <1>3, OlderFacts DEF Tick, Types, ClientBlocked, ServerBlocked
<1>4. CASE UNCHANGED vars
  BY <1>4 DEF ClientBlocked, ServerBlocked
<1> QED
  BY <1>1, <1>2, <1>3, <1>4, DeadLink DEF Next, ClientStep, ServerStep

\* The client of a dead link does not lose count.
LEMMA ClientNoticesStep ==
  ASSUME Types, TimersBounded, Unsilent, ClientNotices, [Next]_vars
  PROVE  ClientNotices'
<1>0. /\ cneg \in Nat /\ Timeout(cneg) \in Nat /\ Ticks(cneg) \in Nat /\ Timeout(cneg) >= Ticks(cneg)
      /\ ctimer \in Int /\ csince \in Nat /\ silent \in Nat
      /\ link \in {"up", "dead"} /\ Horizon \in Nat
  BY ConnectionAssumption DEF Types, ConnectionTypeOK, Timeout, Ticks, Horizon
<1>1. CASE LinkDies
  <2>1. silent' = 0 /\ UNCHANGED <<c, cneg, ctimer, csince>>
    BY <1>1 DEF LinkDies, Unsilent
  <2> QED
    BY <1>0, <2>1 DEF ClientNotices, TimersBounded
<1>2. CASE link = "up" /\ ~LinkDies
  <2>1. link' = "up"
    BY <1>2, UnsilentStep
  <2> QED
    BY <2>1 DEF ClientNotices
<1>3. CASE link = "dead" /\ ClientBlocked
  BY <1>3, BlockedForGood DEF ClientNotices
<1>4. CASE link = "dead" /\ ~ClientBlocked
  <2>1. CASE ClientWrite \/ ClientCommand
    <3>1. UNCHANGED <<link, c, cneg, ctimer, csince, silent>>
      BY <2>1 DEF ClientWrite, ClientCommand
    <3> QED
      BY <1>4, <3>1 DEF ClientNotices
  <2>2. CASE ClientWriteFails \/ ClientWaitTimeout
    BY <2>2 DEF ClientWriteFails, ClientWaitTimeout, ClientNotices
  <2>3. CASE ClientEnterLoop
    <3>1. /\ c = "replay" /\ c' \in {"loop", "panicked"} /\ csince' = 0
          /\ UNCHANGED <<cneg, silent>>
      BY <2>3 DEF ClientEnterLoop
    <3> QED
      BY <1>0, <1>4, <3>1 DEF ClientNotices
  <2>4. CASE ClientTick
    <3>1. /\ c = "loop" /\ UNCHANGED <<cneg, csince, silent>>
          /\ c' = "loop" => csince <= Timeout(cneg)
          /\ c' \in {"loop", "timeout"}
      BY <1>0, <2>4 DEF ClientTick
    <3> QED
      BY <1>0, <1>4, <3>1 DEF ClientNotices
  <2>5. CASE \/ ServerWrite \/ ServerWriteFails \/ ServerWaitTimeout
             \/ ServerSleep \/ ServerHandle \/ ServerSend \/ UNCHANGED vars
    <3>1. UNCHANGED <<link, c, cneg, ctimer, csince, silent, cout, toServer>>
      BY <2>5 DEF ServerWrite, ServerWriteFails, ServerWaitTimeout, ServerSleep, ServerHandle, ServerSend
    <3> QED
      BY <1>4, <3>1 DEF ClientNotices
  <2>6. CASE Tick
    <3>1. UNCHANGED <<c, cneg>> /\ silent' <= silent + 1 /\ silent' \in Nat
      BY <1>0, <2>6 DEF Tick, UpTo
    <3>2. CASE c = "wait_keepalive"
      <4>1. ctimer > 0 /\ ctimer' = ctimer - 1
        BY <1>0, <1>4, <2>6, <3>2, TickWaits DEF Tick, Down
      <4> QED
        BY <1>0, <1>4, <3>1, <3>2, <4>1 DEF ClientNotices
    <3>3. CASE c = "loop"
      <4>1. ctimer > 0 /\ ctimer' = ctimer - 1
        BY <1>0, <1>4, <2>6, <3>3, TickWaits DEF Tick, Down
      <4>2. csince' = IF csince < Timeout(cneg) + 1 THEN csince + 1 ELSE csince
        BY <2>6, <3>3 DEF Tick, UpTo
      <4>3. ctimer <= Ticks(cneg)
        BY <3>3 DEF TimersBounded
      <4> QED
        BY <1>0, <1>4, <3>1, <3>3, <4>1, <4>2, <4>3 DEF ClientNotices
    <3>4. c # "replay"
      BY <1>4, <2>6, TickWaits
    <3> QED
      BY <3>1, <3>2, <3>3, <3>4 DEF ClientNotices
  <2> QED
    BY <1>4, <2>1, <2>2, <2>3, <2>4, <2>5, <2>6, DeadLink DEF Next, ClientStep, ServerStep
<1> QED
  BY <1>0, <1>1, <1>2, <1>3, <1>4

\* One more turn of the loop is one more timeout.
LEMMA OneMoreTurn ==
  ASSUME NEW k \in Nat, NEW t \in Nat
  PROVE  /\ (2 + k) * t \in Nat
         /\ (2 + (k + 1)) * t = (2 + k) * t + t
         /\ (2 + k) * t >= t + t
<1>1. k * t \in Nat
  OBVIOUS
<1> QED
  BY <1>1

\* The server of a dead link does not lose count.
LEMMA ServerNoticesStep ==
  ASSUME Types, TimersBounded, Turns, Unsilent, ServerNotices, [Next]_vars
  PROVE  ServerNotices'
<1> DEFINE t == Timeout(sneg)
           P(k) == (2 + k) * t
<1>0. /\ sneg \in Nat /\ t \in Nat /\ stimer \in Nat /\ ssince \in Nat /\ silent \in Nat /\ awake \in Nat
      /\ link \in {"up", "dead"} /\ Horizon \in Nat
  BY ConnectionAssumption DEF Types, ConnectionTypeOK, Timeout, Horizon
<1>5. P(awake) \in Nat /\ P(awake + 1) = P(awake) + t /\ P(awake) >= t + t
  BY <1>0, OneMoreTurn
<1>6. /\ ServerNotices <=> (link = "dead" /\ ~ServerBlocked =>
           /\ s = "wait_keepalive" => silent + stimer <= t
           /\ s = "loop" => silent + stimer <= P(awake)
           /\ s = "loop" /\ ssince <= t => silent <= ssince)
      /\ sneg' = sneg => (ServerNotices' <=> (link' = "dead" /\ ~ServerBlocked' =>
           /\ s' = "wait_keepalive" => silent' + stimer' <= t
           /\ s' = "loop" => silent' + stimer' <= P(awake')
           /\ s' = "loop" /\ ssince' <= t => silent' <= ssince'))
  BY DEF ServerNotices, Timeout
<1>7. s \in {"wait_keepalive", "loop"} => stimer <= t
  BY DEF TimersBounded
<1> HIDE DEF P, t
<1>1. CASE LinkDies
  <2>1. silent' = 0 /\ UNCHANGED <<s, sneg, stimer, ssince, awake>>
    BY <1>1 DEF LinkDies, Unsilent
  <2> QED
    BY <1>0, <1>5, <1>6, <1>7, <2>1
<1>2. CASE link = "up" /\ ~LinkDies
  <2>1. link' = "up"
    BY <1>2, UnsilentStep
  <2> QED
    BY <2>1 DEF ServerNotices
<1>3. CASE link = "dead" /\ ServerBlocked
  BY <1>3, BlockedForGood DEF ServerNotices
<1>4. CASE link = "dead" /\ ~ServerBlocked
  <2>1. CASE ServerWrite \/ ServerHandle
    <3>1. UNCHANGED <<link, s, sneg, stimer, ssince, silent, awake>>
      BY <2>1 DEF ServerWrite, ServerHandle
    <3> QED
      BY <1>4, <1>6, <3>1
  <2>2. CASE ServerWriteFails \/ ServerWaitTimeout
    BY <2>2 DEF ServerWriteFails, ServerWaitTimeout, ServerNotices
  <2>3. CASE ServerSleep
    <3>1. /\ s = "loop" /\ UNCHANGED <<sneg, ssince, silent, awake>>
          /\ \/ s' = "timeout"
             \/ s' = "loop" /\ ssince <= t /\ stimer' = t
      BY <2>3 DEF ServerSleep, t
    <3> QED
      BY <1>0, <1>4, <1>5, <1>6, <3>1
  <2>4. CASE ServerSend
    <3>1. /\ s = "loop" /\ s' = "loop" /\ UNCHANGED <<sneg, ssince, silent>>
          /\ stimer' = t /\ awake' = awake + 1
      BY <1>4, <2>4 DEF ServerSend, t
    <3>2. silent <= P(awake)
      BY <1>0, <1>4, <1>5, <1>6, <3>1
    <3> QED
      BY <1>0, <1>4, <1>5, <1>6, <3>1, <3>2
  <2>5. CASE \/ ClientWrite \/ ClientWriteFails \/ ClientWaitTimeout
             \/ ClientEnterLoop \/ ClientTick \/ ClientCommand \/ UNCHANGED vars
    <3>1. UNCHANGED <<link, s, sneg, stimer, ssince, silent, awake, sout, toClient>>
      BY <2>5 DEF ClientWrite, ClientWriteFails, ClientWaitTimeout, ClientEnterLoop, ClientTick, ClientCommand
    <3> QED
      BY <1>4, <1>6, <3>1
  <2>6. CASE Tick
    <3>1. UNCHANGED <<s, sneg, awake>> /\ (silent' = silent + 1 \/ silent' = silent)
      BY <1>0, <2>6 DEF Tick, UpTo
    <3>2. CASE s \in {"wait_keepalive", "loop"}
      <4>1. sout = <<>> /\ sbuf = <<>>
        BY <1>4, <2>6, <3>2, TickWaits DEF Turns
      <4>2. ServerReads
        BY <3>2, <4>1 DEF ServerReads
      <4>3. stimer > 0 /\ stimer' = stimer - 1
        BY <1>0, <2>6, <3>2, <4>2, TickWaits DEF Tick, Down
      <4>4. s = "loop" => ssince' = IF ssince < t + 1 THEN ssince + 1 ELSE ssince
        BY <2>6 DEF Tick, UpTo, t
      <4>5. CASE s = "wait_keepalive"
        <5>1. silent + stimer <= t
          BY <1>4, <1>6, <4>5
        <5>2. silent' + stimer' <= t
          <6>1. CASE silent' = silent + 1
            BY <1>0, <4>3, <5>1, <6>1
          <6>2. CASE silent' = silent
            BY <1>0, <4>3, <5>1, <6>2
          <6> QED
            BY <3>1, <6>1, <6>2
        <5> QED
          BY <1>6, <3>1, <4>5, <5>2
      <4>6. CASE s = "loop"
        <5>1. silent' + stimer' <= P(awake')
          BY <1>0, <1>4, <1>5, <1>6, <3>1, <4>3, <4>6
        <5>2. ssince' <= t => silent' <= ssince'
          BY <1>0, <1>4, <1>6, <3>1, <4>4, <4>6
        <5> QED
          BY <1>6, <3>1, <4>6, <5>1, <5>2
      <4> QED
        BY <3>2, <4>5, <4>6
    <3> QED
      BY <3>1, <3>2 DEF ServerNotices
  <2> QED
    BY <1>4, <2>1, <2>2, <2>3, <2>4, <2>5, <2>6, DeadLink DEF Next, ClientStep, ServerStep
<1> QED
  BY <1>0, <1>1, <1>2, <1>3, <1>4

-----------------------------------------------------------------------------
(* A working link. *)

\* The numbers that the races are about.
LEMMA Numbers ==
  ASSUME Types
  PROVE  /\ cneg \in Nat /\ Timeout(cneg) \in Nat /\ Ticks(cneg) \in Nat /\ Longest(cneg) \in Nat
         /\ sneg \in Nat /\ Timeout(sneg) \in Nat /\ Ticks(sneg) \in Nat /\ Longest(sneg) \in Nat
         /\ Longest(cneg) = Ticks(cneg) + 2 * Delay /\ Longest(sneg) = Ticks(sneg) + 2 * Delay
         /\ ctimer \in Int /\ csince \in Nat /\ stimer \in Nat /\ ssince \in Nat
         /\ Delay \in Nat /\ Cap \in Nat /\ Cap > 0
         /\ Age(toServer) \in 0..Delay /\ Age(toClient) \in 0..Delay
         /\ Len(toServer) \in Nat /\ Len(toClient) \in Nat /\ Len(cout) \in Nat /\ Len(sout) \in Nat
<1>1. Age(toServer) \in 0..Delay /\ Len(toServer) \in Nat
  BY StreamFacts DEF Types
<1>2. Age(toClient) \in 0..Delay /\ Len(toClient) \in Nat
  BY StreamFacts DEF Types
<1>3. Len(cout) \in Nat /\ Len(sout) \in Nat
  BY Queue DEF Types
<1>4. /\ cneg \in Nat /\ Timeout(cneg) \in Nat /\ Ticks(cneg) \in Nat /\ Longest(cneg) \in Nat
      /\ sneg \in Nat /\ Timeout(sneg) \in Nat /\ Ticks(sneg) \in Nat /\ Longest(sneg) \in Nat
      /\ Longest(cneg) = Ticks(cneg) + 2 * Delay /\ Longest(sneg) = Ticks(sneg) + 2 * Delay
      /\ Delay \in Nat /\ Cap \in Nat /\ Cap > 0
  BY ConnectionAssumption DEF Types, ConnectionTypeOK, Timeout, Ticks, Longest
<1> QED
  BY <1>1, <1>2, <1>3, <1>4 DEF Types

\* The longest wait is shorter than the timeout.
LEMMA WaitsAreShorter ==
  ASSUME Types
  PROVE  /\ cneg = Agreed /\ cneg > 0 => Longest(cneg) < Timeout(cneg)
         /\ sneg = Agreed /\ sneg > 0 => Longest(sneg) < Timeout(sneg)
<1>1. offer \in ServerInterval /\ Delay \in Nat
  BY ConnectionAssumption DEF Types, ConnectionTypeOK
<1>2. Agreed \in Nat /\ (Agreed > 0 => 2 * Delay < 3 * Agreed)
  BY <1>1, NegotiatedFacts, ConnectionAssumption
<1> QED
  BY <1>1, <1>2 DEF Longest, Timeout, Ticks

\* What time does to the ages, when the head of a stream is not yet due.
LEMMA TickAges ==
  ASSUME Types, Tick
  PROVE  /\ Age(toServer') = Age(toServer) \/ Age(toServer') = Age(toServer) + 1
         /\ Age(toClient') = Age(toClient) \/ Age(toClient') = Age(toClient) + 1
         /\ link = "up" /\ ServerReads /\ toServer # <<>> =>
              Age(toServer') = Age(toServer) + 1 /\ Age(toServer) < Delay
         /\ link = "up" /\ ClientReads /\ toClient # <<>> =>
              Age(toClient') = Age(toClient) + 1 /\ Age(toClient) < Delay
         /\ toServer' = <<>> <=> toServer = <<>>
         /\ toClient' = <<>> <=> toClient = <<>>
<1>1. /\ Age(toServer) \in 0..Delay /\ Age(toClient) \in 0..Delay /\ Delay \in Nat
      /\ toServer # <<>> => Age(toServer) = Head(toServer).age
      /\ toClient # <<>> => Age(toClient) = Head(toClient).age
  BY Numbers, StreamFacts DEF Types
<1>2. /\ link = "up" /\ ServerReads /\ toServer # <<>> => Age(toServer) < Delay
      /\ link = "up" /\ ClientReads /\ toClient # <<>> => Age(toClient) < Delay
  BY <1>1, TickWaits DEF Due, Arriving
<1>3. /\ toServer \in Stream(FromClient) /\ toServer' = Older(toServer)
      /\ toClient \in Stream(FromServer) /\ toClient' = Older(toClient)
  BY DEF Types, Tick
<1> QED
  BY <1>2, <1>3, OlderFacts

\* Time passes in the handshake: the one message is on its way.
LEMMA TurnsTick ==
  ASSUME Types, Turns, Tick, link = "up", s \notin Ended
  PROVE  /\ c = "wait_keepalive" /\ s = "wait_keepalive" =>
              Age(toServer') = Age(toServer) + 1
         /\ c = "wait_keepalive" /\ s = "loop" =>
              Age(toClient') = Age(toClient) + 1
         /\ c = "wait_hello" /\ s = "wait_keepalive" =>
              Age(toClient') = Age(toClient) + 1
<1>1. /\ cout # <<>> /\ c \notin Ended => Len(toServer) > 0
      /\ sout # <<>> => Len(toClient) > 0
  BY TickWaits, Numbers DEF ClientBlocked, ServerBlocked
<1>2. /\ toServer = <<>> <=> Len(toServer) = 0
      /\ toClient = <<>> <=> Len(toClient) = 0
      /\ cout = <<>> <=> Len(cout) = 0
      /\ sout = <<>> <=> Len(sout) = 0
  BY Queue, StreamFacts DEF Types
<1>3. ASSUME c = "wait_keepalive", s = "wait_keepalive" PROVE Age(toServer') = Age(toServer) + 1
  <2>2. Len(cout) + Len(toServer) = 1 /\ sout = <<>> /\ sbuf = <<>>
    BY <1>3 DEF Turns
  <2>3. Len(toServer) > 0
    BY <1>1, <1>2, <1>3, <2>2, Numbers
  <2>1. toServer # <<>> /\ ServerReads
    BY <1>2, <1>3, <2>2, <2>3 DEF ServerReads
  <2> QED
    BY <2>1, TickAges
<1>4. ASSUME c = "wait_keepalive", s = "loop" PROVE Age(toClient') = Age(toClient) + 1
  <2>2. Len(sout) + Len(toClient) = 1 /\ cout = <<>>
    BY <1>4 DEF Turns
  <2>3. Len(toClient) > 0
    BY <1>1, <1>2, <1>4, <2>2, Numbers
  <2>1. toClient # <<>> /\ ClientReads
    BY <1>2, <1>4, <2>2, <2>3 DEF ClientReads
  <2> QED
    BY <2>1, TickAges
<1>5. ASSUME c = "wait_hello", s = "wait_keepalive" PROVE Age(toClient') = Age(toClient) + 1
  <2>2. Len(sout) + Len(toClient) = 1 /\ cout = <<>>
    BY <1>5 DEF Turns
  <2>3. Len(toClient) > 0
    BY <1>1, <1>2, <1>5, <2>2, Numbers
  <2>1. toClient # <<>> /\ ClientReads
    BY <1>2, <1>5, <2>2, <2>3 DEF ClientReads
  <2> QED
    BY <2>1, TickAges
<1> QED
  BY <1>3, <1>4, <1>5

\* A wait of the handshake takes no longer than its messages.
LEMMA HandshakeStep ==
  ASSUME Types, Turns, TimersBounded, Unsilent, HandshakeInTime, [Next]_vars
  PROVE  HandshakeInTime'
<1>0. link' = "up" => link = "up"
  BY UnsilentStep
<1>1. /\ Timeout(cneg) \in Nat /\ Timeout(sneg) \in Nat /\ ctimer \in Int /\ stimer \in Nat
      /\ Delay \in Nat /\ Age(toServer) \in 0..Delay /\ Age(toClient) \in 0..Delay
  BY Numbers
<1>9. Age(<<>>) = 0
  BY DEF Age
<1>2. ASSUME NEW n, ClientHello(n) PROVE HandshakeInTime'
  <2>1. CASE s \in Ended \/ c' = "ended"
    <3>1. UNCHANGED s
      BY <1>2 DEF ClientHello, ClientTakes
    <3>2. s \in Ended => s' \notin {"wait_keepalive", "loop"}
      BY <3>1
    <3> QED
      BY <2>1, <3>2 DEF HandshakeInTime
  <2>2. CASE s \notin Ended /\ c' # "ended"
    <3>1. /\ s = "wait_keepalive" /\ toServer = <<>> /\ c = "wait_hello"
          /\ c' = "wait_keepalive" /\ ctimer' = Timeout(cneg')
          /\ UNCHANGED <<link, s, sneg, stimer, toServer>>
      BY <1>2, <2>2, ClientTurn DEF ClientHello, ClientTakes
    <3>2. cneg' \in Nat
      BY TypesStep DEF Types, ConnectionTypeOK
    <3>3. Timeout(cneg') - ctimer' = 0
      <4>1. \A x \in Nat : Timeout(x) - Timeout(x) = 0
        BY DEF Timeout
      <4> QED
        BY <3>1, <3>2, <4>1
    <3>4. link = "up" => Timeout(sneg) - stimer <= Delay
      BY <1>1, <3>1 DEF HandshakeInTime
    <3> QED
      BY <1>1, <1>9, <3>1, <3>3, <3>4 DEF HandshakeInTime, Timeout
  <2> QED
    BY <2>1, <2>2
<1>3. ASSUME NEW n, ServerHello(n) PROVE HandshakeInTime'
  <2>1. CASE c \in Ended \/ s' = "ended"
    <3>1. UNCHANGED c
      BY <1>3 DEF ServerHello, ServerTakes
    <3> QED
      BY <2>1, <3>1 DEF HandshakeInTime
  <2>2. CASE c \notin Ended /\ s' # "ended"
    <3>1. /\ c = "wait_hello" /\ toClient = <<>> /\ s' = "wait_keepalive" /\ stimer' = Timeout(sneg')
          /\ UNCHANGED <<c, toClient>>
      BY <1>3, <2>2, ServerTurn DEF ServerHello, ServerTakes
    <3>2. sneg' \in Nat
      BY TypesStep DEF Types, ConnectionTypeOK
    <3>3. Timeout(sneg') - stimer' = 0
      <4>1. \A x \in Nat : Timeout(x) - Timeout(x) = 0
        BY DEF Timeout
      <4> QED
        BY <3>1, <3>2, <4>1
    <3> QED
      BY <1>9, <3>1, <3>3 DEF HandshakeInTime, Timeout
  <2> QED
    BY <2>1, <2>2
<1>4. ASSUME NEW n, ServerEstablished(n) PROVE HandshakeInTime'
  <2>1. CASE c \in Ended \/ s' = "ended"
    <3>1. UNCHANGED c
      BY <1>4 DEF ServerEstablished, ServerTakes
    <3> QED
      BY <2>1, <3>1 DEF HandshakeInTime
  <2>2. CASE c \notin Ended /\ s' # "ended"
    <3>1. /\ c = "wait_keepalive" /\ s = "wait_keepalive" /\ toClient = <<>> /\ s' = "loop"
          /\ UNCHANGED <<link, c, cneg, ctimer, toClient>>
      BY <1>4, <2>2, ServerTurn DEF ServerEstablished, ServerTakes
    <3>2. link = "up" => Timeout(cneg) - ctimer <= Delay
      BY <1>1, <3>1 DEF HandshakeInTime
    <3> QED
      BY <1>1, <1>9, <3>1, <3>2 DEF HandshakeInTime, Timeout
  <2> QED
    BY <2>1, <2>2
<1>5. CASE ClientWrite \/ ServerWrite
  <2>1. /\ Age(toServer') = Age(toServer) /\ Age(toClient') = Age(toClient)
        /\ UNCHANGED <<link, c, cneg, ctimer, s, sneg, stimer>>
    <3>1. CASE ClientWrite
      BY <3>1, Queue, SentFacts DEF ClientWrite, Types
    <3>2. CASE ServerWrite
      BY <3>2, Queue, SentFacts DEF ServerWrite, Types
    <3> QED
      BY <1>5, <3>1, <3>2
  <2> QED
    BY <2>1 DEF HandshakeInTime
<1>6. CASE \/ ClientWriteFails \/ ClientSplit \/ ClientWaitTimeout \/ ClientEnterLoop
           \/ ClientTick \/ ClientEof \/ ClientCommand
           \/ ServerWriteFails \/ ServerSplit \/ ServerWaitTimeout \/ ServerEof
           \/ (\E n \in 1..Cap : ClientEstablished(n) \/ ClientRead(n))
  <2>1. \/ c' \notin {"wait_hello", "wait_keepalive"}
        \/ s' \notin {"wait_keepalive", "loop"}
    BY <1>6 DEF ClientWriteFails, ClientSplit, ClientWaitTimeout, ClientEnterLoop, ClientTick,
                ClientEof, ClientCommand, ClientEstablished, ClientRead, ClientTakes,
                ServerWriteFails, ServerSplit, ServerWaitTimeout, ServerEof
  <2> QED
    BY <2>1 DEF HandshakeInTime
<1>7. CASE \/ (\E n \in 1..Cap : ServerRead(n)) \/ ServerSleep \/ ServerHandle \/ ServerSend
           \/ LinkDies \/ UNCHANGED vars
  <2>1. CASE LinkDies
    BY <2>1 DEF LinkDies, HandshakeInTime
  <2>2. CASE UNCHANGED vars
    BY <2>2 DEF HandshakeInTime
  <2>3. CASE (\E n \in 1..Cap : ServerRead(n)) \/ ServerSleep \/ ServerHandle \/ ServerSend
    <3>1. /\ s = "loop" /\ s' \in {"loop", "timeout"}
          /\ UNCHANGED <<link, c, cneg, ctimer, toClient>>
      BY <2>3 DEF ServerRead, ServerTakes, ServerSleep, ServerHandle, ServerSend
    <3> QED
      BY <3>1 DEF HandshakeInTime
  <2> QED
    BY <1>7, <2>1, <2>2, <2>3
<1>8. CASE Tick /\ link = "up" /\ s \notin Ended
  <2>1. /\ UNCHANGED <<link, c, cneg, s, sneg>>
        /\ ctimer' = ctimer - 1 \/ ctimer' = ctimer \/ c \notin {"wait_keepalive"}
        /\ stimer' = stimer - 1 \/ stimer' = stimer
    BY <1>8 DEF Tick, Down
  <2>2. CASE c = "wait_keepalive" /\ s = "wait_keepalive"
    <3>1. Age(toServer') = Age(toServer) + 1
      BY <1>8, <2>2, TurnsTick
    <3> QED
      BY <1>1, <1>8, <2>1, <2>2, <3>1 DEF HandshakeInTime
  <2>3. CASE c = "wait_keepalive" /\ s = "loop"
    <3>1. Age(toClient') = Age(toClient) + 1
      BY <1>8, <2>3, TurnsTick
    <3> QED
      BY <1>1, <1>8, <2>1, <2>3, <3>1 DEF HandshakeInTime
  <2>4. CASE c = "wait_hello" /\ s = "wait_keepalive"
    <3>1. Age(toClient') = Age(toClient) + 1
      BY <1>8, <2>4, TurnsTick
    <3> QED
      BY <1>1, <1>8, <2>1, <2>4, <3>1 DEF HandshakeInTime
  <2> QED
    BY <2>1, <2>2, <2>3, <2>4 DEF HandshakeInTime
<1>10. CASE Tick /\ ~(link = "up" /\ s \notin Ended)
  <2>1. UNCHANGED <<link, s>>
    BY <1>10 DEF Tick
  <2> QED
    BY <1>10, <2>1 DEF HandshakeInTime
<1> QED
  BY <1>2, <1>3, <1>4, <1>5, <1>6, <1>7, <1>8, <1>10 DEF Next, ClientStep, ServerStep

\* A sleep of the server that has just begun.
FreshSleep == s = "loop" => stimer = Timeout(sneg)

\* After a read, a KEEPALIVE of the handshake or a turn of the loop the server
\* has the longest wait before it.
LEMMA FreshServer ==
  Types /\ Turns /\ Agreement /\ TimersBounded /\ FreshSleep => ServerInTime
<1> SUFFICES ASSUME Types, Turns, Agreement, TimersBounded, FreshSleep,
                    s = "loop", c \notin Ended
             PROVE  ServerHears(Timeout(sneg) - stimer)
  BY DEF ServerInTime
<1>1. Timeout(sneg) - stimer = 0
  BY Numbers, SMTT(30) DEF FreshSleep
<1>2. c \in {"wait_keepalive", "replay", "loop"}
  BY DEF Turns, Types, ConnectionTypeOK
<1>3. c = "loop" => ctimer <= Ticks(sneg)
  BY DEF Agreement, TimersBounded
<1>5. /\ Delay \in Nat /\ Ticks(sneg) \in Nat /\ Longest(sneg) = Ticks(sneg) + 2 * Delay
      /\ ctimer \in Int /\ Age(toClient) \in 0..Delay
  BY Numbers
<1>6. /\ 0 + 2 * Delay - Age(toClient) <= Longest(sneg)
      /\ 0 + Delay <= Longest(sneg)
      /\ c = "loop" => 0 + Delay + ctimer <= Longest(sneg)
  BY <1>3, <1>5
<1>4. ServerHears(0)
  <2>1. CASE c = "wait_keepalive"
    BY <1>6, <2>1 DEF ServerHears
  <2>2. CASE c = "replay"
    BY <1>6, <2>2 DEF ServerHears
  <2>3. CASE c = "loop"
    BY <1>6, <2>3 DEF ServerHears
  <2> QED
    BY <1>2, <2>1, <2>2, <2>3
<1> QED
  BY <1>1, <1>4

\* The server hears of the client in time: the message is a tick further on with
\* every tick of the sleep, or the client's interval a tick shorter.
LEMMA ServerInTimeTick ==
  ASSUME Types, Turns, ServerInTime, Tick
  PROVE  ServerInTime'
<1> SUFFICES ASSUME link = "up", s = "loop", c \notin Ended
             PROVE  ServerHears(Timeout(sneg) - stimer)'
  BY DEF ServerInTime, Tick
<1> DEFINE W == Timeout(sneg) - stimer
           L == Longest(sneg)
<1>1. /\ UNCHANGED <<c, s, cout, sneg>> /\ Timeout(sneg)' = Timeout(sneg) /\ Longest(sneg)' = L
      /\ Delay \in Nat /\ W \in Int /\ L \in Nat /\ ctimer \in Int /\ stimer \in Nat
      /\ Timeout(sneg) \in Nat /\ Ticks(cneg) \in Nat
      /\ Age(toServer) \in 0..Delay /\ Age(toClient) \in 0..Delay
  <2>1. UNCHANGED <<c, s, cout, sneg>>
    BY DEF Tick
  <2>2. Timeout(sneg)' = Timeout(sneg) /\ Longest(sneg)' = Longest(sneg)
    BY <2>1 DEF Timeout, Longest, Ticks
  <2> QED
    BY <2>1, <2>2, Numbers, SMTT(30)
<1>2. ServerHears(W)
  BY DEF ServerInTime
<1>3. /\ Age(toServer') = Age(toServer) \/ Age(toServer') = Age(toServer) + 1
      /\ Age(toClient') = Age(toClient) \/ Age(toClient') = Age(toClient) + 1
      /\ toServer' = <<>> <=> toServer = <<>>
  BY TickAges
<1>4. c = "loop" => ctimer' = ctimer \/ ctimer' = ctimer - 1
  BY <1>1 DEF Tick, Down
<1>5. SUFFICES ASSUME NEW V \in Int, V = W' PROVE ServerHears(V)'
  <2>2. stimer' = stimer \/ stimer' = stimer - 1
    BY <1>1 DEF Tick, Down
  <2>1. W' \in Int
    BY <1>1, <2>2
  <2> QED
    BY <1>5, <2>1
<1>6. /\ toServer' # <<>> /\ V + Delay - Age(toServer') <= L => ServerHears(V)'
      /\ c = "wait_keepalive" /\ V + 2 * Delay - Age(toClient') <= L => ServerHears(V)'
      /\ (c = "replay" \/ (c = "loop" /\ cout # <<>>)) /\ V + Delay <= L => ServerHears(V)'
      /\ c = "loop" /\ V + Delay <= L /\ V + Delay + ctimer' <= L => ServerHears(V)'
  BY <1>1 DEF ServerHears
<1>7. \/ toServer # <<>> /\ W + Delay - Age(toServer) <= L
      \/ c = "wait_keepalive" /\ W + 2 * Delay - Age(toClient) <= L
      \/ (c = "replay" \/ (c = "loop" /\ cout # <<>>)) /\ W + Delay <= L
      \/ c = "loop" /\ W + Delay <= L /\ W + Delay + ctimer <= L
  BY <1>2 DEF ServerHears
<1>8. CASE ServerReads
  <2>1. stimer > 0 /\ stimer' = stimer - 1
    BY <1>1, <1>8, TickWaits DEF Tick, Down
  <2>2. V = W + 1
    BY <1>1, <1>5, <2>1
  <2> HIDE DEF W, L
  <2>3. CASE toServer # <<>>
    <3>1. c # "wait_keepalive" /\ Age(toServer') = Age(toServer) + 1
      BY <1>8, <2>3, TickAges DEF Turns
    <3>2. V + Delay - Age(toServer') <= L
      BY <1>1, <1>7, <2>2, <3>1
    <3> QED
      BY <1>3, <1>6, <2>3, <3>2
  <2>4. CASE toServer = <<>>
    <3>1. cout = <<>>
      BY <2>4, TickWaits, Numbers, StreamFacts DEF ClientBlocked, Types
    <3>2. c # "replay" /\ (c = "loop" => ctimer > 0)
      BY <3>1, TickWaits
    <3>3. c = "loop" => ctimer' = ctimer - 1
      <4>1. CASE c = "loop"
        <5>1. ctimer' = Down(ctimer, -Ticks(cneg)) /\ ctimer > -Ticks(cneg)
          BY <1>1, <3>2, <4>1 DEF Tick
        <5> QED
          BY <5>1 DEF Down
      <4> QED
        BY <4>1
    <3>4. c = "wait_keepalive" => Age(toClient') = Age(toClient) + 1
      BY TurnsTick
    <3>5. CASE c = "wait_keepalive" /\ W + 2 * Delay - Age(toClient) <= L
      <4>1. V + 2 * Delay - Age(toClient') <= L
        BY <1>1, <2>2, <3>4, <3>5
      <4> QED
        BY <1>6, <3>5, <4>1
    <3>6. CASE c = "loop" /\ W + Delay <= L /\ W + Delay + ctimer <= L
      <4>1. V + Delay <= L /\ V + Delay + ctimer' <= L
        BY <1>1, <2>2, <3>2, <3>3, <3>6
      <4> QED
        BY <1>6, <3>6, <4>1
    <3> QED
      BY <1>7, <2>4, <3>1, <3>2, <3>5, <3>6
  <2> QED
    BY <2>3, <2>4
<1>9. CASE ~ServerReads
  <2>1. stimer' = stimer
    BY <1>9 DEF Tick
  <2>2. V = W
    BY <1>1, <1>5, <2>1
  <2> HIDE DEF W, L
  <2>3. CASE toServer # <<>> /\ W + Delay - Age(toServer) <= L
    <3>1. V + Delay - Age(toServer') <= L
      BY <1>1, <1>3, <2>2, <2>3
    <3> QED
      BY <1>3, <1>6, <2>3, <3>1
  <2>4. CASE c = "wait_keepalive" /\ W + 2 * Delay - Age(toClient) <= L
    <3>1. V + 2 * Delay - Age(toClient') <= L
      BY <1>1, <1>3, <2>2, <2>4
    <3> QED
      BY <1>6, <2>4, <3>1
  <2>5. CASE (c = "replay" \/ (c = "loop" /\ cout # <<>>)) /\ W + Delay <= L
    BY <1>6, <2>2, <2>5
  <2>6. CASE c = "loop" /\ W + Delay <= L /\ W + Delay + ctimer <= L
    <3>1. V + Delay <= L /\ V + Delay + ctimer' <= L
      BY <1>1, <1>4, <2>2, <2>6
    <3> QED
      BY <1>6, <2>6, <3>1
  <2> QED
    BY <1>7, <2>3, <2>4, <2>5, <2>6
<1> QED
  BY <1>8, <1>9

\* The server hears of the client in time.
LEMMA ServerInTimeStep ==
  ASSUME Types, Turns, Agreement, TimersBounded, ServerInTime, [Next]_vars,
         Types', Turns', Agreement', TimersBounded'
  PROVE  ServerInTime'
<1> DEFINE W == Timeout(sneg) - stimer
           L == Longest(sneg)
<1>1. /\ Delay \in Nat /\ W \in Int /\ L \in Nat /\ ctimer \in Int /\ Ticks(cneg) \in Nat
      /\ Age(toServer) \in 0..Delay /\ Age(toClient) \in 0..Delay
  BY Numbers, SMTT(30)
<1>2. ASSUME UNCHANGED <<sneg, stimer>> PROVE W' = W /\ L' = L
  BY <1>2 DEF Timeout, Longest, Ticks
<1>3. ServerHears(W) <=>
        \/ toServer # <<>> /\ W + Delay - Age(toServer) <= L
        \/ c = "wait_keepalive" /\ W + 2 * Delay - Age(toClient) <= L
        \/ (c = "replay" \/ (c = "loop" /\ cout # <<>>)) /\ W + Delay <= L
        \/ c = "loop" /\ W + Delay <= L /\ W + Delay + ctimer <= L
  BY DEF ServerHears
<1>4. ASSUME UNCHANGED <<sneg, stimer>>
      PROVE  ServerHears(W)' <=>
        \/ toServer' # <<>> /\ W + Delay - Age(toServer') <= L
        \/ c' = "wait_keepalive" /\ W + 2 * Delay - Age(toClient') <= L
        \/ (c' = "replay" \/ (c' = "loop" /\ cout' # <<>>)) /\ W + Delay <= L
        \/ c' = "loop" /\ W + Delay <= L /\ W + Delay + ctimer' <= L
  BY <1>2, <1>4 DEF ServerHears
<1>5. /\ ServerInTime <=> (link = "up" /\ s = "loop" /\ c \notin Ended => ServerHears(W))
      /\ ServerInTime' <=> (link' = "up" /\ s' = "loop" /\ c' \notin Ended => ServerHears(W)')
  BY DEF ServerInTime
<1>6. ASSUME FreshSleep' PROVE ServerInTime'
  BY <1>6, FreshServer, PTL
<1> HIDE DEF W, L
<1>7. CASE c' \in Ended \/ s' # "loop" \/ link' # "up"
  BY <1>5, <1>7
<1>8. CASE (\E n \in 1..Cap : ServerEstablished(n) \/ ServerRead(n)) \/ ServerSend
  <2>1. CASE \E n \in 1..Cap : ServerEstablished(n)
    BY <1>6, <1>7, <2>1 DEF ServerEstablished, FreshSleep, Timeout
  <2>2. CASE \E n \in 1..Cap : ServerRead(n)
    BY <1>6, <2>2 DEF ServerRead, FreshSleep, Timeout
  <2>3. CASE ServerSend
    BY <1>6, <2>3 DEF ServerSend, FreshSleep, Timeout
  <2> QED
    BY <1>8, <2>1, <2>2, <2>3
<1>9. CASE ServerSleep
  BY <1>6, <1>7, <1>9 DEF ServerSleep, FreshSleep, Timeout
<1>10. CASE \/ ClientWriteFails \/ ClientSplit \/ ClientWaitTimeout \/ ClientEof
            \/ ServerWriteFails \/ ServerSplit \/ ServerWaitTimeout \/ ServerEof
            \/ (\E n \in 1..Cap : ServerHello(n)) \/ LinkDies
  <2>1. c' \in Ended \/ s' # "loop" \/ link' # "up"
    BY <1>10 DEF ClientWriteFails, ClientSplit, ClientWaitTimeout, ClientEof,
                 ServerWriteFails, ServerSplit, ServerWaitTimeout, ServerEof, ServerHello, LinkDies
  <2> QED
    BY <1>7, <2>1
<1>11. ASSUME NEW n, ClientHello(n) PROVE ServerInTime'
  <2>1. c = "wait_hello" /\ UNCHANGED s
    BY <1>11 DEF ClientHello, ClientTakes
  <2>2. s # "loop"
    BY <2>1 DEF Turns
  <2> QED
    BY <1>7, <2>1, <2>2
<1>12. ASSUME NEW n, ClientEstablished(n) PROVE ServerInTime'
  <2>1. /\ c = "wait_keepalive" /\ c' \in {"replay", "ended"} /\ UNCHANGED <<link, s, sneg, stimer>>
        /\ s \notin Ended => toServer = <<>>
    BY <1>12, ClientTurn DEF ClientEstablished, ClientTakes
  <2>2. CASE link = "up" /\ s = "loop" /\ c' = "replay"
    <3>1. W + 2 * Delay - Age(toClient) <= L
      BY <1>3, <1>5, <2>1, <2>2
    <3>2. W + Delay <= L
      BY <1>1, <3>1
    <3> QED
      BY <1>4, <1>5, <2>1, <2>2, <3>2
  <2> QED
    BY <1>7, <2>1, <2>2
<1>13. CASE \/ (\E n \in 1..Cap : ClientRead(n)) \/ ServerHandle \/ UNCHANGED vars
  <2>1. CASE \E n \in 1..Cap : ClientRead(n)
    <3>1. c = "loop" /\ UNCHANGED <<link, c, cout, ctimer, s, sneg, stimer, toServer>>
      BY <2>1 DEF ClientRead, ClientTakes
    <3> QED
      BY <1>3, <1>4, <1>5, <3>1
  <2>2. CASE ServerHandle \/ UNCHANGED vars
    <3>1. UNCHANGED <<link, c, cout, ctimer, s, sneg, stimer, toServer, toClient>>
      BY <2>2 DEF ServerHandle
    <3> QED
      BY <1>3, <1>4, <1>5, <3>1
  <2> QED
    BY <1>13, <2>1, <2>2
<1>14. CASE ClientWrite
  <2>1. /\ c \notin Ended /\ UNCHANGED <<link, c, ctimer, s, sneg, stimer, toClient>>
        /\ toServer' # <<>> /\ Age(toServer') = Age(toServer)
    BY <1>14, Queue, SentFacts DEF ClientWrite, Types
  <2>2. CASE link = "up" /\ s = "loop"
    <3>1. W + Delay - Age(toServer) <= L
      BY <1>1, <1>3, <1>5, <2>1, <2>2
    <3> QED
      BY <1>4, <1>5, <2>1, <3>1
  <2> QED
    BY <1>7, <2>1, <2>2
<1>15. CASE ServerWrite
  <2>1. /\ UNCHANGED <<link, c, cout, ctimer, s, sneg, stimer, toServer>>
        /\ Age(toClient') = Age(toClient)
    BY <1>15, Queue, SentFacts DEF ServerWrite, Types
  <2> QED
    BY <1>3, <1>4, <1>5, <2>1
<1>16. CASE ClientEnterLoop
  <2>1. /\ c = "replay" /\ c' \in {"loop", "panicked"} /\ ctimer' = 0
        /\ UNCHANGED <<link, s, sneg, stimer, toServer>>
    BY <1>16 DEF ClientEnterLoop
  <2>2. CASE link = "up" /\ s = "loop" /\ c' = "loop"
    <3>1. \/ toServer # <<>> /\ W + Delay - Age(toServer) <= L
          \/ W + Delay <= L
      BY <1>3, <1>5, <2>1, <2>2
    <3>2. CASE toServer # <<>> /\ W + Delay - Age(toServer) <= L
      BY <1>4, <1>5, <2>1, <3>2
    <3>3. CASE W + Delay <= L
      <4>1. W + Delay + ctimer' <= L
        BY <1>1, <2>1, <3>3
      <4> QED
        BY <1>4, <1>5, <2>1, <2>2, <3>3, <4>1
    <3> QED
      BY <3>1, <3>2, <3>3
  <2> QED
    BY <1>7, <2>1, <2>2
<1>17. CASE ClientTick \/ ClientCommand
  <2>1. /\ c = "loop" /\ c' \in {"loop", "timeout"} /\ (c' = "loop" => cout' # <<>>)
        /\ UNCHANGED <<link, s, sneg, stimer, toServer>>
    BY <1>17 DEF ClientTick, ClientCommand
  <2>2. CASE link = "up" /\ s = "loop" /\ c' = "loop"
    <3>1. \/ toServer # <<>> /\ W + Delay - Age(toServer) <= L
          \/ W + Delay <= L
      BY <1>3, <1>5, <2>1, <2>2
    <3> QED
      BY <1>4, <1>5, <2>1, <2>2, <3>1
  <2> QED
    BY <1>7, <2>1, <2>2
<1>18. CASE Tick
  BY <1>18, ServerInTimeTick
<1> QED
  BY <1>8, <1>9, <1>10, <1>11, <1>12, <1>13, <1>14, <1>15, <1>16, <1>17, <1>18
  DEF Next, ClientStep, ServerStep

\* A read of the client that has just been.
FreshRead == c = "loop" => csince = 0

\* After a read the client has an interval and a round trip before it.
LEMMA FreshClient ==
  Types /\ TimersBounded /\ FreshRead => ClientInTime
<1> SUFFICES ASSUME Types, TimersBounded, FreshRead, c = "loop"
             PROVE  ClientHears
  BY DEF ClientInTime
<1>1. /\ csince = 0 /\ ctimer <= Ticks(cneg) /\ ctimer \in Int /\ Delay \in Nat
      /\ Ticks(cneg) \in Nat /\ Longest(cneg) = Ticks(cneg) + 2 * Delay
  BY Numbers DEF FreshRead, TimersBounded
<1>2. csince + 2 * Delay <= Longest(cneg) /\ csince + 2 * Delay + ctimer <= Longest(cneg)
  BY <1>1
<1> QED
  BY <1>2 DEF ClientHears

\* Whatever the client hears of is with it Delay ticks after it was written.
LEMMA HearsSoon ==
  ASSUME Types, ClientHears
  PROVE  csince + Delay - Age(toClient) <= Longest(cneg)
<1>1. /\ csince \in Nat /\ Delay \in Nat /\ Longest(cneg) \in Nat /\ Age(toClient) \in 0..Delay
  BY Numbers
<1>2. ASSUME NEW i \in 1..Len(toServer), csince + 2 * Delay - toServer[i].age <= Longest(cneg)
      PROVE  csince + Delay <= Longest(cneg)
  <2>1. toServer[i].age \in 0..Delay
    BY StreamFacts DEF Types
  <2> QED
    BY <1>1, <1>2, <2>1
<1>3. csince + Delay - Age(toClient) <= Longest(cneg) \/ csince + Delay <= Longest(cneg)
  BY <1>1, <1>2 DEF ClientHears
<1> QED
  BY <1>1, <1>3

\* The client hears of the server in time: with every tick what it waits for is a
\* tick nearer.
LEMMA ClientInTimeTick ==
  ASSUME Types, Turns, OldestFirst(toServer), ClientInTime, Tick
  PROVE  ClientInTime'
<1> SUFFICES ASSUME link = "up", c = "loop", s = "loop", ~held'
             PROVE  ClientHears'
  BY DEF ClientInTime, Tick
<1> DEFINE L == Longest(cneg)
<1>1. UNCHANGED <<c, s, cout, sout, sbuf, cneg, link>> /\ ~held /\ ~ClientBlocked
  BY DEF Tick
<1>2. /\ Longest(cneg)' = L
      /\ Delay \in Nat /\ L \in Nat /\ ctimer \in Int /\ csince \in Nat /\ Ticks(cneg) \in Nat
      /\ Age(toServer) \in 0..Delay /\ Age(toClient) \in 0..Delay
  BY <1>1, Numbers DEF Longest, Ticks
<1>3. ClientHears
  BY <1>1 DEF ClientInTime
<1>4. csince + Delay - Age(toClient) <= L
  BY <1>3, HearsSoon
<1>5. cout = <<>> /\ ClientReads
  BY <1>1, TickWaits DEF ClientReads
<1>6. csince' = csince + 1 \/ csince' = csince
  BY DEF Tick, UpTo
<1>7. CASE toClient # <<>>
  <2>1. Age(toClient') = Age(toClient) + 1 /\ toClient' # <<>>
    BY <1>5, <1>7, TickAges
  <2> HIDE DEF L
  <2>2. csince' + Delay - Age(toClient') <= L
    BY <1>2, <1>4, <1>6, <2>1
  <2> QED
    BY <1>2, <2>1, <2>2 DEF ClientHears
<1>8. CASE toClient = <<>>
  <2>1. sout = <<>> /\ sbuf = <<>>
    <3>1. Len(toClient) # Cap
      BY <1>8, Numbers, StreamFacts DEF Types
    <3> QED
      BY <3>1, TickWaits DEF ServerBlocked
  <2>2. Len(sbuf) = 0
    BY <2>1, Queue DEF Types
  <2>3. \/ \E i \in 1..Len(toServer) :
             toServer[i].msg = Keepalive /\ csince + 2 * Delay - toServer[i].age <= L
        \/ csince + 2 * Delay <= L /\ csince + 2 * Delay + ctimer <= L
    BY <1>3, <1>5, <1>8, <2>1, <2>2 DEF ClientHears
  <2>4. CASE \E i \in 1..Len(toServer) :
               toServer[i].msg = Keepalive /\ csince + 2 * Delay - toServer[i].age <= L
    <3>1. PICK i \in 1..Len(toServer) :
               toServer[i].msg = Keepalive /\ csince + 2 * Delay - toServer[i].age <= L
      BY <2>4
    <3>2. ServerReads
      BY <2>1 DEF ServerReads
    <3>3. toServer # <<>> /\ 1 \in 1..Len(toServer)
      <4>1. Len(toServer) \in Nat /\ (toServer = <<>> <=> Len(toServer) = 0)
        BY StreamFacts DEF Types
      <4>2. Len(toServer) > 0
        BY <3>1, <4>1
      <4> QED
        BY <4>1, <4>2
    <3>4. Age(toServer) < Delay /\ Age(toServer) = toServer[1].age
      BY <3>2, <3>3, TickAges, StreamFacts DEF Types
    <3>5. toServer[i].age <= toServer[1].age /\ toServer[i].age \in 0..Delay
      BY <3>1, <3>3, StreamFacts DEF OldestFirst, Types
    <3>6. toServer[i].age < Delay
      BY <1>2, <3>4, <3>5
    <3>7. /\ Len(toServer') = Len(toServer) /\ toServer'[i].msg = Keepalive
          /\ toServer'[i].age = toServer[i].age + 1
      BY <3>1, <3>6, OlderFacts DEF Types, Tick
    <3> HIDE DEF L
    <3>8. csince' + 2 * Delay - toServer'[i].age <= L
      BY <1>2, <1>6, <3>1, <3>5, <3>7, SMTT(30)
    <3>9. \E k \in 1..Len(toServer') :
            toServer'[k].msg = Keepalive /\ csince' + 2 * Delay - toServer'[k].age <= L
      BY <3>1, <3>7, <3>8
    <3> QED
      BY <1>2, <3>9 DEF ClientHears
  <2>5. CASE csince + 2 * Delay <= L /\ csince + 2 * Delay + ctimer <= L
    <3>1. ctimer > 0
      BY <1>5, TickWaits
    <3>2. ctimer' = ctimer - 1
      <4>1. ctimer' = Down(ctimer, -Ticks(cneg)) /\ ctimer > -Ticks(cneg)
        BY <1>2, <3>1 DEF Tick
      <4> QED
        BY <4>1 DEF Down
    <3> HIDE DEF L
    <3>3. csince' + 2 * Delay <= L /\ csince' + 2 * Delay + ctimer' <= L
      BY <1>2, <1>6, <2>5, <3>1, <3>2
    <3> QED
      BY <1>2, <3>3 DEF ClientHears
  <2> QED
    BY <2>3, <2>4, <2>5
<1> QED
  BY <1>7, <1>8

\* The client hears of the server in time.
LEMMA ClientInTimeStep ==
  ASSUME Types, Turns, TimersBounded, OldestFirst(toServer), ClientInTime, [Next]_vars,
         Types', TimersBounded'
  PROVE  ClientInTime'
<1> DEFINE L == Longest(cneg)
           OnTheWay == \E i \in 1..Len(toServer) :
                         toServer[i].msg = Keepalive /\ csince + 2 * Delay - toServer[i].age <= L
           Read == \E i \in 1..Len(sbuf) : sbuf[i] = Keepalive
<1>1. /\ Delay \in Nat /\ csince \in Nat /\ L \in Nat /\ ctimer \in Int
      /\ Age(toServer) \in 0..Delay /\ Age(toClient) \in 0..Delay
  BY Numbers
<1>2. ClientHears =>
        \/ toClient # <<>> /\ csince + Delay - Age(toClient) <= L
        \/ (sout # <<>> \/ Read) /\ csince + Delay <= L
        \/ OnTheWay
        \/ cout # <<>> /\ Head(cout) = Keepalive /\ csince + 2 * Delay <= L
        \/ csince + 2 * Delay <= L /\ csince + 2 * Delay + ctimer <= L
  BY DEF ClientHears
<1>3. ASSUME UNCHANGED <<cneg, csince>>,
             \/ toClient' # <<>> /\ csince + Delay - Age(toClient') <= L
             \/ (sout' # <<>> \/ Read') /\ csince + Delay <= L
             \/ \E i \in 1..Len(toServer') :
                  toServer'[i].msg = Keepalive /\ csince + 2 * Delay - toServer'[i].age <= L
             \/ cout' # <<>> /\ Head(cout') = Keepalive /\ csince + 2 * Delay <= L
             \/ csince + 2 * Delay <= L /\ csince + 2 * Delay + ctimer' <= L
      PROVE  ClientHears'
  <2>1. Longest(cneg)' = L
    BY <1>3 DEF Longest, Ticks
  <2> HIDE DEF L
  <2> QED
    BY <1>3, <2>1 DEF ClientHears
<1>4. /\ ClientInTime <=> (link = "up" /\ c = "loop" /\ s = "loop" /\ ~held => ClientHears)
      /\ ClientInTime' <=> (link' = "up" /\ c' = "loop" /\ s' = "loop" /\ ~held' => ClientHears')
  BY DEF ClientInTime
<1>5. ASSUME FreshRead' PROVE ClientInTime'
  BY <1>5, FreshClient, PTL
<1>6. CASE link' # "up" \/ c' # "loop" \/ s' # "loop"
  BY <1>4, <1>6
<1> HIDE DEF L
<1>7. CASE \/ ClientWriteFails \/ ClientSplit \/ ClientWaitTimeout \/ ClientEof
           \/ ServerWriteFails \/ ServerSplit \/ ServerWaitTimeout \/ ServerEof \/ LinkDies
           \/ (\E n \in 1..Cap : ClientHello(n) \/ ClientEstablished(n) \/ ServerHello(n))
  <2>1. link' # "up" \/ c' # "loop" \/ s' # "loop"
    BY <1>7 DEF ClientWriteFails, ClientSplit, ClientWaitTimeout, ClientEof, ServerWriteFails,
                ServerSplit, ServerWaitTimeout, ServerEof, LinkDies, ClientHello,
                ClientEstablished, ServerHello
  <2> QED
    BY <1>6, <2>1
<1>8. ASSUME NEW n, ServerEstablished(n) PROVE ClientInTime'
  <2>1. s = "wait_keepalive" /\ UNCHANGED c
    BY <1>8 DEF ServerEstablished, ServerTakes
  <2>2. c # "loop"
    BY <2>1 DEF Turns
  <2> QED
    BY <1>6, <2>1, <2>2
<1>9. CASE (\E n \in 1..Cap : ClientRead(n)) \/ ClientEnterLoop
  BY <1>5, <1>9 DEF ClientRead, ClientEnterLoop, FreshRead
<1>10. CASE ClientTick
  <2>1. /\ c = "loop" /\ cout = <<>> /\ UNCHANGED <<link, s, held, cneg, csince, toClient, toServer, sout, sbuf>>
        /\ c' = "loop" => cout' # <<>> /\ Head(cout') = Keepalive
    BY <1>10, MessageTypes DEF ClientTick
  <2> QED
    BY <1>2, <1>3, <1>4, <1>6, <2>1
<1>11. CASE ClientCommand
  <2>1. /\ c = "loop" /\ cout = <<>>
        /\ UNCHANGED <<link, s, held, cneg, csince, ctimer, toClient, toServer, sout, sbuf>>
    BY <1>11 DEF ClientCommand
  <2> QED
    BY <1>2, <1>3, <1>4, <2>1
<1>12. CASE ServerSleep \/ UNCHANGED vars
  <2>1. UNCHANGED <<link, c, cout, held, cneg, csince, ctimer, toClient, toServer, sout, sbuf>>
    BY <1>12 DEF ServerSleep
  <2>2. s' = "loop" => s = "loop"
    BY <1>12 DEF ServerSleep
  <2> QED
    BY <1>2, <1>3, <1>4, <2>1, <2>2
<1>13. CASE ServerSend
  <2>1. /\ s = "loop" /\ sout = <<>> /\ sout' # <<>>
        /\ UNCHANGED <<link, c, cout, held, cneg, csince, ctimer, toClient, toServer, sbuf>>
    BY <1>13, MessageTypes DEF ServerSend, ServerReads
  <2> QED
    BY <1>2, <1>3, <1>4, <2>1
<1>14. CASE ClientWrite
  <2>1. /\ UNCHANGED <<link, c, s, held, cneg, csince, ctimer, toClient, sout, sbuf>>
        /\ cout # <<>> /\ Len(toServer) \in Nat
        /\ Len(toServer') = Len(toServer) + 1
        /\ \A i \in 1..Len(toServer) : toServer'[i] = toServer[i]
        /\ toServer'[Len(toServer) + 1].msg = Head(cout)
        /\ toServer'[Len(toServer) + 1].age = 0
    <3>1. /\ UNCHANGED <<link, c, s, held, cneg, csince, ctimer, toClient, sout, sbuf>>
          /\ cout # <<>> /\ toServer' = Sent(toServer, Head(cout)) /\ toServer \in Stream(FromClient)
      BY <1>14 DEF ClientWrite, Types
    <3>2. Head(cout) \in FromClient
      BY <3>1, Queue DEF Types
    <3> QED
      BY <3>1, <3>2, SentFacts, StreamFacts
  <2>2. Len(toServer) + 1 \in 1..Len(toServer') /\ \A i \in 1..Len(toServer) : i \in 1..Len(toServer')
    BY <2>1
  <2>3. CASE Head(cout) = Keepalive /\ csince + 2 * Delay <= L
    <3>1. csince + 2 * Delay - 0 <= L
      BY <1>1, <2>3
    <3> QED
      BY <1>3, <1>4, <2>1, <2>2, <2>3, <3>1
  <2>4. CASE OnTheWay
    BY <1>3, <1>4, <2>1, <2>2, <2>4
  <2>5. CASE ~OnTheWay /\ ~(Head(cout) = Keepalive /\ csince + 2 * Delay <= L)
    BY <1>2, <1>3, <1>4, <2>1, <2>5
  <2> QED
    BY <2>3, <2>4, <2>5
<1>15. CASE ServerWrite
  <2>1. /\ UNCHANGED <<link, c, s, held, cneg, csince>>
        /\ toClient' # <<>> /\ Age(toClient') = Age(toClient)
    BY <1>15, Queue, SentFacts DEF ServerWrite, Types
  <2>2. ClientHears => csince + Delay - Age(toClient) <= L
    BY HearsSoon DEF L
  <2> QED
    BY <1>3, <1>4, <2>1, <2>2
<1>16. ASSUME NEW n, ServerRead(n) PROVE ClientInTime'
  <2>1. /\ s = "loop" /\ UNCHANGED <<link, c, s, cout, held, cneg, csince, ctimer, toClient, sout>>
        /\ sout = <<>> /\ sbuf = <<>> /\ n \in 1..Len(toServer) /\ toServer' = Rest(toServer, n)
        /\ sbuf' = Messages(toServer, n)
    BY <1>16 DEF ServerRead, ServerTakes, ServerReads
  <2>2. /\ Len(toServer) \in Nat /\ Len(toServer') = Len(toServer) - n
        /\ \A i \in 1..Len(toServer') : toServer'[i] = toServer[i + n]
        /\ \A i \in 1..Len(toServer) : toServer[i].age \in 0..Delay
    BY <2>1, RestFacts, StreamFacts DEF Types
  <2>3. Len(sbuf') = n /\ \A i \in 1..n : sbuf'[i] = toServer[i].msg
    <3>1. sbuf' \in Seq(FromClient)
      BY DEF Types, FromClient
    <3> QED
      BY <2>1, <2>2, <3>1, LenProperties DEF Messages
  <2>4. ~Read
    BY <2>1, Queue DEF Types
  <2>5. CASE OnTheWay
    <3>1. PICK i \in 1..Len(toServer) :
            toServer[i].msg = Keepalive /\ csince + 2 * Delay - toServer[i].age <= L
      BY <2>5
    <3>2. CASE i \in 1..n
      <4>1. csince + Delay <= L
        BY <1>1, <2>2, <3>1
      <4>2. Read'
        BY <2>3, <3>1, <3>2
      <4> QED
        BY <1>3, <1>4, <2>1, <4>1, <4>2
    <3>3. CASE i \notin 1..n
      <4>1. i - n \in 1..Len(toServer') /\ i = (i - n) + n
        BY <2>1, <2>2, <3>3
      <4>2. toServer'[i - n] = toServer[i]
        BY <2>2, <4>1
      <4> QED
        BY <1>3, <1>4, <2>1, <3>1, <4>1, <4>2
    <3> QED
      BY <3>2, <3>3
  <2>6. CASE ~OnTheWay
    BY <1>2, <1>3, <1>4, <2>1, <2>4, <2>6
  <2> QED
    BY <2>5, <2>6
<1>17. CASE ServerHandle
  <2>1. /\ s = "loop" /\ sout = <<>> /\ sbuf # <<>> /\ sbuf' = Tail(sbuf)
        /\ UNCHANGED <<link, c, s, cout, held, cneg, csince, ctimer, toClient, toServer>>
        /\ Head(sbuf) = Keepalive => sout' # <<>>
    <3>1. Head(sbuf) = Keepalive => sout' = <<Keepalive>>
      BY <1>17, Kinds DEF ServerHandle
    <3>2. <<Keepalive>> # <<>>
      OBVIOUS
    <3> QED
      BY <1>17, <3>1, <3>2 DEF ServerHandle
  <2>2. /\ Head(sbuf) = sbuf[1] /\ Len(sbuf') = Len(sbuf) - 1 /\ Len(sbuf) \in Nat
        /\ \A i \in 1..Len(sbuf) - 1 : sbuf'[i] = sbuf[i + 1]
    BY <2>1, Queue DEF Types
  <2>3. CASE Read
    <3>1. PICK i \in 1..Len(sbuf) : sbuf[i] = Keepalive
      BY <2>3
    <3>2. CASE i = 1
      BY <1>2, <1>3, <1>4, <2>1, <2>2, <3>1, <3>2
    <3>3. CASE i # 1
      <4>1. i - 1 \in 1..Len(sbuf') /\ sbuf'[i - 1] = sbuf[i]
        BY <2>2, <3>3
      <4>2. Read'
        BY <3>1, <4>1
      <4> QED
        BY <1>2, <1>3, <1>4, <2>1, <4>2
    <3> QED
      BY <3>2, <3>3
  <2>4. CASE ~Read
    BY <1>2, <1>3, <1>4, <2>1, <2>4
  <2> QED
    BY <2>3, <2>4
<1>18. CASE Tick
  BY <1>18, ClientInTimeTick
<1> QED
  BY <1>7, <1>8, <1>9, <1>10, <1>11, <1>12, <1>13, <1>14, <1>15, <1>16, <1>17, <1>18
  DEF Next, ClientStep, ServerStep

\* An end that has gone does nothing more, and times out in two actions only.
LEMMA EndsForGood ==
  ASSUME Types, [Next]_vars
  PROVE  /\ c \in Ended => UNCHANGED <<c, cneg, held>>
         /\ s \in Ended => UNCHANGED <<s, sneg>>
         /\ c # "timeout" /\ c' = "timeout" => ClientWaitTimeout \/ ClientTick
         /\ s # "timeout" /\ s' = "timeout" => ServerWaitTimeout \/ ServerSleep
<1>1. ASSUME NEW n, ClientHello(n) \/ ClientEstablished(n) \/ ClientRead(n)
      PROVE  /\ c \notin Ended /\ UNCHANGED <<s, sneg>>
             /\ c' # "timeout"
  BY <1>1 DEF ClientHello, ClientEstablished, ClientRead, ClientTakes
<1>2. ASSUME NEW n, ServerHello(n) \/ ServerEstablished(n) \/ ServerRead(n)
      PROVE  /\ s \notin Ended /\ UNCHANGED <<c, cneg, held>>
             /\ s' # "timeout"
  BY <1>2 DEF ServerHello, ServerEstablished, ServerRead, ServerTakes
<1>3. CASE \/ ClientWrite \/ ClientWriteFails \/ ClientSplit \/ ClientWaitTimeout
           \/ ClientEnterLoop \/ ClientTick \/ ClientEof \/ ClientCommand
  <2>1. c \notin Ended /\ UNCHANGED <<s, sneg>>
    BY <1>3 DEF ClientWrite, ClientWriteFails, ClientBlocked, ClientSplit, ClientWaitTimeout,
                ClientEnterLoop, ClientTick, ClientEof, ClientReads, ClientCommand
  <2>2. c # "timeout" /\ c' = "timeout" => ClientWaitTimeout \/ ClientTick
    BY <1>3 DEF ClientWrite, ClientWriteFails, ClientSplit, ClientEnterLoop, ClientEof, ClientCommand
  <2> QED
    BY <2>1, <2>2
<1>4. CASE \/ ServerWrite \/ ServerWriteFails \/ ServerSplit \/ ServerWaitTimeout
           \/ ServerSleep \/ ServerHandle \/ ServerEof \/ ServerSend
  <2>1. s \notin Ended /\ UNCHANGED <<c, cneg, held>>
    BY <1>4 DEF ServerWrite, ServerWriteFails, ServerBlocked, ServerSplit, ServerWaitTimeout,
                ServerSleep, ServerHandle, ServerEof, ServerReads, ServerSend
  <2>2. s # "timeout" /\ s' = "timeout" => ServerWaitTimeout \/ ServerSleep
    BY <1>4 DEF ServerWrite, ServerWriteFails, ServerSplit, ServerHandle, ServerEof, ServerSend
  <2> QED
    BY <2>1, <2>2
<1>5. CASE LinkDies \/ UNCHANGED vars
  BY <1>5 DEF LinkDies
<1>6. CASE Tick
  <2>1. /\ UNCHANGED <<c, cneg, s, sneg>>
        /\ held' = (held \/ (c = "loop" /\ ClientBlocked))
    BY <1>6 DEF Tick
  <2>2. c \in Ended => UNCHANGED held
    <3>1. ClientBlocked => c \notin Ended
      BY DEF ClientBlocked
    <3>2. ASSUME c \in Ended PROVE held' = held
      <4>1. held' = (held \/ FALSE)
        BY <2>1, <3>1, <3>2
      <4>2. held \in BOOLEAN
        BY DEF Types
      <4> QED
        BY <4>1, <4>2
    <3> QED
      BY <3>2
  <2> QED
    BY <2>1, <2>2
<1> QED
  BY <1>1, <1>2, <1>3, <1>4, <1>5, <1>6 DEF Next, ClientStep, ServerStep

\* A client of a working connection does not find the time over: in the handshake
\* it has waited for two messages at most, then for the longest wait.
LEMMA ClientKeeps ==
  ASSUME Types, Turns, Agreement, HandshakeInTime, ClientInTime,
         ClientWaitTimeout \/ (ClientTick /\ c' = "timeout"),
         link = "up", s \notin Ended, cneg > 0
  PROVE  held
<1> SUFFICES ASSUME ~held PROVE FALSE
  OBVIOUS
<1>1. c \in {"wait_keepalive", "loop"}
  BY DEF ClientWaitTimeout, ClientTick
<1>2. Longest(cneg) < Timeout(cneg)
  BY <1>1, WaitsAreShorter DEF Agreement
<1>3. /\ Timeout(cneg) \in Nat /\ Ticks(cneg) \in Nat /\ Longest(cneg) = Ticks(cneg) + 2 * Delay
      /\ csince \in Nat /\ Delay \in Nat
      /\ Age(toServer) \in 0..Delay /\ Age(toClient) \in 0..Delay
  BY Numbers
<1>4. CASE ClientWaitTimeout
  <2>1. c = "wait_keepalive" /\ ctimer = 0
    BY <1>4 DEF ClientWaitTimeout
  <2>2. s \in {"wait_keepalive", "loop"}
    BY <2>1 DEF Turns
  <2>3. \/ Timeout(cneg) - 0 <= Age(toServer)
        \/ Timeout(cneg) - 0 <= Delay + Age(toClient)
    BY <2>1, <2>2 DEF HandshakeInTime
  <2> QED
    BY <1>2, <1>3, <2>3
<1>5. CASE ClientTick /\ c' = "timeout"
  <2>1. c = "loop" /\ csince > Timeout(cneg)
    BY <1>5 DEF ClientTick
  <2>2. ClientHears
    BY <2>1 DEF Turns, ClientInTime
  <2>3. csince + Delay - Age(toClient) <= Longest(cneg)
    BY <2>2, HearsSoon
  <2> QED
    BY <1>2, <1>3, <2>1, <2>3
<1> QED
  BY <1>4, <1>5

\* Nor does a server: in the handshake it has waited for two messages at most.
LEMMA ServerKeeps ==
  ASSUME Types, Turns, Agreement, HandshakeInTime, ServerInTime,
         ServerWaitTimeout \/ ServerSleep,
         link = "up", c \notin Ended, sneg > 0
  PROVE  FALSE
<1>1. s \in {"wait_keepalive", "loop"} /\ stimer = 0
  BY DEF ServerWaitTimeout, ServerSleep
<1>2. Longest(sneg) < Timeout(sneg)
  BY <1>1, WaitsAreShorter DEF Agreement
<1>3. /\ Timeout(sneg) \in Nat /\ Ticks(sneg) \in Nat /\ Longest(sneg) = Ticks(sneg) + 2 * Delay
      /\ Longest(sneg) \in Nat
      /\ ctimer \in Int /\ Delay \in Nat
      /\ Age(toServer) \in 0..Delay /\ Age(toClient) \in 0..Delay
  BY Numbers
<1>4. CASE s = "wait_keepalive"
  <2>1. c \in {"wait_hello", "wait_keepalive"}
    BY <1>4 DEF Turns, Types, ConnectionTypeOK
  <2>2. \/ Timeout(sneg) - 0 <= Delay + Age(toServer)
        \/ Timeout(sneg) - 0 <= Age(toClient)
    BY <1>1, <1>4, <2>1 DEF HandshakeInTime
  <2> QED
    BY <1>2, <1>3, <2>2
<1>5. CASE s = "loop"
  <2>1. Timeout(sneg) - stimer = Timeout(sneg)
    BY <1>1, <1>3
  <2>2. ServerHears(Timeout(sneg))
    BY <1>5, <2>1 DEF ServerInTime
  <2>3. \/ Timeout(sneg) + Delay - Age(toServer) <= Longest(sneg)
        \/ Timeout(sneg) + 2 * Delay - Age(toClient) <= Longest(sneg)
        \/ Timeout(sneg) + Delay <= Longest(sneg)
    BY <2>2 DEF ServerHears
  <2> QED
    BY <1>2, <1>3, <2>3
<1> QED
  BY <1>1, <1>4, <1>5

\* A step gives up no connection that works.
LEMMA NoFalseTimeoutStep ==
  ASSUME Types, Turns, Agreement, Unsilent, HandshakeInTime, ServerInTime, ClientInTime,
         NoFalseTimeout, [Next]_vars
  PROVE  NoFalseTimeout'
<1>1. /\ link' = "up" => link = "up"
      /\ link = "dead" => link' = "dead"
  <2>1. link' \in {"up", "dead"}
    BY TypesStep DEF Types, ConnectionTypeOK
  <2> QED
    BY <2>1, UnsilentStep
<1>2. ASSUME c' = "timeout", cneg' > 0, ~held' PROVE link' = "dead" \/ s' \in Ended
  <2>1. CASE c = "timeout"
    BY <1>1, <1>2, <2>1, EndsForGood DEF NoFalseTimeout
  <2>2. CASE c # "timeout"
    <3>1. ClientWaitTimeout \/ (ClientTick /\ c' = "timeout")
      BY <1>2, <2>2, EndsForGood
    <3>2. UNCHANGED <<link, s, cneg, held>>
      BY <3>1 DEF ClientWaitTimeout, ClientTick
    <3>3. link = "up" \/ link = "dead"
      BY DEF Types, ConnectionTypeOK
    <3> QED
      BY <1>2, <3>1, <3>2, <3>3, ClientKeeps
  <2> QED
    BY <2>1, <2>2
<1>3. ASSUME s' = "timeout", sneg' > 0 PROVE link' = "dead" \/ c' \in Ended
  <2>1. CASE s = "timeout"
    BY <1>1, <1>3, <2>1, EndsForGood DEF NoFalseTimeout
  <2>2. CASE s # "timeout"
    <3>1. ServerWaitTimeout \/ ServerSleep
      BY <1>3, <2>2, EndsForGood
    <3>2. UNCHANGED <<link, c, sneg>>
      BY <3>1 DEF ServerWaitTimeout, ServerSleep
    <3>3. link = "up" \/ link = "dead"
      BY DEF Types, ConnectionTypeOK
    <3> QED
      BY <1>3, <3>1, <3>2, <3>3, ServerKeeps
  <2> QED
    BY <2>1, <2>2
<1> QED
  BY <1>2, <1>3 DEF NoFalseTimeout

-----------------------------------------------------------------------------
(* The theorems. *)

\* The invariant holds at the first byte.
LEMMA ConnInit == ConnectionInit => ConnInv
<1> SUFFICES ASSUME ConnectionInit PROVE ConnInv
  OBVIOUS
<1>1. Types
  BY TypesInit
<1>2. /\ c = "wait_hello" /\ s = "wait_hello" /\ cout = <<Hello(ClientInterval)>> /\ sout = <<>>
      /\ toServer = <<>> /\ toClient = <<>> /\ sbuf = <<>> /\ ~subscribed
      /\ link = "up" /\ silent = 0 /\ awake = 0 /\ swallowed = {}
  BY DEF ConnectionInit
<1>3. Turns
  <2>1. Len(cout) = 1 /\ Len(toServer) = 0
    BY <1>2
  <2> QED
    BY <1>2, <2>1 DEF Turns
<1>4. OldestFirst(toServer) /\ OldestFirst(toClient)
  <2>1. Len(toServer) = 0 /\ Len(toClient) = 0
    BY <1>2
  <2> QED
    BY <2>1 DEF OldestFirst
<1>5. Agreement /\ TimersBounded /\ HandshakeInTime /\ ServerInTime /\ ClientInTime
  BY <1>2 DEF Agreement, TimersBounded, HandshakeInTime, ServerInTime, ClientInTime
<1>6. Unsilent /\ ClientNotices /\ ServerNotices /\ NoFalseTimeout /\ NothingSwallowed
  BY <1>2 DEF Unsilent, ClientNotices, ServerNotices, NoFalseTimeout, NothingSwallowed
<1> QED
  BY <1>1, <1>3, <1>4, <1>5, <1>6 DEF ConnInv

\* Every step keeps it.
LEMMA ConnStep == ConnInv /\ [Next]_vars => ConnInv'
<1> SUFFICES ASSUME ConnInv, [Next]_vars PROVE ConnInv'
  OBVIOUS
<1> USE DEF ConnInv
<1>1. Types' /\ Turns' /\ Agreement' /\ TimersBounded'
  BY TypesStep, TurnsStep, AgreementStep
<1>2. OldestFirst(toServer)' /\ OldestFirst(toClient)' /\ NothingSwallowed'
  BY OldestFirstStep, SwallowStep
<1>3. HandshakeInTime' /\ ServerInTime' /\ ClientInTime'
  BY <1>1, HandshakeStep, ServerInTimeStep, ClientInTimeStep
<1>4. Unsilent' /\ ClientNotices' /\ ServerNotices'
  BY UnsilentStep, ClientNoticesStep, ServerNoticesStep
<1>5. NoFalseTimeout'
  BY NoFalseTimeoutStep
<1> QED
  BY <1>1, <1>2, <1>3, <1>4, <1>5

\* The order of the handshake, the bounds of the timers and the races that they
\* win hold in every state of every connection.
THEOREM ConnectionInvariant == Spec => []ConnInv
  BY ConnInit, ConnStep, PTL DEF Spec

\* The handshake's unbuffered reads throw no message away (receive_hello,
\* receive_message_with_timeout).
THEOREM HandshakeLosesNothing == Spec => []NothingSwallowed
<1>1. ConnInv => NothingSwallowed
  BY DEF ConnInv
<1> QED
  BY <1>1, ConnectionInvariant, PTL

\* A working connection is not given up, for any intervals, if a message takes
\* less than 3/4 of the smaller one; but for a client that has had no room to write.
THEOREM WorkingLinkKept == Spec => []NoFalseTimeout
<1>1. ConnInv => NoFalseTimeout
  BY DEF ConnInv
<1> QED
  BY <1>1, ConnectionInvariant, PTL

\* Either end gives up a dead link in time, whatever it has to send meanwhile
\* (keepalive_timer.tick of run_connection, the sleep of handle_peer).
THEOREM DeadLinkNoticed == Spec => []LossDetected
<1>1. ConnInv => LossDetected
  <2> SUFFICES ASSUME ConnInv PROVE LossDetected
    OBVIOUS
  <2>1. /\ link \in {"up", "dead"} /\ silent \in Nat /\ csince \in Nat /\ ctimer \in Int /\ stimer \in Nat
        /\ awake \in Nat
        /\ c \in {"wait_hello", "wait_keepalive", "replay", "loop"} \cup Ended
        /\ s \in {"wait_hello", "wait_keepalive", "loop", "ended", "timeout"}
    BY DEF ConnInv, Types, ConnectionTypeOK
  <2>2. /\ Timeout(cneg) \in Nat /\ Ticks(cneg) \in Nat /\ Timeout(sneg) \in Nat
    BY Numbers DEF ConnInv
  <2>3. (2 + awake) * Timeout(sneg) \in Nat /\ (2 + awake) * Timeout(sneg) >= Timeout(sneg) + Timeout(sneg)
    BY <2>1, <2>2, OneMoreTurn
  <2>4. ASSUME silent > Timeout(cneg) + Ticks(cneg), c \notin Ended \cup {"wait_hello"}, ~ClientBlocked
        PROVE  FALSE
    <3>1. link = "dead"
      BY <2>1, <2>2, <2>4 DEF ConnInv, Unsilent
    <3>2. CASE c = "wait_keepalive"
      <4>1. silent + ctimer <= Timeout(cneg) /\ ctimer >= 0
        BY <2>4, <3>1, <3>2 DEF ConnInv, ClientNotices, TimersBounded
      <4> QED
        BY <2>1, <2>2, <2>4, <4>1
    <3>3. CASE c = "replay"
      BY <2>1, <2>2, <2>4, <3>1, <3>3 DEF ConnInv, ClientNotices
    <3>4. CASE c = "loop" /\ csince <= Timeout(cneg)
      BY <2>1, <2>2, <2>4, <3>1, <3>4 DEF ConnInv, ClientNotices
    <3>5. CASE c = "loop" /\ csince > Timeout(cneg)
      BY <2>1, <2>2, <2>4, <3>1, <3>5 DEF ConnInv, ClientNotices
    <3> QED
      BY <2>1, <2>2, <2>4, <3>2, <3>3, <3>4, <3>5
  <2>5. ASSUME silent > (2 + awake) * Timeout(sneg), s \notin Ended \cup {"wait_hello"}, ~ServerBlocked
        PROVE  FALSE
    <3>1. link = "dead"
      BY <2>1, <2>3, <2>5 DEF ConnInv, Unsilent
    <3>2. CASE s = "wait_keepalive"
      <4>1. silent + stimer <= Timeout(sneg)
        BY <2>5, <3>1, <3>2 DEF ConnInv, ServerNotices
      <4> QED
        BY <2>1, <2>2, <2>3, <2>5, <4>1
    <3>3. CASE s = "loop"
      <4>1. silent + stimer <= (2 + awake) * Timeout(sneg)
        BY <2>5, <3>1, <3>3 DEF ConnInv, ServerNotices
      <4> QED
        BY <2>1, <2>3, <2>5, <4>1
    <3> QED
      BY <2>1, <2>5, <3>2, <3>3
  <2> QED
    BY <2>4, <2>5 DEF LossDetected
<1> QED
  BY <1>1, ConnectionInvariant, PTL
=============================================================================
