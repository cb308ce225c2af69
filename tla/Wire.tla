-------------------------------- MODULE Wire --------------------------------
(***************************************************************************)
(* The wire format of src/wire.rs: a message is a header of four bytes     *)
(* (version, two length bytes, type) and a protobuf payload, and the       *)
(* conversions of src/types.rs between the program's destinations and next *)
(* hops and those of the protocol.                                         *)
(*                                                                         *)
(* Protobuf is external: the bytes of a protocol value p are the pairs     *)
(* <<p, 1>>, <<p, 2>>, ..., ProtoLen(p) of them, and only all of them in   *)
(* order decode to p; a value whose fields have their defaults has none.   *)
(* A byte of the header is <<n>>.  A length byte has ByteSize values       *)
(* (256); the numbers in a payload have their real width.                  *)
(***************************************************************************)
EXTENDS Integers, Sequences

CONSTANTS
  ByteSize,        \* values of a length byte
  MaxPayloadSize,  \* MAX_PAYLOAD_SIZE
  ProtoLen(_)      \* the encoded length of a protocol value

ASSUME WireAssumption ==
  /\ ByteSize \in Nat \ {0}
  /\ MaxPayloadSize \in 0..(ByteSize * ByteSize - 1)

PROTOCOL_VERSION == 1
HEADER_SIZE      == 4

\* enum MessageType: a type's place is its number.
MessageType == <<"Hello", "Keepalive", "Subscribe", "Unsubscribe", "Update">>
TypeCode(t) == CHOOSE i \in DOMAIN MessageType : MessageType[i] = t

-----------------------------------------------------------------------------
(* Destinations and next hops.  An address is a token and the number of its *)
(* bytes; the enumerations are what the protocol calls them.                *)

Invalid == [type |-> "invalid"]

Bits == [IPv4 |-> 32, IPv6 |-> 128]

\* struct Destination: IpNet bounds the prefix length by the address' bits.
IsDestination(d) ==
  /\ d = [ip_version |-> d.ip_version, addr |-> d.addr, prefix_len |-> d.prefix_len]
  /\ d.ip_version \in DOMAIN Bits /\ d.prefix_len \in 0..Bits[d.ip_version]

HopTypes == {"Standard", "Nat", "LoadbalancerTarget"}
Port     == {n \in Nat : n < 65536}

\* struct NextHop; an Option<u32> is a set.
IsNextHop(h) ==
  /\ h = [target_address |-> h.target_address, hop_type |-> h.hop_type,
          target_vni |-> h.target_vni, nat_from |-> h.nat_from, nat_to |-> h.nat_to]
  /\ h.hop_type \in HopTypes
  /\ h.target_vni = {} \/ \E n \in h.target_vni : h.target_vni = {n}
  /\ h.nat_from \in Port /\ h.nat_to \in Port

\* enum Message.
IsMessage(m) ==
  \/ m.type = "Hello" /\ m = [type |-> m.type, interval |-> m.interval, is_server |-> m.is_server]
  \/ m = [type |-> "Keepalive"]
  \/ m.type \in {"Subscribe", "Unsubscribe"} /\ m = [type |-> m.type, vni |-> m.vni]
  \/ /\ m.type = "Update"
     /\ m = [type |-> m.type, action |-> m.action, vni |-> m.vni, dest |-> m.dest, hop |-> m.hop]
     /\ m.action \in {"Add", "Remove"} /\ IsDestination(m.dest) /\ IsNextHop(m.hop)

ProtoDestination(d) ==
  [ip_version |-> d.ip_version, prefix |-> d.addr,
   prefix_bytes |-> Bits[d.ip_version] \div 8, prefix_length |-> d.prefix_len]

\* try_from: the version, the number of address bytes and the prefix length, cut
\* to 8 bits, have to fit together.
DestinationOf(p) ==
  IF /\ p.ip_version \in DOMAIN Bits
     /\ p.prefix_bytes * 8 = Bits[p.ip_version]
     /\ p.prefix_length % 256 <= Bits[p.ip_version]
  THEN [ip_version |-> p.ip_version, addr |-> p.prefix, prefix_len |-> p.prefix_length % 256]
  ELSE Invalid

\* The protocol's target VNI 0 is None.
ProtoNextHop(h) ==
  [target_address |-> h.target_address, target_bytes |-> 16,
   target_vni |-> IF h.target_vni = {} THEN 0 ELSE CHOOSE n \in h.target_vni : TRUE,
   type |-> h.hop_type,
   nat_port_range_from |-> h.nat_from, nat_port_range_to |-> h.nat_to]

\* try_from: ports are cut to 16 bits.
NextHopOf(p) ==
  IF p.target_bytes = 16 /\ p.type \in HopTypes
  THEN [target_address |-> p.target_address, hop_type |-> p.type,
        target_vni |-> {p.target_vni} \ {0},
        nat_from |-> p.nat_port_range_from % 65536, nat_to |-> p.nat_port_range_to % 65536]
  ELSE Invalid

-----------------------------------------------------------------------------
(* Payloads. *)

ProtoBytes(p) == [k \in 1..ProtoLen(p) |-> <<p, k>>]

\* What no bytes stand for; an UPDATE without a destination is none.
Default(t) ==
  CASE t = "Hello" -> {[keepalive_interval |-> 0, is_server |-> FALSE]}
    [] t \in {"Subscribe", "Unsubscribe"} -> {[vni |-> 0]}
    [] t = "Update" -> {}

\* The values of type t that bytes encode: one, or none.
ProtoValue(t, bytes) ==
  {p \in Default(t) \cup {bytes[k][1] : k \in {j \in DOMAIN bytes : Len(bytes[j]) = 2}} :
     bytes = ProtoBytes(p)}

ProtoUpdate(m) ==
  [action |-> m.action, vni |-> m.vni,
   destination |-> ProtoDestination(m.dest), next_hop |-> ProtoNextHop(m.hop)]

ProtoOf(m) ==
  CASE m.type = "Hello" -> [keepalive_interval |-> m.interval, is_server |-> m.is_server]
    [] m.type \in {"Subscribe", "Unsubscribe"} -> [vni |-> m.vni]
    [] m.type = "Update" -> ProtoUpdate(m)

encode_payload(m) == IF m.type = "Keepalive" THEN <<>> ELSE ProtoBytes(ProtoOf(m))

\* Protobuf leaves out what has its default, and nothing else.
HasProtoLen(m) ==
  m.type # "Keepalive" =>
    /\ ProtoLen(ProtoOf(m)) \in Nat
    /\ ProtoLen(ProtoOf(m)) = 0 <=> ProtoOf(m) \in Default(m.type)

UpdateOf(p) ==
  LET d == DestinationOf(p.destination)
      h == NextHopOf(p.next_hop)
  IN  IF p.action \in {"Add", "Remove"} /\ d # Invalid /\ h # Invalid
        THEN [type |-> "Update", action |-> p.action, vni |-> p.vni, dest |-> d, hop |-> h]
        ELSE Invalid

\* A KEEPALIVE's payload is not looked at.
decode_payload(t, bytes) ==
  IF t = "Keepalive" THEN [type |-> t]
  ELSE IF ProtoValue(t, bytes) = {} THEN Invalid
  ELSE LET p == CHOOSE q \in ProtoValue(t, bytes) : TRUE
       IN  CASE t = "Hello" -> [type |-> t, interval |-> p.keepalive_interval, is_server |-> p.is_server]
             [] t \in {"Subscribe", "Unsubscribe"} -> [type |-> t, vni |-> p.vni]
             [] t = "Update" -> UpdateOf(p)

-----------------------------------------------------------------------------
(* Framing. *)

Header(t, len) ==
  << <<PROTOCOL_VERSION>>, <<(len \div ByteSize) % ByteSize>>, <<len % ByteSize>>, <<TypeCode(t)>> >>

TooLong(m) == Len(encode_payload(m)) > MaxPayloadSize

\* For a message that is not TooLong, which is an error.
encode(m) == Header(m.type, Len(encode_payload(m))) \o encode_payload(m)

More  == [kind |-> "more"]   \* "too short" or "truncated": the callers wait for more
Error == [kind |-> "error"]

\* Mutant of PayloadLen: the low byte only.
PayloadLenLow(buf) == buf[3][1]

PayloadLen(buf) == buf[2][1] * ByteSize + buf[3][1]

Supported(buf) ==
  buf[1] = <<PROTOCOL_VERSION>> /\ buf[4] \in {<<i>> : i \in DOMAIN MessageType}

\* Mutant of decode: a message is complete only when another byte follows.
decodeLate(buf) ==
  IF Len(buf) < HEADER_SIZE THEN More
  ELSE IF ~Supported(buf) THEN Error
  ELSE LET total == HEADER_SIZE + PayloadLen(buf)
       IN  IF Len(buf) <= total THEN More
           ELSE LET m == decode_payload(MessageType[buf[4][1]], SubSeq(buf, HEADER_SIZE + 1, total))
                IN  IF m = Invalid THEN Error ELSE [kind |-> "message", msg |-> m, used |-> total]

\* The first message of buf and the bytes it takes.  Version and type are looked
\* at before the payload is there.
decode(buf) ==
  IF Len(buf) < HEADER_SIZE THEN More
  ELSE IF ~Supported(buf) THEN Error
  ELSE LET total == HEADER_SIZE + PayloadLen(buf)
       IN  IF Len(buf) < total THEN More
           ELSE LET m == decode_payload(MessageType[buf[4][1]], SubSeq(buf, HEADER_SIZE + 1, total))
                IN  IF m = Invalid THEN Error ELSE [kind |-> "message", msg |-> m, used |-> total]
=============================================================================
