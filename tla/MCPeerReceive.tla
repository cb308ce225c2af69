--------------------------- MODULE MCPeerReceive ---------------------------
(* Model-checking instance of PeerReceive: payloads of two bytes, so that    *)
(* with two values to a byte both length bytes are used; prefix lengths,     *)
(* ports and target VNIs at the ends of their ranges.                        *)
EXTENDS PeerReceive

MCProtoLen(p) ==
  IF "action" \in DOMAIN p THEN 2 ELSE IF p = [vni |-> 0] THEN 0 ELSE 1

D4 == [ip_version |-> "IPv4", addr |-> "a4", prefix_len |-> 32]
D6 == [ip_version |-> "IPv6", addr |-> "a6", prefix_len |-> 128]

Std == [target_address |-> "t", hop_type |-> "Standard", target_vni |-> {}, nat_from |-> 0, nat_to |-> 0]
Nat1 == [Std EXCEPT !.hop_type = "Nat", !.nat_from = 1024, !.nat_to = 65535]

MCDest == {D4, D6}
MCHop  == {Std, Nat1}

Update(a, d, h) == [type |-> "Update", action |-> a, vni |-> 1, dest |-> d, hop |-> h]

\* One of the next hops has a target VNI of 0, which no received route has, and
\* one of the messages a payload of no bytes.
MCMessage ==
  {Update("Add", D4, Std), Update("Remove", D4, Std), Update("Add", D4, Nat1),
   Update("Add", D6, [Std EXCEPT !.target_vni = {0}]), [type |-> "Keepalive"],
   [type |-> "Subscribe", vni |-> 0]}

\* An unknown version, and an update whose address is too short.
Short == [ProtoUpdate(Update("Add", D4, Std)) EXCEPT !.destination.prefix_bytes = 3]
MCForeign == { << <<2>>, <<0>>, <<0>>, <<2>> >>,
               Header("Update", 2) \o ProtoBytes(Short) }
=============================================================================
