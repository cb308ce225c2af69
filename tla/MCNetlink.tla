----------------------------- MODULE MCNetlink -----------------------------
(* Model-checking instance of Netlink: two tables, of which a dump shows the *)
(* first as the second; v3 has no table.  d0 is the IPv4 default route, d6h  *)
(* is d6 with host bits.                                                     *)
EXTENDS Netlink, TLC

CONSTANTS v1, v2, v3, d0, d4, d6, d6h

Symmetry == Permutations(Hop)

Tables == v1 :> 44 @@ v2 :> 300

Kernels == [d \in Dest |-> IF d = d6h THEN d6 ELSE d]
=============================================================================
