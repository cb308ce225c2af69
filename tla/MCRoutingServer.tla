-------------------------- MODULE MCRoutingServer --------------------------
(* Model-checking instance of RoutingServer: one address whose client can   *)
(* come back, and one that connects once.                                   *)
EXTENDS RoutingServer

CONSTANTS c1, c2, c3, a1, a2

\* c3 is a second connection from the address of c1.
AddrOfConn == [c \in Conn |-> IF c = c2 THEN a2 ELSE a1]
=============================================================================
