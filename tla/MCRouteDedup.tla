---------------------------- MODULE MCRouteDedup ----------------------------
(* Model-checking instance of RouteDedup. *)
EXTENDS RouteDedup, TLC

ServerSymmetry == Permutations(Server)
=============================================================================
