------------------------------ MODULE OneServer ------------------------------
(***************************************************************************)
(* What the client promises its user's handler (src/client.rs): several    *)
(* servers look like one.  A route appears when the first of them has it   *)
(* and vanishes when the last has lost it; each time the handler is due    *)
(* one call, and otherwise none.  When the call is made is open.           *)
(* RouteDedup implements it.                                               *)
(***************************************************************************)
EXTENDS Integers

CONSTANTS Key

Call == [op : {"add_route", "remove_route"}, key : Key]

AddCall(k)    == [op |-> "add_route", key |-> k]
RemoveCall(k) == [op |-> "remove_route", key |-> k]

VARIABLES
  present,  \* the routes some server has
  due       \* how many of each call are still to be made

Init == present = {} /\ due = [c \in Call |-> 0]

Also(C) == due' = [c \in Call |-> IF c \in C THEN due[c] + 1 ELSE due[c]]

Appear(k) ==
  /\ k \notin present
  /\ present' = present \cup {k}
  /\ Also({AddCall(k)})

\* Several routes vanish at once when the user gives a server up.
Vanish(K) ==
  /\ K # {} /\ K \subseteq present
  /\ present' = present \ K
  /\ Also({RemoveCall(k) : k \in K})

Make(c) ==
  /\ due[c] > 0
  /\ due' = [due EXCEPT ![c] = @ - 1]
  /\ UNCHANGED present

Next ==
  \/ \E k \in Key : Appear(k)
  \/ \E K \in SUBSET Key : Vanish(K)
  \/ \E c \in Call : Make(c)

Spec == Init /\ [][Next]_<<present, due>>
=============================================================================
