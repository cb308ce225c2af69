------------------------------ MODULE Netlink ------------------------------
(***************************************************************************)
(* Installation of routes into the kernel: NetlinkClient of src/netlink.rs *)
(* and the NetlinkHandler of examples/client.rs, which spawns a task for   *)
(* every call of the route handler.  The tasks run in any order.  A route  *)
(* is removed in two steps, a dump of the kernel's routes and the deletion *)
(* of the first one that matches, and the kernel's routes outlive the      *)
(* process: the next one starts by cleaning up.                            *)
(*                                                                         *)
(* The kernel is external.  It keeps one route per table and destination   *)
(* (the requests ask for exclusive creation), it is used by others as      *)
(* well, and any request may fail.  It cuts the host bits of an IPv6       *)
(* destination.  A dump shows a table number above 255 in an attribute     *)
(* only, the 8-bit field of the header then holds CompatTable, and no      *)
(* destination at all for prefix length 0.                                 *)
(***************************************************************************)
EXTENDS Integers, FiniteSets

CONSTANTS
  Vni, Dest, Hop,
  V4,           \* the IPv4 destinations
  Default,      \* the destinations of prefix length 0
  KernelDest,   \* the destination the kernel keeps for one it is given
  NoHop,        \* the gateway of a route without one
  TableOf,      \* NetlinkConfig.vni_table_map
  OtherTables,  \* tables of other programs
  MaxTasks,     \* bound: tasks alive at once
  MaxCalls,     \* bound: calls of the handler
  MaxStops,     \* bound: ends of the process
  MaxOthers     \* bound: routes of other programs

Configured == {TableOf[v] : v \in DOMAIN TableOf}
Table      == Configured \cup OtherTables

CompatTable == 252

\* The table field of a dumped route's header.
HeaderTable(t) == IF t < 256 THEN t ELSE CompatTable

AsU8(t) == t % 256

\* What the kernel keeps is of the same family, and is kept as it is.  Nothing is
\* asked of the tables: one may be taken for another in a dump.
ASSUME NetlinkAssumption ==
  /\ V4 \subseteq Dest /\ Default \subseteq Dest
  /\ KernelDest \in [Dest -> Dest]
  /\ \A d \in Dest : /\ KernelDest[KernelDest[d]] = KernelDest[d]
                     /\ KernelDest[d] \in V4 <=> d \in V4
  /\ DOMAIN TableOf \subseteq Vni
  /\ \A v \in DOMAIN TableOf : TableOf[v] \in Nat
  /\ OtherTables \subseteq Nat
  /\ MaxTasks \in Nat /\ MaxCalls \in Nat /\ MaxStops \in Nat /\ MaxOthers \in Nat

Family      == {"V4", "V6"}
FamilyOf(d) == IF d \in V4 THEN "V4" ELSE "V6"

\* A kernel route; proto tells ours (METALBOND_RT_PROTO) from the others'.
Kept  == {KernelDest[d] : d \in Dest}
Entry == [table : Table, dest : Kept, hop : Hop \cup {NoHop}, proto : {"metalbond", "other"}]
Slot(e) == <<e.table, e.dest>>

Key   == Vni \X Dest \X Hop
Tasks == 1..MaxTasks
Task  == [op : {"add", "remove", "delete"}, key : Key, victim : SUBSET Entry]
Free  == [op |-> "free"]

VARIABLES
  kernel,     \* the routes of the kernel
  phase,      \* of the process: stopped, cleaning, running
  todo,       \* cleanup_stale_routes: tables and families still to do
  doomed,     \* to_delete of the current one
  told,       \* the routes the handler was told of and that were not withdrawn
  tasks,      \* the spawned tasks
  stale,      \* history: our routes in our tables that a previous process left
  contested,  \* history: slots used by two at once, or where a request failed or missed
  calls, stops, others

procVars == <<todo, doomed, told, tasks>>
vars     == <<kernel, phase, procVars, stale, contested, calls, stops, others>>

\* The types of the variables; the kernel has one route per table and destination.
NetlinkTypeOK ==
  /\ kernel \in SUBSET Entry
  /\ \A e, f \in kernel : Slot(e) = Slot(f) => e = f
  /\ phase \in {"stopped", "cleaning", "running"}
  /\ todo \in SUBSET ((DOMAIN TableOf) \X Family)
  /\ doomed \in SUBSET Entry
  /\ told \in SUBSET Key
  /\ tasks \in [Tasks -> Task \cup {Free}]
  /\ stale \in SUBSET kernel
  /\ contested \in SUBSET (Table \X Dest)
  /\ calls \in 0..MaxCalls
  /\ stops \in 0..MaxStops
  /\ others \in 0..MaxOthers

Init ==
  /\ kernel = {} /\ phase = "stopped"
  /\ todo = {} /\ doomed = {} /\ told = {}
  /\ tasks = [i \in Tasks |-> Free]
  /\ stale = {} /\ contested = {}
  /\ calls = 0 /\ stops = 0 /\ others = 0

-----------------------------------------------------------------------------
(* The kernel and the others that use it. *)

Occupied(slot) == \E e \in kernel : Slot(e) = slot

KernelDelete(S) == kernel' = kernel \ S /\ stale' = stale \ S

\* Another program adds a route: its own in any table, or, as another instance of
\* this one, one of ours in a table that is not ours.
OthersAdd(e) ==
  /\ ~Occupied(Slot(e)) /\ e.hop = NoHop
  /\ e.proto = "metalbond" => e.table \in OtherTables
  /\ kernel' = kernel \cup {e}
  /\ contested' = contested \cup {Slot(e)}
  /\ others < MaxOthers
  /\ others' = others + 1
  /\ UNCHANGED <<phase, procVars, stale, calls, stops>>

-----------------------------------------------------------------------------
(* NetlinkClient. *)

\* "route.header.table == table as u8", or the table attribute.
MatchesTable(e, t) == HeaderTable(e.table) = AsU8(t) \/ e.table = t

Ours(e) == e.proto = "metalbond"

\* The route that add_route asks for: an IPv4 route has no gateway, whatever the
\* next hop.
Requested(k) ==
  [table |-> TableOf[k[1]], dest |-> KernelDest[k[2]],
   hop |-> IF k[2] \in V4 THEN NoHop ELSE k[3], proto |-> "metalbond"]

\* Mutant of Matching: the gateway is compared as well, which IPv4 routes lack.
MatchingGateway(k) ==
  {e \in kernel : /\ MatchesTable(e, TableOf[k[1]]) /\ Ours(e)
                  /\ e.dest \notin Default /\ e.dest = k[2] /\ e.hop = k[3]}

\* The routes of a dump that remove_route takes for the one of key k: each shows a
\* destination, and it is the one of the key as it came.
Matching(k) ==
  {e \in kernel : /\ MatchesTable(e, TableOf[k[1]]) /\ Ours(e)
                  /\ e.dest \notin Default /\ e.dest = k[2]}

\* Mutant of Start: only IPv4 routes are cleaned up.
StartV4 ==
  /\ phase = "stopped"
  /\ phase' = "cleaning"
  /\ todo' = (DOMAIN TableOf) \X {"V4"}
  /\ UNCHANGED <<kernel, doomed, told, tasks, stale, contested, calls, stops, others>>

\* main: the new client cleans up before any route is received.
Start ==
  /\ phase = "stopped"
  /\ phase' = "cleaning"
  /\ todo' = (DOMAIN TableOf) \X Family
  /\ UNCHANGED <<kernel, doomed, told, tasks, stale, contested, calls, stops, others>>

\* cleanup_routes_for_table: the dump, once the deletions before are done; one VNI
\* after the other in the order of the map, IPv4 before IPv6.
CleanupDump(v, f) ==
  /\ phase = "cleaning" /\ doomed = {}
  /\ <<v, f>> \in todo
  /\ IF f = "V6" THEN <<v, "V4">> \notin todo
       ELSE \A w \in DOMAIN TableOf : <<w, "V6">> \in todo => <<w, "V4">> \in todo
  /\ todo' = todo \ {<<v, f>>}
  /\ doomed' = {e \in kernel : MatchesTable(e, TableOf[v]) /\ Ours(e) /\ FamilyOf(e.dest) = f}
  /\ UNCHANGED <<kernel, phase, told, tasks, stale, contested, calls, stops, others>>

\* A deletion.
CleanupDelete(e) ==
  /\ phase = "cleaning" /\ e \in doomed
  /\ doomed' = doomed \ {e}
  /\ KernelDelete({e})
  /\ UNCHANGED <<phase, todo, told, tasks, contested, calls, stops, others>>

\* A deletion that fails is only logged.
CleanupFail(e) ==
  /\ phase = "cleaning" /\ e \in doomed
  /\ doomed' = doomed \ {e}
  /\ stale' = stale \ {e}
  /\ contested' = contested \cup {Slot(e)}
  /\ UNCHANGED <<kernel, phase, todo, told, tasks, calls, stops, others>>

CleanupDone ==
  /\ phase = "cleaning" /\ todo = {} /\ doomed = {}
  /\ phase' = "running"
  /\ UNCHANGED <<kernel, procVars, stale, contested, calls, stops, others>>

\* The process ends, by ctrl-c, an error (a failing dump of the cleanup) or a
\* crash: its tasks go with it, the kernel's routes stay.
Stop ==
  /\ phase # "stopped"
  /\ stops < MaxStops
  /\ stops' = stops + 1
  /\ phase' = "stopped"
  /\ todo' = {} /\ doomed' = {} /\ told' = {}
  /\ tasks' = [i \in Tasks |-> Free]
  /\ stale' = {e \in kernel : e.table \in Configured /\ e.proto = "metalbond"}
  /\ contested' = {Slot(e) : e \in {g \in kernel : g.proto = "other"}}
  /\ UNCHANGED <<kernel, calls, others>>

-----------------------------------------------------------------------------
(* NetlinkHandler: each call spawns a task. *)

HasTable(k) == k[1] \in DOMAIN TableOf
SlotOf(k)   == <<TableOf[k[1]], KernelDest[k[2]]>>

\* A dump shows the destination of k as it came.
Shown(k) == k[2] \notin Default /\ KernelDest[k[2]] = k[2]

\* Route e is taken for one of the table of k by the cut of its number.
Mistaken(e, k) == e.table # TableOf[k[1]] /\ HeaderTable(e.table) = AsU8(TableOf[k[1]])

\* History: another task or another route has the slot of k.
Contest(k) ==
  LET busy == {j \in told \cup {tasks[i].key : i \in {n \in Tasks : tasks[n] # Free}} :
                 HasTable(j) /\ HasTable(k) /\ SlotOf(j) = SlotOf(k)}
      same == {i \in Tasks : tasks[i] # Free /\ tasks[i].key = k}
  IN  contested' = IF busy \ {k} # {} \/ (HasTable(k) /\ same # {})
                     THEN contested \cup {SlotOf(k)} ELSE contested

Spawn(op, k) ==
  /\ phase = "running"
  /\ calls < MaxCalls
  /\ calls' = calls + 1
  /\ \E i \in Tasks :
       /\ tasks[i] = Free /\ \A j \in Tasks : j < i => tasks[j] # Free
       /\ tasks' = [tasks EXCEPT ![i] = [op |-> op, key |-> k, victim |-> {}]]
  /\ Contest(k)
  /\ UNCHANGED <<kernel, phase, todo, doomed, stale, stops, others>>

\* The client calls add_route and remove_route in turn for each route.
HandlerAdd(k)    == k \notin told /\ Spawn("add", k) /\ told' = told \cup {k}
HandlerRemove(k) == k \in told /\ Spawn("remove", k) /\ told' = told \ {k}

Finish(i) == tasks' = [tasks EXCEPT ![i] = Free]

\* A VNI without table is an error, which the task prints.
NoTable(i) ==
  /\ tasks[i] # Free /\ ~HasTable(tasks[i].key)
  /\ Finish(i)
  /\ UNCHANGED <<kernel, phase, todo, doomed, told, stale, contested, calls, stops, others>>

\* Mutant of AddRoute: the request appends.
AppendRoute(i) ==
  /\ tasks[i] # Free /\ tasks[i].op = "add" /\ HasTable(tasks[i].key)
  /\ kernel' = kernel \cup {Requested(tasks[i].key)}
  /\ Finish(i)
  /\ UNCHANGED <<phase, todo, doomed, told, stale, contested, calls, stops, others>>

\* add_route: the kernel refuses a second route to the destination.
AddRoute(i) ==
  /\ tasks[i] # Free /\ tasks[i].op = "add" /\ HasTable(tasks[i].key)
  /\ LET e == Requested(tasks[i].key)
     IN  kernel' = IF Occupied(Slot(e)) THEN kernel ELSE kernel \cup {e}
  /\ Finish(i)
  /\ UNCHANGED <<phase, todo, doomed, told, stale, contested, calls, stops, others>>

\* remove_route, the dump: the first route that matches, or none, which is no
\* error.
RemoveLookup(i) ==
  LET k == tasks[i].key IN
  /\ tasks[i] # Free /\ tasks[i].op = "remove" /\ HasTable(k)
  /\ \/ \E e \in Matching(k) :
          /\ tasks' = [tasks EXCEPT ![i].op = "delete", ![i].victim = {e}]
          /\ contested' = contested \cup (IF Mistaken(e, k) THEN {Slot(e), SlotOf(k)} ELSE {})
     \/ /\ Matching(k) = {} /\ Finish(i)
        /\ contested' = contested \cup (IF Shown(k) THEN {} ELSE {SlotOf(k)})
  /\ UNCHANGED <<kernel, phase, todo, doomed, told, stale, calls, stops, others>>

\* remove_route, the deletion, which fails when the route is gone.
RemoveDelete(i) ==
  /\ tasks[i] # Free /\ tasks[i].op = "delete"
  /\ KernelDelete(tasks[i].victim)
  /\ Finish(i)
  /\ UNCHANGED <<phase, todo, doomed, told, contested, calls, stops, others>>

\* Any other error of a request, which the task prints: nothing is tried again.
TaskFails(i) ==
  /\ tasks[i] # Free /\ HasTable(tasks[i].key)
  /\ contested' = contested \cup {SlotOf(tasks[i].key)}
  /\ Finish(i)
  /\ UNCHANGED <<kernel, phase, todo, doomed, told, stale, calls, stops, others>>

-----------------------------------------------------------------------------
Next ==
  \/ \E e \in Entry : OthersAdd(e) \/ CleanupDelete(e) \/ CleanupFail(e)
  \/ Start \/ CleanupDone \/ Stop
  \/ \E v \in DOMAIN TableOf, f \in Family : CleanupDump(v, f)
  \/ \E k \in Key : HandlerAdd(k) \/ HandlerRemove(k)
  \/ \E i \in Tasks :
       NoTable(i) \/ AddRoute(i) \/ RemoveLookup(i) \/ RemoveDelete(i) \/ TaskFails(i)

Spec == Init /\ [][Next]_vars

-----------------------------------------------------------------------------
\* "On startup, stale routes from previous runs are automatically cleaned up"
\* (README.md): whenever the process died before, once it receives routes the
\* kernel has none of an earlier process left, but for those whose deletion it
\* refused.
StaleRoutesGone == phase = "running" => stale = {}

\* "When a route is withdrawn by the server, it's removed from the kernel table"
\* (README.md): when every task has ended, the kernel has the routes that were
\* requested for what the handler was told of, and no other of ours.  Excepted are
\* slots that two tasks, two next hops or two programs used at once (nothing
\* orders the tasks, and the kernel keeps one route per slot), where a request
\* failed, where a route of another table was taken for the one removed, and where
\* one was removed that a dump does not show as it came: it stays.
KernelFollows ==
  phase = "running" /\ (\A i \in Tasks : tasks[i] = Free) =>
    \A t \in Configured, d \in Kept : <<t, d>> \notin contested =>
      {e \in kernel : Slot(e) = <<t, d>>}
        = {Requested(k) : k \in {j \in told : HasTable(j) /\ SlotOf(j) = <<t, d>>}}
=============================================================================
