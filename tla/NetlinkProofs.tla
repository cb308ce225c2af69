--------------------------- MODULE NetlinkProofs ---------------------------
(***************************************************************************)
(* Proofs about Netlink, for any VNIs, destinations, next hops and tables, *)
(* those that are taken for one another included, any number of tasks,     *)
(* calls, failures, restarts and routes of other programs.                 *)
(***************************************************************************)
EXTENDS Netlink, TLAPS

USE DEF procVars, vars, Tasks

\* The route add_route asks for is in the slot of its key and marked as ours.
LEMMA RequestedRoute ==
  ASSUME NEW k \in Key, HasTable(k)
  PROVE  /\ Requested(k) \in Entry
         /\ Slot(Requested(k)) = SlotOf(k)
         /\ Requested(k).proto = "metalbond"
         /\ TableOf[k[1]] \in Configured /\ KernelDest[k[2]] \in Kept
         /\ SlotOf(k) \in Configured \X Kept /\ SlotOf(k) \in Table \X Dest
<1>1. k[1] \in DOMAIN TableOf /\ k[2] \in Dest /\ k[3] \in Hop
  BY DEF Key, HasTable
<1>2. TableOf[k[1]] \in Configured /\ KernelDest[k[2]] \in Kept
  BY <1>1 DEF Configured, Kept
<1>3. KernelDest[k[2]] \in Dest
  BY <1>1, NetlinkAssumption
<1> QED
  BY <1>1, <1>2, <1>3 DEF Requested, Entry, Slot, SlotOf, Table

\* The kernel keeps destinations of Dest, and those as they are.
LEMMA KeptDest ==
  ASSUME NEW d \in Kept
  PROVE  d \in Dest /\ KernelDest[d] = d
<1>1. PICK c \in Dest : d = KernelDest[c]
  BY DEF Kept
<1>2. KernelDest \in [Dest -> Dest] /\ KernelDest[KernelDest[c]] = KernelDest[c]
  BY NetlinkAssumption
<1> QED
  BY <1>1, <1>2

\* A kernel route's slot.
LEMMA EntrySlot ==
  ASSUME NEW e \in Entry
  PROVE  Slot(e) \in Table \X Dest
  BY KeptDest DEF Entry, Slot

\* What remove_route takes for the route of key k is ours, of its destination, and
\* in its slot unless the cut of the table number misleads it; and it finds our
\* route in that slot when a dump shows it as it came.
LEMMA MatchingRoutes ==
  ASSUME NetlinkTypeOK, NEW k \in Key, HasTable(k), NEW e \in kernel
  PROVE  /\ e \in Matching(k) => Slot(e) = SlotOf(k) \/ Mistaken(e, k)
         /\ e.proto = "metalbond" /\ Slot(e) = SlotOf(k) /\ Shown(k) => e \in Matching(k)
<1>1. e \in Entry /\ e.dest \in Kept
  BY DEF NetlinkTypeOK, Entry
<1>2. ASSUME e \in Matching(k), ~Mistaken(e, k) PROVE Slot(e) = SlotOf(k)
  <2>1. e.table = TableOf[k[1]] /\ e.dest = k[2]
    BY <1>2 DEF Matching, MatchesTable, Mistaken
  <2> QED
    BY <1>1, <2>1, KeptDest DEF Slot, SlotOf
<1>3. ASSUME e.proto = "metalbond", Slot(e) = SlotOf(k), Shown(k) PROVE e \in Matching(k)
  BY <1>3 DEF Slot, SlotOf, Shown, Matching, MatchesTable, Ours
<1> QED
  BY <1>2, <1>3

\* A task is free or has an operation, a key and at most a victim.
LEMMA TaskFields ==
  ASSUME NetlinkTypeOK, NEW i \in Tasks, tasks[i] # Free
  PROVE  /\ tasks[i] \in Task /\ tasks[i].key \in Key
         /\ tasks[i].op \in {"add", "remove", "delete"} /\ tasks[i].victim \in SUBSET Entry
  BY DEF NetlinkTypeOK, Task

\* Before the first start everything is empty.
LEMMA NetlinkTypeInit == Init => NetlinkTypeOK
  BY NetlinkAssumption DEF Init, NetlinkTypeOK

\* What a call of the handler notes as contested is a slot of the kernel.
LEMMA ContestType ==
  ASSUME NetlinkTypeOK, NEW k \in Key, Contest(k)
  PROVE  contested' \in SUBSET (Table \X Dest)
<1>1. CASE HasTable(k)
  BY <1>1, RequestedRoute DEF Contest, NetlinkTypeOK
<1>2. CASE ~HasTable(k)
  BY <1>2 DEF Contest, NetlinkTypeOK
<1> QED
  BY <1>1, <1>2

\* Every step keeps the types; only add_route and other programs add to the
\* kernel, which refuses a second route in a slot.
LEMMA NetlinkTypeStep == NetlinkTypeOK /\ [Next]_vars => NetlinkTypeOK'
<1> SUFFICES ASSUME NetlinkTypeOK, [Next]_vars PROVE NetlinkTypeOK'
  OBVIOUS
<1> USE DEF NetlinkTypeOK
<1>1. ASSUME NEW e \in Entry, OthersAdd(e) PROVE NetlinkTypeOK'
  <2>1. Slot(e) \in Table \X Dest
    BY EntrySlot
  <2> QED
    BY <1>1, <2>1, NetlinkAssumption DEF OthersAdd, Occupied
<1>2. ASSUME NEW e \in Entry, CleanupDelete(e) \/ CleanupFail(e) PROVE NetlinkTypeOK'
  BY <1>2, EntrySlot DEF CleanupDelete, CleanupFail, KernelDelete
<1>3. CASE Start \/ CleanupDone
  BY <1>3 DEF Start, CleanupDone
<1>4. CASE Stop
  <2>1. contested' \in SUBSET (Table \X Dest)
    BY <1>4, EntrySlot DEF Stop
  <2>2. tasks' \in [1..MaxTasks -> Task \cup {Free}]
    BY <1>4 DEF Stop
  <2> QED
    BY <1>4, <2>1, <2>2, NetlinkAssumption DEF Stop
<1>5. ASSUME NEW v \in DOMAIN TableOf, NEW f \in Family, CleanupDump(v, f) PROVE NetlinkTypeOK'
  BY <1>5 DEF CleanupDump
<1>6. ASSUME NEW k \in Key, HandlerAdd(k) \/ HandlerRemove(k) PROVE NetlinkTypeOK'
  <2>1. contested' \in SUBSET (Table \X Dest)
    BY <1>6, ContestType DEF HandlerAdd, HandlerRemove, Spawn
  <2>2. told' \in SUBSET Key
    BY <1>6 DEF HandlerAdd, HandlerRemove
  <2>3. PICK op \in {"add", "remove"} : Spawn(op, k)
    BY <1>6 DEF HandlerAdd, HandlerRemove
  <2>4. PICK i \in 1..MaxTasks :
          tasks' = [tasks EXCEPT ![i] = [op |-> op, key |-> k, victim |-> {}]]
    BY <2>3 DEF Spawn
  <2>5. [op |-> op, key |-> k, victim |-> {}] \in Task
    BY DEF Task
  <2>6. tasks' \in [1..MaxTasks -> Task \cup {Free}]
    BY <2>4, <2>5
  <2> QED
    BY <2>1, <2>2, <2>3, <2>6, NetlinkAssumption DEF Spawn
<1>7. ASSUME NEW i \in 1..MaxTasks, NoTable(i) PROVE NetlinkTypeOK'
  BY <1>7 DEF NoTable, Finish
<1>8. ASSUME NEW i \in 1..MaxTasks, AddRoute(i) PROVE NetlinkTypeOK'
  <2> DEFINE e == Requested(tasks[i].key)
  <2>1. e \in Entry
    BY <1>8, TaskFields, RequestedRoute DEF AddRoute
  <2>2. kernel' = IF Occupied(Slot(e)) THEN kernel ELSE kernel \cup {e}
    BY <1>8 DEF AddRoute
  <2> HIDE DEF e
  <2> QED
    BY <1>8, <2>1, <2>2 DEF AddRoute, Finish, Occupied
<1>9. ASSUME NEW i \in 1..MaxTasks, RemoveLookup(i) PROVE NetlinkTypeOK'
  <2>1. tasks' \in [1..MaxTasks -> Task \cup {Free}]
    <3>1. CASE Finish(i)
      BY <3>1 DEF Finish
    <3>2. ASSUME NEW e \in Matching(tasks[i].key),
                 tasks' = [tasks EXCEPT ![i].op = "delete", ![i].victim = {e}]
          PROVE  tasks' \in [1..MaxTasks -> Task \cup {Free}]
      <4>1. tasks[i] \in Task /\ e \in Entry
        BY <1>9, TaskFields DEF RemoveLookup, Matching
      <4>2. [tasks[i] EXCEPT !.op = "delete", !.victim = {e}] \in Task
        BY <4>1 DEF Task
      <4> QED
        BY <3>2, <4>2
    <3> QED
      BY <1>9, <3>1, <3>2 DEF RemoveLookup
  <2>2. SlotOf(tasks[i].key) \in Table \X Dest
    BY <1>9, TaskFields, RequestedRoute DEF RemoveLookup
  <2>3. \A e \in Matching(tasks[i].key) : Slot(e) \in Table \X Dest
    BY EntrySlot DEF Matching
  <2>4. contested' \in SUBSET (Table \X Dest)
    BY <1>9, <2>2, <2>3 DEF RemoveLookup
  <2> QED
    BY <1>9, <2>1, <2>4 DEF RemoveLookup
<1>10. ASSUME NEW i \in 1..MaxTasks, RemoveDelete(i) PROVE NetlinkTypeOK'
  BY <1>10 DEF RemoveDelete, KernelDelete, Finish
<1>11. ASSUME NEW i \in 1..MaxTasks, TaskFails(i) PROVE NetlinkTypeOK'
  <2>1. SlotOf(tasks[i].key) \in Table \X Dest
    BY <1>11, TaskFields, RequestedRoute DEF TaskFails
  <2> QED
    BY <1>11, <2>1 DEF TaskFails, Finish
<1>12. CASE UNCHANGED vars
  BY <1>12
<1> QED
  BY <1>1, <1>2, <1>3, <1>4, <1>5, <1>6, <1>7, <1>8, <1>9, <1>10, <1>11, <1>12 DEF Next

\* Types, and one kernel route per table and destination, in every reachable state.
THEOREM NetlinkTypeCorrect == Spec => []NetlinkTypeOK
  BY NetlinkTypeInit, NetlinkTypeStep, PTL DEF Spec

-----------------------------------------------------------------------------
(* What the clean-up leaves. *)

\* The clean-up accounts for every route that an earlier process left: it is ours
\* and in one of our tables, and while the clean-up runs its table and family are
\* still to be dumped or it is among the routes to delete.
StaleAccounted ==
  /\ \A e \in stale : e.proto = "metalbond" /\ e.table \in Configured
  /\ phase = "cleaning" =>
       \A e \in stale \ doomed :
         \E v \in DOMAIN TableOf : TableOf[v] = e.table /\ <<v, FamilyOf(e.dest)>> \in todo
  /\ StaleRoutesGone

\* Every step keeps the account.
LEMMA StaleStep ==
  ASSUME NetlinkTypeOK, StaleAccounted, [Next]_vars
  PROVE  StaleAccounted'
<1> USE DEF StaleAccounted, StaleRoutesGone
<1>1. ASSUME NEW v \in DOMAIN TableOf, NEW f \in Family, CleanupDump(v, f) PROVE StaleAccounted'
  <2>1. \A e \in stale : e \in kernel
    BY DEF NetlinkTypeOK
  <2>3. \A e \in stale : e.table = TableOf[v] /\ FamilyOf(e.dest) = f => e \in doomed'
    BY <1>1, <2>1 DEF CleanupDump, MatchesTable, Ours
  <2>4. ASSUME NEW e \in stale, e \notin doomed'
        PROVE  \E w \in DOMAIN TableOf : TableOf[w] = e.table /\ <<w, FamilyOf(e.dest)>> \in todo'
    <3>1. PICK w \in DOMAIN TableOf : TableOf[w] = e.table /\ <<w, FamilyOf(e.dest)>> \in todo
      BY <1>1 DEF CleanupDump
    <3>2. <<w, FamilyOf(e.dest)>> # <<v, f>>
      BY <2>3, <2>4, <3>1
    <3> QED
      BY <1>1, <3>1, <3>2 DEF CleanupDump
  <2> QED
    BY <1>1, <2>4 DEF CleanupDump
<1>2. ASSUME NEW e \in Entry, CleanupDelete(e) \/ CleanupFail(e) PROVE StaleAccounted'
  BY <1>2 DEF CleanupDelete, CleanupFail, KernelDelete
<1>3. CASE Start
  <2>1. ASSUME NEW e \in stale
        PROVE  \E v \in DOMAIN TableOf : TableOf[v] = e.table /\ <<v, FamilyOf(e.dest)>> \in todo'
    <3>1. PICK v \in DOMAIN TableOf : TableOf[v] = e.table
      BY DEF Configured
    <3> QED
      BY <1>3, <3>1 DEF Start, Family, FamilyOf
  <2> QED
    BY <1>3, <2>1 DEF Start
<1>4. CASE CleanupDone
  BY <1>4 DEF CleanupDone
<1>5. CASE Stop
  BY <1>5 DEF Stop
<1>6. ASSUME NEW k \in Key, HandlerAdd(k) \/ HandlerRemove(k) PROVE StaleAccounted'
  BY <1>6 DEF HandlerAdd, HandlerRemove, Spawn
<1>7. ASSUME NEW i \in 1..MaxTasks, NoTable(i) \/ AddRoute(i) \/ RemoveLookup(i) \/ TaskFails(i)
      PROVE  StaleAccounted'
  BY <1>7 DEF NoTable, AddRoute, RemoveLookup, TaskFails
<1>8. ASSUME NEW i \in 1..MaxTasks, RemoveDelete(i) PROVE StaleAccounted'
  BY <1>8 DEF RemoveDelete, KernelDelete
<1>9. CASE (\E e \in Entry : OthersAdd(e)) \/ UNCHANGED vars
  BY <1>9 DEF OthersAdd
<1> QED
  BY <1>1, <1>2, <1>3, <1>4, <1>5, <1>6, <1>7, <1>8, <1>9 DEF Next

\* Types and account together hold in every reachable state.
LEMMA StaleInvariance == Spec => [](NetlinkTypeOK /\ StaleAccounted)
<1>1. Init => StaleAccounted
  BY DEF Init, StaleAccounted, StaleRoutesGone
<1>2. NetlinkTypeOK /\ StaleAccounted /\ [Next]_vars => StaleAccounted'
  BY StaleStep
<1> QED
  BY <1>1, <1>2, NetlinkTypeCorrect, PTL DEF Spec

\* Wherever the process died, in the middle of a clean-up included, the next one
\* has removed what it left before it receives a route, but for the routes whose
\* deletion the kernel refused.
THEOREM NoStaleRoutes == Spec => []StaleRoutesGone
<1>1. NetlinkTypeOK /\ StaleAccounted => StaleRoutesGone
  BY DEF StaleAccounted
<1> QED
  BY <1>1, StaleInvariance, PTL

-----------------------------------------------------------------------------
(* The kernel follows the handler.  KernelFollows speaks of quiet moments     *)
(* only; between them a slot that nobody contests is in the hands of one task *)
(* at most, and what the kernel has there is what that task is about to       *)
(* change.                                                                    *)

\* The kernel's routes, the known routes and the tasks of a slot.
InKernel(slot) == {e \in kernel : Slot(e) = slot}
ToldOf(slot)   == {k \in told : HasTable(k) /\ SlotOf(k) = slot}
AtWork(i, slot) == tasks[i] # Free /\ HasTable(tasks[i].key) /\ SlotOf(tasks[i].key) = slot

\* Task i, the only one of its slot: the route it adds is not there yet, the one
\* it removes is there still.
TaskInCharge(i, slot) ==
  LET k == tasks[i].key
  IN  /\ \A j \in Tasks : AtWork(j, slot) => j = i
      /\ tasks[i].op = "add" => ToldOf(slot) = {k} /\ InKernel(slot) = {}
      /\ tasks[i].op # "add" => ToldOf(slot) = {} /\ InKernel(slot) = {Requested(k)}
      /\ tasks[i].op = "delete" => tasks[i].victim = {Requested(k)}

\* Without a task the slot has the known route, if there is one.
SlotFollows(slot) ==
  /\ \A i \in Tasks : AtWork(i, slot) => TaskInCharge(i, slot)
  /\ (\A i \in Tasks : ~AtWork(i, slot)) =>
       InKernel(slot) = {Requested(k) : k \in ToldOf(slot)}

\* Before the process receives routes an uncontested slot of our tables has at
\* most what an earlier process left.
SlotsFollow ==
  \A slot \in (Configured \X Kept) \ contested :
    IF phase = "running" THEN SlotFollows(slot)
    ELSE InKernel(slot) \subseteq stale

\* Only a task that has found a route deletes one.
DeletesHaveTable ==
  \A i \in Tasks : tasks[i] # Free /\ tasks[i].op = "delete" => HasTable(tasks[i].key)

\* What a task is about to delete is in the slot of its route, or in one that is
\* contested because it was taken for it.
VictimsAccounted ==
  \A i \in Tasks : tasks[i] # Free =>
    \A e \in tasks[i].victim : Slot(e) = SlotOf(tasks[i].key) \/ Slot(e) \in contested

\* A process that does not receive routes knows none and has no tasks.
IdleUntilRunning ==
  phase # "running" => told = {} /\ \A i \in Tasks : tasks[i] = Free

\* A step that leaves a slot's kernel routes, known routes and tasks alone.
LEMMA SlotUntouched ==
  ASSUME NEW slot, SlotFollows(slot),
         InKernel(slot)' = InKernel(slot), ToldOf(slot)' = ToldOf(slot),
         \A i \in Tasks : /\ AtWork(i, slot)' <=> AtWork(i, slot)
                          /\ AtWork(i, slot) => tasks'[i] = tasks[i]
  PROVE  SlotFollows(slot)'
<1>1. ASSUME NEW i \in Tasks, AtWork(i, slot) PROVE TaskInCharge(i, slot)'
  <2>1. TaskInCharge(i, slot) /\ tasks'[i] = tasks[i]
    BY <1>1 DEF SlotFollows
  <2> QED
    BY <2>1 DEF TaskInCharge, Requested
<1> QED
  BY <1>1 DEF SlotFollows, Requested

\* A task that ends changes no slot but its own.
LEMMA OtherSlotsUntouched ==
  ASSUME NetlinkTypeOK, NEW i \in Tasks, tasks' = [tasks EXCEPT ![i] = Free], told' = told,
         NEW slot, ~AtWork(i, slot), InKernel(slot)' = InKernel(slot), SlotFollows(slot)
  PROVE  SlotFollows(slot)'
<1>1. tasks'[i] = Free /\ \A j \in Tasks \ {i} : tasks'[j] = tasks[j]
  BY DEF NetlinkTypeOK
<1>2. ToldOf(slot)' = ToldOf(slot)
  BY DEF ToldOf, HasTable, SlotOf
<1>3. \A j \in Tasks : /\ AtWork(j, slot)' <=> AtWork(j, slot)
                       /\ AtWork(j, slot) => tasks'[j] = tasks[j]
  BY <1>1 DEF AtWork, HasTable, SlotOf
<1> QED
  BY <1>2, <1>3, SlotUntouched

\* The task in charge of a slot ends and leaves the known route in the kernel.
LEMMA TaskEnds ==
  ASSUME NetlinkTypeOK, NEW i \in Tasks, tasks' = [tasks EXCEPT ![i] = Free], told' = told,
         NEW slot, AtWork(i, slot), SlotFollows(slot),
         InKernel(slot)' = {Requested(k) : k \in ToldOf(slot)}
  PROVE  SlotFollows(slot)'
<1>1. tasks'[i] = Free /\ \A j \in Tasks \ {i} : tasks'[j] = tasks[j]
  BY DEF NetlinkTypeOK
<1>2. TaskInCharge(i, slot)
  BY DEF SlotFollows
<1>3. \A j \in Tasks : ~AtWork(j, slot)'
  BY <1>1, <1>2 DEF TaskInCharge, AtWork, HasTable, SlotOf
<1>4. ToldOf(slot)' = ToldOf(slot)
  BY DEF ToldOf, HasTable, SlotOf
<1> QED
  BY <1>3, <1>4 DEF SlotFollows, Requested

\* add_route in a slot nobody contests finds it empty.
LEMMA AddRouteFollows ==
  ASSUME NetlinkTypeOK, NEW i \in Tasks, AddRoute(i), NEW slot, SlotFollows(slot)
  PROVE  SlotFollows(slot)'
<1> DEFINE k == tasks[i].key
           e == Requested(k)
<1>1. k \in Key /\ HasTable(k) /\ tasks[i].op = "add" /\ tasks[i] # Free
  BY TaskFields DEF AddRoute
<1>2. /\ kernel' = IF Occupied(Slot(e)) THEN kernel ELSE kernel \cup {e}
      /\ tasks' = [tasks EXCEPT ![i] = Free] /\ told' = told
  BY DEF AddRoute, Finish
<1>3. Slot(e) = SlotOf(k)
  BY <1>1, RequestedRoute
<1>4. CASE SlotOf(k) # slot
  <2>1. InKernel(slot)' = InKernel(slot)
    BY <1>2, <1>3, <1>4 DEF InKernel, Slot
  <2>2. ~AtWork(i, slot)
    BY <1>4 DEF AtWork
  <2> QED
    BY <1>2, <2>1, <2>2, OtherSlotsUntouched
<1>5. CASE SlotOf(k) = slot
  <2>1. AtWork(i, slot) /\ ToldOf(slot) = {k} /\ InKernel(slot) = {}
    BY <1>1, <1>5 DEF AtWork, SlotFollows, TaskInCharge
  <2>2. InKernel(slot)' = {e}
    BY <1>2, <1>3, <1>5, <2>1 DEF InKernel, Occupied, Slot
  <2> QED
    BY <1>2, <2>1, <2>2, TaskEnds
<1> QED
  BY <1>4, <1>5

\* remove_route finds the route of a slot that stays uncontested, and takes no
\* other for it.
LEMMA RemoveLookupFollows ==
  ASSUME NetlinkTypeOK, NEW i \in Tasks, RemoveLookup(i),
         NEW slot, slot \notin contested', SlotFollows(slot)
  PROVE  SlotFollows(slot)'
<1> DEFINE k == tasks[i].key
<1>1. /\ k \in Key /\ HasTable(k) /\ tasks[i].op = "remove" /\ tasks[i] # Free /\ tasks[i] \in Task
      /\ kernel' = kernel /\ told' = told
  BY TaskFields DEF RemoveLookup
<1>2. InKernel(slot)' = InKernel(slot) /\ ToldOf(slot)' = ToldOf(slot)
  BY <1>1 DEF InKernel, ToldOf, HasTable, SlotOf, Slot
<1>3. CASE SlotOf(k) # slot
  <2>1. ~AtWork(i, slot)
    BY <1>3 DEF AtWork
  <2>2. CASE Finish(i)
    BY <1>1, <1>2, <2>1, <2>2, OtherSlotsUntouched DEF Finish
  <2>3. ASSUME NEW e, tasks' = [tasks EXCEPT ![i].op = "delete", ![i].victim = {e}]
        PROVE  SlotFollows(slot)'
    <3>1. tasks'[i].key = k /\ \A j \in Tasks \ {i} : tasks'[j] = tasks[j]
      BY <1>1, <2>3 DEF NetlinkTypeOK, Task
    <3>2. ~AtWork(i, slot)'
      BY <1>3, <3>1 DEF AtWork, SlotOf
    <3>3. \A j \in Tasks : /\ AtWork(j, slot)' <=> AtWork(j, slot)
                           /\ AtWork(j, slot) => tasks'[j] = tasks[j]
      BY <2>1, <3>1, <3>2 DEF AtWork, HasTable, SlotOf
    <3> QED
      BY <1>2, <3>3, SlotUntouched
  <2> QED
    BY <2>2, <2>3 DEF RemoveLookup
<1>4. CASE SlotOf(k) = slot
  <2>1. AtWork(i, slot) /\ TaskInCharge(i, slot) /\ ToldOf(slot) = {} /\ InKernel(slot) = {Requested(k)}
    BY <1>1, <1>4 DEF AtWork, SlotFollows, TaskInCharge
  <2>2. Requested(k) \in kernel /\ Requested(k).proto = "metalbond" /\ Slot(Requested(k)) = SlotOf(k)
    BY <1>1, <2>1, RequestedRoute DEF InKernel
  <2> DEFINE chosen(e) ==
        /\ tasks' = [tasks EXCEPT ![i].op = "delete", ![i].victim = {e}]
        /\ contested' = contested \cup (IF Mistaken(e, k) THEN {Slot(e), SlotOf(k)} ELSE {})
  <2>3. \/ \E e \in Matching(k) : chosen(e)
        \/ Matching(k) = {} /\ contested' = contested \cup (IF Shown(k) THEN {} ELSE {SlotOf(k)})
    BY DEF RemoveLookup
  <2>4. Shown(k) => Requested(k) \in Matching(k)
    BY <1>1, <2>2, MatchingRoutes
  <2>5. PICK e \in Matching(k) : chosen(e)
    BY <1>4, <2>3, <2>4
  <2>6. e \in kernel /\ ~Mistaken(e, k)
    BY <1>4, <2>5 DEF Matching
  <2>7. Slot(e) = SlotOf(k)
    BY <1>1, <2>6, MatchingRoutes
  <2>8. e = Requested(k)
    BY <1>4, <2>1, <2>6, <2>7 DEF InKernel
  <2>9. tasks' = [tasks EXCEPT ![i].op = "delete", ![i].victim = {Requested(k)}]
    BY <2>5, <2>8
  <2>10. /\ tasks'[i].key = k /\ tasks'[i].op = "delete" /\ tasks'[i].victim = {Requested(k)}
        /\ \A j \in Tasks \ {i} : tasks'[j] = tasks[j]
    BY <1>1, <2>9 DEF NetlinkTypeOK, Task
  <2>11. \A j \in Tasks : AtWork(j, slot)' => j = i
    BY <2>1, <2>10 DEF TaskInCharge, AtWork, HasTable, SlotOf
  <2>12. AtWork(i, slot)'
    BY <1>1, <1>4, <2>10 DEF AtWork, HasTable, SlotOf, Free
  <2>13. TaskInCharge(i, slot)'
    BY <1>2, <2>1, <2>10, <2>11 DEF TaskInCharge, Requested
  <2> QED
    BY <2>11, <2>12, <2>13 DEF SlotFollows
<1> QED
  BY <1>3, <1>4

\* The deletion takes away exactly the route that was removed.
LEMMA RemoveDeleteFollows ==
  ASSUME NetlinkTypeOK, VictimsAccounted, DeletesHaveTable,
         NEW i \in Tasks, RemoveDelete(i), NEW slot, slot \notin contested, SlotFollows(slot)
  PROVE  SlotFollows(slot)'
<1> DEFINE k == tasks[i].key
<1>1. /\ k \in Key /\ tasks[i].op = "delete" /\ tasks[i] # Free
      /\ kernel' = kernel \ tasks[i].victim
      /\ tasks' = [tasks EXCEPT ![i] = Free] /\ told' = told
  BY TaskFields DEF RemoveDelete, KernelDelete, Finish
<1>2. CASE ~AtWork(i, slot)
  <2>1. \A e \in tasks[i].victim : Slot(e) # slot
    BY <1>1, <1>2 DEF VictimsAccounted, DeletesHaveTable, AtWork
  <2>2. InKernel(slot)' = InKernel(slot)
    BY <1>1, <2>1 DEF InKernel, Slot
  <2> QED
    BY <1>1, <1>2, <2>2, OtherSlotsUntouched
<1>3. CASE AtWork(i, slot)
  <2>1. ToldOf(slot) = {} /\ InKernel(slot) = {Requested(k)} /\ tasks[i].victim = {Requested(k)}
    BY <1>1, <1>3 DEF SlotFollows, TaskInCharge
  <2>2. InKernel(slot)' = {}
    BY <1>1, <2>1 DEF InKernel, Slot
  <2> QED
    BY <1>1, <1>3, <2>1, <2>2, TaskEnds
<1> QED
  BY <1>2, <1>3

\* A call about a route of an uncontested slot finds no task there and no other
\* route known.
LEMMA UncontestedCall ==
  ASSUME NetlinkTypeOK, NEW k \in Key, HasTable(k), Contest(k), SlotOf(k) \notin contested'
  PROVE  /\ \A i \in Tasks : ~AtWork(i, SlotOf(k))
         /\ ToldOf(SlotOf(k)) \subseteq {k}
<1> DEFINE keys == told \cup {tasks[i].key : i \in {n \in Tasks : tasks[n] # Free}}
           busy == {j \in keys : HasTable(j) /\ HasTable(k) /\ SlotOf(j) = SlotOf(k)}
           same == {i \in Tasks : tasks[i] # Free /\ tasks[i].key = k}
<1>1. busy \ {k} = {} /\ same = {}
  BY DEF Contest
<1>2. ASSUME NEW i \in Tasks, AtWork(i, SlotOf(k)) PROVE FALSE
  <2>1. tasks[i].key \in busy
    BY <1>2 DEF AtWork
  <2>2. tasks[i].key = k
    BY <1>1, <2>1
  <2> QED
    BY <1>1, <1>2, <2>2 DEF AtWork
<1>3. ToldOf(SlotOf(k)) \subseteq busy
  BY DEF ToldOf
<1> QED
  BY <1>1, <1>2, <1>3

\* A call of the handler: the slot of its route passes to the new task.
LEMMA HandlerFollows ==
  ASSUME NetlinkTypeOK, NEW k \in Key, HandlerAdd(k) \/ HandlerRemove(k),
         NEW slot, slot \notin contested', SlotFollows(slot)
  PROVE  SlotFollows(slot)'
<1>1. PICK op \in {"add", "remove"} :
        /\ Spawn(op, k)
        /\ op = "add" => k \notin told /\ told' = told \cup {k}
        /\ op = "remove" => k \in told /\ told' = told \ {k}
  BY DEF HandlerAdd, HandlerRemove
<1>2. PICK i \in Tasks :
        tasks[i] = Free /\ tasks' = [tasks EXCEPT ![i] = [op |-> op, key |-> k, victim |-> {}]]
  BY <1>1 DEF Spawn
<1>3. /\ tasks'[i] = [op |-> op, key |-> k, victim |-> {}] /\ tasks'[i] # Free
      /\ \A j \in Tasks \ {i} : tasks'[j] = tasks[j]
      /\ kernel' = kernel /\ Contest(k)
  BY <1>1, <1>2 DEF Spawn, NetlinkTypeOK, Free
<1>4. InKernel(slot)' = InKernel(slot)
  BY <1>3 DEF InKernel, Slot
<1>5. ~AtWork(i, slot)
  BY <1>2 DEF AtWork
<1>6. CASE ~(HasTable(k) /\ SlotOf(k) = slot)
  <2>1. ToldOf(slot)' = ToldOf(slot)
    BY <1>1, <1>6 DEF ToldOf, HasTable, SlotOf
  <2>2. ~AtWork(i, slot)'
    BY <1>3, <1>6 DEF AtWork, HasTable, SlotOf
  <2>3. \A j \in Tasks : /\ AtWork(j, slot)' <=> AtWork(j, slot)
                         /\ AtWork(j, slot) => tasks'[j] = tasks[j]
    BY <1>3, <1>5, <2>2 DEF AtWork, HasTable, SlotOf
  <2> QED
    BY <1>4, <2>1, <2>3, SlotUntouched
<1>7. CASE HasTable(k) /\ SlotOf(k) = slot
  <2>1. (\A j \in Tasks : ~AtWork(j, slot)) /\ ToldOf(slot) \subseteq {k}
    BY <1>3, <1>7, UncontestedCall
  <2>2. InKernel(slot) = {Requested(j) : j \in ToldOf(slot)}
    BY <2>1 DEF SlotFollows
  <2>3. /\ op = "add" => ToldOf(slot) = {} /\ ToldOf(slot)' = {k}
        /\ op = "remove" => ToldOf(slot) = {k} /\ ToldOf(slot)' = {}
    BY <1>1, <1>7, <2>1 DEF ToldOf, HasTable, SlotOf
  <2>4. /\ op = "add" => InKernel(slot)' = {}
        /\ op = "remove" => InKernel(slot)' = {Requested(k)}
    BY <1>4, <2>2, <2>3
  <2>5. \A j \in Tasks : AtWork(j, slot)' <=> j = i
    BY <1>3, <1>7, <2>1 DEF AtWork, HasTable, SlotOf
  <2>6. TaskInCharge(i, slot)'
    BY <1>3, <2>3, <2>4, <2>5 DEF TaskInCharge, Requested
  <2> QED
    BY <2>5, <2>6 DEF SlotFollows
<1> QED
  BY <1>6, <1>7

\* The invariant behind KernelFollows.
KernelInv == SlotsFollow /\ VictimsAccounted /\ DeletesHaveTable /\ IdleUntilRunning

\* Only the end of the process takes a slot from the contested ones.
LEMMA ContestedGrows ==
  ASSUME [Next]_vars
  PROVE  contested \subseteq contested' \/ Stop
<1>1. ASSUME NEW e \in Entry, OthersAdd(e) \/ CleanupDelete(e) \/ CleanupFail(e)
      PROVE  contested \subseteq contested'
  BY <1>1 DEF OthersAdd, CleanupDelete, CleanupFail
<1>2. ASSUME NEW k \in Key, HandlerAdd(k) \/ HandlerRemove(k) PROVE contested \subseteq contested'
  BY <1>2 DEF HandlerAdd, HandlerRemove, Spawn, Contest
<1>3. ASSUME NEW i \in Tasks, NoTable(i) \/ AddRoute(i) \/ RemoveDelete(i) \/ TaskFails(i)
      PROVE  contested \subseteq contested'
  BY <1>3 DEF NoTable, AddRoute, RemoveDelete, TaskFails
<1>4. ASSUME NEW i \in Tasks, RemoveLookup(i) PROVE contested \subseteq contested'
  BY <1>4 DEF RemoveLookup
<1>5. CASE \/ Start \/ CleanupDone \/ UNCHANGED vars
           \/ \E v \in DOMAIN TableOf, f \in Family : CleanupDump(v, f)
  BY <1>5 DEF Start, CleanupDone, CleanupDump
<1> QED
  BY <1>1, <1>2, <1>3, <1>4, <1>5 DEF Next

\* A removal is about to delete the route of its slot, or one that it took for it.
LEMMA VictimsStep ==
  ASSUME NetlinkTypeOK, VictimsAccounted, [Next]_vars
  PROVE  VictimsAccounted'
<1> USE DEF VictimsAccounted
<1>0. ASSUME NEW i \in Tasks, contested \subseteq contested',
             tasks'[i] # Free => tasks'[i].key = tasks[i].key /\ tasks'[i].victim = tasks[i].victim,
             tasks'[i] # Free => tasks[i] # Free
      PROVE  tasks'[i] # Free => \A e \in tasks'[i].victim :
               (Slot(e) = SlotOf(tasks[i].key))' \/ (Slot(e) \in contested)'
  BY <1>0 DEF Slot, SlotOf
<1>1. ASSUME NEW i \in Tasks, tasks' = [tasks EXCEPT ![i] = Free], contested \subseteq contested'
      PROVE  VictimsAccounted'
  <2>1. tasks'[i] = Free /\ \A j \in Tasks \ {i} : tasks'[j] = tasks[j]
    BY <1>1 DEF NetlinkTypeOK
  <2> QED
    BY <1>0, <1>1, <2>1
<1>2. ASSUME NEW i \in Tasks, RemoveLookup(i) PROVE VictimsAccounted'
  <2>1. CASE Finish(i)
    BY <1>1, <1>2, <2>1, ContestedGrows DEF RemoveLookup, Finish
  <2>2. ASSUME NEW e \in Matching(tasks[i].key),
               tasks' = [tasks EXCEPT ![i].op = "delete", ![i].victim = {e}],
               contested' = contested \cup (IF Mistaken(e, tasks[i].key)
                                              THEN {Slot(e), SlotOf(tasks[i].key)} ELSE {})
        PROVE  VictimsAccounted'
    <3>1. /\ tasks[i] # Free /\ tasks[i] \in Task /\ tasks[i].key \in Key
          /\ HasTable(tasks[i].key)
      BY <1>2, TaskFields DEF RemoveLookup
    <3>2. Slot(e) = SlotOf(tasks[i].key) \/ Slot(e) \in contested'
      BY <2>2, <3>1, MatchingRoutes DEF Matching
    <3>3. tasks'[i].victim = {e} /\ tasks'[i].key = tasks[i].key
      BY <2>2, <3>1 DEF NetlinkTypeOK, Task
    <3>4. \A j \in Tasks \ {i} : tasks'[j] = tasks[j]
      BY <2>2 DEF NetlinkTypeOK
    <3>5. contested \subseteq contested'
      BY <2>2
    <3>6. \A f \in tasks'[i].victim : (Slot(f) = SlotOf(tasks[i].key))' \/ (Slot(f) \in contested)'
      BY <3>2, <3>3 DEF Slot, SlotOf
    <3> QED
      BY <1>0, <3>4, <3>5, <3>6
  <2> QED
    BY <1>2, <2>1, <2>2 DEF RemoveLookup
<1>3. ASSUME NEW i \in Tasks, NoTable(i) \/ AddRoute(i) \/ RemoveDelete(i) \/ TaskFails(i)
      PROVE  VictimsAccounted'
  <2>1. tasks' = [tasks EXCEPT ![i] = Free] /\ contested \subseteq contested'
    BY <1>3 DEF NoTable, AddRoute, RemoveDelete, TaskFails, Finish
  <2> QED
    BY <1>1, <2>1
<1>4. ASSUME NEW k \in Key, HandlerAdd(k) \/ HandlerRemove(k) PROVE VictimsAccounted'
  <2>1. PICK op \in {"add", "remove"} : Spawn(op, k)
    BY <1>4 DEF HandlerAdd, HandlerRemove
  <2>2. PICK i \in Tasks : tasks' = [tasks EXCEPT ![i] = [op |-> op, key |-> k, victim |-> {}]]
    BY <2>1 DEF Spawn
  <2>3. tasks'[i].victim = {} /\ \A j \in Tasks \ {i} : tasks'[j] = tasks[j]
    BY <2>2 DEF NetlinkTypeOK
  <2>4. contested \subseteq contested'
    BY <2>1 DEF Spawn, Contest
  <2> QED
    BY <1>0, <2>3, <2>4
<1>5. CASE Stop
  BY <1>5 DEF Stop
<1>6. ASSUME tasks' = tasks, contested \subseteq contested' PROVE VictimsAccounted'
  BY <1>0, <1>6
<1>7. ASSUME NEW e \in Entry, OthersAdd(e) \/ CleanupDelete(e) \/ CleanupFail(e)
      PROVE  VictimsAccounted'
  BY <1>6, <1>7 DEF OthersAdd, CleanupDelete, CleanupFail
<1>8. CASE \/ Start \/ CleanupDone \/ UNCHANGED vars
           \/ \E v \in DOMAIN TableOf, f \in Family : CleanupDump(v, f)
  BY <1>6, <1>8 DEF Start, CleanupDone, CleanupDump
<1> QED
  BY <1>2, <1>3, <1>4, <1>5, <1>7, <1>8 DEF Next

\* Tasks start when a route is received and delete what they have found.
LEMMA TasksStep ==
  ASSUME NetlinkTypeOK, DeletesHaveTable, IdleUntilRunning, [Next]_vars
  PROVE  DeletesHaveTable' /\ IdleUntilRunning'
<1> USE DEF DeletesHaveTable, IdleUntilRunning, HasTable
<1>1. ASSUME NEW i \in Tasks, RemoveLookup(i) PROVE DeletesHaveTable' /\ IdleUntilRunning'
  <2>1. /\ tasks[i] # Free /\ tasks[i] \in Task /\ HasTable(tasks[i].key)
        /\ phase' = phase /\ told' = told
    BY <1>1, TaskFields DEF RemoveLookup
  <2>2. CASE Finish(i)
    BY <2>1, <2>2 DEF Finish, NetlinkTypeOK
  <2>3. ASSUME NEW e, tasks' = [tasks EXCEPT ![i].op = "delete", ![i].victim = {e}]
        PROVE  DeletesHaveTable' /\ IdleUntilRunning'
    <3>1. tasks'[i].key = tasks[i].key /\ \A j \in Tasks \ {i} : tasks'[j] = tasks[j]
      BY <2>1, <2>3 DEF NetlinkTypeOK, Task
    <3> QED
      BY <2>1, <3>1
  <2> QED
    BY <1>1, <2>2, <2>3 DEF RemoveLookup
<1>2. ASSUME NEW i \in Tasks, NoTable(i) \/ AddRoute(i) \/ RemoveDelete(i) \/ TaskFails(i)
      PROVE  DeletesHaveTable' /\ IdleUntilRunning'
  BY <1>2 DEF NoTable, AddRoute, RemoveDelete, TaskFails, Finish, NetlinkTypeOK
<1>3. ASSUME NEW k \in Key, HandlerAdd(k) \/ HandlerRemove(k)
      PROVE  DeletesHaveTable' /\ IdleUntilRunning'
  <2>1. PICK op \in {"add", "remove"} : Spawn(op, k)
    BY <1>3 DEF HandlerAdd, HandlerRemove
  <2>2. PICK i \in Tasks : tasks' = [tasks EXCEPT ![i] = [op |-> op, key |-> k, victim |-> {}]]
    BY <2>1 DEF Spawn
  <2>3. tasks'[i].op = op /\ \A j \in Tasks \ {i} : tasks'[j] = tasks[j]
    BY <2>2 DEF NetlinkTypeOK
  <2> QED
    BY <2>1, <2>3 DEF Spawn
<1>4. CASE Stop
  BY <1>4 DEF Stop
<1>5. ASSUME NEW e \in Entry, OthersAdd(e) \/ CleanupDelete(e) \/ CleanupFail(e)
      PROVE  DeletesHaveTable' /\ IdleUntilRunning'
  BY <1>5 DEF OthersAdd, CleanupDelete, CleanupFail
<1>6. CASE \/ Start \/ CleanupDone \/ UNCHANGED vars
           \/ \E v \in DOMAIN TableOf, f \in Family : CleanupDump(v, f)
  BY <1>6 DEF Start, CleanupDone, CleanupDump
<1> QED
  BY <1>1, <1>2, <1>3, <1>4, <1>5, <1>6 DEF Next

\* Every step keeps the uncontested slots in step with the handler.
LEMMA SlotsStep ==
  ASSUME NetlinkTypeOK, NetlinkTypeOK', StaleAccounted, KernelInv, [Next]_vars
  PROVE  SlotsFollow'
<1> USE DEF KernelInv, SlotsFollow
<1>1. ASSUME NEW slot, InKernel(slot) \subseteq stale, NEW S, KernelDelete(S)
      PROVE  InKernel(slot)' \subseteq stale'
  BY <1>1 DEF KernelDelete, InKernel, Slot
<1>2. ASSUME NEW e \in Entry, OthersAdd(e) PROVE SlotsFollow'
  <2>1. /\ kernel' = kernel \cup {e} /\ contested' = contested \cup {Slot(e)}
        /\ phase' = phase /\ told' = told /\ tasks' = tasks /\ stale' = stale
    BY <1>2 DEF OthersAdd
  <2>2. ASSUME NEW slot, slot \notin contested'
        PROVE  InKernel(slot)' = InKernel(slot)
    BY <2>1, <2>2 DEF InKernel, Slot
  <2>3. ASSUME NEW slot, slot \notin contested', SlotFollows(slot)
        PROVE  SlotFollows(slot)'
    <3>1. \A i \in Tasks : AtWork(i, slot)' <=> AtWork(i, slot)
      BY <2>1 DEF AtWork, HasTable, SlotOf
    <3>2. ToldOf(slot)' = ToldOf(slot)
      BY <2>1 DEF ToldOf, HasTable, SlotOf
    <3> QED
      BY <2>1, <2>2, <2>3, <3>1, <3>2, SlotUntouched
  <2> QED
    BY <2>1, <2>2, <2>3
<1>3. ASSUME NEW e \in Entry, CleanupDelete(e) PROVE SlotsFollow'
  BY <1>1, <1>3 DEF CleanupDelete
<1>4. ASSUME NEW e \in Entry, CleanupFail(e) PROVE SlotsFollow'
  <2>1. /\ kernel' = kernel /\ contested' = contested \cup {Slot(e)} /\ stale' = stale \ {e}
        /\ phase # "running" /\ phase' # "running"
    BY <1>4 DEF CleanupFail
  <2>2. ASSUME NEW slot \in (Configured \X Kept) \ contested' PROVE InKernel(slot)' \subseteq stale'
    <3>1. InKernel(slot)' = InKernel(slot) /\ InKernel(slot) \subseteq stale /\ e \notin InKernel(slot)
      BY <2>1 DEF InKernel, Slot
    <3> QED
      BY <2>1, <3>1
  <2> QED
    BY <2>1, <2>2
<1>5. CASE Start \/ \E v \in DOMAIN TableOf, f \in Family : CleanupDump(v, f)
  <2>1. /\ kernel' = kernel /\ contested' = contested /\ stale' = stale
        /\ phase # "running" /\ phase' # "running"
    BY <1>5 DEF Start, CleanupDump
  <2> QED
    BY <2>1 DEF InKernel, Slot
<1>6. CASE CleanupDone
  <2>1. /\ phase # "running" /\ stale = {} /\ kernel' = kernel /\ contested' = contested
        /\ told' = {} /\ \A i \in Tasks : tasks'[i] = Free
    BY <1>6 DEF CleanupDone, StaleAccounted, IdleUntilRunning
  <2>2. ASSUME NEW slot \in (Configured \X Kept) \ contested'
        PROVE  SlotFollows(slot)'
    <3>1. InKernel(slot)' = {} /\ ToldOf(slot)' = {}
      BY <2>1 DEF InKernel, Slot, ToldOf
    <3>2. \A i \in Tasks : ~AtWork(i, slot)'
      BY <2>1 DEF AtWork
    <3> QED
      BY <3>1, <3>2 DEF SlotFollows
  <2> QED
    BY <1>6, <2>2 DEF CleanupDone
<1>7. CASE Stop
  <2>1. ASSUME NEW slot \in (Configured \X Kept) \ contested', NEW e \in InKernel(slot)'
        PROVE  e \in stale'
    <3>1. e \in kernel /\ Slot(e) = slot /\ e \in Entry
      BY <1>7, <2>1 DEF Stop, InKernel, Slot, NetlinkTypeOK
    <3>2. e.table \in Configured /\ e.proto # "other"
      BY <1>7, <3>1 DEF Stop, Slot
    <3>3. e.proto = "metalbond"
      BY <3>1, <3>2 DEF Entry
    <3> QED
      BY <1>7, <3>1, <3>2, <3>3 DEF Stop
  <2> QED
    BY <1>7, <2>1 DEF Stop
<1>8. ASSUME NEW k \in Key, HandlerAdd(k) \/ HandlerRemove(k) PROVE SlotsFollow'
  <2>1. phase = "running" /\ phase' = "running" /\ contested \subseteq contested'
    BY <1>8 DEF HandlerAdd, HandlerRemove, Spawn, Contest
  <2> QED
    BY <1>8, <2>1, HandlerFollows
<1>9. ASSUME NEW i \in Tasks,
             NoTable(i) \/ AddRoute(i) \/ RemoveLookup(i) \/ RemoveDelete(i) \/ TaskFails(i)
      PROVE  SlotsFollow'
  <2>1. tasks[i] # Free /\ phase' = phase /\ contested \subseteq contested'
    BY <1>9 DEF NoTable, AddRoute, RemoveLookup, RemoveDelete, TaskFails
  <2>2. phase = "running"
    BY <2>1 DEF IdleUntilRunning
  <2>3. ASSUME NEW slot, SlotFollows(slot), NoTable(i) PROVE SlotFollows(slot)'
    <3>1. InKernel(slot)' = InKernel(slot) /\ ~AtWork(i, slot)
      BY <2>3 DEF NoTable, InKernel, Slot, AtWork
    <3> QED
      BY <2>3, <3>1, OtherSlotsUntouched DEF NoTable, Finish
  <2>4. ASSUME NEW slot, slot \notin contested', SlotFollows(slot), TaskFails(i)
        PROVE  SlotFollows(slot)'
    <3>1. InKernel(slot)' = InKernel(slot) /\ ~AtWork(i, slot)
      BY <2>4 DEF TaskFails, InKernel, Slot, AtWork
    <3> QED
      BY <2>4, <3>1, OtherSlotsUntouched DEF TaskFails, Finish
  <2>5. ASSUME NEW slot, slot \notin contested', SlotFollows(slot) PROVE SlotFollows(slot)'
    BY <1>9, <2>1, <2>3, <2>4, <2>5, AddRouteFollows, RemoveLookupFollows, RemoveDeleteFollows
  <2> QED
    BY <2>1, <2>2, <2>5
<1>10. CASE UNCHANGED vars
  <2>1. ASSUME NEW slot
        PROVE  /\ InKernel(slot)' = InKernel(slot)
               /\ SlotFollows(slot) => SlotFollows(slot)'
    <3>1. InKernel(slot)' = InKernel(slot) /\ ToldOf(slot)' = ToldOf(slot)
      BY <1>10 DEF InKernel, Slot, ToldOf, HasTable, SlotOf
    <3>2. \A i \in Tasks : AtWork(i, slot)' <=> AtWork(i, slot)
      BY <1>10 DEF AtWork, HasTable, SlotOf
    <3> QED
      BY <1>10, <3>1, <3>2, SlotUntouched
  <2> QED
    BY <1>10, <2>1
<1> QED
  BY <1>2, <1>3, <1>4, <1>5, <1>6, <1>7, <1>8, <1>9, <1>10 DEF Next

\* In quiet moments the kernel has what was requested for the routes the handler
\* was told of, although tasks run in any order, requests fail, tables are taken
\* for one another and the process restarts: the damage of each stays in the slots
\* that KernelFollows excepts, those used by two at once, named by a request that
\* failed, or removed through a dump that shows them as another or not at all.
THEOREM KernelFollowsHandler == Spec => []KernelFollows
<1>1. Init => KernelInv
  BY DEF Init, KernelInv, SlotsFollow, VictimsAccounted, DeletesHaveTable, IdleUntilRunning, InKernel
<1>2. NetlinkTypeOK /\ NetlinkTypeOK' /\ StaleAccounted /\ KernelInv /\ [Next]_vars => KernelInv'
  BY SlotsStep, VictimsStep, TasksStep DEF KernelInv
<1>3. KernelInv => KernelFollows
  <2> SUFFICES ASSUME KernelInv, phase = "running", \A i \in Tasks : tasks[i] = Free,
                      NEW t \in Configured, NEW d \in Kept, <<t, d>> \notin contested
               PROVE  InKernel(<<t, d>>) = {Requested(k) : k \in ToldOf(<<t, d>>)}
    BY DEF KernelFollows, InKernel, ToldOf
  <2>1. SlotFollows(<<t, d>>)
    BY DEF KernelInv, SlotsFollow
  <2> QED
    BY <2>1 DEF SlotFollows, AtWork
<1> QED
  BY <1>1, <1>2, <1>3, NetlinkTypeCorrect, StaleInvariance, PTL DEF Spec
=============================================================================
