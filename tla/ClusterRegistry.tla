----------------------------- MODULE ClusterRegistry -----------------------------
(***************************************************************************)
(* What the master keeps in memory about its worker nodes, and what it     *)
(* does with it: grid/registry.py (capabilities, active tasks,             *)
(* quarantine), the counters of failed dispatches in grid/failure.py, and  *)
(* the choice of a node in grid/load_balancer.py.                          *)
(*                                                                         *)
(* The master serves requests on threads: a handler's database statement   *)
(* and its lock section are separate steps.  Registration tokens are       *)
(* revoked and issued in one lock section, and nothing reads them; they    *)
(* are left out.                                                           *)
(*                                                                         *)
(* The dispatcher (grid/dispatcher.py) and the routes are not in the       *)
(* repository: they are seen through the calls that the docstrings of      *)
(* failure.py and load_balancer.py expect of them.                         *)
(***************************************************************************)
EXTENDS Naturals, FiniteSets

CONSTANTS
  Nodes,             \* worker nodes, as numbers in the order of their ids
  Tasks,
  Dispatchers,       \* threads that dispatch tasks
  Offers,            \* the sets of capabilities that workers are started with
  Needs,             \* Needs[t]: the capabilities that task t requires, General by default
  THRESHOLD,         \* DISPATCH_FAILURE_THRESHOLD
  QUARANTINE,        \* QUARANTINE_MINUTES, in ticks of the clock
  MaxRestarts        \* bound: restarts of the master and of workers

General == {"general"}
NoTask == "none"

ASSUME RegistryAssumption ==
  /\ Nodes \subseteq Nat \ {0}
  /\ {THRESHOLD, QUARANTINE} \subseteq Nat \ {0}
  /\ MaxRestarts \in Nat
  /\ IsFiniteSet(Tasks) /\ DOMAIN Needs = Tasks /\ NoTask \notin Tasks

VARIABLES
  row,         \* node_registry: status, and whether the last heartbeat is recent
  active,      \* _active_tasks
  capable,     \* _node_capabilities, General where there is no entry
  quarantine,  \* _quarantine: ticks that are left
  failures,    \* _node_failure_counts, up to THRESHOLD
  dispatch,    \* where each dispatcher is, and its local variables
  handling,    \* requests and calls between their database statement and their lock
  worker,      \* the tasks a worker executes, and all that it ever had to report:
               \* the sets of tasks, the capabilities it was started with
  results,     \* results on their way: <<node, task>>
  restarts

registry == <<active, capable, quarantine>>
outside == <<worker, results, restarts>>
vars == <<row, active, capable, quarantine, failures, dispatch,
          handling, worker, results, restarts>>

Idle == [pc |-> "idle", task |-> NoTask, found |-> {}, node |-> 0]

DispatchState ==
  [pc : {"idle", "choose", "call", "count", "quarantine", "reset", "increment"},
   task : Tasks \cup {NoTask}, found : SUBSET (Nodes \X (0..Cardinality(Tasks))),
   node : Nodes \cup {0}]

TypeOK ==
  /\ row \in [Nodes -> [status : {"absent", "online", "offline"}, fresh : BOOLEAN]]
  /\ active \in [Nodes -> SUBSET Tasks]
  /\ capable \in [Nodes -> Offers \cup {General}]
  /\ quarantine \in [Nodes -> 0..QUARANTINE]
  /\ failures \in [Nodes -> 0..THRESHOLD]
  /\ dispatch \in [Dispatchers -> DispatchState]
  /\ worker \in [Nodes -> [tasks : SUBSET Tasks, told : SUBSET SUBSET Tasks,
                           offered : SUBSET Offers]]
  /\ results \subseteq Nodes \X Tasks

\* The workers are about to register.
Init ==
  /\ row = [n \in Nodes |-> [status |-> "absent", fresh |-> FALSE]]
  /\ active = [n \in Nodes |-> {}] /\ capable = [n \in Nodes |-> General]
  /\ quarantine = [n \in Nodes |-> 0]
  /\ failures = [n \in Nodes |-> 0]
  /\ dispatch = [d \in Dispatchers |-> Idle]
  /\ handling = {}
  /\ worker \in [Nodes -> [tasks : {{}}, told : {{{}}}, offered : {{o} : o \in Offers}]]
  /\ results = {}
  /\ restarts = 0

--------------------------------------------------------------------------------
\* grid/registry.py: registration and heartbeats

\* A worker repeats what gets no answer (grid/client.py): whatever it once had to
\* report may arrive at any time, any number of times, or never.

\* register_node(), under the lock from the first line to the last.
Register(n, offers) ==
  /\ offers \in worker[n].offered
  /\ row' = [row EXCEPT ![n].status = "online"]
  /\ capable' = [capable EXCEPT ![n] = IF offers = {} THEN General ELSE offers]
  /\ UNCHANGED <<active, quarantine, failures, dispatch, handling, outside>>

\* The capabilities and a quarantine stay.
Unregister(n) ==
  /\ row[n].status # "absent"
  /\ row' = [row EXCEPT ![n].status = "offline"]
  /\ active' = [active EXCEPT ![n] = {}]
  /\ UNCHANGED <<capable, quarantine, failures, dispatch, handling, outside>>

\* record_heartbeat(): the row; an unknown node is told to register.
ReceiveHeartbeat(n, tasks) ==
  /\ tasks \in worker[n].told /\ row[n].status # "absent"
  /\ row' = [row EXCEPT ![n] = [status |-> "online", fresh |-> TRUE]]
  /\ handling' = handling \cup {<<n, "heartbeat", tasks>>}
  /\ UNCHANGED <<registry, failures, dispatch, outside>>

\* Mutant: the tasks reported are added to the list.
MergesTasks(n, tasks) ==
  /\ <<n, "heartbeat", tasks>> \in handling
  /\ handling' = handling \ {<<n, "heartbeat", tasks>>}
  /\ active' = [active EXCEPT ![n] = @ \cup tasks]
  /\ UNCHANGED <<row, capable, quarantine, failures, dispatch, outside>>

\* record_heartbeat(): the list, under the lock.
StoreTasks(n, tasks) ==
  /\ <<n, "heartbeat", tasks>> \in handling
  /\ handling' = handling \ {<<n, "heartbeat", tasks>>}
  /\ active' = [active EXCEPT ![n] = tasks]
  /\ UNCHANGED <<row, capable, quarantine, failures, dispatch, outside>>

\* mark_offline(), which the failure manager calls for what it read about the node
\* before: the row, and later the list.
MarkOffline(n) ==
  /\ row[n].status # "absent"
  /\ row' = [row EXCEPT ![n].status = "offline"]
  /\ handling' = handling \cup {<<n, "offline", {}>>}
  /\ UNCHANGED <<registry, failures, dispatch, outside>>

ClearTasks(n) ==
  /\ <<n, "offline", {}>> \in handling
  /\ handling' = handling \ {<<n, "offline", {}>>}
  /\ active' = [active EXCEPT ![n] = {}]
  /\ UNCHANGED <<row, capable, quarantine, failures, dispatch, outside>>

--------------------------------------------------------------------------------
\* grid/load_balancer.py

\* Mutant: a node that lists no capability is taken for one that can do anything.
SatisfiesUnlisted(n, t) == capable[n] = General \/ Needs[t] \subseteq capable[n]

Satisfies(n, t) == Needs[t] \subseteq capable[n]

\* Mutant: a quarantine counts until its first tick.
FreeEarly(n) == quarantine[n] < QUARANTINE

\* is_quarantined() and _get_active_quarantine(), at the time of the call.
Free(n) == quarantine[n] = 0

\* What get_cluster_snapshot() reads first: rows, loads and quarantines.
Listed ==
  {<<n, Cardinality(active[n])>> :
     n \in {m \in Nodes : row[m].status = "online" /\ Free(m)}}

\* What is read for each node after that: its health, capabilities and quarantine.
Eligible(n, t) == row[n] = [status |-> "online", fresh |-> TRUE] /\ Satisfies(n, t) /\ Free(n)

Becomes(d, state) == dispatch' = [dispatch EXCEPT ![d] = state]
GoTo(d, l) == Becomes(d, [dispatch[d] EXCEPT !.pc = l])

TakeSnapshot(d, t) ==
  /\ dispatch[d] = Idle /\ Listed # {}
  /\ Becomes(d, [Idle EXCEPT !.pc = "choose", !.task = t, !.found = Listed])
  /\ UNCHANGED <<row, registry, failures, handling, outside>>

\* By load, then by id.
Before(f, g) == f[2] < g[2] \/ (f[2] = g[2] /\ f[1] <= g[1])

ChooseNode(d) ==
  LET candidates == {f \in dispatch[d].found : Eligible(f[1], dispatch[d].task)}
  IN /\ dispatch[d].pc = "choose"
     /\ IF candidates = {} THEN Becomes(d, Idle)
        ELSE \E f \in candidates :
               /\ \A g \in candidates : Before(f, g)
               /\ Becomes(d, [dispatch[d] EXCEPT !.pc = "call", !.found = {}, !.node = f[1]])
     /\ UNCHANGED <<row, registry, failures, handling, outside>>

--------------------------------------------------------------------------------
\* The dispatcher's call of a worker, and the counters of grid/failure.py

Executes(n, tasks) ==
  worker' = [worker EXCEPT ![n].tasks = tasks, ![n].told = @ \cup {tasks}]

Hands(d) ==
  LET n == dispatch[d].node IN Executes(n, worker[n].tasks \cup {dispatch[d].task})

WorkerAccepts(d) ==
  /\ dispatch[d].pc = "call"
  /\ Hands(d)
  /\ GoTo(d, "reset")
  /\ UNCHANGED <<row, registry, failures, handling, results, restarts>>

\* The worker may have got the task all the same.
WorkerFails(d) ==
  /\ dispatch[d].pc = "call"
  /\ Hands(d) \/ UNCHANGED worker
  /\ GoTo(d, "count")
  /\ UNCHANGED <<row, registry, failures, handling, results, restarts>>

\* handle_dispatch_failure(): the counter, under its lock.
CountFailure(d) ==
  LET n == dispatch[d].node
  IN /\ dispatch[d].pc = "count"
     /\ failures' = [failures EXCEPT ![n] = IF @ < THRESHOLD THEN @ + 1 ELSE @]
     /\ IF failures'[n] >= THRESHOLD THEN GoTo(d, "quarantine") ELSE Becomes(d, Idle)
     /\ UNCHANGED <<row, registry, handling, outside>>

\* Mutant: a quarantine is added to the one that is left.
AddsQuarantine(d) ==
  /\ dispatch[d].pc = "quarantine"
  /\ quarantine' = [quarantine EXCEPT ![dispatch[d].node] = @ + QUARANTINE]
  /\ Becomes(d, Idle)
  /\ UNCHANGED <<row, active, capable, failures, handling, outside>>

\* quarantine_node(), whatever happened to the counter since: from now on again.
Quarantine(d) ==
  /\ dispatch[d].pc = "quarantine"
  /\ quarantine' = [quarantine EXCEPT ![dispatch[d].node] = QUARANTINE]
  /\ Becomes(d, Idle)
  /\ UNCHANGED <<row, active, capable, failures, handling, outside>>

LiftQuarantine(n) ==
  /\ quarantine[n] > 0
  /\ quarantine' = [quarantine EXCEPT ![n] = 0]
  /\ UNCHANGED <<row, active, capable, failures, dispatch, handling, outside>>

ResetFailures(d) ==
  /\ dispatch[d].pc = "reset"
  /\ failures' = [failures EXCEPT ![dispatch[d].node] = 0]
  /\ GoTo(d, "increment")
  /\ UNCHANGED <<row, registry, handling, outside>>

IncrementActive(d) ==
  /\ dispatch[d].pc = "increment"
  /\ active' = [active EXCEPT ![dispatch[d].node] = @ \cup {dispatch[d].task}]
  /\ Becomes(d, Idle)
  /\ UNCHANGED <<row, capable, quarantine, failures, handling, outside>>

DecrementActive(n, t) ==
  /\ <<n, t>> \in results
  /\ results' = results \ {<<n, t>>}
  /\ active' = [active EXCEPT ![n] = @ \ {t}]
  /\ UNCHANGED <<row, capable, quarantine, failures, dispatch,
                 handling, worker, restarts>>

--------------------------------------------------------------------------------
\* Workers, time and restarts

FinishTask(n, t) ==
  /\ t \in worker[n].tasks
  /\ Executes(n, worker[n].tasks \ {t})
  /\ results' = results \cup {<<n, t>>}
  /\ UNCHANGED <<row, registry, failures, dispatch, handling, restarts>>

\* The worker comes back with other capabilities; what it had sent is on its way.
RestartWorker(n, offers) ==
  /\ restarts < MaxRestarts /\ restarts' = restarts + 1
  /\ worker' = [worker EXCEPT ![n].tasks = {}, ![n].offered = @ \cup {offers}]
  /\ UNCHANGED <<row, registry, failures, dispatch, handling, results>>

\* The tables stay; what was in memory is gone.
RestartMaster ==
  /\ restarts < MaxRestarts /\ restarts' = restarts + 1
  /\ active' = [n \in Nodes |-> {}] /\ capable' = [n \in Nodes |-> General]
  /\ quarantine' = [n \in Nodes |-> 0]
  /\ failures' = [n \in Nodes |-> 0]
  /\ dispatch' = [d \in Dispatchers |-> Idle]
  /\ handling' = {}
  /\ UNCHANGED <<row, worker, results>>

GrowSilent(n) ==
  /\ row[n].fresh
  /\ row' = [row EXCEPT ![n].fresh = FALSE]
  /\ UNCHANGED <<registry, failures, dispatch, handling, outside>>

\* An expired entry is removed when it is looked at, which nobody can tell.
Tick ==
  /\ \E n \in Nodes : quarantine[n] > 0
  /\ quarantine' = [n \in Nodes |-> IF quarantine[n] > 0 THEN quarantine[n] - 1 ELSE 0]
  /\ UNCHANGED <<row, active, capable, failures, dispatch,
                 handling, outside>>

--------------------------------------------------------------------------------

DispatchStep(d) == \/ \E t \in Tasks : TakeSnapshot(d, t)
                   \/ ChooseNode(d) \/ WorkerAccepts(d) \/ WorkerFails(d)
                   \/ CountFailure(d) \/ Quarantine(d)
                   \/ ResetFailures(d) \/ IncrementActive(d)

Next ==
  \/ \E n \in Nodes :
       \/ \E offers \in Offers : Register(n, offers) \/ RestartWorker(n, offers)
       \/ \E tasks \in SUBSET Tasks : ReceiveHeartbeat(n, tasks) \/ StoreTasks(n, tasks)
       \/ Unregister(n) \/ MarkOffline(n) \/ ClearTasks(n) \/ GrowSilent(n) \/ LiftQuarantine(n)
       \/ \E t \in Tasks : FinishTask(n, t) \/ DecrementActive(n, t)
  \/ \E d \in Dispatchers : DispatchStep(d)
  \/ RestartMaster
  \/ Tick

Spec == Init /\ [][Next]_vars

\* Time passes, a server thread goes on, and the network does not lose every
\* heartbeat that a worker's sender loop sends.
FairSpec ==
  /\ Spec
  /\ WF_vars(Tick)
  /\ \A n \in Nodes :
       /\ SF_vars(ReceiveHeartbeat(n, worker[n].tasks))
       /\ \A tasks \in SUBSET Tasks : WF_vars(StoreTasks(n, tasks))

--------------------------------------------------------------------------------
\* Properties

\* Some registration of n stands for what t requires.
EverOffered(n, t) == Needs[t] \subseteq General \/ \E o \in worker[n].offered : Needs[t] \subseteq o

\* No worker gets a task that it never offered to do, whatever was registered, unregistered
\* or restarted since the dispatcher looked (load_balancer.py, "Node must satisfy ALL
\* required task capabilities").  What it offers by then may be another matter.
NeedsWereOffered == \A n \in Nodes : \A t \in UNION worker[n].told : EverOffered(n, t)

\* Every quarantine ends: only calls that were under way can prolong it
\* (quarantine_node, "expires automatically").
QuarantineEnds == \A n \in Nodes : []<>(quarantine[n] = 0)

\* The list of a node's active tasks becomes right again and again once the node's
\* work stays the same, whatever heartbeats, results and dispatches overtook each other
\* ("refreshes active task list").
LoadIsSeen ==
  \A n \in Nodes, tasks \in SUBSET Tasks :
    <>[](worker[n].tasks = tasks /\ row[n].status # "absent") => []<>(active[n] = tasks)
================================================================================
