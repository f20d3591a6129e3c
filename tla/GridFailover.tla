------------------------------- MODULE GridFailover -------------------------------
(***************************************************************************)
(* What the master does about nodes that fall silent: heartbeat_monitor.py *)
(* classifies the nodes and acts on transitions, registry.py keeps their   *)
(* status, and failure.py takes the tasks of an offline node, or those     *)
(* that timed out, back to "planned" or gives them up.                     *)
(*                                                                         *)
(* Three kinds of threads run it and interleave between database calls and *)
(* lock-protected updates: monitors in check_all_nodes(), requests in      *)
(* record_heartbeat_from_request(), and sweepers in                        *)
(* handle_timed_out_tasks().  Database errors are swallowed everywhere, and *)
(* each place goes on in its own way.                                      *)
(*                                                                         *)
(* The dispatcher (grid/dispatcher.py) is not in the repository: it is     *)
(* seen through what load_balancer.py offers it and through the rows that  *)
(* failure.py reads.  Time is the age of a node's last heartbeat.          *)
(***************************************************************************)
EXTENDS Naturals, FiniteSets

CONSTANTS
  Nodes, Tasks,
  Monitors,          \* threads in the monitor loop: two when a stop timed out
  Sweepers,          \* threads that call handle_timed_out_tasks()
  MaxReassignments,  \* MAX_REASSIGNMENTS
  Regimes            \* the surroundings to be considered, one for each behaviour

NoNode == "none"
NoTask == "none"
Handlers == Monitors \cup Sweepers

ASSUME FailoverAssumption ==
  /\ NoNode \notin Nodes /\ NoTask \notin Tasks
  /\ Monitors \cap Sweepers = {} /\ IsFiniteSet(Handlers) /\ Handlers # {}
  /\ MaxReassignments \in Nat
  /\ Regimes \subseteq
       [huggingface : SUBSET Nodes, \* the nodes there, with the larger stale threshold
        prompt : BOOLEAN,      \* does the dispatcher choose and assign in one step?
        paced : BOOLEAN,       \* is every node checked between two changes it undergoes?
        late : BOOLEAN,        \* are there dispatches older than DISPATCH_TIMEOUT_SECONDS?
        faults : Nat,          \* bound: swallowed database errors
        restarts : Nat,        \* bound: restarts of the master
        departures : Nat]      \* bound: deaths and deregistrations of nodes

VARIABLES
  regime,    \* the surroundings of this behaviour, which never change
  task,      \* tasks: status and assigned_node_id
  notes,     \* notes[t]: agent_notes of t with the role "reassignment"
  node,      \* node_registry: status and age of last_heartbeat; is the node alive?
  cache,     \* _last_classification, in memory
  handler,   \* where each monitor and sweeper is, and its local variables
  request,   \* the heartbeat request of each node, on the master
  choice,    \* what the dispatcher has chosen and not yet assigned
  checked,   \* history: nodes classified since they last changed
  resets,    \* history: times t was put back to "planned"
  abandonments, \* history: times t was given up
  faults, restarts, departures

table == <<task, notes>>
history == <<checked, resets, abandonments>>
bounds == <<regime, faults, restarts, departures>>
vars == <<regime, task, notes, node, cache, handler, request, choice,
          checked, resets, abandonments, faults, restarts, departures>>

Health == {"unknown", "online", "stale", "offline"}
Sleeping == [pc |-> "sleep", left |-> {}, node |-> NoNode, health |-> "unknown",
             todo |-> {}, task |-> NoTask, count |-> 0]
Reassigning == {"next", "count", "reset", "note"}
HandlerState ==
  [pc : {"sleep", "check", "swap", "recover", "mark", "list"} \cup Reassigning,
   left : SUBSET Nodes, node : Nodes \cup {NoNode}, health : Health,
   todo : SUBSET Tasks, task : Tasks \cup {NoTask}, count : Nat]

TypeOK ==
  /\ regime \in Regimes
  /\ task \in [Tasks -> [status : {"planned", "dispatched_to_node",
                                   "completed", "abandoned"},
                         node : Nodes \cup {NoNode}]]
  /\ notes \in [Tasks -> Nat]
  /\ node \in [Nodes -> [status : {"online", "offline"},
                         age : {"fresh", "stale", "old"}, up : BOOLEAN]]
  /\ cache \in [Nodes -> Health]
  /\ handler \in [Handlers -> HandlerState]
  /\ request \in [Nodes -> {"none", "read", "classify", "store", "online"}]
  /\ choice \subseteq Tasks \X Nodes
  /\ checked \subseteq Nodes
  /\ resets \in [Tasks -> Nat] /\ abandonments \in [Tasks -> Nat]
  /\ faults \in Nat /\ restarts \in Nat /\ departures \in Nat

\* The nodes have registered and not yet sent a heartbeat: no last_heartbeat
\* counts as an old one.
Init ==
  /\ regime \in Regimes
  /\ task = [t \in Tasks |-> [status |-> "planned", node |-> NoNode]]
  /\ notes = [t \in Tasks |-> 0]
  /\ node = [n \in Nodes |-> [status |-> "online", age |-> "old", up |-> TRUE]]
  /\ cache = [n \in Nodes |-> "unknown"]
  /\ handler = [h \in Handlers |-> Sleeping]
  /\ request = [n \in Nodes |-> "none"]
  /\ choice = {}
  /\ checked = {}
  /\ resets = [t \in Tasks |-> 0] /\ abandonments = [t \in Tasks |-> 0]
  /\ faults = 0 /\ restarts = 0 /\ departures = 0

--------------------------------------------------------------------------------
\* registry.py

\* The status read first: a node marked offline is offline however fresh.
\* 180 s for "stale" on Hugging Face is more than the 120 s for "offline".
Classify(n) ==
  IF node[n].status = "offline" \/ node[n].age = "old" THEN "offline"
  ELSE IF node[n].age = "stale" /\ n \notin regime.huggingface THEN "stale"
  ELSE "online"

SetStatus(n, s) == node' = [node EXCEPT ![n].status = s]

At(h, l) == handler[h].pc = l
Becomes(h, state) == handler' = [handler EXCEPT ![h] = state]
GoTo(h, l) == Becomes(h, [handler[h] EXCEPT !.pc = l])

Register(n) ==
  /\ node[n].up /\ node[n].status = "offline"
  /\ SetStatus(n, "online")
  /\ checked' = checked \ {n}
  /\ UNCHANGED <<table, cache, handler, request, choice, resets, abandonments, bounds>>

\* Checks come every 30 s, a request takes less than the 60 s of a step of age, and
\* a node that leaves has been there for longer.
PaceKept(n) ==
  regime.paced => n \in checked /\ request[n] = "none" /\ \A m \in Monitors : handler[m].node # n

Unregister(n) ==
  /\ departures < regime.departures /\ node[n].status = "online" /\ PaceKept(n)
  /\ SetStatus(n, "offline")
  /\ checked' = checked \ {n}
  /\ departures' = departures + 1
  /\ UNCHANGED <<table, cache, handler, request, choice, resets, abandonments,
                 regime, faults, restarts>>

--------------------------------------------------------------------------------
\* heartbeat_monitor.check_all_nodes(), in the monitor's loop

BeginCheck(m) ==
  /\ At(m, "sleep") /\ m \in Monitors
  /\ Becomes(m, [Sleeping EXCEPT !.pc = "check", !.left = Nodes])
  /\ UNCHANGED <<table, node, cache, request, choice, history, bounds>>

\* The order of the names, which the model leaves open.
ClassifyNode(m) ==
  /\ At(m, "check")
  /\ \E n \in handler[m].left :
       /\ Becomes(m, [handler[m] EXCEPT !.pc = "swap", !.left = @ \ {n},
                                        !.node = n, !.health = Classify(n)])
       /\ checked' = checked \cup {n}
  /\ UNCHANGED <<table, node, cache, request, choice, resets, abandonments, bounds>>

EndCheck(m) ==
  /\ At(m, "check") /\ handler[m].left = {}
  /\ Becomes(m, Sleeping)
  /\ UNCHANGED <<table, node, cache, request, choice, history, bounds>>

\* Mutant: only online nodes go offline.
ForgetsStale(previous, health) ==
  IF previous = health THEN "check"
  ELSE IF health = "online" THEN "recover"
  ELSE IF health = "offline" /\ previous = "online" THEN "mark"
  ELSE "check"

\* _handle_transition(): what a change of classification leads to.
Reaction(previous, health) ==
  IF previous = health THEN "check"
  ELSE IF health = "online" THEN "recover"
  ELSE IF health = "offline" THEN "mark"
  ELSE "check"

\* The exchange under the lock, with the health that was read before it.
SwapClassification(m) ==
  /\ At(m, "swap")
  /\ cache' = [cache EXCEPT ![handler[m].node] = handler[m].health]
  /\ GoTo(m, Reaction(cache[handler[m].node], handler[m].health))
  /\ UNCHANGED <<table, node, request, choice, history, bounds>>

SetRecovered(m) ==
  /\ At(m, "recover")
  /\ SetStatus(handler[m].node, "online")
  /\ GoTo(m, "check")
  /\ UNCHANGED <<table, cache, request, choice, history, bounds>>

--------------------------------------------------------------------------------
\* failure.handle_offline_node(), handle_timed_out_tasks(), reassign_task()

MarkOffline(m) ==
  /\ At(m, "mark")
  /\ SetStatus(handler[m].node, "offline")
  /\ GoTo(m, "list")
  /\ UNCHANGED <<table, cache, request, choice, history, bounds>>

Dispatched == {t \in Tasks : task[t].status = "dispatched_to_node"}

ListTasks(m) ==
  /\ At(m, "list")
  /\ Becomes(m, [handler[m] EXCEPT !.pc = "next",
                   !.todo = {t \in Dispatched : task[t].node = handler[m].node}])
  /\ UNCHANGED <<table, node, cache, request, choice, history, bounds>>

\* Some of the dispatched tasks are older than DISPATCH_TIMEOUT_SECONDS.
ListTimedOut(s) ==
  /\ At(s, "sleep") /\ s \in Sweepers /\ regime.late
  /\ \E late \in SUBSET Dispatched \ {{}} :
       Becomes(s, [Sleeping EXCEPT !.pc = "next", !.todo = late])
  /\ UNCHANGED <<table, node, cache, request, choice, history, bounds>>

NextTask(h) ==
  /\ At(h, "next")
  /\ IF handler[h].todo = {}
     THEN IF h \in Monitors THEN GoTo(h, "check") ELSE Becomes(h, Sleeping)
     ELSE \E t \in handler[h].todo :
            Becomes(h, [handler[h] EXCEPT !.pc = "count", !.task = t, !.todo = @ \ {t}])
  /\ UNCHANGED <<table, node, cache, request, choice, history, bounds>>

CountNotes(h) ==
  /\ At(h, "count")
  /\ Becomes(h, [handler[h] EXCEPT !.pc = "reset", !.count = notes[handler[h].task]])
  /\ UNCHANGED <<table, node, cache, request, choice, history, bounds>>

\* Mutant: one reassignment more.
LimitPassed(count) == count > MaxReassignments

\* Mutant: one reassignment less.
LimitNear(count) == count + 1 >= MaxReassignments

LimitReached(count) == count >= MaxReassignments

\* Mutant: a task at its limit is put back with a status nobody knows.
GivesUpAs(t) == [status |-> "unreachable", node |-> task[t].node]

GivenUp(t) == [status |-> "abandoned", node |-> NoNode]

\* Whatever the task's status is by now.
Reset(h) ==
  LET t == handler[h].task
  IN /\ At(h, "reset")
     /\ IF LimitReached(handler[h].count)
        THEN /\ task' = [task EXCEPT ![t] = GivenUp(t)]
             /\ abandonments' = [abandonments EXCEPT ![t] = @ + 1]
             /\ UNCHANGED resets
        ELSE /\ task' = [task EXCEPT ![t] = [status |-> "planned", node |-> NoNode]]
             /\ resets' = [resets EXCEPT ![t] = @ + 1]
             /\ UNCHANGED abandonments
     /\ GoTo(h, "note")
     /\ UNCHANGED <<notes, node, cache, request, choice, checked, bounds>>

\* Either note has the role that the next reassign_task() counts.
InsertNote(h) ==
  /\ At(h, "note")
  /\ notes' = [notes EXCEPT ![handler[h].task] = @ + 1]
  /\ GoTo(h, "next")
  /\ UNCHANGED <<task, node, cache, request, choice, history, bounds>>

--------------------------------------------------------------------------------
\* heartbeat_monitor.record_heartbeat_from_request()

\* Mutant: a heartbeat leaves the status alone.
OnlyRefreshes(n) ==
  /\ node[n].up /\ request[n] = "none"
  /\ node' = [node EXCEPT ![n].age = "fresh"]
  /\ checked' = checked \ {n}
  /\ request' = [request EXCEPT ![n] = "read"]
  /\ UNCHANGED <<table, cache, handler, choice, resets, abandonments, bounds>>

ReceiveHeartbeat(n) ==
  /\ node[n].up /\ request[n] = "none"
  /\ node' = [node EXCEPT ![n].status = "online", ![n].age = "fresh"]
  /\ checked' = checked \ {n}
  /\ request' = [request EXCEPT ![n] = "read"]
  /\ UNCHANGED <<table, cache, handler, choice, resets, abandonments, bounds>>

Proceed(n, here, l) == request[n] = here /\ request' = [request EXCEPT ![n] = l]

ReadPrevious(n) ==
  /\ Proceed(n, "read", IF cache[n] \in {"stale", "offline"} THEN "classify" ELSE "none")
  /\ UNCHANGED <<table, node, cache, handler, choice, history, bounds>>

ClassifyAgain(n) ==
  /\ Proceed(n, "classify", IF Classify(n) = "online" THEN "store" ELSE "none")
  /\ UNCHANGED <<table, node, cache, handler, choice, history, bounds>>

StoreOnline(n) ==
  /\ Proceed(n, "store", "online")
  /\ cache' = [cache EXCEPT ![n] = "online"]
  /\ UNCHANGED <<table, node, handler, choice, history, bounds>>

SetOnline(n) ==
  /\ Proceed(n, "online", "none")
  /\ SetStatus(n, "online")
  /\ checked' = checked \ {n}
  /\ UNCHANGED <<table, cache, handler, choice, resets, abandonments, bounds>>

--------------------------------------------------------------------------------
\* Database errors, each with the way its handler goes on

Fault == faults < regime.faults /\ faults' = faults + 1 /\ UNCHANGED <<regime, restarts, departures>>

SwallowedError(h) ==
  /\ \/ At(h, "check") /\ \E n \in handler[h].left :
          Becomes(h, [handler[h] EXCEPT !.pc = "swap", !.left = @ \ {n},
                                        !.node = n, !.health = "unknown"])
     \/ At(h, "recover") /\ GoTo(h, "check")
     \/ At(h, "mark") /\ GoTo(h, "list")
     \/ At(h, "list") /\ GoTo(h, "next")
     \/ At(h, "count") /\ Becomes(h, [handler[h] EXCEPT !.pc = "reset", !.count = 0])
     \/ handler[h].pc \in {"count", "reset", "note"} /\ GoTo(h, "next")
  /\ Fault
  /\ UNCHANGED <<table, node, cache, request, choice, history>>

RequestError(n) ==
  /\ \/ node[n].up /\ Proceed(n, "none", "read")
     \/ Proceed(n, "classify", "none")
     \/ Proceed(n, "online", "none")
  /\ Fault
  /\ UNCHANGED <<table, node, cache, handler, choice, history>>

--------------------------------------------------------------------------------
\* The environment: the dispatcher, the workers, time and restarts

Eligible == {n \in Nodes : Classify(n) = "online"}

Choose(t, n) ==
  /\ task[t].status = "planned" /\ n \in Eligible /\ choice = {}
  /\ IF regime.prompt
     THEN /\ task' = [task EXCEPT ![t] = [status |-> "dispatched_to_node", node |-> n]]
          /\ UNCHANGED choice
     ELSE /\ choice' = {<<t, n>>}
          /\ UNCHANGED task
  /\ UNCHANGED <<notes, node, cache, handler, request, history, bounds>>

Assign ==
  /\ \E t \in Tasks, n \in Nodes :
       /\ <<t, n>> \in choice
       /\ task' = [task EXCEPT ![t] = [status |-> "dispatched_to_node", node |-> n]]
  /\ choice' = {}
  /\ UNCHANGED <<notes, node, cache, handler, request, history, bounds>>

\* A result came in: completed, as in grid_master.record_success().
ReportResult(t) ==
  /\ task[t].status = "dispatched_to_node" /\ node[task[t].node].up
  /\ task' = [task EXCEPT ![t].status = "completed"]
  /\ UNCHANGED <<notes, node, cache, handler, request, choice, history, bounds>>

Die(n) ==
  /\ departures < regime.departures /\ node[n].up
  /\ node' = [node EXCEPT ![n].up = FALSE]
  /\ departures' = departures + 1
  /\ UNCHANGED <<table, cache, handler, request, choice, history, regime, faults, restarts>>

Revive(n) ==
  /\ ~node[n].up
  /\ node' = [node EXCEPT ![n].up = TRUE]
  /\ UNCHANGED <<table, cache, handler, request, choice, history, bounds>>

GrowOlder(n) ==
  /\ node[n].age # "old" /\ PaceKept(n)
  /\ node' = [node EXCEPT ![n].age = IF @ = "fresh" THEN "stale" ELSE "old"]
  /\ checked' = checked \ {n}
  /\ UNCHANGED <<table, cache, handler, request, choice, resets, abandonments, bounds>>

\* The tables stay; what was in memory is gone.
Restart ==
  /\ restarts < regime.restarts
  /\ restarts' = restarts + 1
  /\ cache' = [n \in Nodes |-> "unknown"]
  /\ handler' = [h \in Handlers |-> Sleeping]
  /\ request' = [n \in Nodes |-> "none"]
  /\ choice' = {}
  /\ UNCHANGED <<table, node, history, regime, faults, departures>>

--------------------------------------------------------------------------------

MonitorStep(m) == \/ BeginCheck(m) \/ ClassifyNode(m) \/ EndCheck(m)
                  \/ SwapClassification(m) \/ SetRecovered(m)
                  \/ MarkOffline(m) \/ ListTasks(m)

ReassignStep(h) == NextTask(h) \/ CountNotes(h) \/ Reset(h) \/ InsertNote(h)

RequestStep(n) == ReadPrevious(n) \/ ClassifyAgain(n) \/ StoreOnline(n) \/ SetOnline(n)

Next ==
  \/ \E h \in Handlers : \/ MonitorStep(h) \/ ListTimedOut(h)
                         \/ ReassignStep(h) \/ SwallowedError(h)
  \/ \E n \in Nodes : \/ ReceiveHeartbeat(n) \/ RequestStep(n) \/ RequestError(n)
                      \/ Register(n) \/ Unregister(n)
                      \/ Die(n) \/ Revive(n) \/ GrowOlder(n)
  \/ \E t \in Tasks : ReportResult(t) \/ \E n \in Nodes : Choose(t, n)
  \/ Assign
  \/ Restart

Spec == Init /\ [][Next]_vars

\* Threads run and time passes; a live node's sender loops.  This is what keeping pace
\* means for the steps that have to come; nothing is assumed in other surroundings.
FairSpec ==
  /\ Spec
  /\ \A h \in Handlers : WF_vars(regime.paced /\ (MonitorStep(h) \/ ReassignStep(h)))
  /\ \A n \in Nodes : /\ WF_vars(regime.paced /\ RequestStep(n))
                      /\ WF_vars(regime.paced /\ ReceiveHeartbeat(n))
                      /\ SF_vars(regime.paced /\ ~node[n].up /\ GrowOlder(n))

--------------------------------------------------------------------------------
\* Properties

Lost == faults + restarts * Cardinality(Handlers)

\* The limit on reassignments holds up to the handlers that counted the notes
\* before the others had written theirs, and up to notes that were lost.
ReassignmentsBounded ==
  \A t \in Tasks : resets[t] <= MaxReassignments + Cardinality(Handlers) - 1 + Lost

\* No task is given up that was not put back MAX_REASSIGNMENTS times before, however
\* many handlers, and notes of abandonments, there were.
AbandonedOnlyAfterMax ==
  \A t \in Tasks : abandonments[t] > 0 => resets[t] >= MaxReassignments

\* When a node dies its tasks are taken from it, unless it comes back.
NodeDeathReleases ==
  \A t \in Tasks, n \in Nodes :
    regime.paced /\ task[t] = [status |-> "dispatched_to_node", node |-> n] /\ ~node[n].up
      ~> task[t].node # n \/ node[n].up

\* A node whose heartbeats keep coming is open to the dispatcher again and again,
\* whatever the monitor concludes in between: no classification sticks.
LiveNodeIsSeen ==
  \A n \in Nodes :
    <>[](regime.paced /\ node[n].up /\ node[n].age = "fresh") => []<>(n \in Eligible)
================================================================================
