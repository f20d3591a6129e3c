------------------------------- MODULE GridMaster -------------------------------
(***************************************************************************)
(* grid_master.py, the coordinator of phase 1: it hands tasks to worker    *)
(* nodes and books what the nodes report.  Its calls run on the threads of *)
(* whoever makes them, over the tables of database.py, with nothing but    *)
(* the transactions of fail_task_atomic() and complete_task_atomic() to    *)
(* keep them apart.                                                        *)
(*                                                                         *)
(* A node works on what dispatch() returned to its caller, and reports     *)
(* each task once, by record_success() or record_failure().  Texts, the    *)
(* memory context and the memory entries are left out: no call branches on *)
(* them.                                                                   *)
(***************************************************************************)
EXTENDS Naturals, FiniteSets

CONSTANTS
  Tasks,
  Nodes,       \* worker nodes, as numbers in the order of their registration
  Callers,     \* threads that call the coordinator
  MaxRetries,  \* the retries that record_failure() allows
  MaxWork,     \* bound: tasks that the nodes have in hand at a time
  MaxFaults    \* bound: database calls that raise, and kills of the master

ASSUME GridMasterAssumption ==
  /\ Nodes \subseteq Nat \ {0} /\ Callers # {} /\ IsFiniteSet(Callers)
  /\ MaxRetries \in Nat /\ MaxWork \in Nat /\ MaxFaults \in Nat

VARIABLES
  task,     \* tasks.status
  notes,    \* notes[t]: the "retry attempt" notes of t
  node,     \* node_registry.status
  caller,   \* where each caller is, and its local variables
  work,     \* work[t][n]: dispatches of t that node n has in hand
  failed,   \* history: times t was set to "failed"
  faults, crashes

vars == <<task, notes, node, caller, work, failed, faults, crashes>>

NoTask == "none"
NoNode == 0
Status == {"absent", "pending", "dispatched", "blocked", "completed", "failed", "abandoned"}
Idle == [pc |-> "idle", task |-> NoTask, node |-> NoNode, retries |-> 0]

TypeOK ==
  /\ task \in [Tasks -> Status]
  /\ notes \in [Tasks -> Nat] /\ failed \in [Tasks -> Nat]
  /\ node \in [Nodes -> {"online", "busy", "offline"}]
  /\ caller \in [Callers ->
       [pc : {"idle", "select", "block", "assign", "busy", "count", "fail", "note", "offline"},
        task : Tasks \cup {NoTask}, node : Nodes \cup {NoNode}, retries : Nat]]
  /\ work \in [Tasks -> [Nodes -> Nat]]
  /\ faults \in Nat /\ crashes \in Nat

Init ==
  /\ task = [t \in Tasks |-> "absent"]
  /\ notes = [t \in Tasks |-> 0] /\ failed = [t \in Tasks |-> 0]
  /\ node = [n \in Nodes |-> "online"]
  /\ caller = [c \in Callers |-> Idle]
  /\ work = [t \in Tasks |-> [n \in Nodes |-> 0]]
  /\ faults = 0 /\ crashes = 0

At(c, l) == caller[c].pc = l
Becomes(c, state) == caller' = [caller EXCEPT ![c] = state]
GoTo(c, l) == Becomes(c, [caller[c] EXCEPT !.pc = l])
SetTask(t, s) == task' = [task EXCEPT ![t] = s]
SetNode(n, s) == node' = [m \in Nodes |-> IF m = n THEN s ELSE node[m]]
Fine == UNCHANGED <<faults, crashes>>

--------------------------------------------------------------------------------
\* submit_task() and dispatch()

Submit(t) ==
  /\ task[t] = "absent"
  /\ SetTask(t, "pending")
  /\ UNCHANGED <<notes, node, caller, work, failed>> /\ Fine

\* How many dispatches the nodes have in hand or are about to get.
InHand == {d \in Tasks \X Nodes : work[d[1]][d[2]] > 0}

\* The guard on the status, and the memory consultation.
Dispatch(c, t) ==
  /\ At(c, "idle") /\ task[t] \in {"pending", "failed"}
  /\ Cardinality(InHand) < MaxWork
  /\ Becomes(c, [Idle EXCEPT !.pc = "select", !.task = t])
  /\ UNCHANGED <<task, notes, node, work, failed>> /\ Fine

Available == {n \in Nodes : node[n] = "online"}

SelectNode(c) ==
  /\ At(c, "select")
  /\ IF Available = {} THEN GoTo(c, "block")
     ELSE \E n \in Available :
            /\ \A m \in Available : n <= m
            /\ Becomes(c, [caller[c] EXCEPT !.pc = "assign", !.node = n])
  /\ UNCHANGED <<task, notes, node, work, failed>> /\ Fine

Block(c) ==
  /\ At(c, "block")
  /\ SetTask(caller[c].task, "blocked")
  /\ Becomes(c, Idle)
  /\ UNCHANGED <<notes, node, work, failed>> /\ Fine

\* Whatever the task's status is by now.
Assign(c) ==
  /\ At(c, "assign")
  /\ SetTask(caller[c].task, "dispatched")
  /\ GoTo(c, "busy")
  /\ UNCHANGED <<notes, node, work, failed>> /\ Fine

\* set_busy(), and dispatch() returns: the node has the task.
SetBusy(c) ==
  LET t == caller[c].task  n == caller[c].node
  IN /\ At(c, "busy")
     /\ SetNode(n, "busy")
     /\ work' = [work EXCEPT ![t][n] = work[t][n] + 1]
     /\ Becomes(c, Idle)
     /\ UNCHANGED <<task, notes, failed>> /\ Fine

--------------------------------------------------------------------------------
\* record_success() and record_failure(), called for a node that reports

Report(t, n) == work[t][n] > 0 /\ work' = [work EXCEPT ![t][n] = work[t][n] - 1]

\* Mutant: the transaction forgets the node.
CompletesTaskOnly(c, t, n) ==
  /\ At(c, "idle") /\ Report(t, n)
  /\ SetTask(t, "completed")
  /\ UNCHANGED <<notes, node, caller, failed>> /\ Fine

\* complete_task_atomic(): the task and its node.
RecordSuccess(c, t, n) ==
  /\ At(c, "idle") /\ Report(t, n)
  /\ SetTask(t, "completed") /\ SetNode(n, "online")
  /\ UNCHANGED <<notes, caller, failed>> /\ Fine

ReceiveFailure(c, t, n) ==
  /\ At(c, "idle") /\ Report(t, n)
  /\ Becomes(c, [Idle EXCEPT !.pc = "count", !.task = t, !.node = n])
  /\ UNCHANGED <<task, notes, node, failed>> /\ Fine

CountRetries(c) ==
  /\ At(c, "count")
  /\ Becomes(c, [caller[c] EXCEPT !.pc = "fail", !.retries = notes[caller[c].task]])
  /\ UNCHANGED <<task, notes, node, work, failed>> /\ Fine

\* Mutant: one retry more.
FinalStatusLate(retries) == IF retries > MaxRetries THEN "abandoned" ELSE "failed"

FinalStatus(retries) == IF retries >= MaxRetries THEN "abandoned" ELSE "failed"

\* Mutant: a task at its limit is left as it is.
FailTaskUnlessLimit(c) ==
  LET t == caller[c].task  s == FinalStatus(caller[c].retries)
  IN /\ At(c, "fail")
     /\ IF s = "failed" THEN SetTask(t, s) ELSE UNCHANGED task
     /\ SetNode(caller[c].node, "online")
     /\ failed' = [failed EXCEPT ![t] = @ + IF s = "failed" THEN 1 ELSE 0]
     /\ GoTo(c, "note")
     /\ UNCHANGED <<notes, work>> /\ Fine

\* fail_task_atomic(): the task and its node.
FailTask(c) ==
  LET t == caller[c].task  s == FinalStatus(caller[c].retries)
  IN /\ At(c, "fail")
     /\ SetTask(t, s) /\ SetNode(caller[c].node, "online")
     /\ failed' = [failed EXCEPT ![t] = @ + IF s = "failed" THEN 1 ELSE 0]
     /\ GoTo(c, "note")
     /\ UNCHANGED <<notes, work>> /\ Fine

NoteRetry(c) ==
  /\ At(c, "note")
  /\ notes' = [notes EXCEPT ![caller[c].task] = @ + 1]
  /\ Becomes(c, Idle)
  /\ UNCHANGED <<task, node, work, failed>> /\ Fine

--------------------------------------------------------------------------------
\* Nodes: heartbeats, and system_status(), which puts silent nodes offline

\* update_heartbeat(): the status becomes online whatever it was.
Heartbeat(n) ==
  /\ node[n] # "online"
  /\ SetNode(n, "online")
  /\ UNCHANGED <<task, notes, caller, work, failed>> /\ Fine

\* The node was online when the list was read, and silent when it was looked at.
FindSilent(c, n) ==
  /\ At(c, "idle") /\ node[n] = "online"
  /\ Becomes(c, [Idle EXCEPT !.pc = "offline", !.node = n])
  /\ UNCHANGED <<task, notes, node, work, failed>> /\ Fine

SetOffline(c) ==
  /\ At(c, "offline")
  /\ SetNode(caller[c].node, "offline")
  /\ Becomes(c, Idle)
  /\ UNCHANGED <<task, notes, work, failed>> /\ Fine

--------------------------------------------------------------------------------
\* Errors and kills

\* get_available_nodes() returns nothing and set_busy() does nothing when the database
\* raises; anywhere else the exception ends the call.
Fault(c) ==
  /\ faults + crashes < MaxFaults /\ faults' = faults + 1 /\ ~At(c, "idle")
  /\ IF At(c, "select") THEN GoTo(c, "block") ELSE Becomes(c, Idle)
  /\ work' = IF At(c, "busy")
             THEN [work EXCEPT ![caller[c].task][caller[c].node] =
                     work[caller[c].task][caller[c].node] + 1]
             ELSE work
  /\ UNCHANGED <<task, notes, node, failed, crashes>>

\* The nodes keep what they have in hand.
Crash ==
  /\ faults + crashes < MaxFaults /\ crashes' = crashes + 1
  /\ caller' = [c \in Callers |-> Idle]
  /\ UNCHANGED <<task, notes, node, work, failed, faults>>

CallerStep(c) == \/ SelectNode(c) \/ Block(c) \/ Assign(c) \/ SetBusy(c)
                 \/ CountRetries(c) \/ FailTask(c) \/ NoteRetry(c) \/ SetOffline(c)

Next ==
  \/ \E t \in Tasks : Submit(t)
  \/ \E c \in Callers :
       \/ \E t \in Tasks :
            \/ Dispatch(c, t)
            \/ \E n \in Nodes : RecordSuccess(c, t, n) \/ ReceiveFailure(c, t, n)
       \/ CallerStep(c)
       \/ \E n \in Nodes : FindSilent(c, n)
       \/ Fault(c)
  \/ \E n \in Nodes : Heartbeat(n)
  \/ Crash

Spec == Init /\ [][Next]_vars

--------------------------------------------------------------------------------
\* Properties

\* Retry notes that were not written.
LostNotes == faults + crashes * Cardinality(Callers)

\* "Enforces max 3 retries before abandoning" (record_failure) holds up to the calls
\* that counted the notes before others had written theirs, and up to lost notes.
FailuresAreBounded ==
  \A t \in Tasks : failed[t] <= MaxRetries + Cardinality(Callers) - 1 + LostNotes

\* A task that dispatch() accepts no more, as it is dispatched, is in a node's hands or
\* in a call's: no overlap of dispatches and reports leaves one behind.
DispatchedIsAccounted ==
  faults + crashes = 0 =>
    \A t \in Tasks : task[t] = "dispatched" =>
      \/ \E n \in Nodes : work[t][n] > 0
      \/ \E c \in Callers : caller[c].task = t /\ caller[c].pc \in {"busy", "count", "fail"}

\* A busy node, which gets no work until it reports or sends a heartbeat, has work to
\* report (set_busy, and the release in both transactions).
BusyIsAccounted ==
  faults + crashes = 0 =>
    \A n \in Nodes : node[n] = "busy" =>
      \/ \E t \in Tasks : work[t][n] > 0
      \/ \E c \in Callers : caller[c].node = n /\ caller[c].pc \in {"count", "fail"}
================================================================================
