--------------------------------- MODULE Kernel ---------------------------------
(***************************************************************************)
(* The kernel of Grid Master OS: kernel.run_task() and what it drives,     *)
(* planner.plan(), coordinator.run_all(), scheduler.select_task(),         *)
(* node_scheduler.select_node(), worker.execute() and reviewer.review(),   *)
(* over the tables of database.py.                                         *)
(*                                                                         *)
(* A run is one call of run_task(), or of coordinator.run_all() alone, on  *)
(* a project that the calls share.  The database serialises statements and *)
(* nothing more, so a run is a program counter that stands between two     *)
(* database calls, and several runs interleave at exactly these points     *)
(* (the HTTP interface serves each request on a thread of its own, with a  *)
(* database connection of its own).                                        *)
(*                                                                         *)
(* A task's text matters only for what the worker makes of it: output that *)
(* the reviewer accepts ("good"), output it refuses ("bad": too short or   *)
(* with an error marker), or no output at all ("empty").  _run() is a pure *)
(* function of the title and the input, so this is fixed at creation.      *)
(***************************************************************************)
EXTENDS Naturals, FiniteSets

CONSTANTS
  Planners,        \* the calls of kernel.run_task() on the project
  Drivers,         \* the calls of coordinator.run_all() alone
  Concurrent,      \* may calls overlap (threaded server) or not (command line)?
  MaxSubtasks,     \* bound on the length of a plan (MAX_SUBTASKS in the code)
  RootPriorities,  \* the priorities callers give to root tasks
  Works,           \* what the workers make of the tasks, a subset of WorkClass
  Nodes,           \* worker nodes, as numbers in the order of their names
  MaxIterations,   \* max_iterations of run_all()
  MaxRetries,      \* MAX_RETRIES of worker.py
  MaxFaults,       \* bound: database calls that raise
  MaxCrashes       \* bound: times the process is killed

Runs == Planners \cup Drivers
WorkClass == {"good", "bad", "empty"}

ASSUME KernelAssumption ==
  /\ Planners \cap Drivers = {} /\ IsFiniteSet(Planners) /\ IsFiniteSet(Drivers)
  /\ Concurrent \in BOOLEAN
  /\ MaxSubtasks \in Nat /\ MaxIterations \in Nat /\ MaxRetries \in Nat
  /\ MaxFaults \in Nat /\ MaxCrashes \in Nat
  /\ RootPriorities \subseteq 1..10
  /\ Works \subseteq WorkClass
  /\ Nodes \subseteq Nat

VARIABLES
  task,      \* the tasks table
  rows,      \* its number of rows; created_at grows with it
  notes,     \* agent_notes: executions started and failures noted, per task
  memory,    \* memory_entries, failure_memory and the knowledge base: <<task, type>>
  node,      \* node_registry: status, and whether the heartbeat is recent
  run,       \* where each run is, and its local variables
  faults, crashes

tables == <<task, rows, notes, memory, node>>
vars == <<task, rows, notes, memory, node, run, faults, crashes>>

\* <<r, 0>> is the root task of run r and <<r, i>> the i-th step of its plan.
Task == Planners \X (0..MaxSubtasks)
Root(r) == <<r, 0>>
NoTask == <<>>

Status == {"absent", "pending", "planned", "review_pending",
           "completed", "rejected", "failed", "abandoned"}
Output == {"none", "plan", "good", "bad", "verdict", "failure"}
Terminal == {"completed", "rejected", "failed", "abandoned"}
Entry == {"result", "lesson", "failure", "knowledge"}

Planning == {"create", "activate", "list"}
Working == {"execute", "store", "remember_result",
            "count_failures", "fail", "note_failure"}
Reviewing == {"review", "remember_lesson", "complete", "extract",
              "remember_failure", "reject"}
Ended == {"done", "no_node", "error", "crashed"}
Active == Planning \cup {"select", "node"} \cup Working \cup Reviewing
PC == {"idle"} \cup Active \cup Ended

TaskRow == [status : Status, output : Output, work : WorkClass,
            priority : 0..10, created : Nat]
RunState == [pc : PC, step : Nat, size : Nat, listed : Nat, task : Task \cup {NoTask},
             node : Nat, out : Output, retries : Nat, iters : 0..MaxIterations,
             completed : Nat, rejected : Nat]

TypeOK ==
  /\ task \in [Task -> TaskRow]
  /\ rows \in Nat
  /\ notes \in [Task -> [executed : Nat, failed : Nat]]
  /\ memory \subseteq Task \X Entry
  /\ node \in [Nodes -> [status : {"online", "offline"}, fresh : BOOLEAN]]
  /\ run \in [Runs -> RunState]
  /\ faults \in Nat /\ crashes \in Nat

Init ==
  /\ task = [t \in Task |-> [status |-> "absent", output |-> "none",
                             work |-> "good", priority |-> 0, created |-> 0]]
  /\ rows = 0
  /\ notes = [t \in Task |-> [executed |-> 0, failed |-> 0]]
  /\ memory = {}
  /\ node = [n \in Nodes |-> [status |-> "online", fresh |-> TRUE]]
  /\ run = [r \in Runs |->
              [pc |-> "idle", step |-> 0, size |-> 0, listed |-> 0,
               task |-> NoTask, node |-> 0, out |-> "none", retries |-> 0,
               iters |-> 0, completed |-> 0, rejected |-> 0]]
  /\ faults = 0 /\ crashes = 0

--------------------------------------------------------------------------------
\* The database operations the agents share.

InsertTask(t, w, p) ==
  /\ task' = [task EXCEPT ![t] = [status |-> "pending", output |-> "none",
                                  work |-> w, priority |-> p, created |-> rows]]
  /\ rows' = rows + 1

\* Unconditional, and the output is overwritten even when none is given.
UpdateStatus(t, s, o) ==
  task' = [task EXCEPT ![t] = [@ EXCEPT !.status = s, !.output = o]]

Remember(t, e) == memory' = memory \cup {<<t, e>>}

GoTo(r, l) == run' = [run EXCEPT ![r] = [@ EXCEPT !.pc = l]]

\* Mutant: whatever is not rejected counts as completed.
CountsUnlessRejected(r, result) ==
  run' = [run EXCEPT ![r] =
            [run[r] EXCEPT !.pc = "select",
                      !.task = NoTask, !.node = 0, !.out = "none", !.retries = 0,
                      !.iters = @ + 1,
                      !.completed = @ + (IF result # "rejected" THEN 1 ELSE 0),
                      !.rejected = @ + (IF result = "rejected" THEN 1 ELSE 0)]]

\* The agent returned to run_all(), which counts the status it reports; the locals
\* of the agent's call are gone.
NextIteration(r, result) ==
  run' = [run EXCEPT ![r] =
            [run[r] EXCEPT !.pc = "select",
                      !.task = NoTask, !.node = 0, !.out = "none", !.retries = 0,
                      !.iters = @ + 1,
                      !.completed = @ + (IF result = "completed" THEN 1 ELSE 0),
                      !.rejected = @ + (IF result = "rejected" THEN 1 ELSE 0)]]

At(r, l) == run[r].pc = l
Cur(r) == run[r].task
Fine == UNCHANGED <<faults, crashes>>

--------------------------------------------------------------------------------
\* kernel.run_task() and planner.plan()

MayStart(r) == At(r, "idle") /\ (Concurrent \/ \A s \in Runs : run[s].pc \notin Active)

CallRunTask(r) ==
  /\ MayStart(r) /\ r \in Planners
  /\ \E w \in Works, p \in RootPriorities, k \in 1..MaxSubtasks :
       /\ InsertTask(Root(r), w, p)
       /\ run' = [run EXCEPT ![r] = [@ EXCEPT !.pc = "create", !.step = 1, !.size = k]]
  /\ UNCHANGED <<notes, memory, node>> /\ Fine

CallRunAll(r) ==
  /\ MayStart(r) /\ r \in Drivers
  /\ GoTo(r, "select")
  /\ UNCHANGED tables /\ Fine

SubtaskPriority(i) == IF 11 - i >= 1 THEN 11 - i ELSE 1

CreateSubtask(r) ==
  /\ At(r, "create") /\ run[r].step <= run[r].size
  /\ \E w \in Works : InsertTask(<<r, run[r].step>>, w, SubtaskPriority(run[r].step))
  /\ GoTo(r, "activate")
  /\ UNCHANGED <<notes, memory, node>> /\ Fine

\* Mutant: the subtask keeps the database's default status.
LeavesSubtaskPending(r) ==
  /\ At(r, "activate")
  /\ GoTo(r, "list")
  /\ UNCHANGED tables /\ Fine

ActivateSubtask(r) ==
  /\ At(r, "activate")
  /\ UpdateStatus(<<r, run[r].step>>, "planned", "none")
  /\ GoTo(r, "list")
  /\ UNCHANGED <<rows, notes, memory, node>> /\ Fine

ListSubtask(r) ==
  /\ At(r, "list")
  /\ run' = [run EXCEPT ![r] = [run[r] EXCEPT !.pc = "create", !.step = @ + 1,
                                         !.listed = @ + 1]]
  /\ UNCHANGED tables /\ Fine

FinishPlan(r) ==
  /\ At(r, "create") /\ run[r].step > run[r].size
  /\ UpdateStatus(Root(r), "planned", "plan")
  /\ GoTo(r, "select")
  /\ UNCHANGED <<rows, notes, memory, node>> /\ Fine

--------------------------------------------------------------------------------
\* coordinator.run_all(), scheduler.select_task(), node_scheduler.select_node()

Dispatchable == {t \in Task : task[t].status \in {"planned", "review_pending"}}

\* Mutant: the latest of equal tasks first.
PrefersNewest(t, u) ==
  \/ task[t].priority > task[u].priority
  \/ task[t].priority = task[u].priority /\ task[t].created > task[u].created

Precedes(t, u) ==
  \/ task[t].priority > task[u].priority
  \/ task[t].priority = task[u].priority /\ task[t].created < task[u].created

SelectTask(r) ==
  /\ At(r, "select") /\ run[r].iters < MaxIterations
  /\ \E t \in Dispatchable :
       /\ \A u \in Dispatchable \ {t} : Precedes(t, u)
       /\ run' = [run EXCEPT ![r] =
                    [@ EXCEPT !.task = t,
                              !.pc = IF task[t].status = "planned"
                                     THEN "node" ELSE "review"]]
  /\ UNCHANGED tables /\ Fine

\* Mutant: stops when nothing waits for a worker.
FinishesBeforeReviews(r) ==
  /\ At(r, "select")
  /\ \A t \in Dispatchable : task[t].status # "planned"
  /\ GoTo(r, "done")
  /\ UNCHANGED tables /\ Fine

Finish(r) ==
  /\ At(r, "select")
  /\ run[r].iters = MaxIterations \/ Dispatchable = {}
  /\ GoTo(r, "done")
  /\ UNCHANGED tables /\ Fine

Healthy == {n \in Nodes : node[n].status = "online" /\ node[n].fresh}

PickNode(r) ==
  /\ At(r, "node")
  /\ \E n \in Healthy :
       /\ \A m \in Healthy : n <= m
       /\ run' = [run EXCEPT ![r] = [@ EXCEPT !.pc = "execute", !.node = n]]
  /\ UNCHANGED tables /\ Fine

\* Mutant: run_all() tries again without counting the iteration.
WaitsForNode(r) ==
  /\ At(r, "node") /\ Healthy = {}
  /\ GoTo(r, "select")
  /\ UNCHANGED tables /\ Fine

\* No node: the task is not dispatched, and run_all() leaves its loop.
NoAvailableNode(r) ==
  /\ At(r, "node") /\ Healthy = {}
  /\ GoTo(r, "no_node")
  /\ UNCHANGED tables /\ Fine

--------------------------------------------------------------------------------
\* worker.execute()

WorkerRefuses(r) ==
  /\ At(r, "execute") /\ task[Cur(r)].status # "planned"
  /\ NextIteration(r, "error")
  /\ UNCHANGED tables /\ Fine

\* The guard's read, the "Execution started" note and _run().
WorkerExecutes(r) ==
  /\ At(r, "execute") /\ task[Cur(r)].status = "planned"
  /\ notes' = [notes EXCEPT ![Cur(r)].executed = @ + 1]
  /\ GoTo(r, IF task[Cur(r)].work = "empty" THEN "count_failures" ELSE "store")
  /\ UNCHANGED <<task, rows, memory, node>> /\ Fine

\* Mutant: the worker completes the task itself.
WorkerCompletes(r) ==
  /\ At(r, "store")
  /\ UpdateStatus(Cur(r), "completed", task[Cur(r)].work)
  /\ GoTo(r, "remember_result")
  /\ UNCHANGED <<rows, notes, memory, node>> /\ Fine

StoreResult(r) ==
  /\ At(r, "store")
  /\ UpdateStatus(Cur(r), "review_pending", task[Cur(r)].work)
  /\ GoTo(r, "remember_result")
  /\ UNCHANGED <<rows, notes, memory, node>> /\ Fine

RememberResult(r) ==
  /\ At(r, "remember_result")
  /\ Remember(Cur(r), "result")
  /\ NextIteration(r, "review_pending")
  /\ UNCHANGED <<task, rows, notes, node>> /\ Fine

CountFailures(r) ==
  /\ At(r, "count_failures")
  /\ run' = [run EXCEPT ![r] = [@ EXCEPT !.pc = "fail",
                                         !.retries = notes[Cur(r)].failed]]
  /\ UNCHANGED tables /\ Fine

FinalStatus(retries) == IF retries >= MaxRetries THEN "abandoned" ELSE "failed"

\* fail_task_atomic(): one transaction, which also "releases" the node.
FailTask(r) ==
  /\ At(r, "fail")
  /\ UpdateStatus(Cur(r), FinalStatus(run[r].retries), "failure")
  /\ Remember(Cur(r), "failure")
  /\ node' = [n \in Nodes |-> IF n = run[r].node
                              THEN [node[n] EXCEPT !.status = "online"] ELSE node[n]]
  /\ GoTo(r, "note_failure")
  /\ UNCHANGED <<rows, notes>> /\ Fine

\* Only the text "Task failed ..." is counted as a failure by the next attempt.
NoteFailure(r) ==
  /\ At(r, "note_failure")
  /\ notes' = IF FinalStatus(run[r].retries) = "failed"
              THEN [notes EXCEPT ![Cur(r)].failed = @ + 1] ELSE notes
  /\ NextIteration(r, FinalStatus(run[r].retries))
  /\ UNCHANGED <<task, rows, memory, node>> /\ Fine

--------------------------------------------------------------------------------
\* reviewer.review()

ReviewerRefuses(r) ==
  /\ At(r, "review") /\ task[Cur(r)].status # "review_pending"
  /\ NextIteration(r, "error")
  /\ UNCHANGED tables /\ Fine

Evaluate(output) == output = "good"

\* Mutant: the task is completed before the lesson is stored.
CompletesBeforeLesson(r) ==
  /\ At(r, "review") /\ task[Cur(r)].status = "review_pending"
  /\ run' = [run EXCEPT ![r] =
               [@ EXCEPT !.out = task[Cur(r)].output,
                         !.pc = IF Evaluate(task[Cur(r)].output)
                                THEN "complete" ELSE "remember_failure"]]
  /\ UNCHANGED tables /\ Fine

ReviewerEvaluates(r) ==
  /\ At(r, "review") /\ task[Cur(r)].status = "review_pending"
  /\ run' = [run EXCEPT ![r] =
               [@ EXCEPT !.out = task[Cur(r)].output,
                         !.pc = IF Evaluate(task[Cur(r)].output)
                                THEN "remember_lesson" ELSE "remember_failure"]]
  /\ UNCHANGED tables /\ Fine

RememberLesson(r) ==
  /\ At(r, "remember_lesson")
  /\ Remember(Cur(r), "lesson")
  /\ GoTo(r, "complete")
  /\ UNCHANGED <<task, rows, notes, node>> /\ Fine

\* Mutant: update_task_status() without the output, which wipes it.
CompletesWithoutOutput(r) ==
  /\ At(r, "complete")
  /\ UpdateStatus(Cur(r), "completed", "none")
  /\ GoTo(r, "extract")
  /\ UNCHANGED <<rows, notes, memory, node>> /\ Fine

CompleteTask(r) ==
  /\ At(r, "complete")
  /\ UpdateStatus(Cur(r), "completed", run[r].out)
  /\ GoTo(r, "extract")
  /\ UNCHANGED <<rows, notes, memory, node>> /\ Fine

ExtractLesson(r) ==
  /\ At(r, "extract")
  /\ Remember(Cur(r), "knowledge")
  /\ NextIteration(r, "completed")
  /\ UNCHANGED <<task, rows, notes, node>> /\ Fine

RememberFailure(r) ==
  /\ At(r, "remember_failure")
  /\ Remember(Cur(r), "failure")
  /\ GoTo(r, "reject")
  /\ UNCHANGED <<task, rows, notes, node>> /\ Fine

\* Mutant: the reviewer sends the task back to the worker.
RejectReplans(r) ==
  /\ At(r, "reject")
  /\ UpdateStatus(Cur(r), "planned", "verdict")
  /\ NextIteration(r, "rejected")
  /\ UNCHANGED <<rows, notes, memory, node>> /\ Fine

RejectTask(r) ==
  /\ At(r, "reject")
  /\ UpdateStatus(Cur(r), "rejected", "verdict")
  /\ NextIteration(r, "rejected")
  /\ UNCHANGED <<rows, notes, memory, node>> /\ Fine

--------------------------------------------------------------------------------
\* A database call that raises, and a killed process.

Fault == faults < MaxFaults /\ faults' = faults + 1 /\ UNCHANGED crashes

\* _create_subtasks() gives the step up and goes on with the next one.
SubtaskFault(r) ==
  /\ run[r].pc \in Planning /\ run[r].step <= run[r].size
  /\ run' = [run EXCEPT ![r] = [run[r] EXCEPT !.pc = "create", !.step = @ + 1]]
  /\ UNCHANGED tables /\ Fault

\* Outside the agents the exception ends the run: run_task() returns an error.
RunFault(r) ==
  /\ \/ run[r].pc \in {"select", "node"}
     \/ At(r, "create") /\ run[r].step > run[r].size
  /\ GoTo(r, "error")
  /\ UNCHANGED tables /\ Fault

\* The coordinator catches what an agent raises, and reports the stored status.
AgentFault(r) ==
  /\ run[r].pc \in {"execute", "store", "count_failures", "fail", "note_failure",
                    "review", "complete", "extract", "reject"}
  /\ NextIteration(r, task[Cur(r)].status)
  /\ UNCHANGED tables /\ Fault

\* The memory manager prints the error and the agent goes on without the entry.
MemoryFault(r) ==
  /\ \/ At(r, "remember_result") /\ NextIteration(r, "review_pending")
     \/ At(r, "remember_lesson") /\ GoTo(r, "complete")
     \/ At(r, "remember_failure") /\ GoTo(r, "reject")
     \/ At(r, "extract") /\ NextIteration(r, "completed")
  /\ UNCHANGED tables /\ Fault

Crash ==
  /\ crashes < MaxCrashes
  /\ \E r \in Runs : run[r].pc \in Active
  /\ run' = [r \in Runs |-> IF run[r].pc \in Active
                            THEN [run[r] EXCEPT !.pc = "crashed"] ELSE run[r]]
  /\ crashes' = crashes + 1
  /\ UNCHANGED tables /\ UNCHANGED faults

--------------------------------------------------------------------------------
\* The nodes, seen from the kernel: rows that heartbeats and checks rewrite.

SetNode(n, s, f) ==
  /\ node' = [node EXCEPT ![n] = [status |-> s, fresh |-> f]]
  /\ UNCHANGED <<task, rows, notes, memory, run>> /\ Fine

\* update_heartbeat(): the status becomes online whatever it was.
Heartbeat(n) == node[n] # [status |-> "online", fresh |-> TRUE]
                  /\ SetNode(n, "online", TRUE)

\* HEARTBEAT_TIMEOUT_SECONDS pass without a heartbeat.
GoSilent(n) == node[n].fresh /\ SetNode(n, node[n].status, FALSE)

\* check_all_health() puts a node offline that was silent when it looked; a heartbeat
\* may have come since.  unregister_node() does so at any time.
MarkOffline(n) == node[n].status = "online" /\ SetNode(n, "offline", node[n].fresh)

NodeStep == \E n \in Nodes : Heartbeat(n) \/ GoSilent(n) \/ MarkOffline(n)

PlanStep(r) == \/ CreateSubtask(r) \/ ActivateSubtask(r) \/ ListSubtask(r) \/ FinishPlan(r)

CoordinatorStep(r) == SelectTask(r) \/ Finish(r) \/ PickNode(r) \/ NoAvailableNode(r)

WorkerStep(r) == \/ WorkerRefuses(r) \/ WorkerExecutes(r) \/ StoreResult(r)
                 \/ RememberResult(r) \/ CountFailures(r) \/ FailTask(r) \/ NoteFailure(r)

ReviewerStep(r) == \/ ReviewerRefuses(r) \/ ReviewerEvaluates(r) \/ RememberLesson(r)
                   \/ CompleteTask(r) \/ ExtractLesson(r) \/ RememberFailure(r)
                   \/ RejectTask(r)

Step(r) == PlanStep(r) \/ CoordinatorStep(r) \/ WorkerStep(r) \/ ReviewerStep(r)

FaultStep(r) == SubtaskFault(r) \/ RunFault(r) \/ AgentFault(r) \/ MemoryFault(r)

Start(r) == CallRunTask(r) \/ CallRunAll(r)

Next == \/ \E r \in Runs : Start(r) \/ Step(r) \/ FaultStep(r)
        \/ Crash
        \/ NodeStep

Spec == Init /\ [][Next]_vars

\* A run is a thread that the operating system schedules: once started it goes on.
FairSpec == Spec /\ \A r \in Runs : WF_vars(Step(r))

--------------------------------------------------------------------------------
\* Properties of every interleaving

\* The verdict on a task is the one its output deserves, however many workers and
\* reviewers handled it at once, and what is stored as the output of a completed
\* task is what was approved (worker._store_result, reviewer._approve, _reject).
VerdictMatchesWork ==
  \A t \in Task :
    /\ task[t].status = "review_pending" => task[t].output = task[t].work
    /\ task[t].status = "completed" => task[t].work = "good" /\ task[t].output = "good"
    /\ task[t].status = "rejected" => task[t].work = "bad"
    /\ task[t].status \in {"failed", "abandoned"} => task[t].work = "empty"

\* The reviewer and the failure transaction store the lesson or the failure before
\* or with the status: without a database fault no verdict is ever seen without
\* the memory the planner learns from, crashes included.
VerdictIsRemembered ==
  faults = 0 =>
    \A t \in Task :
      /\ task[t].status = "completed" => <<t, "lesson">> \in memory
      /\ task[t].status \in {"rejected", "failed", "abandoned"}
           => <<t, "failure">> \in memory

\* A pending task is invisible to the scheduler for ever: only a planner that is
\* between its two writes, or that was interrupted there, leaves one.
PendingIsAccounted ==
  \A r \in Planners, i \in 0..MaxSubtasks :
    task[<<r, i>>].status = "pending" =>
      \/ run[r].pc \in Planning /\ i \in {0, run[r].step}
      \/ run[r].pc \in {"crashed", "error"}
      \/ faults > 0

\* The worker's guard is read before its unconditional write, so overlapping runs
\* execute a task again; but each of them at most once, faults aside.
ExecutionsAreBounded ==
  \A t \in Task : notes[t].executed <= Cardinality(Runs) + faults

\* When the last run has drained the project nothing dispatchable is left, even
\* if runs overwrote each other's statuses on the way.
NothingStranded ==
  ((\A r \in Runs : run[r].pc = "done" /\ run[r].iters < MaxIterations))
    => Dispatchable = {}

\* What a task's text makes of it in the end.
Deserves(w) == CASE w = "good" -> "completed" [] w = "bad" -> "rejected" [] w = "empty" -> "failed"

Shared == INSTANCE SharedLifecycle WITH
  stage <- [t \in Task |-> task[t].status],
  verdict <- [t \in Task |-> IF task[t].status = "absent" THEN "none" ELSE Deserves(task[t].work)]

\* However runs overlap, a task that has a verdict gets no other: runs may submit it and
\* judge it again, but never plan it again, and what one completes none rejects or fails
\* (worker.execute, reviewer.review: "safe under concurrent use").
OneVerdict == Shared!Spec

--------------------------------------------------------------------------------
\* The inductive invariant behind VerdictMatchesWork (proved in KernelProofs)

\* What a row of the tasks table satisfies, by its status.
RowFits(row) ==
  /\ row.status = "review_pending" => row.output = row.work /\ row.work \in {"good", "bad"}
  /\ row.status = "completed" => row.work = "good" /\ row.output = "good"
  /\ row.status = "rejected" => row.work = "bad"
  /\ row.status \in {"failed", "abandoned"} => row.work = "empty"

\* What the locals s of run r satisfy in the table T, by its program counter.
RunFits(r, s, T) ==
  /\ s.pc = "idle" /\ r \in Planners
       => \A i \in 0..MaxSubtasks : T[<<r, i>>].status = "absent"
  /\ s.pc \in Planning
       => /\ r \in Planners /\ s.step >= 1 /\ s.size <= MaxSubtasks
          /\ T[<<r, 0>>].status # "absent"
          /\ \A i \in 0..MaxSubtasks : i > s.step => T[<<r, i>>].status = "absent"
  /\ s.pc = "create"
       => \A i \in 0..MaxSubtasks : i >= s.step => T[<<r, i>>].status = "absent"
  /\ s.pc \in {"activate", "list"}
       => s.step <= s.size /\ T[<<r, s.step>>].status # "absent"
  /\ s.pc \in {"node"} \cup Working \cup Reviewing
       => s.iters < MaxIterations /\ s.task \in Task /\ T[s.task].status # "absent"
  /\ s.pc = "store" => T[s.task].work \in {"good", "bad"}
  /\ s.pc \in {"count_failures", "fail"} => T[s.task].work = "empty"
  /\ s.pc \in {"remember_lesson", "complete"} => T[s.task].work = "good" /\ s.out = "good"
  /\ s.pc \in {"remember_failure", "reject"} => T[s.task].work = "bad"

\* What the agents rely on when they write after a read (coordinator._dispatch,
\* worker.execute, reviewer.review, planner.plan): what a read established of a task's
\* work is still true at the write, although other runs wrote the same row between.
KernelInv ==
  /\ TypeOK
  /\ \A t \in Task : RowFits(task[t])
  /\ \A r \in Runs : RunFits(r, run[r], task)

--------------------------------------------------------------------------------
\* Liveness

\* Each run_task() call returns, whatever the nodes and the other runs do.
EveryRunEnds == \A r \in Runs : run[r].pc \in Active ~> run[r].pc \in Ended

--------------------------------------------------------------------------------
\* Properties of runs that do not overlap

\* The approved lifecycle (coordinator.py), as an abstract specification.
Lifecycle == INSTANCE TaskLifecycle WITH stage <- [t \in Task |-> task[t].status]
ApprovedLifecycle == Lifecycle!Spec

\* A worker starts on a task only when no task of higher priority, and no older
\* one of the same priority, waits for a worker or for review.
PriorityRespected ==
  [][\A t \in Task : notes'[t].executed > notes[t].executed =>
       \A u \in Dispatchable \ {t} :
         \/ task[u].priority < task[t].priority
         \/ task[u].priority = task[t].priority /\ task[u].created > task[t].created]_vars

\* What a run reports agrees with the table: as long as it has the project for
\* itself the completed and rejected tasks are those it counted.
TasksIn(s) == {t \in Task : task[t].status = s}
ReportIsExact ==
  \A r \in Runs :
    (/\ run[r].pc \in {"done", "no_node"} /\ faults = 0
     /\ \A s \in Runs \ {r} : run[s].pc = "idle") =>
      /\ run[r].completed = Cardinality(TasksIn("completed"))
      /\ run[r].rejected = Cardinality(TasksIn("rejected"))

\* As long as a node is healthy, and with iterations to spare, every task of the
\* project that was created reaches a verdict, whatever the runs did to each other.
EveryTaskFinished ==
  [](Healthy # {}) =>
    \A t \in Task : task[t].status # "absent" ~> task[t].status \in Terminal

--------------------------------------------------------------------------------
\* What the documentation says and the code does not do

\* A verdict ends a task: the worker accepts planned tasks only and the reviewer
\* those in review_pending (worker.py, reviewer.py, "safe under concurrent use").
VerdictIsFinal ==
  [][\A t \in Task : task[t].status \in Terminal =>
       task'[t].status = task[t].status]_vars
================================================================================
