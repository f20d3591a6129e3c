------------------------------ MODULE KernelProofs ------------------------------
(***************************************************************************)
(* Theorems about Kernel, for any number of runs, subtasks, nodes, faults  *)
(* and crashes.                                                            *)
(*                                                                         *)
(* VerdictMatchesWork is not inductive: between the read that judges a     *)
(* task and the write of the verdict the judgement is in the run's program *)
(* counter and locals, while other runs write the same row.  KernelInv     *)
(* says what each program counter guarantees about the row (RunFits) and   *)
(* what each status does (RowFits).  It holds because no write changes the *)
(* work of a task that exists, and because a planner only inserts rows     *)
(* that were absent, which no other run can be working on.                 *)
(*                                                                         *)
(* ExecutionsBounded counts, per task, the runs that have executed it and  *)
(* not yet written a result; NoneStranded follows whoever takes a step.    *)
(*                                                                         *)
(* When calls do not overlap, Kernel implements TaskLifecycle.  The agents *)
(* write a status without looking at the one they replace, so the          *)
(* refinement needs what the last read established to be still true:       *)
(* SerialInv says that at most one run is active and which status the task *)
(* in its hands has at each of its writes.  The same invariant holds of a  *)
(* call that has the project for itself, whatever Concurrent allows:       *)
(* ReportExact builds on it.  PriorityKept adds what select_task()         *)
(* established and must still hold when the worker starts (InTurn).        *)
(*                                                                         *)
(* When calls overlap, Kernel implements SharedLifecycle: what the others  *)
(* may have written since the last read is a result or a verdict of the    *)
(* same work (RunsShareOneVerdict).                                        *)
(***************************************************************************)
EXTENDS Kernel, FiniteSetTheorems, TLAPS

--------------------------------------------------------------------------------
\* The three ways in which actions change the state

\* An action that only moves run r keeps the invariant if the new locals fit.
LEMMA RunMoves ==
  ASSUME KernelInv, NEW r \in Runs, NEW s \in RunState, RunFits(r, s, task),
         run' = [run EXCEPT ![r] = s], UNCHANGED <<task, rows>>,
         notes' \in [Task -> [executed : Nat, failed : Nat]],
         memory' \subseteq Task \X Entry,
         node' \in [Nodes -> [status : {"online", "offline"}, fresh : BOOLEAN]],
         faults' \in Nat, crashes' \in Nat
  PROVE  KernelInv'
<1>1. TypeOK'
  BY DEF KernelInv, TypeOK
<1>2. \A t \in Task : RowFits(task'[t])
  BY DEF KernelInv
<1>3. \A q \in Runs : RunFits(q, run'[q], task')
  <2> SUFFICES ASSUME NEW q \in Runs PROVE RunFits(q, run'[q], task)
    OBVIOUS
  <2>1. CASE q = r
    BY <2>1 DEF KernelInv, TypeOK
  <2>2. CASE q # r
    BY <2>2 DEF KernelInv, TypeOK
  <2> QED BY <2>1, <2>2
<1> QED BY <1>1, <1>2, <1>3 DEF KernelInv

\* The same for an action that leaves every table alone.
LEMMA QuietMoves ==
  ASSUME KernelInv, NEW r \in Runs, NEW s \in RunState, RunFits(r, s, task),
         run' = [run EXCEPT ![r] = s], UNCHANGED tables, Fine \/ Fault
  PROVE  KernelInv'
<1>1. UNCHANGED <<task, rows, notes, memory, node>>
  BY DEF tables
<1>2. faults' \in Nat /\ crashes' \in Nat
  BY DEF Fine, Fault, KernelInv, TypeOK
<1>3. /\ notes' \in [Task -> [executed : Nat, failed : Nat]]
      /\ memory' \subseteq Task \X Entry
      /\ node' \in [Nodes -> [status : {"online", "offline"}, fresh : BOOLEAN]]
  BY <1>1 DEF KernelInv, TypeOK
<1> QED BY <1>1, <1>2, <1>3, RunMoves

\* A write of a status that suits the work of a task that exists keeps the table and
\* disturbs no run.
LEMMA StatusWritten ==
  ASSUME KernelInv, NEW t \in Task, task[t].status # "absent",
         NEW st \in Status \ {"absent"}, NEW o \in Output,
         RowFits([task[t] EXCEPT !.status = st, !.output = o]),
         UpdateStatus(t, st, o)
  PROVE  /\ task' \in [Task -> TaskRow]
         /\ \A u \in Task : RowFits(task'[u])
         /\ \A q \in Runs, s \in RunState : RunFits(q, s, task) => RunFits(q, s, task')
<1> DEFINE new == [task[t] EXCEPT !.status = st, !.output = o]
<1>0. new \in TaskRow /\ task \in [Task -> TaskRow] /\ task' = [task EXCEPT ![t] = new]
  BY DEF KernelInv, TypeOK, UpdateStatus, TaskRow
<1>1. task' \in [Task -> TaskRow]
  BY <1>0
<1>2. \A u \in Task : RowFits(task'[u])
  BY <1>0 DEF KernelInv
<1>3. \A u \in Task : /\ task'[u].work = task[u].work
                      /\ task'[u].status = "absent" <=> task[u].status = "absent"
  BY DEF KernelInv, TypeOK, UpdateStatus, TaskRow, Status
<1>4. ASSUME NEW q \in Runs, NEW s \in RunState, RunFits(q, s, task)
      PROVE  RunFits(q, s, task')
  <2>1. \A i \in 0..MaxSubtasks : q \in Planners => <<q, i>> \in Task
    BY DEF Task
  <2>2. s.pc \in {"activate", "list"} => <<q, s.step>> \in Task
    BY <1>4, KernelAssumption DEF RunFits, RunState, Planning, Task
  <2>3. s.pc \in {"store", "count_failures", "fail", "remember_lesson", "complete",
                  "remember_failure", "reject"} => s.task \in Task
    BY <1>4 DEF RunFits, Working, Reviewing
  <2>4. s.pc \in Planning => q \in Planners
    BY <1>4 DEF RunFits
  <2>5. 0 \in 0..MaxSubtasks
    BY KernelAssumption
  <2> QED BY <1>3, <1>4, <2>1, <2>2, <2>3, <2>4, <2>5 DEF RunFits, Planning
<1> QED BY <1>1, <1>2, <1>4

\* The row inserted for t was absent, so only the planner of t can have known it.
LEMMA RowInserted ==
  ASSUME KernelInv, NEW r \in Planners, NEW i \in 0..MaxSubtasks,
         task[<<r, i>>].status = "absent",
         NEW w \in WorkClass, NEW p \in 0..10, InsertTask(<<r, i>>, w, p)
  PROVE  /\ task' \in [Task -> TaskRow] /\ rows' \in Nat
         /\ \A u \in Task : RowFits(task'[u])
         /\ task'[<<r, i>>].status # "absent"
         /\ \A u \in Task \ {<<r, i>>} : task'[u] = task[u]
         /\ \A q \in Runs \ {r} : RunFits(q, run[q], task')
<1>0. <<r, i>> \in Task
  BY DEF Task
<1>1. task' \in [Task -> TaskRow] /\ rows' \in Nat
  BY <1>0 DEF KernelInv, TypeOK, InsertTask, TaskRow, Status, Output
<1>2. /\ task'[<<r, i>>] = [status |-> "pending", output |-> "none",
                           work |-> w, priority |-> p, created |-> rows]
      /\ \A u \in Task \ {<<r, i>>} : task'[u] = task[u]
  BY <1>0 DEF KernelInv, TypeOK, InsertTask
<1>3. \A u \in Task : RowFits(task'[u])
  BY <1>2 DEF KernelInv, RowFits
<1>4. ASSUME NEW q \in Runs \ {r} PROVE RunFits(q, run[q], task')
  <2> DEFINE s == run[q]
  <2>0. s \in RunState /\ RunFits(q, s, task)
    BY DEF KernelInv, TypeOK
  <2>1. \A j \in 0..MaxSubtasks : q \in Planners => task'[<<q, j>>] = task[<<q, j>>]
    BY <1>2 DEF Task
  <2>2. s.pc \in {"activate", "list"} => q \in Planners /\ s.step \in 0..MaxSubtasks
    BY <2>0, KernelAssumption DEF RunFits, RunState, Planning
  <2>3. s.pc \in {"node"} \cup Working \cup Reviewing
          => s.task \in Task /\ task'[s.task] = task[s.task]
    BY <1>2, <2>0 DEF RunFits
  <2>4. s.pc \in {"store", "count_failures", "fail", "remember_lesson", "complete",
                  "remember_failure", "reject"} => s.pc \in Working \cup Reviewing
    BY DEF Working, Reviewing
  <2>5. 0 \in 0..MaxSubtasks /\ (s.pc \in Planning => q \in Planners)
    BY <2>0, KernelAssumption DEF RunFits
  <2>6. s.pc = "create" => s.pc \in Planning
    BY DEF Planning
  <2> HIDE DEF s
  <2>7. RunFits(q, s, task')
    BY <2>0, <2>1, <2>2, <2>3, <2>4, <2>5, <2>6 DEF RunFits
  <2> QED BY <2>7 DEF s
<1> QED BY <1>1, <1>2, <1>3, <1>4

\* An action that writes a fitting status and moves run r keeps the invariant.
LEMMA StatusMoves ==
  ASSUME KernelInv, NEW t \in Task, task[t].status # "absent",
         NEW st \in Status \ {"absent"}, NEW o \in Output,
         RowFits([task[t] EXCEPT !.status = st, !.output = o]),
         UpdateStatus(t, st, o), UNCHANGED rows,
         NEW r \in Runs, NEW s \in RunState, RunFits(r, s, task),
         run' = [run EXCEPT ![r] = s],
         notes' \in [Task -> [executed : Nat, failed : Nat]],
         memory' \subseteq Task \X Entry,
         node' \in [Nodes -> [status : {"online", "offline"}, fresh : BOOLEAN]],
         faults' \in Nat, crashes' \in Nat
  PROVE  KernelInv'
<1>1. /\ task' \in [Task -> TaskRow]
      /\ \A u \in Task : RowFits(task'[u])
      /\ \A q \in Runs, v \in RunState : RunFits(q, v, task) => RunFits(q, v, task')
  BY StatusWritten
<1>2. TypeOK'
  BY <1>1 DEF KernelInv, TypeOK
<1>3. \A q \in Runs : RunFits(q, run'[q], task')
  <2> SUFFICES ASSUME NEW q \in Runs PROVE RunFits(q, run'[q], task')
    OBVIOUS
  <2>1. CASE q = r
    BY <2>1, <1>1 DEF KernelInv, TypeOK
  <2>2. CASE q # r
    BY <2>2, <1>1 DEF KernelInv, TypeOK
  <2> QED BY <2>1, <2>2
<1> QED BY <1>1, <1>2, <1>3 DEF KernelInv

\* Between two iterations, and at its end, a run relies on nothing in the table.
LEMMA RestingFits ==
  ASSUME NEW r, NEW s, NEW T, s.pc \in {"select"} \cup Ended
  PROVE  RunFits(r, s, T)
BY DEF RunFits, Ended, Planning, Working, Reviewing

\* The locals after an agent returned to run_all().
Returned(r, result) ==
  [run[r] EXCEPT !.pc = "select",
                 !.task = NoTask, !.node = 0, !.out = "none", !.retries = 0,
                 !.iters = @ + 1,
                 !.completed = @ + (IF result = "completed" THEN 1 ELSE 0),
                 !.rejected = @ + (IF result = "rejected" THEN 1 ELSE 0)]

LEMMA ReturnedFits ==
  ASSUME KernelInv, NEW r \in Runs, NEW result, run[r].iters < MaxIterations
  PROVE  Returned(r, result) \in RunState /\ RunFits(r, Returned(r, result), task)
<1>1. run[r] \in RunState
  BY DEF KernelInv, TypeOK
<1>2. run[r].iters + 1 \in 0..MaxIterations
  BY <1>1, KernelAssumption DEF RunState
<1>3. Returned(r, result) \in RunState
  <2>1. /\ run[r].completed + (IF result = "completed" THEN 1 ELSE 0) \in Nat
        /\ run[r].rejected + (IF result = "rejected" THEN 1 ELSE 0) \in Nat
    BY <1>1 DEF RunState
  <2>2. "select" \in PC /\ "none" \in Output /\ NoTask \in Task \cup {NoTask}
    BY DEF PC, Active, Output
  <2> QED BY <1>1, <1>2, <2>1, <2>2 DEF Returned, RunState
<1>4. Returned(r, result).pc = "select"
  BY <1>1 DEF Returned, RunState
<1> QED BY <1>3, <1>4, RestingFits

\* GoTo() changes the program counter and nothing else.
Moved(r, l) == [run[r] EXCEPT !.pc = l]

LEMMA MovedTyped ==
  ASSUME KernelInv, NEW r \in Runs, NEW l \in PC
  PROVE  /\ Moved(r, l) \in RunState /\ run[r] \in RunState
         /\ Moved(r, l).pc = l /\ Moved(r, l).task = run[r].task
         /\ Moved(r, l).iters = run[r].iters /\ Moved(r, l).out = run[r].out
         /\ Moved(r, l).step = run[r].step /\ Moved(r, l).size = run[r].size
BY DEF KernelInv, TypeOK, Moved, RunState

--------------------------------------------------------------------------------
\* The initial state and the actions

LEMMA KernelInvInit == Init => KernelInv
<1> SUFFICES ASSUME Init PROVE KernelInv
  OBVIOUS
<1>1. TypeOK
  BY KernelAssumption DEF Init, TypeOK, TaskRow, RunState, Status, Output, WorkClass, PC, Runs
<1>2. \A t \in Task : RowFits(task[t])
  BY DEF Init, RowFits
<1>3. \A r \in Runs : RunFits(r, run[r], task)
  BY DEF Init, RunFits, Task, Planning, Working, Reviewing
<1> QED BY <1>1, <1>2, <1>3 DEF KernelInv

LEMMA StartKeeps ==
  ASSUME KernelInv, NEW r \in Runs, Start(r)
  PROVE  KernelInv'
<1>0. run[r] \in RunState /\ TypeOK
  BY DEF KernelInv, TypeOK
<1>1. CASE CallRunTask(r)
  <2>1. PICK w \in Works, p \in RootPriorities, k \in 1..MaxSubtasks :
           /\ InsertTask(Root(r), w, p)
           /\ run' = [run EXCEPT ![r] = [@ EXCEPT !.pc = "create", !.step = 1, !.size = k]]
    BY <1>1 DEF CallRunTask
  <2> DEFINE s == [run[r] EXCEPT !.pc = "create", !.step = 1, !.size = k]
  <2>2. /\ r \in Planners /\ 0 \in 0..MaxSubtasks /\ w \in WorkClass /\ p \in 0..10
        /\ \A i \in 0..MaxSubtasks : task[<<r, i>>].status = "absent"
    <3>1. /\ r \in Planners /\ run[r].pc = "idle" /\ RunFits(r, run[r], task)
      BY <1>1 DEF CallRunTask, MayStart, At, KernelInv
    <3>2. \A i \in 0..MaxSubtasks : task[<<r, i>>].status = "absent"
      BY <3>1 DEF RunFits
    <3>3. 0 \in 0..MaxSubtasks /\ w \in WorkClass /\ p \in 0..10
      BY KernelAssumption
    <3> QED BY <3>1, <3>2, <3>3
  <2>3. /\ task' \in [Task -> TaskRow] /\ rows' \in Nat
        /\ \A u \in Task : RowFits(task'[u])
        /\ task'[<<r, 0>>].status # "absent"
        /\ \A u \in Task \ {<<r, 0>>} : task'[u] = task[u]
        /\ \A q \in Runs \ {r} : RunFits(q, run[q], task')
    BY <2>1, <2>2, RowInserted DEF Root
  <2>4. s \in RunState /\ s.pc = "create" /\ s.step = 1 /\ s.size = k
    <3>1. "create" \in PC /\ k \in Nat
      BY KernelAssumption DEF PC, Active, Planning
    <3> QED BY <1>0, <3>1 DEF RunState
  <2>5. \A i \in 0..MaxSubtasks : i >= 1 => task'[<<r, i>>].status = "absent"
    BY <2>2, <2>3, KernelAssumption DEF Task
  <2>6. RunFits(r, s, task')
    BY <2>2, <2>3, <2>4, <2>5, KernelAssumption DEF RunFits, Working, Reviewing
  <2>7. run' = [run EXCEPT ![r] = s]
    BY <2>1
  <2> HIDE DEF s
  <2>8. \A q \in Runs : RunFits(q, run'[q], task')
    BY <1>0, <2>3, <2>6, <2>7 DEF TypeOK
  <2>9. TypeOK'
    BY <1>0, <1>1, <2>3, <2>4, <2>7 DEF TypeOK, CallRunTask, Fine
  <2> QED BY <2>3, <2>8, <2>9 DEF KernelInv
<1>2. CASE CallRunAll(r)
  <2>1. Moved(r, "select") \in RunState /\ RunFits(r, Moved(r, "select"), task)
    BY MovedTyped, RestingFits DEF PC, Active
  <2> QED BY <1>2, <2>1, QuietMoves DEF CallRunAll, GoTo, Moved
<1> QED BY <1>1, <1>2 DEF Start

\* What a planner knows between its calls.
LEMMA PlannerFacts ==
  ASSUME KernelInv, NEW r \in Runs, run[r].pc \in Planning
  PROVE  /\ run[r] \in RunState /\ TypeOK
         /\ r \in Planners /\ run[r].step \in Nat /\ run[r].step >= 1
         /\ run[r].size \in Nat /\ run[r].size <= MaxSubtasks
         /\ <<r, 0>> \in Task /\ task[<<r, 0>>].status # "absent"
         /\ \A i \in 0..MaxSubtasks : i > run[r].step => task[<<r, i>>].status = "absent"
         /\ run[r].pc = "create" =>
              \A i \in 0..MaxSubtasks : i >= run[r].step => task[<<r, i>>].status = "absent"
         /\ run[r].pc \in {"activate", "list"}
              => /\ run[r].step <= run[r].size /\ run[r].step \in 0..MaxSubtasks
                 /\ task[<<r, run[r].step>>].status # "absent"
<1>1. run[r] \in RunState /\ TypeOK /\ RunFits(r, run[r], task)
  BY DEF KernelInv, TypeOK
<1> DEFINE s == run[r]
<1>2. s.step \in Nat /\ s.size \in Nat
  BY <1>1 DEF RunState
<1> HIDE DEF s
<1>3. RunFits(r, s, task) /\ s.pc \in Planning
  BY <1>1 DEF s
<1>4. /\ r \in Planners /\ s.step >= 1 /\ s.size <= MaxSubtasks
      /\ task[<<r, 0>>].status # "absent"
      /\ \A i \in 0..MaxSubtasks : i > s.step => task[<<r, i>>].status = "absent"
      /\ s.pc = "create" =>
           \A i \in 0..MaxSubtasks : i >= s.step => task[<<r, i>>].status = "absent"
  BY <1>3 DEF RunFits
<1>5. s.pc \in {"activate", "list"}
        => s.step <= s.size /\ task[<<r, s.step>>].status # "absent"
  BY <1>3 DEF RunFits
<1>6. <<r, 0>> \in Task
  BY <1>4, KernelAssumption DEF Task
<1>7. s.step <= s.size => s.step \in 0..MaxSubtasks
  BY <1>2, <1>4, KernelAssumption
<1> QED BY <1>1, <1>2, <1>4, <1>5, <1>6, <1>7 DEF s

\* A planner that goes on with the next step of its plan.
LEMMA NextSubtaskFits ==
  ASSUME KernelInv, NEW r \in Runs, run[r].pc \in Planning, NEW s \in RunState,
         s.pc = "create", s.step = run[r].step + 1, s.size = run[r].size
  PROVE  RunFits(r, s, task)
<1>0. run[r].step \in Nat /\ run[r].step >= 1
  BY PlannerFacts
<1>1. \A i \in 0..MaxSubtasks : i >= s.step => i > run[r].step
  BY <1>0, KernelAssumption
<1>2. /\ r \in Planners /\ s.step >= 1 /\ s.size <= MaxSubtasks
      /\ task[<<r, 0>>].status # "absent"
      /\ \A i \in 0..MaxSubtasks : i >= s.step => task[<<r, i>>].status = "absent"
      /\ \A i \in 0..MaxSubtasks : i > s.step => task[<<r, i>>].status = "absent"
  <2>1. /\ r \in Planners /\ run[r].size <= MaxSubtasks /\ task[<<r, 0>>].status # "absent"
        /\ \A i \in 0..MaxSubtasks : i > run[r].step => task[<<r, i>>].status = "absent"
    BY PlannerFacts
  <2>2. \A i \in 0..MaxSubtasks : i > s.step => i >= s.step
    BY <1>0
  <2> QED BY <1>0, <1>1, <2>1, <2>2
<1> QED BY <1>2 DEF RunFits, Working, Reviewing

LEMMA PlanStepKeeps ==
  ASSUME KernelInv, NEW r \in Runs, PlanStep(r)
  PROVE  KernelInv'
<1>0. run[r].pc \in Planning
  BY DEF PlanStep, CreateSubtask, ActivateSubtask, ListSubtask, FinishPlan, At, Planning
<1>1. CASE CreateSubtask(r)
  <2> DEFINE k == run[r].step
             s == Moved(r, "activate")
  <2>1. PICK w \in Works : InsertTask(<<r, k>>, w, SubtaskPriority(k))
    BY <1>1 DEF CreateSubtask
  <2>2. /\ r \in Planners /\ k \in 0..MaxSubtasks /\ k \in Nat /\ k >= 1 /\ k <= run[r].size
        /\ task[<<r, k>>].status = "absent" /\ w \in WorkClass
    <3>1. run[r].pc = "create" /\ k <= run[r].size
      BY <1>1 DEF CreateSubtask, At
    <3>2. r \in Planners /\ k \in Nat /\ k >= 1 /\ run[r].size \in Nat
          /\ run[r].size <= MaxSubtasks
      BY <1>0, PlannerFacts
    <3>3. k \in 0..MaxSubtasks
      BY <3>1, <3>2, KernelAssumption
    <3>4. \A i \in 0..MaxSubtasks : i >= k => task[<<r, i>>].status = "absent"
      BY <1>0, <3>1, PlannerFacts
    <3> QED BY <3>1, <3>2, <3>3, <3>4, KernelAssumption
  <2>3. SubtaskPriority(k) \in 0..10
    BY <2>2 DEF SubtaskPriority
  <2>4. /\ task' \in [Task -> TaskRow] /\ rows' \in Nat
        /\ \A u \in Task : RowFits(task'[u])
        /\ task'[<<r, k>>].status # "absent"
        /\ \A u \in Task \ {<<r, k>>} : task'[u] = task[u]
        /\ \A q \in Runs \ {r} : RunFits(q, run[q], task')
    BY <2>1, <2>2, <2>3, RowInserted
  <2>5. /\ s \in RunState /\ s.pc = "activate" /\ s.step = k /\ s.size = run[r].size
    BY MovedTyped DEF PC, Active, Planning
  <2>6. /\ task'[<<r, 0>>].status # "absent"
        /\ \A i \in 0..MaxSubtasks : i > k => task'[<<r, i>>].status = "absent"
    BY <1>0, <2>2, <2>4, PlannerFacts DEF Task
  <2>7. s.size <= MaxSubtasks
    BY <1>0, <2>5, PlannerFacts
  <2>8. run' = [run EXCEPT ![r] = s] /\ UNCHANGED <<notes, memory, node, faults, crashes>>
    BY <1>1 DEF CreateSubtask, GoTo, Moved, Fine
  <2> HIDE DEF k, s
  <2>9. RunFits(r, s, task')
    BY <2>2, <2>4, <2>5, <2>6, <2>7 DEF RunFits, Working, Reviewing
  <2>10. \A q \in Runs : RunFits(q, run'[q], task')
    BY <2>4, <2>8, <2>9 DEF KernelInv, TypeOK
  <2>11. TypeOK'
    BY <2>4, <2>5, <2>8 DEF KernelInv, TypeOK
  <2> QED BY <2>4, <2>10, <2>11 DEF KernelInv
<1>2. CASE ActivateSubtask(r)
  <2> DEFINE t == <<r, run[r].step>>
             s == Moved(r, "list")
  <2>1. t \in Task /\ task[t].status # "absent"
    BY <1>0, <1>2, PlannerFacts DEF ActivateSubtask, At, Task
  <2>2. s \in RunState /\ s.pc = "list" /\ s.step = run[r].step /\ s.size = run[r].size
    BY MovedTyped DEF PC, Active, Planning
  <2>3. RunFits(r, s, task)
    <3> HIDE DEF s
    <3> QED BY <1>0, <1>2, <2>2, PlannerFacts
            DEF ActivateSubtask, At, RunFits, Working, Reviewing
  <2>4. RowFits([task[t] EXCEPT !.status = "planned", !.output = "none"])
    BY <2>1 DEF RowFits, KernelInv, TypeOK, TaskRow
  <2>5. UpdateStatus(t, "planned", "none") /\ run' = [run EXCEPT ![r] = s]
    BY <1>2 DEF ActivateSubtask, GoTo, Moved
  <2>6. "planned" \in Status \ {"absent"} /\ "none" \in Output
    BY DEF Status, Output
  <2> HIDE DEF s, t
  <2> QED BY <1>2, <2>1, <2>2, <2>3, <2>4, <2>5, <2>6, StatusMoves
          DEF ActivateSubtask, Fine, KernelInv, TypeOK
<1>3. CASE ListSubtask(r)
  <2> DEFINE s == [run[r] EXCEPT !.pc = "create", !.step = @ + 1, !.listed = @ + 1]
  <2>1. s \in RunState /\ s.pc = "create" /\ s.step = run[r].step + 1 /\ s.size = run[r].size
    <3>1. "create" \in PC
      BY DEF PC, Active, Planning
    <3>2. run[r] \in RunState
      BY <1>0, PlannerFacts
    <3>3. run[r].step + 1 \in Nat /\ run[r].listed + 1 \in Nat
      BY <3>2 DEF RunState
    <3> QED BY <3>1, <3>2, <3>3 DEF RunState
  <2>2. run' = [run EXCEPT ![r] = s]
    BY <1>3 DEF ListSubtask
  <2> HIDE DEF s
  <2>3. RunFits(r, s, task)
    BY <1>0, <2>1, NextSubtaskFits
  <2> QED BY <1>3, <2>1, <2>2, <2>3, QuietMoves DEF ListSubtask
<1>4. CASE FinishPlan(r)
  <2> DEFINE t == <<r, 0>>
             s == Moved(r, "select")
  <2>1. t \in Task /\ task[t].status # "absent"
    BY <1>0, PlannerFacts
  <2>2. s \in RunState /\ RunFits(r, s, task)
    BY MovedTyped, RestingFits DEF PC, Active
  <2>3. RowFits([task[t] EXCEPT !.status = "planned", !.output = "plan"])
    BY <2>1 DEF RowFits, KernelInv, TypeOK, TaskRow
  <2>4. UpdateStatus(t, "planned", "plan") /\ run' = [run EXCEPT ![r] = s]
    BY <1>4 DEF FinishPlan, GoTo, Moved, Root
  <2>5. "planned" \in Status \ {"absent"} /\ "plan" \in Output
    BY DEF Status, Output
  <2> HIDE DEF s, t
  <2> QED BY <1>4, <2>1, <2>2, <2>3, <2>4, <2>5, StatusMoves
          DEF FinishPlan, Fine, KernelInv, TypeOK
<1> QED BY <1>1, <1>2, <1>3, <1>4 DEF PlanStep

LEMMA CoordinatorStepKeeps ==
  ASSUME KernelInv, NEW r \in Runs, CoordinatorStep(r)
  PROVE  KernelInv'
<1>0. run[r] \in RunState /\ RunFits(r, run[r], task) /\ TypeOK
  BY DEF KernelInv, TypeOK
<1>1. CASE SelectTask(r)
  <2>1. PICK t \in Dispatchable :
           run' = [run EXCEPT ![r] = [@ EXCEPT !.task = t,
                     !.pc = IF task[t].status = "planned" THEN "node" ELSE "review"]]
    BY <1>1 DEF SelectTask
  <2> DEFINE l == IF task[t].status = "planned" THEN "node" ELSE "review"
             s == [run[r] EXCEPT !.task = t, !.pc = l]
  <2>2. t \in Task /\ task[t].status # "absent" /\ l \in {"node", "review"} /\ l \in PC
    BY DEF Dispatchable, PC, Active, Reviewing
  <2>3. run[r].iters < MaxIterations
    <3>1. run[r].iters \in 0..MaxIterations
      BY <1>0 DEF RunState
    <3> QED BY <1>1, <3>1 DEF SelectTask
  <2> HIDE DEF l
  <2>4. s \in RunState /\ s.pc = l /\ s.task = t /\ s.iters = run[r].iters
    BY <1>0, <2>2 DEF RunState
  <2>5. run' = [run EXCEPT ![r] = s]
    BY <2>1 DEF l
  <2> HIDE DEF s
  <2>6. RunFits(r, s, task)
    BY <2>2, <2>3, <2>4 DEF RunFits, Planning
  <2> QED BY <1>1, <2>4, <2>5, <2>6, QuietMoves DEF SelectTask
<1>2. CASE Finish(r)
  <2>1. Moved(r, "done") \in RunState /\ RunFits(r, Moved(r, "done"), task)
    BY MovedTyped, RestingFits DEF PC, Ended
  <2> QED BY <1>2, <2>1, QuietMoves DEF Finish, GoTo, Moved
<1>3. CASE PickNode(r)
  <2>1. PICK n \in Healthy :
           run' = [run EXCEPT ![r] = [@ EXCEPT !.pc = "execute", !.node = n]]
    BY <1>3 DEF PickNode
  <2> DEFINE s == [run[r] EXCEPT !.pc = "execute", !.node = n]
  <2>2. n \in Nat /\ "execute" \in PC
    BY KernelAssumption DEF Healthy, PC, Active, Working
  <2>3. /\ s \in RunState /\ s.pc = "execute"
        /\ s.task = run[r].task /\ s.iters = run[r].iters
    BY <1>0, <2>2 DEF RunState
  <2>4. /\ run[r].iters < MaxIterations /\ run[r].task \in Task
        /\ task[run[r].task].status # "absent"
    BY <1>0, <1>3 DEF PickNode, At, RunFits
  <2>5. run' = [run EXCEPT ![r] = s]
    BY <2>1
  <2> HIDE DEF s
  <2>6. RunFits(r, s, task)
    BY <2>3, <2>4 DEF RunFits, Planning
  <2> QED BY <1>3, <2>3, <2>5, <2>6, QuietMoves DEF PickNode
<1>4. CASE NoAvailableNode(r)
  <2>1. Moved(r, "no_node") \in RunState /\ RunFits(r, Moved(r, "no_node"), task)
    BY MovedTyped, RestingFits DEF PC, Ended
  <2> QED BY <1>4, <2>1, QuietMoves DEF NoAvailableNode, GoTo, Moved
<1> QED BY <1>1, <1>2, <1>3, <1>4 DEF CoordinatorStep

\* An action that keeps the table and moves run r along, or back to run_all().
LEMMA AgentMoves ==
  ASSUME KernelInv, NEW r \in Runs, NEW l \in PC, RunFits(r, Moved(r, l), task),
         GoTo(r, l), UNCHANGED <<task, rows>>, Fine \/ Fault,
         notes' \in [Task -> [executed : Nat, failed : Nat]],
         memory' \subseteq Task \X Entry,
         node' \in [Nodes -> [status : {"online", "offline"}, fresh : BOOLEAN]]
  PROVE  KernelInv'
<1>1. Moved(r, l) \in RunState /\ run' = [run EXCEPT ![r] = Moved(r, l)]
  BY MovedTyped DEF GoTo, Moved
<1>2. faults' \in Nat /\ crashes' \in Nat
  BY DEF Fine, Fault, KernelInv, TypeOK
<1> QED BY <1>1, <1>2, RunMoves

LEMMA AgentReturns ==
  ASSUME KernelInv, NEW r \in Runs, NEW result, run[r].iters < MaxIterations,
         NextIteration(r, result), UNCHANGED <<task, rows>>, Fine \/ Fault,
         notes' \in [Task -> [executed : Nat, failed : Nat]],
         memory' \subseteq Task \X Entry,
         node' \in [Nodes -> [status : {"online", "offline"}, fresh : BOOLEAN]]
  PROVE  KernelInv'
<1>1. Returned(r, result) \in RunState /\ RunFits(r, Returned(r, result), task)
  BY ReturnedFits
<1>2. run' = [run EXCEPT ![r] = Returned(r, result)]
  BY DEF NextIteration, Returned
<1>3. faults' \in Nat /\ crashes' \in Nat
  BY DEF Fine, Fault, KernelInv, TypeOK
<1> QED BY <1>1, <1>2, <1>3, RunMoves

\* What an agent knows of the task it holds.
LEMMA AgentFacts ==
  ASSUME KernelInv, NEW r \in Runs, run[r].pc \in {"node"} \cup Working \cup Reviewing
  PROVE  /\ Cur(r) \in Task /\ task[Cur(r)] \in TaskRow /\ task[Cur(r)].status # "absent"
         /\ run[r].iters < MaxIterations
         /\ RowFits(task[Cur(r)]) /\ RunFits(r, run[r], task) /\ TypeOK
BY DEF KernelInv, TypeOK, RunFits, Cur

LEMMA RememberTyped ==
  ASSUME KernelInv, NEW t \in Task, NEW e \in Entry, Remember(t, e)
  PROVE  memory' \subseteq Task \X Entry
BY DEF KernelInv, TypeOK, Remember

LEMMA WorkerStepKeeps ==
  ASSUME KernelInv, NEW r \in Runs, WorkerStep(r)
  PROVE  KernelInv'
<1>0. run[r].pc \in Working
  BY DEF WorkerStep, WorkerRefuses, WorkerExecutes, StoreResult, RememberResult,
         CountFailures, FailTask, NoteFailure, At, Working
<1> DEFINE t == Cur(r)
<1>1. /\ t \in Task /\ task[t] \in TaskRow /\ task[t].status # "absent"
      /\ run[r].iters < MaxIterations
      /\ RowFits(task[t]) /\ RunFits(r, run[r], task) /\ TypeOK
  BY <1>0, AgentFacts
<1>2. /\ notes \in [Task -> [executed : Nat, failed : Nat]]
      /\ memory \subseteq Task \X Entry
      /\ node \in [Nodes -> [status : {"online", "offline"}, fresh : BOOLEAN]]
      /\ faults \in Nat /\ crashes \in Nat /\ run[r] \in RunState
  BY <1>1 DEF TypeOK
<1>3. CASE WorkerRefuses(r)
  BY <1>1, <1>2, <1>3, AgentReturns DEF WorkerRefuses, tables
<1>4. CASE WorkerExecutes(r)
  <2> DEFINE l == IF task[t].work = "empty" THEN "count_failures" ELSE "store"
             s == Moved(r, l)
  <2>1. l \in {"count_failures", "store"} /\ l \in PC
    BY DEF PC, Active, Working
  <2>2. notes' \in [Task -> [executed : Nat, failed : Nat]]
    BY <1>1, <1>2, <1>4 DEF WorkerExecutes
  <2>3. task[t].work \in {"good", "bad", "empty"}
    BY <1>1 DEF TaskRow, WorkClass
  <2>4. /\ l = "store" => task[t].work \in {"good", "bad"}
        /\ l = "count_failures" => task[t].work = "empty"
    BY <2>3
  <2>5. UNCHANGED <<task, rows, memory, node>> /\ Fine /\ GoTo(r, l)
    BY <1>4 DEF WorkerExecutes
  <2> HIDE DEF l
  <2>6. s.pc = l /\ s.task = t /\ s.iters = run[r].iters
    BY <2>1, MovedTyped DEF Cur
  <2> HIDE DEF s, t
  <2>7. RunFits(r, s, task)
    BY <1>1, <2>1, <2>4, <2>6 DEF RunFits, Planning
  <2> USE DEF s
  <2> QED BY <1>2, <2>1, <2>2, <2>5, <2>7, AgentMoves
<1>5. CASE StoreResult(r)
  <2> DEFINE o == task[t].work
             s == Moved(r, "remember_result")
  <2>1. o \in {"good", "bad"} /\ o \in Output
    BY <1>1, <1>5 DEF StoreResult, At, RunFits, Cur, Output
  <2>2. RowFits([task[t] EXCEPT !.status = "review_pending", !.output = o])
    BY <1>1, <2>1 DEF RowFits, TaskRow
  <2>3. /\ s \in RunState /\ s.pc = "remember_result" /\ s.task = t
        /\ s.iters = run[r].iters
    BY MovedTyped DEF PC, Active, Working, Cur
  <2>4. /\ UpdateStatus(t, "review_pending", o) /\ run' = [run EXCEPT ![r] = s]
        /\ UNCHANGED <<rows, notes, memory, node, faults, crashes>>
    BY <1>5 DEF StoreResult, GoTo, Moved, Fine
  <2>5. "review_pending" \in Status \ {"absent"}
    BY DEF Status
  <2> HIDE DEF s, o, t
  <2>6. RunFits(r, s, task)
    BY <1>1, <2>3 DEF RunFits, Planning
  <2> QED BY <1>1, <1>2, <2>1, <2>2, <2>3, <2>4, <2>5, <2>6, StatusMoves
<1>6. CASE RememberResult(r)
  <2>1. memory' \subseteq Task \X Entry
    BY <1>1, <1>6, RememberTyped DEF RememberResult, Entry
  <2> QED BY <1>1, <1>2, <1>6, <2>1, AgentReturns DEF RememberResult
<1>7. CASE CountFailures(r)
  <2> DEFINE s == [run[r] EXCEPT !.pc = "fail", !.retries = notes[t].failed]
  <2>1. notes[t].failed \in Nat /\ "fail" \in PC
    BY <1>1, <1>2 DEF PC, Active, Working
  <2>2. run' = [run EXCEPT ![r] = s]
    BY <1>7 DEF CountFailures
  <2>3. /\ s \in RunState /\ s.pc = "fail" /\ s.task = t /\ s.iters = run[r].iters
    BY <1>2, <2>1 DEF RunState, Cur
  <2>4. task[t].work = "empty"
    BY <1>1, <1>7 DEF CountFailures, At, RunFits, Cur
  <2> HIDE DEF s, t
  <2>5. RunFits(r, s, task)
    BY <1>1, <2>3, <2>4 DEF RunFits, Planning
  <2> QED BY <1>7, <2>2, <2>3, <2>5, QuietMoves DEF CountFailures
<1>8. CASE FailTask(r)
  <2> DEFINE st == FinalStatus(run[r].retries)
             s == Moved(r, "note_failure")
  <2>1. st \in {"failed", "abandoned"} /\ st \in Status \ {"absent"} /\ "failure" \in Output
    BY DEF FinalStatus, Status, Output
  <2>2. task[t].work = "empty"
    BY <1>1, <1>8 DEF FailTask, At, RunFits, Cur
  <2>3. UpdateStatus(t, st, "failure") /\ run' = [run EXCEPT ![r] = s]
    BY <1>8 DEF FailTask, GoTo, Moved
  <2>4. /\ s \in RunState /\ s.pc = "note_failure" /\ s.task = t
        /\ s.iters = run[r].iters
    BY MovedTyped DEF PC, Active, Working, Cur
  <2>5. /\ memory' \subseteq Task \X Entry
        /\ UNCHANGED <<rows, notes, faults, crashes>>
    BY <1>1, <1>8, RememberTyped DEF FailTask, Entry, Fine
  <2>6. node' \in [Nodes -> [status : {"online", "offline"}, fresh : BOOLEAN]]
    BY <1>2, <1>8 DEF FailTask
  <2> HIDE DEF s, st, t
  <2>7. RowFits([task[t] EXCEPT !.status = st, !.output = "failure"])
    BY <1>1, <2>1, <2>2 DEF RowFits, TaskRow
  <2>8. RunFits(r, s, task)
    BY <1>1, <2>4 DEF RunFits, Planning
  <2> QED BY <1>1, <1>2, <2>1, <2>3, <2>4, <2>5, <2>6, <2>7, <2>8, StatusMoves
<1>9. CASE NoteFailure(r)
  <2>1. notes' \in [Task -> [executed : Nat, failed : Nat]]
    BY <1>1, <1>2, <1>9 DEF NoteFailure
  <2> QED BY <1>1, <1>2, <1>9, <2>1, AgentReturns DEF NoteFailure
<1> QED BY <1>3, <1>4, <1>5, <1>6, <1>7, <1>8, <1>9 DEF WorkerStep

LEMMA ReviewerStepKeeps ==
  ASSUME KernelInv, NEW r \in Runs, ReviewerStep(r)
  PROVE  KernelInv'
<1>0. run[r].pc \in Reviewing
  BY DEF ReviewerStep, ReviewerRefuses, ReviewerEvaluates, RememberLesson, CompleteTask,
         ExtractLesson, RememberFailure, RejectTask, At, Reviewing
<1> DEFINE t == Cur(r)
<1>1. /\ t \in Task /\ task[t] \in TaskRow /\ task[t].status # "absent"
      /\ run[r].iters < MaxIterations
      /\ RowFits(task[t]) /\ RunFits(r, run[r], task) /\ TypeOK
  BY <1>0, AgentFacts
<1>2. /\ notes \in [Task -> [executed : Nat, failed : Nat]]
      /\ memory \subseteq Task \X Entry
      /\ node \in [Nodes -> [status : {"online", "offline"}, fresh : BOOLEAN]]
      /\ faults \in Nat /\ crashes \in Nat /\ run[r] \in RunState
  BY <1>1 DEF TypeOK
<1>3. CASE ReviewerRefuses(r)
  BY <1>1, <1>2, <1>3, AgentReturns DEF ReviewerRefuses, tables
<1>4. CASE ReviewerEvaluates(r)
  <2> DEFINE o == task[t].output
             l == IF Evaluate(o) THEN "remember_lesson" ELSE "remember_failure"
             s == [run[r] EXCEPT !.out = o, !.pc = l]
  <2>1. /\ l \in {"remember_lesson", "remember_failure"} /\ l \in PC /\ o \in Output
        /\ l = "remember_lesson" => o = "good"
        /\ l = "remember_failure" => o # "good"
    BY <1>1 DEF PC, Active, Reviewing, Evaluate, TaskRow
  <2>2. o = task[t].work /\ task[t].work \in {"good", "bad"}
    BY <1>1, <1>4 DEF ReviewerEvaluates, RowFits
  <2>3. run' = [run EXCEPT ![r] = s]
    BY <1>4 DEF ReviewerEvaluates
  <2> HIDE DEF o, l
  <2>4. /\ s \in RunState /\ s.pc = l /\ s.out = o /\ s.task = t
        /\ s.iters = run[r].iters
    BY <1>2, <2>1 DEF RunState, Cur
  <2> HIDE DEF s, t
  <2>5. RunFits(r, s, task)
    BY <1>1, <2>1, <2>2, <2>4 DEF RunFits, Planning
  <2> QED BY <1>4, <2>3, <2>4, <2>5, QuietMoves DEF ReviewerEvaluates
<1>5. CASE RememberLesson(r)
  <2> DEFINE s == Moved(r, "complete")
  <2>1. memory' \subseteq Task \X Entry
    BY <1>1, <1>5, RememberTyped DEF RememberLesson, Entry
  <2>2. task[t].work = "good" /\ run[r].out = "good"
    BY <1>1, <1>5 DEF RememberLesson, At, RunFits, Cur
  <2>3. /\ s.pc = "complete" /\ s.task = t /\ s.iters = run[r].iters
        /\ s.out = run[r].out /\ "complete" \in PC
    BY MovedTyped DEF PC, Active, Reviewing, Cur
  <2> HIDE DEF s, t
  <2>4. RunFits(r, s, task)
    BY <1>1, <2>2, <2>3 DEF RunFits, Planning
  <2> USE DEF s
  <2> QED BY <1>2, <1>5, <2>1, <2>3, <2>4, AgentMoves DEF RememberLesson
<1>6. CASE CompleteTask(r)
  <2> DEFINE s == Moved(r, "extract")
  <2>1. task[t].work = "good" /\ run[r].out = "good"
    BY <1>1, <1>6 DEF CompleteTask, At, RunFits, Cur
  <2>2. RowFits([task[t] EXCEPT !.status = "completed", !.output = "good"])
    BY <1>1, <2>1 DEF RowFits, TaskRow
  <2>3. /\ s \in RunState /\ s.pc = "extract" /\ s.task = t /\ s.iters = run[r].iters
    BY MovedTyped DEF PC, Active, Reviewing, Cur
  <2>4. /\ UpdateStatus(t, "completed", "good") /\ run' = [run EXCEPT ![r] = s]
        /\ UNCHANGED <<rows, notes, memory, node, faults, crashes>>
    BY <1>6, <2>1 DEF CompleteTask, GoTo, Moved, Fine
  <2>5. "completed" \in Status \ {"absent"} /\ "good" \in Output
    BY DEF Status, Output
  <2> HIDE DEF s, t
  <2>6. RunFits(r, s, task)
    BY <1>1, <2>3 DEF RunFits, Planning
  <2> QED BY <1>1, <1>2, <2>2, <2>3, <2>4, <2>5, <2>6, StatusMoves
<1>7. CASE ExtractLesson(r)
  <2>1. memory' \subseteq Task \X Entry
    BY <1>1, <1>7, RememberTyped DEF ExtractLesson, Entry
  <2> QED BY <1>1, <1>2, <1>7, <2>1, AgentReturns DEF ExtractLesson
<1>8. CASE RememberFailure(r)
  <2> DEFINE s == Moved(r, "reject")
  <2>1. memory' \subseteq Task \X Entry
    BY <1>1, <1>8, RememberTyped DEF RememberFailure, Entry
  <2>2. task[t].work = "bad"
    BY <1>1, <1>8 DEF RememberFailure, At, RunFits, Cur
  <2>3. /\ s.pc = "reject" /\ s.task = t /\ s.iters = run[r].iters /\ "reject" \in PC
    BY MovedTyped DEF PC, Active, Reviewing, Cur
  <2> HIDE DEF s, t
  <2>4. RunFits(r, s, task)
    BY <1>1, <2>2, <2>3 DEF RunFits, Planning
  <2> USE DEF s
  <2> QED BY <1>2, <1>8, <2>1, <2>3, <2>4, AgentMoves DEF RememberFailure
<1>9. CASE RejectTask(r)
  <2> DEFINE s == Returned(r, "rejected")
  <2>1. task[t].work = "bad"
    BY <1>1, <1>9 DEF RejectTask, At, RunFits, Cur
  <2>2. RowFits([task[t] EXCEPT !.status = "rejected", !.output = "verdict"])
    BY <1>1, <2>1 DEF RowFits, TaskRow
  <2>3. s \in RunState /\ RunFits(r, s, task)
    BY <1>1, ReturnedFits
  <2>4. /\ UpdateStatus(t, "rejected", "verdict") /\ run' = [run EXCEPT ![r] = s]
        /\ UNCHANGED <<rows, notes, memory, node, faults, crashes>>
    BY <1>9 DEF RejectTask, NextIteration, Returned, Fine
  <2>5. "rejected" \in Status \ {"absent"} /\ "verdict" \in Output
    BY DEF Status, Output
  <2> HIDE DEF s, t
  <2> QED BY <1>1, <1>2, <2>2, <2>3, <2>4, <2>5, StatusMoves
<1> QED BY <1>3, <1>4, <1>5, <1>6, <1>7, <1>8, <1>9 DEF ReviewerStep

LEMMA FaultStepKeeps ==
  ASSUME KernelInv, NEW r \in Runs, FaultStep(r)
  PROVE  KernelInv'
<1>0. /\ run[r] \in RunState /\ RunFits(r, run[r], task)
      /\ notes \in [Task -> [executed : Nat, failed : Nat]]
      /\ memory \subseteq Task \X Entry
      /\ node \in [Nodes -> [status : {"online", "offline"}, fresh : BOOLEAN]]
  BY DEF KernelInv, TypeOK
<1>1. CASE SubtaskFault(r)
  <2> DEFINE s == [run[r] EXCEPT !.pc = "create", !.step = @ + 1]
  <2>1. run[r].pc \in Planning /\ run' = [run EXCEPT ![r] = s]
    BY <1>1 DEF SubtaskFault
  <2>2. "create" \in PC /\ run[r].step + 1 \in Nat
    BY <1>0 DEF PC, Active, Planning, RunState
  <2>3. s \in RunState /\ s.pc = "create" /\ s.step = run[r].step + 1 /\ s.size = run[r].size
    BY <1>0, <2>2 DEF RunState
  <2> HIDE DEF s
  <2>4. RunFits(r, s, task)
    BY <2>1, <2>3, NextSubtaskFits
  <2> QED BY <1>1, <2>1, <2>3, <2>4, QuietMoves DEF SubtaskFault
<1>2. CASE RunFault(r)
  <2>1. Moved(r, "error") \in RunState /\ RunFits(r, Moved(r, "error"), task)
    BY MovedTyped, RestingFits DEF PC, Ended
  <2> QED BY <1>2, <2>1, QuietMoves DEF RunFault, GoTo, Moved
<1>3. CASE AgentFault(r)
  <2>1. run[r].iters < MaxIterations
    BY <1>3, AgentFacts DEF AgentFault, Working, Reviewing
  <2> QED BY <1>0, <1>3, <2>1, AgentReturns DEF AgentFault, tables
<1>4. CASE MemoryFault(r)
  <2>0. run[r].pc \in Working \cup Reviewing
    BY <1>4 DEF MemoryFault, At, Working, Reviewing
  <2>1. run[r].iters < MaxIterations /\ Cur(r) \in Task /\ task[Cur(r)].status # "absent"
    BY <2>0, AgentFacts
  <2>2. CASE NextIteration(r, "review_pending") \/ NextIteration(r, "completed")
    BY <1>0, <1>4, <2>1, <2>2, AgentReturns DEF MemoryFault, tables
  <2>3. CASE At(r, "remember_lesson") /\ GoTo(r, "complete")
    <3> DEFINE s == Moved(r, "complete")
    <3>1. task[Cur(r)].work = "good" /\ run[r].out = "good"
      BY <1>0, <2>3 DEF At, RunFits, Cur
    <3>2. /\ s.pc = "complete" /\ s.task = Cur(r) /\ s.iters = run[r].iters
          /\ s.out = run[r].out /\ s \in RunState /\ run' = [run EXCEPT ![r] = s]
      BY <2>3, MovedTyped DEF PC, Active, Reviewing, Cur, GoTo, Moved
    <3> HIDE DEF s
    <3>3. RunFits(r, s, task)
      BY <2>1, <3>1, <3>2 DEF RunFits, Planning
    <3> QED BY <1>4, <3>2, <3>3, QuietMoves DEF MemoryFault
  <2>4. CASE At(r, "remember_failure") /\ GoTo(r, "reject")
    <3> DEFINE s == Moved(r, "reject")
    <3>1. task[Cur(r)].work = "bad"
      BY <1>0, <2>4 DEF At, RunFits, Cur
    <3>2. /\ s.pc = "reject" /\ s.task = Cur(r) /\ s.iters = run[r].iters
          /\ s \in RunState /\ run' = [run EXCEPT ![r] = s]
      BY <2>4, MovedTyped DEF PC, Active, Reviewing, Cur, GoTo, Moved
    <3> HIDE DEF s
    <3>3. RunFits(r, s, task)
      BY <2>1, <3>1, <3>2 DEF RunFits, Planning
    <3> QED BY <1>4, <3>2, <3>3, QuietMoves DEF MemoryFault
  <2> QED BY <1>4, <2>2, <2>3, <2>4 DEF MemoryFault
<1> QED BY <1>1, <1>2, <1>3, <1>4 DEF FaultStep

LEMMA CrashKeeps == KernelInv /\ Crash => KernelInv'
<1> SUFFICES ASSUME KernelInv, Crash PROVE KernelInv'
  OBVIOUS
<1>1. /\ UNCHANGED <<task, rows, notes, memory, node, faults>> /\ crashes' = crashes + 1
      /\ TypeOK
  BY DEF Crash, tables, KernelInv
<1>2. ASSUME NEW q \in Runs PROVE run'[q] \in RunState /\ RunFits(q, run'[q], task)
  <2>1. CASE run[q].pc \in Active
    <3>1. run'[q] = Moved(q, "crashed")
      BY <2>1 DEF Crash, Moved
    <3>2. Moved(q, "crashed") \in RunState /\ Moved(q, "crashed").pc = "crashed"
      BY MovedTyped DEF PC, Ended
    <3> QED BY <3>1, <3>2, RestingFits DEF Ended
  <2>2. CASE run[q].pc \notin Active
    BY <2>2 DEF Crash, KernelInv, TypeOK
  <2> QED BY <2>1, <2>2
<1>3. run' \in [Runs -> RunState]
  BY <1>2 DEF Crash
<1>4. TypeOK'
  BY <1>1, <1>3 DEF TypeOK
<1> QED BY <1>1, <1>2, <1>4 DEF KernelInv

LEMMA NodeStepKeeps == KernelInv /\ NodeStep => KernelInv'
<1> SUFFICES ASSUME KernelInv, NodeStep PROVE KernelInv'
  OBVIOUS
<1>1. PICK n \in Nodes, s \in {"online", "offline"}, f \in BOOLEAN : SetNode(n, s, f)
  BY DEF NodeStep, Heartbeat, GoSilent, MarkOffline, KernelInv, TypeOK
<1>2. UNCHANGED <<task, rows, notes, memory, run, faults, crashes>>
  BY <1>1 DEF SetNode, Fine
<1>3. node' \in [Nodes -> [status : {"online", "offline"}, fresh : BOOLEAN]]
  BY <1>1 DEF SetNode, KernelInv, TypeOK
<1>4. TypeOK'
  BY <1>2, <1>3 DEF KernelInv, TypeOK
<1> QED BY <1>2, <1>4 DEF KernelInv

LEMMA KernelInvNext == KernelInv /\ [Next]_vars => KernelInv'
<1> SUFFICES ASSUME KernelInv, [Next]_vars PROVE KernelInv'
  OBVIOUS
<1>1. ASSUME NEW r \in Runs, Start(r) \/ Step(r) \/ FaultStep(r) PROVE KernelInv'
  BY <1>1, StartKeeps, PlanStepKeeps, CoordinatorStepKeeps, WorkerStepKeeps,
     ReviewerStepKeeps, FaultStepKeeps DEF Step
<1>2. CASE UNCHANGED vars
  BY <1>2 DEF vars, KernelInv, TypeOK, RowFits, RunFits
<1> QED BY <1>1, <1>2, CrashKeeps, NodeStepKeeps DEF Next

--------------------------------------------------------------------------------
\* The theorems

\* The inductive invariant holds in every reachable state.
THEOREM KernelInvariant == Spec => []KernelInv
BY KernelInvInit, KernelInvNext, PTL DEF Spec

\* Every interleaving of any number of run_task() and run_all() calls, with faults
\* and crashes, keeps the tables and the runs well formed.
THEOREM TypeCorrect == Spec => []TypeOK
<1>1. KernelInv => TypeOK
  BY DEF KernelInv
<1> QED BY <1>1, KernelInvariant, PTL

\* The verdict stored for a task is always the one its output deserves (worker.execute,
\* reviewer.review), although the guards of the agents are read before their writes.
THEOREM VerdictsCorrect == Spec => []VerdictMatchesWork
<1>1. KernelInv => VerdictMatchesWork
  BY DEF KernelInv, RowFits, VerdictMatchesWork
<1> QED BY <1>1, KernelInvariant, PTL

--------------------------------------------------------------------------------
\* A verdict is remembered

\* The reviewer writes the memory entry before the verdict.
MemoryFirst ==
  faults = 0 =>
    \A r \in Runs : /\ run[r].pc = "complete" => <<Cur(r), "lesson">> \in memory
                    /\ run[r].pc = "reject" => <<Cur(r), "failure">> \in memory

RememberedInv == VerdictIsRemembered /\ MemoryFirst

\* Where GoTo() and NextIteration() leave the runs.
LEMMA WentTo ==
  ASSUME KernelInv, NEW r \in Runs, NEW l, GoTo(r, l)
  PROVE  /\ run'[r].pc = l /\ run'[r].task = Cur(r) /\ run'[r].step = run[r].step
         /\ \A q \in Runs \ {r} : run'[q] = run[q]
BY DEF KernelInv, TypeOK, GoTo, Cur, RunState

LEMMA WentBack ==
  ASSUME KernelInv, NEW r \in Runs, NEW result, NextIteration(r, result)
  PROVE  run'[r].pc = "select" /\ \A q \in Runs \ {r} : run'[q] = run[q]
<1>1. run \in [Runs -> RunState] /\ run' = [run EXCEPT ![r] = Returned(r, result)]
  BY DEF KernelInv, TypeOK, NextIteration, Returned
<1>2. Returned(r, result).pc = "select"
  BY <1>1 DEF Returned, RunState
<1> QED BY <1>1, <1>2

\* An action that stores no verdict and after which no run is about to.
LEMMA RememberedKept ==
  ASSUME KernelInv, RememberedInv, faults' = 0 => faults = 0, memory \subseteq memory',
         \A t \in Task : task'[t].status = task[t].status \/ task'[t].status \notin Terminal,
         \A q \in Runs : \/ run'[q] = run[q]
                         \/ run'[q].pc \notin {"complete", "reject"}
  PROVE  RememberedInv'
<1>1. VerdictIsRemembered'
  BY DEF RememberedInv, VerdictIsRemembered, Terminal
<1>2. MemoryFirst'
  BY DEF RememberedInv, MemoryFirst, Cur
<1> QED BY <1>1, <1>2 DEF RememberedInv

LEMMA RememberedNext == KernelInv /\ RememberedInv /\ [Next]_vars => RememberedInv'
<1> SUFFICES ASSUME KernelInv, RememberedInv, [Next]_vars PROVE RememberedInv'
  OBVIOUS
<1>0. /\ task \in [Task -> TaskRow] /\ run \in [Runs -> RunState] /\ faults \in Nat
  BY DEF KernelInv, TypeOK
<1>1. ASSUME NEW r \in Runs, FaultStep(r) PROVE RememberedInv'
  <2>1. faults' # 0
    BY <1>0, <1>1 DEF FaultStep, SubtaskFault, RunFault, AgentFault, MemoryFault, Fault
  <2> QED BY <2>1 DEF RememberedInv, VerdictIsRemembered, MemoryFirst
<1>2. ASSUME NEW r \in Runs, Start(r) \/ PlanStep(r) PROVE RememberedInv'
  <2>1. UNCHANGED <<memory, faults>>
    BY <1>2 DEF Start, CallRunTask, CallRunAll, PlanStep, CreateSubtask, ActivateSubtask,
                ListSubtask, FinishPlan, Fine, tables
  <2>2. ASSUME NEW t \in Task
        PROVE  task'[t].status = task[t].status \/ task'[t].status \notin Terminal
    <3>1. CASE UNCHANGED task
      BY <3>1
    <3>2. CASE \E u, w, p : InsertTask(u, w, p)
      BY <1>0, <3>2 DEF InsertTask, Terminal
    <3>3. CASE \E u, o : UpdateStatus(u, "planned", o)
      BY <1>0, <3>3 DEF UpdateStatus, Terminal, TaskRow
    <3> QED BY <1>2, <3>1, <3>2, <3>3
            DEF Start, CallRunTask, CallRunAll, PlanStep, CreateSubtask, ActivateSubtask,
                ListSubtask, FinishPlan, tables
  <2>3. ASSUME NEW q \in Runs
        PROVE  run'[q] = run[q] \/ run'[q].pc \notin {"complete", "reject"}
    <3>1. CASE GoTo(r, "select") \/ GoTo(r, "activate") \/ GoTo(r, "list")
      BY <3>1, WentTo
    <3>2. CASE CallRunTask(r)
      BY <1>0, <3>2 DEF CallRunTask, RunState
    <3>3. CASE ListSubtask(r)
      BY <1>0, <3>3 DEF ListSubtask, RunState
    <3> QED BY <1>2, <3>1, <3>2, <3>3
            DEF Start, CallRunAll, PlanStep, CreateSubtask, ActivateSubtask, FinishPlan
  <2> QED BY <2>1, <2>2, <2>3, RememberedKept
<1>3. ASSUME NEW r \in Runs, CoordinatorStep(r) PROVE RememberedInv'
  <2>1. UNCHANGED <<task, memory, faults>>
    BY <1>3 DEF CoordinatorStep, SelectTask, Finish, PickNode, NoAvailableNode, Fine, tables
  <2>2. ASSUME NEW q \in Runs
        PROVE  run'[q] = run[q] \/ run'[q].pc \notin {"complete", "reject"}
    BY <1>0, <1>3 DEF CoordinatorStep, SelectTask, Finish, PickNode, NoAvailableNode,
                      GoTo, RunState
  <2> QED BY <2>1, <2>2, RememberedKept
<1>4. ASSUME NEW r \in Runs, WorkerStep(r) PROVE RememberedInv'
  <2>1. Cur(r) \in Task
    BY <1>4, AgentFacts DEF WorkerStep, WorkerRefuses, WorkerExecutes, StoreResult,
         RememberResult, CountFailures, FailTask, NoteFailure, At, Working
  <2>2. ASSUME NEW q \in Runs
        PROVE  run'[q] = run[q] \/ run'[q].pc \notin {"complete", "reject"}
    <3>1. CASE \E l \in Working : GoTo(r, l)
      BY <3>1, WentTo DEF Working
    <3>2. CASE \E result : NextIteration(r, result)
      BY <3>2, WentBack
    <3>3. CASE CountFailures(r)
      BY <1>0, <3>3 DEF CountFailures, RunState
    <3> QED BY <1>4, <3>1, <3>2, <3>3 DEF WorkerStep, WorkerRefuses, WorkerExecutes,
               StoreResult, RememberResult, FailTask, NoteFailure, Working
  <2>3. memory \subseteq memory' /\ UNCHANGED faults
    BY <1>4 DEF WorkerStep, WorkerRefuses, WorkerExecutes, StoreResult, RememberResult,
         CountFailures, FailTask, NoteFailure, Remember, Fine, tables
  <2>4. CASE FailTask(r)
    <3>1. VerdictIsRemembered'
      <4>1. \A t \in Task : \/ task'[t].status = task[t].status
                            \/ t = Cur(r) /\ task'[t].status \in {"failed", "abandoned"}
        BY <1>0, <2>1, <2>4 DEF FailTask, UpdateStatus, FinalStatus, TaskRow
      <4>2. <<Cur(r), "failure">> \in memory'
        BY <2>4 DEF FailTask, Remember
      <4> QED BY <2>3, <4>1, <4>2 DEF RememberedInv, VerdictIsRemembered
    <3>2. MemoryFirst'
      BY <2>2, <2>3 DEF RememberedInv, MemoryFirst, Cur
    <3> QED BY <3>1, <3>2 DEF RememberedInv
  <2>5. CASE ~FailTask(r)
    <3>1. ASSUME NEW t \in Task
          PROVE  task'[t].status = task[t].status \/ task'[t].status \notin Terminal
      <4>1. CASE UNCHANGED task
        BY <4>1
      <4>2. CASE StoreResult(r)
        BY <1>0, <2>1, <4>2 DEF StoreResult, UpdateStatus, Terminal, TaskRow
      <4> QED BY <1>4, <2>5, <4>1, <4>2 DEF WorkerStep, WorkerRefuses, WorkerExecutes,
                    RememberResult, CountFailures, NoteFailure, tables
    <3> QED BY <2>2, <2>3, <3>1, RememberedKept
  <2> QED BY <2>4, <2>5
<1>5. ASSUME NEW r \in Runs, ReviewerStep(r) PROVE RememberedInv'
  <2>0. Cur(r) \in Task
    BY <1>5, AgentFacts DEF ReviewerStep, ReviewerRefuses, ReviewerEvaluates, RememberLesson,
         CompleteTask, ExtractLesson, RememberFailure, RejectTask, At, Reviewing
  <2>1. CASE ReviewerRefuses(r) \/ ReviewerEvaluates(r) \/ ExtractLesson(r)
    <3>1. memory \subseteq memory' /\ UNCHANGED <<task, faults>>
      BY <2>1 DEF ReviewerRefuses, ReviewerEvaluates, ExtractLesson, Remember, Fine, tables
    <3>2. ASSUME NEW q \in Runs
          PROVE  run'[q] = run[q] \/ run'[q].pc \notin {"complete", "reject"}
      <4>1. CASE \E result : NextIteration(r, result)
        BY <4>1, WentBack
      <4>2. CASE ReviewerEvaluates(r)
        BY <1>0, <4>2 DEF ReviewerEvaluates, RunState
      <4> QED BY <2>1, <4>1, <4>2 DEF ReviewerRefuses, ExtractLesson
    <3> QED BY <3>1, <3>2, RememberedKept
  <2>2. CASE RememberLesson(r)
    <3>1. /\ UNCHANGED <<task, faults>> /\ memory' = memory \cup {<<Cur(r), "lesson">>}
          /\ run' = [run EXCEPT ![r] = [@ EXCEPT !.pc = "complete"]]
      BY <2>2 DEF RememberLesson, Remember, GoTo, Fine
    <3>2. \A q \in Runs \ {r} : run'[q] = run[q]
      BY <1>0, <3>1
    <3>3. run'[r].pc = "complete" /\ run'[r].task = Cur(r)
      BY <1>0, <3>1 DEF RunState, Cur
    <3> QED BY <3>1, <3>2, <3>3 DEF RememberedInv, VerdictIsRemembered, MemoryFirst, Cur
  <2>3. CASE RememberFailure(r)
    <3>1. /\ UNCHANGED <<task, faults>> /\ memory' = memory \cup {<<Cur(r), "failure">>}
          /\ run' = [run EXCEPT ![r] = [@ EXCEPT !.pc = "reject"]]
      BY <2>3 DEF RememberFailure, Remember, GoTo, Fine
    <3>2. \A q \in Runs \ {r} : run'[q] = run[q]
      BY <1>0, <3>1
    <3>3. run'[r].pc = "reject" /\ run'[r].task = Cur(r)
      BY <1>0, <3>1 DEF RunState, Cur
    <3> QED BY <3>1, <3>2, <3>3 DEF RememberedInv, VerdictIsRemembered, MemoryFirst, Cur
  <2>4. CASE CompleteTask(r) \/ RejectTask(r)
    <3>1. UNCHANGED <<memory, faults>>
      BY <2>4 DEF CompleteTask, RejectTask, Fine
    <3>2. ASSUME NEW q \in Runs
          PROVE  run'[q] = run[q] \/ run'[q].pc \notin {"complete", "reject"}
      BY <2>4, WentTo, WentBack DEF CompleteTask, RejectTask
    <3>3. MemoryFirst'
      BY <3>1, <3>2 DEF RememberedInv, MemoryFirst, Cur
    <3>4. \A t \in Task :
             \/ task'[t].status = task[t].status
             \/ t = Cur(r) /\ run[r].pc = "complete" /\ task'[t].status = "completed"
             \/ t = Cur(r) /\ run[r].pc = "reject" /\ task'[t].status = "rejected"
      BY <1>0, <2>0, <2>4 DEF CompleteTask, RejectTask, UpdateStatus, At, TaskRow
    <3>5. VerdictIsRemembered'
      <4> SUFFICES ASSUME faults = 0, NEW t \in Task
                   PROVE  /\ task'[t].status = "completed" => <<t, "lesson">> \in memory
                          /\ task'[t].status \in {"rejected", "failed", "abandoned"}
                               => <<t, "failure">> \in memory
        BY <3>1 DEF VerdictIsRemembered
      <4>1. /\ task[t].status = "completed" => <<t, "lesson">> \in memory
            /\ task[t].status \in {"rejected", "failed", "abandoned"}
                 => <<t, "failure">> \in memory
        BY DEF RememberedInv, VerdictIsRemembered
      <4>3. /\ run[r].pc = "complete" => <<Cur(r), "lesson">> \in memory
            /\ run[r].pc = "reject" => <<Cur(r), "failure">> \in memory
        BY DEF RememberedInv, MemoryFirst, Cur
      <4>2. \/ task'[t].status = task[t].status
            \/ t = Cur(r) /\ run[r].pc = "complete" /\ task'[t].status = "completed"
            \/ t = Cur(r) /\ run[r].pc = "reject" /\ task'[t].status = "rejected"
        BY <3>4
      <4> QED BY <4>1, <4>2, <4>3
    <3> QED BY <3>3, <3>5 DEF RememberedInv
  <2> QED BY <1>5, <2>1, <2>2, <2>3, <2>4 DEF ReviewerStep
<1>6. CASE Crash
  <2>1. UNCHANGED <<task, memory, faults>>
    BY <1>6 DEF Crash, tables
  <2>2. ASSUME NEW q \in Runs
        PROVE  run'[q] = run[q] \/ run'[q].pc \notin {"complete", "reject"}
    BY <1>0, <1>6 DEF Crash, RunState
  <2> QED BY <2>1, <2>2, RememberedKept
<1>7. CASE NodeStep \/ UNCHANGED vars
  <2>1. UNCHANGED <<task, memory, faults, run>>
    BY <1>7 DEF NodeStep, Heartbeat, GoSilent, MarkOffline, SetNode, Fine, vars
  <2> QED BY <2>1, RememberedKept
<1> QED BY <1>1, <1>2, <1>3, <1>4, <1>5, <1>6, <1>7 DEF Next, Step

\* Without a database fault every verdict comes with its lesson or failure entry,
\* whatever interleaves and wherever the process is killed.
THEOREM VerdictsRemembered == Spec => []VerdictIsRemembered
<1>1. Init => RememberedInv
  BY DEF Init, RememberedInv, VerdictIsRemembered, MemoryFirst
<1>2. RememberedInv => VerdictIsRemembered
  BY DEF RememberedInv
<1> QED BY <1>1, <1>2, RememberedNext, KernelInvariant, PTL DEF Spec

--------------------------------------------------------------------------------
\* A pending task is accounted for

\* Without a fault the step just listed was activated.
ListedIsActivated ==
  faults = 0 =>
    \A r \in Planners : run[r].pc = "list" => task[<<r, run[r].step>>].status # "pending"

PendingInv == PendingIsAccounted /\ ListedIsActivated

\* An action of a run that is no longer planning, or not yet.
LEMMA PendingKept ==
  ASSUME KernelInv, PendingInv, NEW r \in Runs, UNCHANGED faults,
         run[r].pc \notin Planning \cup {"crashed", "error", "idle"},
         run'[r].pc # "list", \A q \in Runs \ {r} : run'[q] = run[q],
         \A t \in Task : task'[t].status = task[t].status \/ task'[t].status # "pending"
  PROVE  PendingInv'
<1>1. PendingIsAccounted'
  <2> SUFFICES ASSUME NEW q \in Planners, NEW i \in 0..MaxSubtasks,
                      task'[<<q, i>>].status = "pending", faults = 0
               PROVE  \/ run'[q].pc \in Planning /\ i \in {0, run'[q].step}
                      \/ run'[q].pc \in {"crashed", "error"}
    BY DEF PendingIsAccounted, KernelInv, TypeOK
  <2>1. task[<<q, i>>].status = "pending" /\ q \in Runs
    BY DEF Task, Runs
  <2>2. \/ run[q].pc \in Planning /\ i \in {0, run[q].step}
        \/ run[q].pc \in {"crashed", "error"}
    BY <2>1 DEF PendingInv, PendingIsAccounted, KernelInv, TypeOK
  <2>3. q # r
    BY <2>2
  <2> QED BY <2>1, <2>2, <2>3
<1>2. ListedIsActivated'
  <2> SUFFICES ASSUME NEW q \in Planners, run'[q].pc = "list", faults = 0
               PROVE  task'[<<q, run'[q].step>>].status # "pending"
    BY DEF ListedIsActivated
  <2>1. q \in Runs /\ q # r /\ run'[q] = run[q]
    BY DEF Runs
  <2>2. <<q, run[q].step>> \in Task
    BY <2>1, PlannerFacts DEF Task, Planning
  <2> QED BY <2>1, <2>2 DEF PendingInv, ListedIsActivated
<1> QED BY <1>1, <1>2 DEF PendingInv

LEMMA PlanKeepsPending ==
  ASSUME KernelInv, PendingInv, NEW r \in Runs, PlanStep(r)
  PROVE  PendingInv'
<1>0. /\ run[r].pc \in Planning /\ task \in [Task -> TaskRow] /\ UNCHANGED faults
      /\ run \in [Runs -> RunState]
  BY DEF PlanStep, CreateSubtask, ActivateSubtask, ListSubtask, FinishPlan, At, Planning,
         KernelInv, TypeOK, Fine
<1>1. /\ r \in Planners /\ run[r].step \in Nat /\ run[r].step >= 1 /\ <<r, 0>> \in Task
      /\ run[r].size \in Nat /\ run[r].size <= MaxSubtasks
  BY <1>0, PlannerFacts
<1> DEFINE k == run[r].step
<1>2. run[r].pc = "create" =>
        \A i \in 0..MaxSubtasks : i >= k => task[<<r, i>>].status = "absent"
  BY <1>0, PlannerFacts
<1>3. run[r].pc \in {"activate", "list"} => <<r, k>> \in Task
  BY <1>0, <1>1, PlannerFacts DEF Task
<1>4. \A q \in Runs \ {r} : run'[q] = run[q]
  BY <1>0 DEF PlanStep, CreateSubtask, ActivateSubtask, ListSubtask, FinishPlan, GoTo
\* It is enough to look at the rows and the program counter of r.
<1>5. ASSUME \A q \in Planners \ {r}, i \in 0..MaxSubtasks : task'[<<q, i>>] = task[<<q, i>>],
             faults = 0 => \A i \in 0..MaxSubtasks :
               task'[<<r, i>>].status = "pending" => run'[r].pc \in Planning
                                                      /\ i \in {0, run'[r].step},
             faults = 0 => (run'[r].pc = "list" => task'[<<r, run'[r].step>>].status # "pending")
      PROVE  PendingInv'
  <2>1. PendingIsAccounted'
    <3> SUFFICES ASSUME NEW q \in Planners, NEW i \in 0..MaxSubtasks,
                        task'[<<q, i>>].status = "pending", faults = 0
                 PROVE  \/ run'[q].pc \in Planning /\ i \in {0, run'[q].step}
                        \/ run'[q].pc \in {"crashed", "error"}
      BY <1>0 DEF PendingIsAccounted, KernelInv, TypeOK
    <3>1. CASE q = r
      BY <1>5, <3>1
    <3>2. CASE q # r
      BY <1>4, <1>5, <3>2 DEF PendingInv, PendingIsAccounted, Runs
    <3> QED BY <3>1, <3>2
  <2>2. ListedIsActivated'
    <3> SUFFICES ASSUME NEW q \in Planners, run'[q].pc = "list", faults = 0
                 PROVE  task'[<<q, run'[q].step>>].status # "pending"
      BY <1>0 DEF ListedIsActivated
    <3>1. CASE q = r
      BY <1>5, <3>1
    <3>2. CASE q # r
      <4>1. q \in Runs /\ run'[q] = run[q]
        BY <1>4, <3>2 DEF Runs
      <4>2. run[q].step \in 0..MaxSubtasks
        BY <4>1, PlannerFacts DEF Planning
      <4> QED BY <1>5, <3>2, <4>1, <4>2 DEF PendingInv, ListedIsActivated
    <3> QED BY <3>1, <3>2
  <2> QED BY <2>1, <2>2 DEF PendingInv
<1>6. faults = 0 => \A i \in 0..MaxSubtasks :
                      task[<<r, i>>].status = "pending" => i \in {0, k}
  <2>1. run[r].pc \notin {"crashed", "error"}
    BY <1>0 DEF Planning
  <2> QED BY <1>1, <2>1 DEF PendingInv, PendingIsAccounted, KernelInv, TypeOK
<1>7. CASE CreateSubtask(r)
  <2>1. PICK w \in Works : InsertTask(<<r, k>>, w, SubtaskPriority(k))
    BY <1>7 DEF CreateSubtask
  <2>2. run[r].pc = "create" /\ GoTo(r, "activate")
    BY <1>7 DEF CreateSubtask, At
  <2>3. run'[r].pc = "activate" /\ run'[r].step = k
    BY <2>2, WentTo
  <2>4. \A t \in Task \ {<<r, k>>} : task'[t] = task[t]
    BY <1>0, <2>1 DEF InsertTask
  <2>5. \A i \in 0..MaxSubtasks : i # k => task'[<<r, i>>] = task[<<r, i>>]
    BY <1>1, <2>4 DEF Task
  <2>6. \A q \in Planners \ {r}, i \in 0..MaxSubtasks : task'[<<q, i>>] = task[<<q, i>>]
    BY <2>4 DEF Task
  <2> QED BY <1>5, <1>6, <2>3, <2>5, <2>6 DEF Planning
<1>8. CASE ActivateSubtask(r)
  <2>1. UpdateStatus(<<r, k>>, "planned", "none") /\ <<r, k>> \in Task /\ GoTo(r, "list")
    BY <1>3, <1>8 DEF ActivateSubtask, At
  <2>2. run'[r].pc = "list" /\ run'[r].step = k
    BY <2>1, WentTo
  <2>3. /\ task'[<<r, k>>].status = "planned"
        /\ \A t \in Task \ {<<r, k>>} : task'[t] = task[t]
    BY <1>0, <2>1 DEF UpdateStatus, TaskRow
  <2>4. \A i \in 0..MaxSubtasks : i # k => task'[<<r, i>>] = task[<<r, i>>]
    BY <1>1, <2>3 DEF Task
  <2>5. \A q \in Planners \ {r}, i \in 0..MaxSubtasks : task'[<<q, i>>] = task[<<q, i>>]
    BY <2>3 DEF Task
  <2> QED BY <1>5, <1>6, <2>2, <2>3, <2>4, <2>5 DEF Planning
<1>9. CASE ListSubtask(r)
  <2>1. run[r].pc = "list" /\ UNCHANGED task
    BY <1>9 DEF ListSubtask, At, tables
  <2>2. run'[r].pc = "create"
    BY <1>0, <1>9 DEF ListSubtask, RunState
  <2>3. faults = 0 => task[<<r, k>>].status # "pending"
    BY <1>1, <2>1 DEF PendingInv, ListedIsActivated
  <2> QED BY <1>5, <1>6, <2>1, <2>2, <2>3 DEF Planning
<1>10. CASE FinishPlan(r)
  <2>1. UpdateStatus(<<r, 0>>, "planned", "plan") /\ GoTo(r, "select") /\ run[r].pc = "create"
    BY <1>10 DEF FinishPlan, Root, At
  <2>2. run'[r].pc = "select"
    BY <2>1, WentTo
  <2>3. /\ task'[<<r, 0>>].status = "planned"
        /\ \A t \in Task \ {<<r, 0>>} : task'[t] = task[t]
    BY <1>0, <1>1, <2>1 DEF UpdateStatus, TaskRow
  <2>4. \A i \in 0..MaxSubtasks : i # 0 => task'[<<r, i>>] = task[<<r, i>>]
    BY <1>1, <2>3 DEF Task
  <2>5. \A q \in Planners \ {r}, i \in 0..MaxSubtasks : task'[<<q, i>>] = task[<<q, i>>]
    BY <2>3 DEF Task
  <2>6. faults = 0 => \A i \in 0..MaxSubtasks : task'[<<r, i>>].status # "pending"
    BY <1>1, <1>2, <1>6, <2>1, <2>3, <2>4
  <2> QED BY <1>5, <2>2, <2>5, <2>6
<1> QED BY <1>7, <1>8, <1>9, <1>10 DEF PlanStep

LEMMA StartKeepsPending ==
  ASSUME KernelInv, PendingInv, NEW r \in Runs, Start(r)
  PROVE  PendingInv'
<1>0. /\ task \in [Task -> TaskRow] /\ run \in [Runs -> RunState] /\ UNCHANGED faults
      /\ run[r].pc = "idle"
  BY DEF Start, CallRunTask, CallRunAll, MayStart, At, KernelInv, TypeOK, Fine
<1>1. \A q \in Runs \ {r} : run'[q] = run[q]
  BY <1>0 DEF Start, CallRunTask, CallRunAll, GoTo
<1>2. /\ \A t \in Task : task'[t] = task[t] \/ t = Root(r)
      /\ r \in Planners => run'[r].pc = "create"
      /\ run'[r].pc # "list"
  <2>1. CASE CallRunTask(r)
    <3>1. \A t \in Task : task'[t] = task[t] \/ t = Root(r)
      BY <1>0, <2>1 DEF CallRunTask, InsertTask
    <3>2. run'[r].pc = "create"
      BY <1>0, <2>1 DEF CallRunTask, RunState
    <3> QED BY <3>1, <3>2
  <2>2. CASE CallRunAll(r)
    <3>1. UNCHANGED task /\ GoTo(r, "select") /\ r \in Drivers
      BY <2>2 DEF CallRunAll, tables
    <3> QED BY <3>1, WentTo, KernelAssumption
  <2> QED BY <2>1, <2>2 DEF Start
<1>3. r \in Planners => \A i \in 0..MaxSubtasks : task[<<r, i>>].status = "absent"
  BY <1>0 DEF KernelInv, RunFits
<1>4. PendingIsAccounted'
  <2> SUFFICES ASSUME NEW q \in Planners, NEW i \in 0..MaxSubtasks,
                      task'[<<q, i>>].status = "pending", faults = 0
               PROVE  \/ run'[q].pc \in Planning /\ i \in {0, run'[q].step}
                      \/ run'[q].pc \in {"crashed", "error"}
    BY <1>0 DEF PendingIsAccounted, KernelInv, TypeOK
  <2>0. <<q, i>> \in Task /\ q \in Runs
    BY DEF Task, Runs
  <2>1. CASE q = r
    BY <1>2, <1>3, <2>0, <2>1 DEF Root, Planning
  <2>2. CASE q # r
    BY <1>1, <1>2, <2>0, <2>2 DEF Root, PendingInv, PendingIsAccounted
  <2> QED BY <2>1, <2>2
<1>5. ListedIsActivated'
  <2> SUFFICES ASSUME NEW q \in Planners, run'[q].pc = "list", faults = 0
               PROVE  task'[<<q, run'[q].step>>].status # "pending"
    BY <1>0 DEF ListedIsActivated
  <2>1. q \in Runs /\ q # r /\ run'[q] = run[q]
    BY <1>1, <1>2 DEF Runs
  <2>2. <<q, run[q].step>> \in Task
    BY <2>1, PlannerFacts DEF Task, Planning
  <2> QED BY <1>2, <2>1, <2>2 DEF Root, PendingInv, ListedIsActivated
<1> QED BY <1>4, <1>5 DEF PendingInv

\* An agent never writes "pending", and does not plan.
LEMMA AgentKeepsPending ==
  ASSUME KernelInv, PendingInv, NEW r \in Runs,
         CoordinatorStep(r) \/ WorkerStep(r) \/ ReviewerStep(r)
  PROVE  PendingInv'
<1>0. /\ task \in [Task -> TaskRow] /\ run \in [Runs -> RunState] /\ UNCHANGED faults
  BY DEF CoordinatorStep, SelectTask, Finish, PickNode, NoAvailableNode, WorkerStep,
         WorkerRefuses, WorkerExecutes, StoreResult, RememberResult, CountFailures, FailTask,
         NoteFailure, ReviewerStep, ReviewerRefuses, ReviewerEvaluates, RememberLesson,
         CompleteTask, ExtractLesson, RememberFailure, RejectTask, Fine, KernelInv, TypeOK
<1>1. run[r].pc \in {"select", "node"} \cup Working \cup Reviewing
  BY DEF CoordinatorStep, SelectTask, Finish, PickNode, NoAvailableNode, WorkerStep,
         WorkerRefuses, WorkerExecutes, StoreResult, RememberResult, CountFailures, FailTask,
         NoteFailure, ReviewerStep, ReviewerRefuses, ReviewerEvaluates, RememberLesson,
         CompleteTask, ExtractLesson, RememberFailure, RejectTask, At, Working, Reviewing
<1>2. run'[r].pc # "list" /\ \A q \in Runs \ {r} : run'[q] = run[q]
  <2>1. CASE \E l \in {"done", "no_node"} \cup Working \cup Reviewing : GoTo(r, l)
    BY <2>1, WentTo DEF Working, Reviewing
  <2>2. CASE \E result : NextIteration(r, result)
    BY <2>2, WentBack
  <2>3. CASE SelectTask(r)
    BY <1>0, <2>3 DEF SelectTask, RunState
  <2>4. CASE PickNode(r)
    BY <1>0, <2>4 DEF PickNode, RunState
  <2>5. CASE CountFailures(r)
    BY <1>0, <2>5 DEF CountFailures, RunState
  <2>6. CASE ReviewerEvaluates(r)
    BY <1>0, <2>6 DEF ReviewerEvaluates, RunState
  <2> QED BY <2>1, <2>2, <2>3, <2>4, <2>5, <2>6
          DEF CoordinatorStep, Finish, NoAvailableNode, WorkerStep, WorkerRefuses,
              WorkerExecutes, StoreResult, RememberResult, FailTask, NoteFailure,
              ReviewerStep, ReviewerRefuses, RememberLesson, CompleteTask, ExtractLesson,
              RememberFailure, RejectTask, Working, Reviewing
<1>3. \A t \in Task : task'[t].status = task[t].status \/ task'[t].status # "pending"
  <2>1. CASE UNCHANGED task
    BY <2>1
  <2>2. CASE \E t, s, o : s # "pending" /\ UpdateStatus(t, s, o)
    BY <1>0, <2>2 DEF UpdateStatus, TaskRow
  <2>3. \A n : FinalStatus(n) # "pending"
    BY DEF FinalStatus
  <2> QED BY <2>1, <2>2, <2>3
          DEF CoordinatorStep, SelectTask, Finish, PickNode, NoAvailableNode, WorkerStep,
              WorkerRefuses, WorkerExecutes, StoreResult, RememberResult, CountFailures,
              FailTask, NoteFailure, ReviewerStep, ReviewerRefuses, ReviewerEvaluates,
              RememberLesson, CompleteTask, ExtractLesson, RememberFailure, RejectTask, tables
<1>4. run[r].pc \notin Planning \cup {"crashed", "error", "idle"}
  BY <1>1 DEF Planning, Working, Reviewing
<1> QED BY <1>0, <1>2, <1>3, <1>4, PendingKept

LEMMA PendingNext == KernelInv /\ PendingInv /\ [Next]_vars => PendingInv'
<1> SUFFICES ASSUME KernelInv, PendingInv, [Next]_vars PROVE PendingInv'
  OBVIOUS
<1>1. ASSUME NEW r \in Runs, Start(r) \/ Step(r) PROVE PendingInv'
  BY <1>1, StartKeepsPending, PlanKeepsPending, AgentKeepsPending DEF Step
<1>2. ASSUME NEW r \in Runs, FaultStep(r) PROVE PendingInv'
  <2>1. faults' > 0
    BY <1>2 DEF FaultStep, SubtaskFault, RunFault, AgentFault, MemoryFault, Fault,
                KernelInv, TypeOK
  <2> QED BY <2>1 DEF PendingInv, PendingIsAccounted, ListedIsActivated
<1>3. CASE Crash
  <2>1. UNCHANGED <<task, faults>> /\ run \in [Runs -> RunState]
    BY <1>3 DEF Crash, tables, KernelInv, TypeOK
  <2>2. ASSUME NEW q \in Runs
        PROVE  \/ run'[q] = run[q] /\ run[q].pc \notin Planning
               \/ run'[q].pc = "crashed"
    BY <1>3, <2>1 DEF Crash, RunState, Active
  <2>3. \A q \in Planners : run'[q].pc # "list"
    BY <2>2 DEF Runs, Planning
  <2> QED BY <2>1, <2>2, <2>3 DEF PendingInv, PendingIsAccounted, ListedIsActivated, Runs
<1>4. CASE NodeStep \/ UNCHANGED vars
  <2>1. UNCHANGED <<task, faults, run>>
    BY <1>4 DEF NodeStep, Heartbeat, GoSilent, MarkOffline, SetNode, Fine, vars
  <2> QED BY <2>1 DEF PendingInv, PendingIsAccounted, ListedIsActivated
<1> QED BY <1>1, <1>2, <1>3, <1>4 DEF Next

\* A task that stays pending, which no agent ever takes up, betrays a planner that was
\* interrupted or a fault: no interleaving of healthy runs leaves one behind.
THEOREM PendingAccounted == Spec => []PendingIsAccounted
<1>1. Init => PendingInv
  BY DEF Init, PendingInv, PendingIsAccounted, ListedIsActivated, Task, Runs
<1>2. PendingInv => PendingIsAccounted
  BY DEF PendingInv
<1> QED BY <1>1, <1>2, PendingNext, KernelInvariant, PTL DEF Spec

--------------------------------------------------------------------------------
\* Calls that overlap execute a task a bounded number of times

HoldsPending(r, s, T) ==
  /\ s.pc \in Planning => T[<<r, 0>>].status = "pending"
  /\ s.pc = "activate" => T[<<r, s.step>>].status = "pending"
  /\ s.pc \in {"node"} \cup Working \cup Reviewing => T[s.task].status # "pending"

\* What a planner has yet to release is out of the agents' reach.
PlanIsPrivate == \A r \in Runs : HoldsPending(r, run[r], task)

\* The runs that have begun to execute t and written no result of it.
Executing(t) == {r \in Runs : \/ run[r].pc \in {"store", "count_failures", "fail"} /\ Cur(r) = t
                              \/ run[r].pc = "crashed"}

ExecutionsCounted ==
  \A t \in Task :
    /\ task[t].status \in {"absent", "pending"} => notes[t].executed = 0
    /\ task[t].status = "planned" => notes[t].executed <= Cardinality(Executing(t)) + faults
    /\ notes[t].executed <= Cardinality(Runs) + faults

ExecutionInv == PlanIsPrivate /\ ExecutionsCounted

\* A run keeps what planners wait with if it writes the rows of its own plan, or rows
\* that are released.
LEMMA PrivateKept ==
  ASSUME KernelInv, PlanIsPrivate, NEW r \in Runs, \A q \in Runs \ {r} : run'[q] = run[q],
         \A t \in Task : task[t].status = "pending" /\ t[1] # r => task'[t].status = "pending",
         \A t \in Task : task'[t].status = "pending" => task[t].status \in {"absent", "pending"},
         HoldsPending(r, run'[r], task')
  PROVE  PlanIsPrivate'
<1>1. ASSUME NEW q \in Runs \ {r} PROVE HoldsPending(q, run[q], task')
  <2>1. CASE run[q].pc \in Planning
    <3>1. <<q, 0>> \in Task /\ (run[q].pc = "activate" => <<q, run[q].step>> \in Task)
      BY <2>1, PlannerFacts DEF Task
    <3>2. <<q, 0>>[1] # r /\ <<q, run[q].step>>[1] # r BY <1>1
    <3>3. HoldsPending(q, run[q], task) BY DEF PlanIsPrivate
    <3>4. run[q].pc \notin {"node"} \cup Working \cup Reviewing
      BY <2>1 DEF Planning, Working, Reviewing
    <3>5. QED BY <2>1, <3>1, <3>2, <3>3, <3>4 DEF HoldsPending
  <2>2. CASE run[q].pc \in {"node"} \cup Working \cup Reviewing
    <3>1. Cur(q) \in Task /\ task[Cur(q)].status # "absent" BY <2>2, AgentFacts
    <3>2. HoldsPending(q, run[q], task) BY DEF PlanIsPrivate
    <3>3. task'[Cur(q)].status # "pending" BY <2>2, <3>1, <3>2 DEF HoldsPending, Cur
    <3>4. run[q].pc \notin Planning BY <2>2 DEF Planning, Working, Reviewing
    <3>5. QED BY <3>3, <3>4 DEF HoldsPending, Cur, Planning
  <2>3. CASE run[q].pc \notin Planning \cup {"node"} \cup Working \cup Reviewing
    BY <2>3 DEF HoldsPending, Planning
  <2>4. QED BY <2>1, <2>2, <2>3
<1>2. QED BY <1>1 DEF PlanIsPrivate

LEMMA PlanKeepsPrivate ==
  ASSUME KernelInv, PlanIsPrivate, NEW r \in Runs, PlanStep(r) \/ CallRunTask(r) \/ SubtaskFault(r)
  PROVE  PlanIsPrivate'
<1>0. /\ task \in [Task -> TaskRow] /\ run \in [Runs -> RunState]
  BY DEF KernelInv, TypeOK
<1>1. \A q \in Runs \ {r} : run'[q] = run[q]
  BY <1>0 DEF PlanStep, CreateSubtask, ActivateSubtask, ListSubtask, FinishPlan, CallRunTask,
              SubtaskFault, GoTo
<1>2. CASE CallRunTask(r)
  <2>1. /\ r \in Planners /\ run'[r].pc = "create"
        /\ \E w, p : InsertTask(<<r, 0>>, w, p)
    BY <1>0, <1>2 DEF CallRunTask, RunState, Root
  <2>2. <<r, 0>> \in Task BY <2>1, KernelAssumption DEF Task
  <2>3. /\ task'[<<r, 0>>].status = "pending"
        /\ \A t \in Task : t[1] # r => task'[t] = task[t]
    BY <1>0, <2>1, <2>2 DEF InsertTask
  <2>4. HoldsPending(r, run'[r], task') BY <2>1, <2>3 DEF HoldsPending, Working, Reviewing
  <2>5. task[<<r, 0>>].status = "absent"
    <3>1. run[r].pc = "idle" /\ RunFits(r, run[r], task)
      BY <1>2 DEF CallRunTask, MayStart, At, KernelInv
    <3>2. QED BY <2>1, <3>1, KernelAssumption DEF RunFits
  <2>6. \A t \in Task \ {<<r, 0>>} : task'[t] = task[t] BY <1>0, <2>1 DEF InsertTask
  <2>7. QED BY <1>1, <2>3, <2>4, <2>5, <2>6, PrivateKept
<1>3. CASE PlanStep(r) \/ SubtaskFault(r)
  <2> DEFINE k == run[r].step
  <2>0. run[r].pc \in Planning
    BY <1>3 DEF PlanStep, CreateSubtask, ActivateSubtask, ListSubtask, FinishPlan, SubtaskFault,
                At, Planning
  <2>1. /\ r \in Planners /\ k \in Nat /\ k >= 1 /\ <<r, 0>> \in Task
        /\ run[r].size \in Nat /\ run[r].size <= MaxSubtasks
        /\ task[<<r, 0>>].status = "pending"
    BY <2>0, PlannerFacts DEF PlanIsPrivate, HoldsPending
  <2>2. k <= run[r].size => <<r, k>> \in Task /\ <<r, k>> # <<r, 0>>
    BY <2>1, KernelAssumption DEF Task
  <2>3. CASE CreateSubtask(r)
    <3>1. k <= run[r].size /\ GoTo(r, "activate") /\ \E w, p : InsertTask(<<r, k>>, w, p)
      BY <2>3 DEF CreateSubtask
    <3>2. /\ task'[<<r, k>>].status = "pending" /\ task'[<<r, 0>>].status = "pending"
          /\ \A t \in Task : t[1] # r => task'[t] = task[t]
          /\ \A t \in Task \ {<<r, k>>} : task'[t] = task[t]
      BY <1>0, <2>1, <2>2, <3>1 DEF InsertTask
    <3>6. task[<<r, k>>].status = "absent"
      <4>1. k \in 0..MaxSubtasks BY <2>1, <3>1, KernelAssumption
      <4>2. run[r].pc = "create" BY <2>3 DEF CreateSubtask, At
      <4>3. QED BY <2>0, <2>1, <4>1, <4>2, PlannerFacts
    <3>3. run'[r].pc = "activate" /\ run'[r].step = k BY <3>1, WentTo
    <3>4. HoldsPending(r, run'[r], task') BY <3>2, <3>3 DEF HoldsPending, Working, Reviewing
    <3>5. QED BY <1>1, <3>2, <3>4, <3>6, PrivateKept
  <2>4. CASE ActivateSubtask(r)
    <3>1. k <= run[r].size /\ UpdateStatus(<<r, k>>, "planned", "none") /\ GoTo(r, "list")
      BY <2>0, <2>4, PlannerFacts DEF ActivateSubtask, At
    <3>2. /\ task'[<<r, 0>>].status = "pending"
          /\ \A t \in Task : t[1] # r => task'[t] = task[t]
          /\ \A t \in Task : task'[t].status \in {task[t].status, "planned"}
      BY <1>0, <2>1, <2>2, <3>1 DEF UpdateStatus, TaskRow
    <3>3. run'[r].pc = "list" BY <3>1, WentTo
    <3>4. HoldsPending(r, run'[r], task') BY <3>2, <3>3 DEF HoldsPending, Working, Reviewing
    <3>5. QED BY <1>1, <3>2, <3>4, PrivateKept
  <2>5. CASE ListSubtask(r) \/ SubtaskFault(r)
    <3>1. run'[r].pc = "create" /\ UNCHANGED task
      BY <1>0, <2>5 DEF ListSubtask, SubtaskFault, RunState, tables
    <3>2. HoldsPending(r, run'[r], task') BY <2>1, <3>1 DEF HoldsPending, Working, Reviewing
    <3>3. QED BY <1>1, <3>1, <3>2, PrivateKept
  <2>6. CASE FinishPlan(r)
    <3>1. UpdateStatus(<<r, 0>>, "planned", "plan") /\ GoTo(r, "select")
      BY <2>6 DEF FinishPlan, Root
    <3>2. \A t \in Task : /\ t[1] # r => task'[t] = task[t]
                          /\ task'[t].status \in {task[t].status, "planned"}
      BY <1>0, <2>1, <3>1 DEF UpdateStatus, TaskRow
    <3>3. run'[r].pc = "select" BY <3>1, WentTo
    <3>4. HoldsPending(r, run'[r], task') BY <3>3 DEF HoldsPending, Planning, Working, Reviewing
    <3>5. QED BY <1>1, <3>2, <3>4, PrivateKept
  <2>7. QED BY <1>3, <2>3, <2>4, <2>5, <2>6 DEF PlanStep
<1>4. QED BY <1>2, <1>3

\* A step of an agent or of the coordinator: where the run stands after it, and what it has
\* written.
AgentMove(r) == \/ CoordinatorStep(r) \/ WorkerStep(r) \/ ReviewerStep(r)
                \/ MemoryFault(r) \/ AgentFault(r)

AgentWrites(r) == /\ run[r].pc \in Working \cup Reviewing
                  /\ \E st \in {"review_pending"} \cup Terminal : \E o : UpdateStatus(Cur(r), st, o)

LEMMA AgentSteps ==
  ASSUME KernelInv, NEW r \in Runs, AgentMove(r)
  PROVE  /\ \A q \in Runs \ {r} : run'[q] = run[q]
         /\ \/ run'[r].pc \in {"select"} \cup Ended
            \/ SelectTask(r)
            \/ /\ run'[r].pc \in {"execute"} \cup Working \cup Reviewing
               /\ run[r].pc \in {"node"} \cup Working \cup Reviewing
               /\ run'[r].task = Cur(r)
         /\ UNCHANGED task \/ AgentWrites(r)
<1>0. run \in [Runs -> RunState] BY DEF KernelInv, TypeOK
<1>1. CASE \E l \in {"done", "no_node"} : GoTo(r, l) /\ UNCHANGED task
  BY <1>1, WentTo DEF Ended
<1>2. CASE /\ run[r].pc \in Working \cup Reviewing
           /\ \E l \in Working \cup Reviewing : GoTo(r, l)
           /\ UNCHANGED task \/ AgentWrites(r)
  BY <1>2, WentTo
<1>3. CASE /\ \E result : NextIteration(r, result)
           /\ UNCHANGED task \/ AgentWrites(r)
  BY <1>3, WentBack
<1>4. CASE SelectTask(r)
  BY <1>0, <1>4 DEF SelectTask, tables
<1>5. CASE PickNode(r)
  <2>1. /\ run'[r].pc = "execute" /\ run'[r].task = run[r].task /\ UNCHANGED task
        /\ run[r].pc = "node" /\ \A q \in Runs \ {r} : run'[q] = run[q]
    BY <1>0, <1>5 DEF PickNode, RunState, tables, At
  <2>2. QED BY <2>1 DEF Cur
<1>6. CASE CountFailures(r)
  <2>1. /\ run'[r].pc = "fail" /\ run'[r].task = run[r].task /\ UNCHANGED task
        /\ run[r].pc = "count_failures" /\ \A q \in Runs \ {r} : run'[q] = run[q]
    BY <1>0, <1>6 DEF CountFailures, RunState, tables, At
  <2>2. QED BY <2>1 DEF Cur, Working
<1>7. CASE ReviewerEvaluates(r)
  <2>1. /\ run'[r].pc \in {"remember_lesson", "remember_failure"}
        /\ run'[r].task = run[r].task /\ UNCHANGED task
        /\ run[r].pc = "review" /\ \A q \in Runs \ {r} : run'[q] = run[q]
    BY <1>0, <1>7 DEF ReviewerEvaluates, RunState, tables, At
  <2>2. QED BY <2>1 DEF Cur, Reviewing
<1>8. CASE CoordinatorStep(r)
  BY <1>1, <1>4, <1>5, <1>8 DEF CoordinatorStep, Finish, NoAvailableNode, tables
<1>9. \A n : FinalStatus(n) \in Terminal BY DEF FinalStatus, Terminal
<1>10. CASE WorkerStep(r)
  BY <1>2, <1>3, <1>6, <1>9, <1>10
     DEF WorkerStep, WorkerRefuses, WorkerExecutes, StoreResult, RememberResult, FailTask,
         NoteFailure, Working, At, tables, AgentWrites, Terminal
<1>11. CASE ReviewerStep(r)
  BY <1>2, <1>3, <1>7, <1>11
     DEF ReviewerStep, ReviewerRefuses, RememberLesson, CompleteTask, ExtractLesson,
         RememberFailure, RejectTask, Reviewing, At, tables, AgentWrites, Terminal
<1>12. CASE MemoryFault(r)
  BY <1>2, <1>3, <1>12 DEF MemoryFault, Reviewing, At, tables
<1>13. CASE AgentFault(r)
  BY <1>3, <1>13 DEF AgentFault, tables
<1>14. QED BY <1>8, <1>10, <1>11, <1>12, <1>13 DEF AgentMove

LEMMA AgentKeepsPrivate ==
  ASSUME KernelInv, PlanIsPrivate, NEW r \in Runs, AgentMove(r)
  PROVE  PlanIsPrivate'
<1>0. /\ task \in [Task -> TaskRow] /\ run \in [Runs -> RunState]
      /\ HoldsPending(r, run[r], task)
  BY DEF KernelInv, TypeOK, PlanIsPrivate
<1>1. \A t \in Task :
        /\ task[t].status = "pending" => task'[t].status = "pending"
        /\ task'[t].status = "pending" => task[t].status = "pending"
  <2>1. CASE UNCHANGED task BY <2>1
  <2>2. CASE AgentWrites(r)
    <3>1. PICK st \in {"review_pending"} \cup Terminal : \E o : UpdateStatus(Cur(r), st, o)
      BY <2>2 DEF AgentWrites
    <3>2. Cur(r) \in Task /\ task[Cur(r)].status # "pending"
      BY <1>0, <2>2, AgentFacts DEF HoldsPending, Cur, AgentWrites
    <3>3. st # "pending" BY DEF Terminal
    <3>4. task'[Cur(r)].status = st /\ \A t \in Task \ {Cur(r)} : task'[t] = task[t]
      BY <1>0, <3>1, <3>2 DEF UpdateStatus, TaskRow
    <3>5. QED BY <3>2, <3>3, <3>4
  <2>3. QED BY <2>1, <2>2, AgentSteps
<1>2. HoldsPending(r, run'[r], task')
  <2>1. CASE run'[r].pc \in {"select"} \cup Ended
    BY <2>1 DEF HoldsPending, Planning, Working, Reviewing, Ended
  <2>2. CASE SelectTask(r)
    <3>1. PICK t \in Dispatchable : run' = [run EXCEPT ![r] =
            [@ EXCEPT !.task = t, !.pc = IF task[t].status = "planned" THEN "node" ELSE "review"]]
      BY <2>2 DEF SelectTask
    <3>2. run'[r].task = t /\ run'[r].pc \in {"node", "review"} BY <1>0, <3>1 DEF RunState
    <3>3. t \in Task /\ task'[t].status # "pending" BY <2>2 DEF SelectTask, Dispatchable, tables
    <3>4. QED BY <3>2, <3>3 DEF HoldsPending, Planning
  <2>3. CASE /\ run'[r].pc \in {"execute"} \cup Working \cup Reviewing
             /\ run[r].pc \in {"node"} \cup Working \cup Reviewing
             /\ run'[r].task = Cur(r)
    <3>1. Cur(r) \in Task /\ task[Cur(r)].status # "pending"
      BY <1>0, <2>3, AgentFacts DEF HoldsPending, Cur
    <3>2. task'[Cur(r)].status # "pending" BY <1>1, <3>1
    <3>3. run'[r].pc \notin Planning BY <2>3 DEF Planning, Working, Reviewing
    <3>4. QED BY <2>3, <3>2, <3>3 DEF HoldsPending, Planning
  <2>4. QED BY <2>1, <2>2, <2>3, AgentSteps
<1>3. \A q \in Runs \ {r} : run'[q] = run[q] BY AgentSteps
<1>4. QED BY <1>1, <1>2, <1>3, PrivateKept

LEMMA PrivateNext == KernelInv /\ PlanIsPrivate /\ [Next]_vars => PlanIsPrivate'
<1> SUFFICES ASSUME KernelInv, PlanIsPrivate, [Next]_vars PROVE PlanIsPrivate'
  OBVIOUS
<1>0. run \in [Runs -> RunState] BY DEF KernelInv, TypeOK
<1>1. ASSUME NEW r \in Runs, CallRunAll(r) \/ RunFault(r) PROVE PlanIsPrivate'
  <2>1. UNCHANGED task /\ (GoTo(r, "select") \/ GoTo(r, "error"))
    BY <1>1 DEF CallRunAll, RunFault, tables
  <2>2. run'[r].pc \in {"select", "error"} /\ \A q \in Runs \ {r} : run'[q] = run[q]
    BY <2>1, WentTo
  <2>3. HoldsPending(r, run'[r], task')
    BY <2>2 DEF HoldsPending, Planning, Working, Reviewing
  <2>4. QED BY <2>1, <2>2, <2>3, PrivateKept
<1>2. CASE Crash
  <2>1. UNCHANGED task BY <1>2 DEF Crash, tables
  <2>2. ASSUME NEW q \in Runs PROVE run'[q] = run[q] \/ run'[q].pc = "crashed"
    BY <1>0, <1>2 DEF Crash, RunState
  <2>3. QED BY <2>1, <2>2 DEF PlanIsPrivate, HoldsPending, Planning, Working, Reviewing
<1>3. CASE NodeStep \/ UNCHANGED vars
  <2>1. UNCHANGED <<task, run>>
    BY <1>3 DEF NodeStep, Heartbeat, GoSilent, MarkOffline, SetNode, vars
  <2>2. QED BY <2>1 DEF PlanIsPrivate, HoldsPending
<1>4. QED BY <1>1, <1>2, <1>3, PlanKeepsPrivate, AgentKeepsPrivate
        DEF Next, Start, Step, FaultStep, AgentMove

LEMMA RunsFinite ==
  /\ IsFiniteSet(Runs) /\ Cardinality(Runs) \in Nat
  /\ \A S \in SUBSET Runs : /\ IsFiniteSet(S) /\ Cardinality(S) \in Nat
                            /\ Cardinality(S) <= Cardinality(Runs)
<1>1. IsFiniteSet(Runs) BY KernelAssumption, FS_Union DEF Runs
<1>2. Cardinality(Runs) \in Nat BY <1>1, FS_CardinalityType
<1>3. ASSUME NEW S \in SUBSET Runs
      PROVE  IsFiniteSet(S) /\ Cardinality(S) \in Nat /\ Cardinality(S) <= Cardinality(Runs)
  BY <1>1, FS_Subset, FS_CardinalityType
<1>4. QED BY <1>1, <1>2, <1>3

\* Nothing is executed anew: no row is released that was before, and a run that drops a task
\* without a result does so by a fault.
LEMMA NotExecuted ==
  ASSUME KernelInv, ExecutionsCounted, NEW r \in Runs, \A q \in Runs \ {r} : run'[q] = run[q],
         \A t \in Task : notes'[t].executed = notes[t].executed,
         faults' \in Nat, faults' >= faults,
         \A t \in Task :
           /\ task'[t].status \in {"absent", "pending"} => task[t].status \in {"absent", "pending"}
           /\ task'[t].status = "planned" =>
                \/ task[t].status = "pending"
                \/ /\ task[t].status = "planned"
                   /\ r \in Executing(t) => r \in Executing(t)' \/ faults' = faults + 1
  PROVE  ExecutionsCounted'
<1>0. /\ \A t \in Task : notes[t].executed \in Nat
      /\ faults \in Nat
  BY DEF KernelInv, TypeOK
<1>1. ASSUME NEW t \in Task PROVE notes'[t].executed <= Cardinality(Runs) + faults'
  <2>1. notes[t].executed <= Cardinality(Runs) + faults BY DEF ExecutionsCounted
  <2>2. QED BY <1>0, <2>1, RunsFinite
<1>2. ASSUME NEW t \in Task, task'[t].status = "planned"
      PROVE  notes'[t].executed <= Cardinality(Executing(t)') + faults'
  <2>0. Executing(t) \in SUBSET Runs /\ Executing(t)' \in SUBSET Runs BY DEF Executing
  <2>1. /\ Cardinality(Executing(t)) \in Nat /\ Cardinality(Executing(t)') \in Nat
        /\ IsFiniteSet(Executing(t)) /\ IsFiniteSet(Executing(t)')
    BY <2>0, RunsFinite
  <2>2. Executing(t) \ {r} \subseteq Executing(t)' BY DEF Executing, Cur
  <2>3. CASE task[t].status = "pending"
    <3>1. notes[t].executed = 0 BY <2>3 DEF ExecutionsCounted
    <3>2. QED BY <2>1, <3>1
  <2>4. CASE /\ task[t].status = "planned"
             /\ r \notin Executing(t) \/ r \in Executing(t)'
    <3>1. Executing(t) \subseteq Executing(t)' BY <2>2, <2>4
    <3>2. Cardinality(Executing(t)) <= Cardinality(Executing(t)') BY <2>1, <3>1, FS_Subset
    <3>3. notes[t].executed <= Cardinality(Executing(t)) + faults
      BY <2>4 DEF ExecutionsCounted
    <3>4. QED BY <1>0, <2>1, <3>2, <3>3
  <2>5. CASE task[t].status = "planned" /\ r \in Executing(t) /\ faults' = faults + 1
    <3>1. /\ Cardinality(Executing(t) \ {r}) = Cardinality(Executing(t)) - 1
          /\ Cardinality(Executing(t) \ {r}) \in Nat
      BY <2>1, <2>5, FS_RemoveElement, FS_CardinalityType
    <3>2. Cardinality(Executing(t) \ {r}) <= Cardinality(Executing(t)')
      BY <2>1, <2>2, FS_Subset
    <3>3. notes[t].executed <= Cardinality(Executing(t)) + faults
      BY <2>5 DEF ExecutionsCounted
    <3>4. QED BY <1>0, <2>1, <2>5, <3>1, <3>2, <3>3
  <2>6. QED BY <1>2, <2>3, <2>4, <2>5
<1>3. ASSUME NEW t \in Task, task'[t].status \in {"absent", "pending"}
      PROVE  notes'[t].executed = 0
  BY <1>3 DEF ExecutionsCounted
<1>4. QED BY <1>1, <1>2, <1>3 DEF ExecutionsCounted

\* An agent writes no status that a task has before it is released, and leaves no task as it
\* was when it has a result.
LEMMA WrittenStatus ==
  ASSUME KernelInv, NEW r \in Runs, UNCHANGED task \/ AgentWrites(r)
  PROVE  \A t \in Task : \/ task'[t].status = task[t].status
                         \/ t = Cur(r) /\ task'[t].status \notin {"absent", "pending", "planned"}
<1>1. CASE UNCHANGED task BY <1>1
<1>2. CASE AgentWrites(r)
  <2>1. PICK st \in {"review_pending"} \cup Terminal : \E o : UpdateStatus(Cur(r), st, o)
    BY <1>2 DEF AgentWrites
  <2>2. Cur(r) \in Task BY <1>2, AgentFacts DEF AgentWrites
  <2>3. task \in [Task -> TaskRow] BY DEF KernelInv, TypeOK
  <2>4. task'[Cur(r)].status = st /\ \A t \in Task \ {Cur(r)} : task'[t] = task[t]
    BY <2>1, <2>2, <2>3 DEF UpdateStatus, TaskRow
  <2>5. st \notin {"absent", "pending", "planned"} BY DEF Terminal
  <2>6. QED BY <2>4, <2>5
<1>3. QED BY <1>1, <1>2

LEMMA AgentCounts ==
  ASSUME KernelInv, ExecutionsCounted, NEW r \in Runs, AgentMove(r), ~WorkerExecutes(r)
  PROVE  ExecutionsCounted'
<1>1. \A q \in Runs \ {r} : run'[q] = run[q] BY AgentSteps
<1>2. /\ faults \in Nat /\ notes \in [Task -> [executed : Nat, failed : Nat]]
      /\ run \in [Runs -> RunState] /\ task \in [Task -> TaskRow]
  BY DEF KernelInv, TypeOK
<1>3. \A t \in Task : notes'[t].executed = notes[t].executed
  <2>1. CASE UNCHANGED notes BY <2>1
  <2>2. CASE NoteFailure(r) BY <1>2, <2>2 DEF NoteFailure
  <2>3. QED BY <2>1, <2>2
          DEF AgentMove, CoordinatorStep, SelectTask, Finish, PickNode, NoAvailableNode,
              WorkerStep, WorkerRefuses, StoreResult, RememberResult, CountFailures, FailTask,
              ReviewerStep, ReviewerRefuses, ReviewerEvaluates, RememberLesson, CompleteTask,
              ExtractLesson, RememberFailure, RejectTask, MemoryFault, AgentFault, tables
<1>4. \A t \in Task : \/ task'[t].status = task[t].status
                      \/ task'[t].status \notin {"absent", "pending", "planned"}
  BY AgentSteps, WrittenStatus
<1>5. CASE MemoryFault(r) \/ AgentFault(r)
  <2>1. faults' = faults + 1 BY <1>5 DEF MemoryFault, AgentFault, Fault
  <2>2. QED BY <1>1, <1>2, <1>3, <1>4, <2>1, NotExecuted
<1>6. CASE CoordinatorStep(r) \/ WorkerStep(r) \/ ReviewerStep(r)
  <2>1. UNCHANGED faults
    BY <1>6 DEF CoordinatorStep, SelectTask, Finish, PickNode, NoAvailableNode, WorkerStep,
         WorkerRefuses, WorkerExecutes, StoreResult, RememberResult, CountFailures, FailTask,
         NoteFailure, ReviewerStep, ReviewerRefuses, ReviewerEvaluates, RememberLesson,
         CompleteTask, ExtractLesson, RememberFailure, RejectTask, Fine
  <2>2. ASSUME NEW t \in Task, task'[t].status = "planned", r \in Executing(t)
        PROVE  r \in Executing(t)'
    <3>1. /\ run[r].pc \in {"store", "count_failures", "fail"} /\ Cur(r) = t
          /\ StoreResult(r) \/ CountFailures(r) \/ FailTask(r)
      <4>1. \/ run[r].pc \in {"select", "node", "execute", "remember_result", "note_failure"}
            \/ run[r].pc \in Reviewing
            \/ StoreResult(r) \/ CountFailures(r) \/ FailTask(r)
        BY <1>6 DEF CoordinatorStep, SelectTask, Finish, PickNode, NoAvailableNode,
             WorkerStep, WorkerRefuses, WorkerExecutes, RememberResult, NoteFailure,
             ReviewerStep, ReviewerRefuses, ReviewerEvaluates, RememberLesson, CompleteTask,
             ExtractLesson, RememberFailure, RejectTask, At, Reviewing
      <4>2. StoreResult(r) \/ CountFailures(r) \/ FailTask(r) => run[r].pc # "crashed"
        BY DEF StoreResult, CountFailures, FailTask, At
      <4>3. QED BY <2>2, <4>1, <4>2 DEF Executing, Reviewing
    <3>2. CASE StoreResult(r) \/ FailTask(r)
      <4>1. PICK st \in {"review_pending", "failed", "abandoned"} :
              \E o : UpdateStatus(t, st, o)
        BY <3>1, <3>2 DEF StoreResult, FailTask, FinalStatus
      <4>2. task'[t].status = st BY <1>2, <4>1 DEF UpdateStatus, TaskRow
      <4>3. QED BY <2>2, <4>2
    <3>3. CASE CountFailures(r)
      <4>1. run'[r].pc = "fail" /\ run'[r].task = run[r].task
        BY <1>2, <3>3 DEF CountFailures, RunState
      <4>2. QED BY <3>1, <4>1 DEF Executing, Cur
    <3>4. QED BY <3>1, <3>2, <3>3
  <2>3. QED BY <1>1, <1>2, <1>3, <1>4, <2>1, <2>2, NotExecuted
<1>7. QED BY <1>5, <1>6 DEF AgentMove

\* An execution that begins puts its run among those that have no result yet.
LEMMA WorkerCounts ==
  ASSUME KernelInv, ExecutionsCounted, NEW r \in Runs, WorkerExecutes(r)
  PROVE  ExecutionsCounted'
<1>0. /\ faults \in Nat /\ notes \in [Task -> [executed : Nat, failed : Nat]]
      /\ UNCHANGED <<task, faults>> /\ run[r].pc = "execute"
  BY DEF KernelInv, TypeOK, WorkerExecutes, Fine, At
<1>1. Cur(r) \in Task /\ task[Cur(r)].status = "planned"
  BY <1>0, AgentFacts DEF WorkerExecutes, Working
<1>2. /\ run'[r].pc \in {"store", "count_failures"} /\ run'[r].task = Cur(r)
      /\ \A q \in Runs \ {r} : run'[q] = run[q]
  BY WentTo DEF WorkerExecutes
<1>3. /\ \A t \in Task : notes'[t].executed = notes[t].executed + (IF t = Cur(r) THEN 1 ELSE 0)
  BY <1>0, <1>1 DEF WorkerExecutes
<1>4. ASSUME NEW t \in Task, task[t].status = "planned"
      PROVE  /\ notes'[t].executed <= Cardinality(Executing(t)') + faults
             /\ notes'[t].executed <= Cardinality(Runs) + faults
  <2>0. Executing(t) \in SUBSET Runs /\ Executing(t)' \in SUBSET Runs BY DEF Executing
  <2>1. /\ Cardinality(Executing(t)) \in Nat /\ Cardinality(Executing(t)') \in Nat
        /\ IsFiniteSet(Executing(t)) /\ Cardinality(Runs) \in Nat
        /\ Cardinality(Executing(t)') <= Cardinality(Runs)
    BY <2>0, RunsFinite
  <2>2. r \notin Executing(t) BY <1>0 DEF Executing
  <2>3. Executing(t)' = IF t = Cur(r) THEN Executing(t) \cup {r} ELSE Executing(t)
    BY <1>2, <2>2 DEF Executing, Cur
  <2>4. Cardinality(Executing(t) \cup {r}) = Cardinality(Executing(t)) + 1
    BY <2>1, <2>2, FS_AddElement
  <2>5. Cardinality(Executing(t)') = Cardinality(Executing(t)) + (IF t = Cur(r) THEN 1 ELSE 0)
    BY <2>1, <2>3, <2>4
  <2>6. notes[t].executed <= Cardinality(Executing(t)) + faults
    BY <1>4 DEF ExecutionsCounted
  <2>7. notes[t].executed \in Nat BY <1>0
  <2>8. QED BY <1>0, <1>3, <2>1, <2>5, <2>6, <2>7
<1>5. ASSUME NEW t \in Task, task[t].status # "planned"
      PROVE  notes'[t].executed = notes[t].executed
  <2>1. t # Cur(r) BY <1>1, <1>5
  <2>2. notes[t].executed \in Nat BY <1>0
  <2>3. QED BY <1>3, <2>1, <2>2
<1>6. QED BY <1>0, <1>4, <1>5 DEF ExecutionsCounted

\* Starting and planning insert rows and release them.
LEMMA PlanWrites ==
  ASSUME KernelInv, PlanIsPrivate, NEW r \in Runs,
         PlanStep(r) \/ Start(r) \/ SubtaskFault(r) \/ RunFault(r), NEW t \in Task
  PROVE  \/ task'[t].status = task[t].status
         \/ task[t].status = "absent" /\ task'[t].status = "pending"
         \/ task[t].status = "pending" /\ task'[t].status = "planned"
<1>0. task \in [Task -> TaskRow] BY DEF KernelInv, TypeOK
<1>1. CASE UNCHANGED task BY <1>1
<1>2. ASSUME NEW u \in Task, \E w, p : InsertTask(u, w, p), task[u].status = "absent"
      PROVE  \/ task'[t].status = task[t].status
             \/ task[t].status = "absent" /\ task'[t].status = "pending"
  BY <1>0, <1>2 DEF InsertTask
<1>3. ASSUME NEW u \in Task, \E o : UpdateStatus(u, "planned", o), task[u].status = "pending"
      PROVE  \/ task'[t].status = task[t].status
             \/ task[t].status = "pending" /\ task'[t].status = "planned"
  BY <1>0, <1>3 DEF UpdateStatus, TaskRow
<1>4. CASE CallRunTask(r)
  <2>1. r \in Planners /\ \E w, p : InsertTask(<<r, 0>>, w, p)
    BY <1>4 DEF CallRunTask, Root
  <2>2. <<r, 0>> \in Task BY <2>1, KernelAssumption DEF Task
  <2>3. task[<<r, 0>>].status = "absent"
    <3>1. run[r].pc = "idle" /\ RunFits(r, run[r], task)
      BY <1>4 DEF CallRunTask, MayStart, At, KernelInv
    <3>2. QED BY <2>1, <3>1, KernelAssumption DEF RunFits
  <2>4. QED BY <1>2, <2>1, <2>2, <2>3
<1>5. CASE CreateSubtask(r)
  <2> DEFINE k == run[r].step
  <2>1. run[r].pc = "create" /\ k <= run[r].size /\ \E w, p : InsertTask(<<r, k>>, w, p)
    BY <1>5 DEF CreateSubtask, At
  <2>2. /\ r \in Planners /\ k \in 0..MaxSubtasks
        /\ \A i \in 0..MaxSubtasks : i >= k => task[<<r, i>>].status = "absent"
    <3>1. /\ r \in Planners /\ k \in Nat /\ run[r].size \in Nat /\ run[r].size <= MaxSubtasks
          /\ \A i \in 0..MaxSubtasks : i >= k => task[<<r, i>>].status = "absent"
      BY <2>1, PlannerFacts DEF Planning
    <3>2. QED BY <2>1, <3>1, KernelAssumption
  <2>3. <<r, k>> \in Task /\ task[<<r, k>>].status = "absent"
    BY <2>2 DEF Task
  <2>4. QED BY <1>2, <2>1, <2>3
<1>6. CASE ActivateSubtask(r) \/ FinishPlan(r)
  <2>1. PICK i \in {0, run[r].step} : \E o : UpdateStatus(<<r, i>>, "planned", o)
    BY <1>6 DEF ActivateSubtask, FinishPlan, Root
  <2>2. CASE ActivateSubtask(r)
    <3>1. run[r].pc = "activate" /\ UpdateStatus(<<r, run[r].step>>, "planned", "none")
      BY <2>2 DEF ActivateSubtask, At
    <3>2. <<r, run[r].step>> \in Task BY <3>1, PlannerFacts DEF Planning, Task
    <3>3. task[<<r, run[r].step>>].status = "pending"
      BY <3>1 DEF PlanIsPrivate, HoldsPending
    <3>4. QED BY <1>3, <3>1, <3>2, <3>3
  <2>3. CASE FinishPlan(r)
    <3>1. run[r].pc \in Planning /\ UpdateStatus(<<r, 0>>, "planned", "plan")
      BY <2>3 DEF FinishPlan, At, Root, Planning
    <3>2. <<r, 0>> \in Task BY <3>1, PlannerFacts
    <3>3. task[<<r, 0>>].status = "pending" BY <3>1 DEF PlanIsPrivate, HoldsPending
    <3>4. QED BY <1>3, <3>1, <3>2, <3>3
  <2>4. QED BY <1>6, <2>2, <2>3
<1>7. QED BY <1>1, <1>4, <1>5, <1>6
        DEF PlanStep, ListSubtask, Start, CallRunAll, SubtaskFault, RunFault, tables

LEMMA PlanCounts ==
  ASSUME KernelInv, PlanIsPrivate, ExecutionsCounted, NEW r \in Runs,
         PlanStep(r) \/ Start(r) \/ SubtaskFault(r) \/ RunFault(r)
  PROVE  ExecutionsCounted'
<1>0. /\ task \in [Task -> TaskRow] /\ run \in [Runs -> RunState] /\ faults \in Nat
  BY DEF KernelInv, TypeOK
<1>1. \A q \in Runs \ {r} : run'[q] = run[q]
  BY <1>0 DEF PlanStep, CreateSubtask, ActivateSubtask, ListSubtask, FinishPlan, Start,
              CallRunTask, CallRunAll, SubtaskFault, RunFault, GoTo
<1>2. /\ UNCHANGED notes /\ faults' \in {faults, faults + 1}
      /\ run[r].pc \in {"idle", "select", "node"} \cup Planning
  BY DEF PlanStep, CreateSubtask, ActivateSubtask, ListSubtask, FinishPlan, Start, CallRunTask,
         CallRunAll, MayStart, SubtaskFault, RunFault, tables, Fine, Fault, At, Planning
<1>3. \A t \in Task : r \notin Executing(t)
  BY <1>2 DEF Executing, Planning
<1>4. \A t \in Task : \/ task'[t].status = task[t].status
                      \/ task[t].status = "absent" /\ task'[t].status = "pending"
                      \/ task[t].status = "pending" /\ task'[t].status = "planned"
  BY PlanWrites
<1>5. QED BY <1>0, <1>1, <1>2, <1>3, <1>4, NotExecuted

LEMMA ExecutionNext == KernelInv /\ ExecutionInv /\ [Next]_vars => ExecutionInv'
<1> SUFFICES ASSUME KernelInv, PlanIsPrivate, ExecutionsCounted, [Next]_vars
             PROVE  ExecutionsCounted'
  BY PrivateNext DEF ExecutionInv
<1>0. run \in [Runs -> RunState] BY DEF KernelInv, TypeOK
<1>1. ASSUME NEW r \in Runs, Start(r) \/ Step(r) \/ FaultStep(r) PROVE ExecutionsCounted'
  <2>1. CASE AgentMove(r) BY <2>1, AgentCounts, WorkerCounts
  <2>2. QED BY <1>1, <2>1, PlanCounts DEF Step, FaultStep, AgentMove
<1>2. CASE Crash
  <2>1. UNCHANGED <<task, notes, faults>> BY <1>2 DEF Crash, tables
  <2>2. \A q \in Runs : run'[q] = run[q] \/ run'[q].pc = "crashed"
    BY <1>0, <1>2 DEF Crash, RunState
  <2>3. ASSUME NEW t \in Task PROVE Cardinality(Executing(t)) <= Cardinality(Executing(t)')
    <3>1. Executing(t) \subseteq Executing(t)' BY <2>2 DEF Executing, Cur
    <3>2. Executing(t)' \in SUBSET Runs BY DEF Executing
    <3>3. QED BY <3>1, <3>2, RunsFinite, FS_Subset
  <2>4. ASSUME NEW t \in Task
        PROVE  /\ Cardinality(Executing(t)) \in Nat /\ Cardinality(Executing(t)') \in Nat
               /\ notes[t].executed \in Nat /\ faults \in Nat
    <3>1. Executing(t) \in SUBSET Runs /\ Executing(t)' \in SUBSET Runs BY DEF Executing
    <3>2. QED BY <3>1, RunsFinite DEF KernelInv, TypeOK
  <2>5. ASSUME NEW t \in Task, task[t].status = "planned"
        PROVE  notes[t].executed <= Cardinality(Executing(t)') + faults
    <3>1. notes[t].executed <= Cardinality(Executing(t)) + faults
      BY <2>5 DEF ExecutionsCounted
    <3>2. QED BY <2>3, <2>4, <3>1
  <2>6. QED BY <2>1, <2>5 DEF ExecutionsCounted
<1>3. CASE NodeStep \/ UNCHANGED vars
  <2>1. UNCHANGED <<task, notes, faults, run>>
    BY <1>3 DEF NodeStep, Heartbeat, GoSilent, MarkOffline, SetNode, Fine, vars
  <2>2. \A t \in Task : Executing(t)' = Executing(t) BY <2>1 DEF Executing, Cur
  <2>3. QED BY <2>1, <2>2 DEF ExecutionsCounted
<1>4. QED BY <1>1, <1>2, <1>3 DEF Next

\* However calls overlap, and wherever they are killed, each executes a task once at most,
\* and once more for each database error.
THEOREM ExecutionsBounded == Spec => []ExecutionsAreBounded
<1>1. Init => ExecutionInv
  <2> SUFFICES ASSUME Init PROVE ExecutionInv
    OBVIOUS
  <2>1. PlanIsPrivate BY DEF Init, PlanIsPrivate, HoldsPending, Planning, Working, Reviewing
  <2>2. /\ \A t \in Task : notes[t].executed = 0 /\ task[t].status = "absent"
        /\ faults = 0
    BY DEF Init
  <2>3. QED BY <2>1, <2>2, RunsFinite DEF ExecutionInv, ExecutionsCounted
<1>2. ExecutionInv => ExecutionsAreBounded
  BY DEF ExecutionInv, ExecutionsCounted, ExecutionsAreBounded
<1>3. QED BY <1>1, <1>2, ExecutionNext, KernelInvariant, PTL DEF Spec

--------------------------------------------------------------------------------
\* Nothing is stranded

\* Calls that all came to their end with iterations to spare leave nothing dispatchable:
\* whoever takes a step is not through after it, unless it found nothing.
THEOREM NoneStranded == Spec => []NothingStranded
<1>1. Init => NothingStranded
  BY DEF Init, NothingStranded, Dispatchable
<1>2. ASSUME KernelInv, NothingStranded, [Next]_vars PROVE NothingStranded'
  <2>0. run \in [Runs -> RunState] /\ task \in [Task -> TaskRow] BY <1>2 DEF KernelInv, TypeOK
  <2> DEFINE Through(r) == run[r].pc = "done" /\ run[r].iters < MaxIterations
  <2>1. ASSUME NEW r \in Runs, Start(r) \/ Step(r) \/ FaultStep(r), \A q \in Runs : Through(q)'
        PROVE  Dispatchable' = {}
    <3>1. run'[r].pc = "done" /\ run'[r].iters < MaxIterations BY <2>1
    <3>2. CASE Finish(r)
      <4>1. run[r].iters = run'[r].iters BY <2>0, <3>2 DEF Finish, GoTo, RunState
      <4>2. run[r].iters < MaxIterations BY <3>1, <4>1
      <4>3. run[r].iters # MaxIterations BY <4>2, KernelAssumption
      <4>4. Dispatchable = {} /\ UNCHANGED task BY <3>2, <4>3 DEF Finish, tables
      <4>5. QED BY <4>4 DEF Dispatchable
    <3>3. CASE ~Finish(r)
      <4>1. CASE \E l \in PC \ {"done"} : GoTo(r, l)
        BY <1>2, <3>1, <4>1, WentTo
      <4>2. CASE \E result : NextIteration(r, result)
        BY <1>2, <3>1, <4>2, WentBack
      <4>3. CASE CallRunTask(r) \/ ListSubtask(r) \/ SubtaskFault(r)
        BY <2>0, <3>1, <4>3 DEF CallRunTask, ListSubtask, SubtaskFault, RunState
      <4>4. CASE SelectTask(r) \/ PickNode(r) \/ CountFailures(r) \/ ReviewerEvaluates(r)
        BY <2>0, <3>1, <4>4 DEF SelectTask, PickNode, CountFailures, ReviewerEvaluates, RunState
      <4>5. {"select", "activate", "list", "no_node", "error"} \cup Working \cup Reviewing
              \subseteq PC \ {"done"}
        BY DEF PC, Active, Ended, Planning, Working, Reviewing
      <4>6. CASE Start(r) BY <4>1, <4>3, <4>5, <4>6 DEF Start, CallRunAll
      <4>7. CASE PlanStep(r)
        BY <4>1, <4>3, <4>5, <4>7 DEF PlanStep, CreateSubtask, ActivateSubtask, FinishPlan
      <4>8. CASE CoordinatorStep(r)
        BY <3>3, <4>1, <4>4, <4>5, <4>8 DEF CoordinatorStep, NoAvailableNode
      <4>9. CASE WorkerStep(r)
        BY <4>1, <4>2, <4>4, <4>5, <4>9
           DEF WorkerStep, WorkerRefuses, WorkerExecutes, StoreResult, RememberResult, FailTask,
               NoteFailure, Working
      <4>10. CASE ReviewerStep(r)
        BY <4>1, <4>2, <4>4, <4>5, <4>10
           DEF ReviewerStep, ReviewerRefuses, RememberLesson, CompleteTask, ExtractLesson,
               RememberFailure, RejectTask, Reviewing
      <4>11. CASE FaultStep(r)
        BY <4>1, <4>2, <4>3, <4>5, <4>11
           DEF FaultStep, RunFault, AgentFault, MemoryFault, Reviewing
      <4>12. QED BY <2>1, <4>6, <4>7, <4>8, <4>9, <4>10, <4>11 DEF Step
    <3>4. QED BY <3>2, <3>3
  <2>2. CASE Crash
    <3>1. PICK r \in Runs : run[r].pc \in Active BY <2>2 DEF Crash
    <3>2. run'[r].pc = "crashed" BY <2>0, <2>2, <3>1 DEF Crash, RunState
    <3>3. QED BY <3>2 DEF NothingStranded
  <2>3. CASE NodeStep \/ UNCHANGED vars
    <3>1. UNCHANGED <<task, run>>
      BY <2>3 DEF NodeStep, Heartbeat, GoSilent, MarkOffline, SetNode, vars
    <3>2. QED BY <1>2, <3>1 DEF NothingStranded, Dispatchable
  <2>4. (\E r \in Runs : Start(r) \/ Step(r) \/ FaultStep(r)) => NothingStranded'
    BY <2>1 DEF NothingStranded
  <2>5. QED BY <1>2, <2>2, <2>3, <2>4 DEF Next
<1>3. KernelInv /\ NothingStranded /\ [Next]_vars => NothingStranded' BY <1>2
<1>4. QED BY <1>1, <1>3, KernelInvariant, PTL DEF Spec
--------------------------------------------------------------------------------
\* Calls that do not overlap follow the approved lifecycle

\* The status that the table T has for the tasks run r, with locals s, will write next.
HoldsStage(r, s, T) ==
  /\ s.pc \in {"store", "count_failures", "fail"} => T[s.task].status = "planned"
  /\ s.pc \in {"remember_lesson", "complete", "remember_failure", "reject"}
       => T[s.task].status = "review_pending"
  /\ s.pc \in Planning => T[<<r, 0>>].status = "pending"
  /\ s.pc = "activate" => T[<<r, s.step>>].status = "pending"

OneActive == \A q, r \in Runs : run[q].pc \in Active /\ run[r].pc \in Active => q = r

SerialInv == OneActive /\ \A r \in Runs : HoldsStage(r, run[r], task)

stage == [t \in Task |-> task[t].status]

--------------------------------------------------------------------------------
\* The steps of the lifecycle that the database operations take

LEMMA InsertIsCreate ==
  ASSUME task \in [Task -> TaskRow], NEW t \in Task, NEW w, NEW p, InsertTask(t, w, p),
         task[t].status = "absent"
  PROVE  Lifecycle!Next
<1>1. /\ task'[t].status = "pending"
      /\ \A u \in Task \ {t} : task'[u] = task[u]
  BY DEF InsertTask
<1>2. stage' = [stage EXCEPT ![t] = "pending"]
  BY <1>1 DEF stage
<1> QED BY <1>2 DEF Lifecycle!Next, Lifecycle!Create, Lifecycle!Move, stage

LEMMA UpdateIsMove ==
  ASSUME task \in [Task -> TaskRow], NEW t \in Task, NEW from, NEW to, NEW o,
         UpdateStatus(t, to, o), task[t].status = from
  PROVE  Lifecycle!Move(t, from, to)
<1>1. /\ task'[t].status = to
      /\ \A u \in Task \ {t} : task'[u] = task[u]
  BY DEF UpdateStatus, TaskRow
<1>2. stage' = [stage EXCEPT ![t] = to]
  BY <1>1 DEF stage
<1> QED BY <1>2 DEF Lifecycle!Move, stage

\* Every action takes a step of the lifecycle or leaves every status as it is.
LEMMA StepRefines ==
  ASSUME KernelInv, SerialInv, [Next]_vars
  PROVE  [Lifecycle!Next]_stage
<1>0. task \in [Task -> TaskRow]
  BY DEF KernelInv, TypeOK
<1>1. CASE UNCHANGED task
  BY <1>1 DEF stage
<1>2. ASSUME NEW r \in Runs, CallRunTask(r) PROVE Lifecycle!Next
  <2>1. /\ r \in Planners /\ <<r, 0>> \in Task /\ task[<<r, 0>>].status = "absent"
        /\ \E w, p : InsertTask(<<r, 0>>, w, p)
    <3>1. /\ r \in Planners /\ run[r].pc = "idle" /\ RunFits(r, run[r], task)
          /\ \E w, p : InsertTask(<<r, 0>>, w, p)
      BY <1>2 DEF CallRunTask, MayStart, At, KernelInv, Root
    <3>2. 0 \in 0..MaxSubtasks
      BY KernelAssumption
    <3> QED BY <3>1, <3>2 DEF RunFits, Task
  <2> QED BY <1>0, <2>1, InsertIsCreate
<1>3. ASSUME NEW r \in Runs, PlanStep(r) PROVE [Lifecycle!Next]_stage
  <2>0. run[r].pc \in Planning
    BY <1>3 DEF PlanStep, CreateSubtask, ActivateSubtask, ListSubtask, FinishPlan, At, Planning
  <2>1. CASE CreateSubtask(r)
    <3>1. run[r].pc = "create" /\ run[r].step <= run[r].size
          /\ \E w, p : InsertTask(<<r, run[r].step>>, w, p)
      BY <2>1 DEF CreateSubtask, At
    <3>2. /\ r \in Planners /\ run[r].step \in 0..MaxSubtasks
      <4>1. /\ r \in Planners /\ run[r].step \in Nat /\ run[r].size \in Nat
            /\ run[r].size <= MaxSubtasks
        BY <2>0, PlannerFacts
      <4> QED BY <3>1, <4>1, KernelAssumption
    <3>3. task[<<r, run[r].step>>].status = "absent" /\ <<r, run[r].step>> \in Task
      <4>1. /\ \A i \in 0..MaxSubtasks : i >= run[r].step => task[<<r, i>>].status = "absent"
            /\ run[r].step \in Nat
        BY <2>0, <3>1, PlannerFacts
      <4> QED BY <3>2, <4>1 DEF Task
    <3> QED BY <1>0, <3>1, <3>3, InsertIsCreate
  <2>2. CASE ActivateSubtask(r)
    <3>1. /\ run[r].pc = "activate" /\ UpdateStatus(<<r, run[r].step>>, "planned", "none")
          /\ task[<<r, run[r].step>>].status = "pending"
      BY <2>2 DEF ActivateSubtask, At, SerialInv, HoldsStage
    <3>2. <<r, run[r].step>> \in Task
      BY <2>0, <3>1, PlannerFacts DEF Task
    <3>3. Lifecycle!Move(<<r, run[r].step>>, "pending", "planned")
      BY <1>0, <3>1, <3>2, UpdateIsMove
    <3> QED BY <3>2, <3>3 DEF Lifecycle!Next, Lifecycle!Plan
  <2>3. CASE ListSubtask(r)
    BY <1>1, <2>3 DEF ListSubtask, tables
  <2>4. CASE FinishPlan(r)
    <3>1. /\ UpdateStatus(<<r, 0>>, "planned", "plan")
          /\ task[<<r, 0>>].status = "pending" /\ <<r, 0>> \in Task
      BY <2>0, <2>4, PlannerFacts DEF FinishPlan, Root, SerialInv, HoldsStage
    <3>2. Lifecycle!Move(<<r, 0>>, "pending", "planned")
      BY <1>0, <3>1, UpdateIsMove
    <3> QED BY <3>1, <3>2 DEF Lifecycle!Next, Lifecycle!Plan
  <2> QED BY <1>3, <2>1, <2>2, <2>3, <2>4 DEF PlanStep
<1>4. ASSUME NEW r \in Runs, WorkerStep(r) PROVE [Lifecycle!Next]_stage
  <2>1. CASE StoreResult(r)
    <3>1. /\ UpdateStatus(Cur(r), "review_pending", task[Cur(r)].work) /\ Cur(r) \in Task
          /\ task[Cur(r)].status = "planned"
      BY <2>1, AgentFacts DEF StoreResult, At, Working, SerialInv, HoldsStage, Cur
    <3>2. Lifecycle!Move(Cur(r), "planned", "review_pending")
      BY <1>0, <3>1, UpdateIsMove
    <3> QED BY <3>1, <3>2 DEF Lifecycle!Next, Lifecycle!Submit
  <2>2. CASE FailTask(r)
    <3>1. PICK st \in {"failed", "abandoned"} : UpdateStatus(Cur(r), st, "failure")
      BY <2>2 DEF FailTask, FinalStatus
    <3>2. Cur(r) \in Task /\ task[Cur(r)].status = "planned"
      BY <2>2, AgentFacts DEF FailTask, At, Working, SerialInv, HoldsStage, Cur
    <3>3. Lifecycle!Move(Cur(r), "planned", st)
      BY <1>0, <3>1, <3>2, UpdateIsMove
    <3>4. Lifecycle!Fail(Cur(r))
      BY <3>3 DEF Lifecycle!Fail
    <3> QED BY <3>2, <3>4 DEF Lifecycle!Next
  <2>3. CASE UNCHANGED task
    BY <1>1, <2>3
  <2> QED BY <1>4, <2>1, <2>2, <2>3
          DEF WorkerStep, WorkerRefuses, WorkerExecutes, RememberResult, CountFailures,
              NoteFailure, tables
<1>5. ASSUME NEW r \in Runs, ReviewerStep(r) PROVE [Lifecycle!Next]_stage
  <2>1. CASE CompleteTask(r)
    <3>1. /\ UpdateStatus(Cur(r), "completed", run[r].out) /\ Cur(r) \in Task
          /\ task[Cur(r)].status = "review_pending"
      BY <2>1, AgentFacts DEF CompleteTask, At, Reviewing, SerialInv, HoldsStage, Cur
    <3>2. Lifecycle!Move(Cur(r), "review_pending", "completed")
      BY <1>0, <3>1, UpdateIsMove
    <3> QED BY <3>1, <3>2 DEF Lifecycle!Next, Lifecycle!Approve
  <2>2. CASE RejectTask(r)
    <3>1. /\ UpdateStatus(Cur(r), "rejected", "verdict") /\ Cur(r) \in Task
          /\ task[Cur(r)].status = "review_pending"
      BY <2>2, AgentFacts DEF RejectTask, At, Reviewing, SerialInv, HoldsStage, Cur
    <3>2. Lifecycle!Move(Cur(r), "review_pending", "rejected")
      BY <1>0, <3>1, UpdateIsMove
    <3> QED BY <3>1, <3>2 DEF Lifecycle!Next, Lifecycle!Refuse
  <2>3. CASE UNCHANGED task
    BY <1>1, <2>3
  <2> QED BY <1>5, <2>1, <2>2, <2>3
          DEF ReviewerStep, ReviewerRefuses, ReviewerEvaluates, RememberLesson,
              ExtractLesson, RememberFailure, tables
<1>6. CASE Crash \/ NodeStep \/ UNCHANGED vars
  BY <1>1, <1>6 DEF Crash, NodeStep, Heartbeat, GoSilent, MarkOffline, SetNode, tables, vars
<1>7. ASSUME NEW r \in Runs, CallRunAll(r) \/ CoordinatorStep(r) \/ FaultStep(r)
      PROVE  UNCHANGED task
  BY <1>7 DEF CallRunAll, CoordinatorStep, SelectTask, Finish, PickNode, NoAvailableNode,
              FaultStep, SubtaskFault, RunFault, AgentFault, MemoryFault, tables
<1> QED BY <1>1, <1>2, <1>3, <1>4, <1>5, <1>6, <1>7 DEF Next, Start, Step

--------------------------------------------------------------------------------
\* Calls that do not overlap keep SerialInv

\* A step of the only run that is active, or of a run that starts when none is.
LEMMA SoleMover ==
  ASSUME NEW r \in Runs, \A q \in Runs \ {r} : run[q].pc \notin Active,
         \A q \in Runs \ {r} : run'[q] = run[q], HoldsStage(r, run'[r], task')
  PROVE  SerialInv'
<1>1. OneActive'
  BY DEF OneActive
<1>2. \A q \in Runs \ {r} : HoldsStage(q, run'[q], task')
  BY DEF HoldsStage, Active, Planning, Working, Reviewing
<1> QED BY <1>1, <1>2 DEF SerialInv

\* A run that stands where it relies on no status.
LEMMA FreeHolds ==
  ASSUME NEW r, NEW s, NEW T,
         s.pc \in {"select", "node", "execute", "remember_result", "note_failure",
                  "review", "extract"} \cup Ended
  PROVE  HoldsStage(r, s, T)
BY DEF HoldsStage, Planning, Ended

LEMMA SerialStart ==
  ASSUME KernelInv, SerialInv, NEW r \in Runs, \A q \in Runs : run[q].pc \notin Active,
         Start(r)
  PROVE  SerialInv'
<1>0. /\ task \in [Task -> TaskRow] /\ run \in [Runs -> RunState]
  BY DEF KernelInv, TypeOK
<1>1. \A q \in Runs \ {r} : run'[q] = run[q]
  BY <1>0 DEF Start, CallRunTask, CallRunAll, GoTo
<1>2. CASE CallRunTask(r)
  <2>1. run'[r].pc = "create"
    BY <1>0, <1>2 DEF CallRunTask, RunState
  <2>2. task'[<<r, 0>>].status = "pending"
    <3>1. r \in Planners /\ \E w, p : InsertTask(<<r, 0>>, w, p)
      BY <1>2 DEF CallRunTask, Root
    <3>2. <<r, 0>> \in Task
      BY <3>1, KernelAssumption DEF Task
    <3> QED BY <1>0, <3>1, <3>2 DEF InsertTask
  <2> QED BY <1>0, <1>1, <2>1, <2>2, SoleMover DEF HoldsStage
<1>3. CASE CallRunAll(r)
  <2>1. run'[r].pc = "select"
    BY <1>3, WentTo DEF CallRunAll
  <2> QED BY <1>0, <1>1, <2>1, SoleMover, FreeHolds
<1> QED BY <1>2, <1>3 DEF Start

\* What SerialInv says of the run that takes a step.
LEMMA SoleActive ==
  ASSUME SerialInv, NEW r \in Runs, run[r].pc \in Active
  PROVE  /\ \A q \in Runs \ {r} : run[q].pc \notin Active
         /\ HoldsStage(r, run[r], task)
BY DEF SerialInv, OneActive

LEMMA SerialPlan ==
  ASSUME KernelInv, SerialInv, NEW r \in Runs, PlanStep(r)
  PROVE  SerialInv'
<1>0. /\ run[r].pc \in Planning /\ task \in [Task -> TaskRow] /\ run \in [Runs -> RunState]
      /\ \A q \in Runs \ {r} : run'[q] = run[q]
  BY DEF PlanStep, CreateSubtask, ActivateSubtask, ListSubtask, FinishPlan, GoTo, At,
         Planning, KernelInv, TypeOK
<1> DEFINE k == run[r].step
<1>1. /\ \A q \in Runs \ {r} : run[q].pc \notin Active
      /\ task[<<r, 0>>].status = "pending" /\ <<r, 0>> \in Task
      /\ k \in Nat /\ k >= 1 /\ r \in Planners
      /\ run[r].size \in Nat /\ run[r].size <= MaxSubtasks
  BY <1>0, SoleActive, PlannerFacts DEF Active, HoldsStage
<1>2. k <= run[r].size => <<r, k>> \in Task /\ <<r, k>> # <<r, 0>>
  BY <1>1, KernelAssumption DEF Task
<1>3. CASE CreateSubtask(r)
  <2>1. k <= run[r].size /\ GoTo(r, "activate") /\ \E w, p : InsertTask(<<r, k>>, w, p)
    BY <1>3 DEF CreateSubtask
  <2>2. task'[<<r, k>>].status = "pending" /\ task'[<<r, 0>>].status = "pending"
    BY <1>0, <1>1, <1>2, <2>1 DEF InsertTask
  <2>3. run'[r].pc = "activate" /\ run'[r].step = k
    BY <2>1, WentTo
  <2>4. HoldsStage(r, run'[r], task')
    BY <2>2, <2>3 DEF HoldsStage
  <2> QED BY <1>0, <1>1, <2>4, SoleMover
<1>4. CASE ActivateSubtask(r)
  <2>1. k <= run[r].size /\ UpdateStatus(<<r, k>>, "planned", "none") /\ GoTo(r, "list")
    BY <1>0, <1>4, PlannerFacts DEF ActivateSubtask, At
  <2>2. task'[<<r, 0>>].status = "pending"
    BY <1>0, <1>1, <1>2, <2>1 DEF UpdateStatus
  <2>3. run'[r].pc = "list"
    BY <2>1, WentTo
  <2>4. HoldsStage(r, run'[r], task')
    BY <2>2, <2>3 DEF HoldsStage
  <2> QED BY <1>0, <1>1, <2>4, SoleMover
<1>5. CASE ListSubtask(r)
  <2>1. run'[r].pc = "create" /\ UNCHANGED task
    BY <1>0, <1>5 DEF ListSubtask, RunState, tables
  <2>2. HoldsStage(r, run'[r], task')
    BY <1>1, <2>1 DEF HoldsStage
  <2> QED BY <1>0, <1>1, <2>2, SoleMover
<1>6. CASE FinishPlan(r)
  <2>1. run'[r].pc = "select"
    BY <1>6, WentTo DEF FinishPlan
  <2> QED BY <1>0, <1>1, <2>1, SoleMover, FreeHolds
<1> QED BY <1>3, <1>4, <1>5, <1>6 DEF PlanStep

LEMMA SerialAgent ==
  ASSUME KernelInv, SerialInv, NEW r \in Runs,
         CoordinatorStep(r) \/ WorkerStep(r) \/ ReviewerStep(r) \/ MemoryFault(r)
  PROVE  SerialInv'
<1>0. /\ task \in [Task -> TaskRow] /\ run \in [Runs -> RunState]
      /\ run[r].pc \in {"select", "node"} \cup Working \cup Reviewing
  BY DEF CoordinatorStep, SelectTask, Finish, PickNode, NoAvailableNode, WorkerStep,
         WorkerRefuses, WorkerExecutes, StoreResult, RememberResult, CountFailures, FailTask,
         NoteFailure, ReviewerStep, ReviewerRefuses, ReviewerEvaluates, RememberLesson,
         CompleteTask, ExtractLesson, RememberFailure, RejectTask, MemoryFault, At, Working,
         Reviewing, KernelInv, TypeOK
<1>1. /\ \A q \in Runs \ {r} : run[q].pc \notin Active
      /\ HoldsStage(r, run[r], task)
  BY <1>0, SoleActive DEF Active
<1> DEFINE free == {"select", "node", "execute", "remember_result", "note_failure",
                    "review", "extract"} \cup Ended
\* Most steps lead to a place where the run relies on no status.
<1>2. CASE \E l \in free : GoTo(r, l)
  BY <1>1, <1>2, WentTo, SoleMover, FreeHolds
<1>3. CASE \E result : NextIteration(r, result)
  BY <1>1, <1>3, WentBack, SoleMover, FreeHolds
<1>4. CASE SelectTask(r)
  <2>1. run'[r].pc \in {"node", "review"} /\ \A q \in Runs \ {r} : run'[q] = run[q]
    BY <1>0, <1>4 DEF SelectTask, RunState
  <2> QED BY <1>1, <2>1, SoleMover, FreeHolds
<1>5. CASE PickNode(r)
  <2>1. run'[r].pc = "execute" /\ \A q \in Runs \ {r} : run'[q] = run[q]
    BY <1>0, <1>5 DEF PickNode, RunState
  <2> QED BY <1>1, <2>1, SoleMover, FreeHolds
<1>6. CASE WorkerExecutes(r)
  <2>1. PICK l \in {"count_failures", "store"} : GoTo(r, l)
    BY <1>6 DEF WorkerExecutes
  <2>2. /\ run'[r].pc = l /\ run'[r].task = Cur(r)
        /\ \A q \in Runs \ {r} : run'[q] = run[q]
    BY <2>1, WentTo
  <2>3. task'[Cur(r)].status = "planned"
    BY <1>6 DEF WorkerExecutes
  <2>4. HoldsStage(r, run'[r], task')
    BY <2>2, <2>3 DEF HoldsStage, Planning
  <2> QED BY <1>1, <2>2, <2>4, SoleMover
<1>7. CASE CountFailures(r)
  <2>1. /\ run'[r].pc = "fail" /\ run'[r].task = run[r].task /\ UNCHANGED task
        /\ \A q \in Runs \ {r} : run'[q] = run[q]
    BY <1>0, <1>7 DEF CountFailures, RunState, tables
  <2>2. HoldsStage(r, run'[r], task')
    BY <1>1, <1>7, <2>1 DEF HoldsStage, CountFailures, At, Planning
  <2> QED BY <1>1, <2>1, <2>2, SoleMover
<1>8. CASE ReviewerEvaluates(r)
  <2>1. /\ run'[r].pc \in {"remember_lesson", "remember_failure"}
        /\ run'[r].task = run[r].task /\ UNCHANGED task
        /\ \A q \in Runs \ {r} : run'[q] = run[q]
    BY <1>0, <1>8 DEF ReviewerEvaluates, RunState, tables
  <2>2. task[run[r].task].status = "review_pending"
    BY <1>8 DEF ReviewerEvaluates, Cur
  <2>3. HoldsStage(r, run'[r], task')
    BY <2>1, <2>2 DEF HoldsStage, Planning
  <2> QED BY <1>1, <2>1, <2>3, SoleMover
<1>9. CASE /\ run[r].pc \in {"remember_lesson", "remember_failure"} /\ UNCHANGED task
           /\ GoTo(r, "complete") \/ GoTo(r, "reject")
  <2>1. /\ run'[r].pc \in {"complete", "reject"} /\ run'[r].task = run[r].task
        /\ \A q \in Runs \ {r} : run'[q] = run[q]
    BY <1>9, WentTo DEF Cur
  <2>2. task[run[r].task].status = "review_pending"
    BY <1>1, <1>9 DEF HoldsStage
  <2>3. HoldsStage(r, run'[r], task')
    BY <1>9, <2>1, <2>2 DEF HoldsStage, Planning
  <2> QED BY <1>1, <2>1, <2>3, SoleMover
<1>10. CASE CoordinatorStep(r)
  BY <1>2, <1>4, <1>5, <1>10 DEF CoordinatorStep, Finish, NoAvailableNode, Ended
<1>11. CASE WorkerStep(r)
  BY <1>2, <1>3, <1>6, <1>7, <1>11
     DEF WorkerStep, WorkerRefuses, StoreResult, RememberResult, FailTask, NoteFailure
<1>12. CASE ReviewerStep(r)
  BY <1>2, <1>3, <1>8, <1>9, <1>12
     DEF ReviewerStep, ReviewerRefuses, RememberLesson, CompleteTask, ExtractLesson,
         RememberFailure, RejectTask, At
<1>13. CASE MemoryFault(r)
  BY <1>3, <1>9, <1>13 DEF MemoryFault, At, tables
<1> QED BY <1>10, <1>11, <1>12, <1>13

LEMMA SerialFault ==
  ASSUME KernelInv, SerialInv, NEW r \in Runs, FaultStep(r)
  PROVE  SerialInv'
<1>0. run \in [Runs -> RunState]
  BY DEF KernelInv, TypeOK
<1>1. CASE SubtaskFault(r)
  <2>1. /\ run[r].pc \in Planning /\ run'[r].pc = "create" /\ UNCHANGED task
        /\ \A q \in Runs \ {r} : run'[q] = run[q]
    BY <1>0, <1>1 DEF SubtaskFault, RunState, tables
  <2>2. HoldsStage(r, run'[r], task')
    BY <2>1, SoleActive DEF HoldsStage, Active
  <2> QED BY <2>1, <2>2, SoleActive, SoleMover DEF Active
<1>2. CASE RunFault(r)
  <2>1. run[r].pc \in Active /\ GoTo(r, "error")
    BY <1>2 DEF RunFault, At, Active, Planning
  <2> QED BY <2>1, WentTo, SoleActive, SoleMover, FreeHolds DEF Ended
<1>3. CASE AgentFault(r)
  <2>1. run[r].pc \in Active /\ \E result : NextIteration(r, result)
    BY <1>3 DEF AgentFault, Active, Working, Reviewing
  <2> QED BY <2>1, WentBack, SoleActive, SoleMover, FreeHolds
<1> QED BY <1>1, <1>2, <1>3, SerialAgent DEF FaultStep

LEMMA SerialNext == ~Concurrent /\ KernelInv /\ SerialInv /\ [Next]_vars => SerialInv'
<1> SUFFICES ASSUME ~Concurrent, KernelInv, SerialInv, [Next]_vars PROVE SerialInv'
  OBVIOUS
<1>1. CASE Crash
  <2>1. \A q \in Runs : run'[q].pc \notin Active
    BY <1>1 DEF Crash, KernelInv, TypeOK, RunState, Active, Planning, Working, Reviewing
  <2> QED BY <2>1 DEF SerialInv, OneActive, HoldsStage, Active, Planning, Working, Reviewing
<1>2. CASE NodeStep \/ UNCHANGED vars
  <2>1. UNCHANGED <<task, run>>
    BY <1>2 DEF NodeStep, Heartbeat, GoSilent, MarkOffline, SetNode, vars
  <2> QED BY <2>1 DEF SerialInv, OneActive, HoldsStage
<1>3. ASSUME NEW r \in Runs, Start(r) PROVE SerialInv'
  <2>1. \A q \in Runs : run[q].pc \notin Active
    BY <1>3 DEF Start, CallRunTask, CallRunAll, MayStart
  <2> QED BY <1>3, <2>1, SerialStart
<1> QED BY <1>1, <1>2, <1>3, SerialPlan, SerialAgent, SerialFault DEF Next, Step

\* Calls that do not overlap take every task through the lifecycle that coordinator.py
\* states: created, planned, worked on, and judged once.
THEOREM SerialRunsFollowLifecycle == ~Concurrent => (Spec => ApprovedLifecycle)
<1> SUFFICES ASSUME ~Concurrent PROVE Spec => ApprovedLifecycle
  OBVIOUS
<1>1. Init => SerialInv
  BY DEF Init, SerialInv, OneActive, HoldsStage, Active, Planning, Working, Reviewing
<1>2. KernelInv /\ SerialInv /\ [Next]_vars => SerialInv'
  BY SerialNext
<1>3. Init => Lifecycle!Init
  BY DEF Init, Lifecycle!Init
<1>4. KernelInv /\ SerialInv /\ [Next]_vars => [Lifecycle!Next]_([t \in Task |-> task[t].status])
  BY StepRefines DEF stage
<1> QED BY <1>1, <1>2, <1>3, <1>4, KernelInvariant, PTL
        DEF Spec, ApprovedLifecycle, Lifecycle!Spec

--------------------------------------------------------------------------------
\* What run_all() reports to a caller that had the project for itself: the executions
\* and reviews it counts, one task at a time, against the rows of the table.

\* No other call has begun.
Alone(r) == \A s \in Runs \ {r} : run[s].pc = "idle"

\* A call that has the project for itself is one of calls that do not overlap.
AloneIsSerial == \A r \in Runs : Alone(r) => SerialInv

\* What it has counted is what the table says, but for the task just completed.
Counts(r) ==
  /\ Cardinality(TasksIn("completed")) = run[r].completed + (IF At(r, "extract") THEN 1 ELSE 0)
  /\ Cardinality(TasksIn("rejected")) = run[r].rejected

CountsExact == \A r \in Runs : Alone(r) /\ faults = 0 /\ run[r].pc # "crashed" => Counts(r)

ReportInv == PlanIsPrivate /\ AloneIsSerial /\ CountsExact

LEMMA Mover ==
  ASSUME KernelInv, NEW r \in Runs, Start(r) \/ Step(r) \/ FaultStep(r)
  PROVE  run'[r].pc # "idle" /\ \A q \in Runs \ {r} : run'[q] = run[q]
<1>0. run \in [Runs -> RunState] BY DEF KernelInv, TypeOK
<1>1. CASE \E l \in {"select", "activate", "list", "error"} : GoTo(r, l)
  BY <1>1, WentTo
<1>2. CASE CallRunTask(r) \/ ListSubtask(r) \/ SubtaskFault(r)
  BY <1>0, <1>2 DEF CallRunTask, ListSubtask, SubtaskFault, RunState
<1>3. CASE SelectTask(r)
  BY <1>0, <1>3 DEF SelectTask, RunState
<1>4. CASE AgentMove(r)
  BY <1>3, <1>4, AgentSteps DEF Ended, Working, Reviewing
<1>5. CASE Start(r) \/ PlanStep(r) \/ RunFault(r)
  BY <1>1, <1>2, <1>5
     DEF Start, CallRunAll, PlanStep, CreateSubtask, ActivateSubtask, FinishPlan, RunFault
<1>6. QED BY <1>2, <1>4, <1>5 DEF Step, FaultStep, AgentMove

LEMMA SoleKnower ==
  ASSUME KernelInv, AloneIsSerial, NEW r \in Runs, Start(r) \/ Step(r) \/ FaultStep(r),
         NEW x \in Runs, Alone(x)'
  PROVE  x = r /\ Alone(r) /\ SerialInv
<1>1. run'[r].pc # "idle" /\ \A q \in Runs \ {r} : run'[q] = run[q] BY Mover
<1>2. x = r BY <1>1 DEF Alone
<1>3. Alone(r) BY <1>1, <1>2 DEF Alone
<1>4. QED BY <1>2, <1>3 DEF AloneIsSerial

LEMMA TasksFinite ==
  ASSUME NEW s
  PROVE  IsFiniteSet(TasksIn(s)) /\ Cardinality(TasksIn(s)) \in Nat
<1>1. IsFiniteSet(0..MaxSubtasks) BY KernelAssumption, FS_Interval
<1>2. IsFiniteSet(Task) BY <1>1, KernelAssumption, FS_Product DEF Task
<1>3. TasksIn(s) \subseteq Task BY DEF TasksIn
<1>4. QED BY <1>2, <1>3, FS_Subset, FS_CardinalityType

\* A step that neither gives nor takes a verdict, and counts none.
LEMMA NoVerdict ==
  ASSUME NEW r \in Runs, Counts(r), run[r].pc # "extract", run'[r].pc # "extract",
         \A t \in Task, s \in {"completed", "rejected"} :
           task'[t].status = s <=> task[t].status = s,
         run'[r].completed = run[r].completed, run'[r].rejected = run[r].rejected
  PROVE  Counts(r)'
<1>1. TasksIn("completed")' = TasksIn("completed") /\ TasksIn("rejected")' = TasksIn("rejected")
  BY DEF TasksIn
<1>2. QED BY <1>1 DEF Counts, At

LEMMA WentOn ==
  ASSUME KernelInv, NEW r \in Runs, NEW l, GoTo(r, l)
  PROVE  /\ run'[r].pc = l
         /\ run'[r].completed = run[r].completed /\ run'[r].rejected = run[r].rejected
BY DEF KernelInv, TypeOK, GoTo, RunState

LEMMA Reported ==
  ASSUME KernelInv, NEW r \in Runs, NEW result, NextIteration(r, result)
  PROVE  /\ run'[r].pc = "select"
         /\ run'[r].completed = run[r].completed + (IF result = "completed" THEN 1 ELSE 0)
         /\ run'[r].rejected = run[r].rejected + (IF result = "rejected" THEN 1 ELSE 0)
         /\ run[r].completed \in Nat /\ run[r].rejected \in Nat
<1>1. run \in [Runs -> RunState] /\ run' = [run EXCEPT ![r] = Returned(r, result)]
  BY DEF KernelInv, TypeOK, NextIteration, Returned
<1>2. /\ Returned(r, result).pc = "select"
      /\ Returned(r, result).completed = run[r].completed + (IF result = "completed" THEN 1 ELSE 0)
      /\ Returned(r, result).rejected = run[r].rejected + (IF result = "rejected" THEN 1 ELSE 0)
  BY <1>1 DEF Returned, RunState
<1>3. QED BY <1>1, <1>2 DEF RunState

LEMMA PlanReports ==
  ASSUME KernelInv, PlanIsPrivate, NEW r \in Runs, Start(r) \/ PlanStep(r), Counts(r)
  PROVE  Counts(r)'
<1>0. run \in [Runs -> RunState] BY DEF KernelInv, TypeOK
<1>1. run[r].pc \in {"idle"} \cup Planning
  BY DEF Start, CallRunTask, CallRunAll, MayStart, PlanStep, CreateSubtask, ActivateSubtask,
         ListSubtask, FinishPlan, At, Planning
<1>2. /\ run'[r].pc # "extract"
      /\ run'[r].completed = run[r].completed /\ run'[r].rejected = run[r].rejected
  <2>1. CASE \E l \in {"select", "activate", "list"} : GoTo(r, l) BY <2>1, WentOn
  <2>2. CASE CallRunTask(r) \/ ListSubtask(r)
    BY <1>0, <2>2 DEF CallRunTask, ListSubtask, RunState
  <2>3. QED BY <2>1, <2>2
          DEF Start, CallRunAll, PlanStep, CreateSubtask, ActivateSubtask, FinishPlan
<1>3. \A t \in Task : \/ task'[t].status = task[t].status
                      \/ task[t].status = "absent" /\ task'[t].status = "pending"
                      \/ task[t].status = "pending" /\ task'[t].status = "planned"
  BY PlanWrites
<1>4. QED BY <1>1, <1>2, <1>3, NoVerdict DEF Planning

LEMMA AgentReports ==
  ASSUME KernelInv, SerialInv, NEW r \in Runs, Counts(r),
         CoordinatorStep(r) \/ WorkerStep(r) \/ ReviewerStep(r)
  PROVE  Counts(r)'
<1>0. /\ run \in [Runs -> RunState] /\ task \in [Task -> TaskRow]
      /\ HoldsStage(r, run[r], task)
  BY DEF KernelInv, TypeOK, SerialInv
<1>1. CASE CoordinatorStep(r)
  <2>1. UNCHANGED task /\ run[r].pc \in {"select", "node"}
    BY <1>1 DEF CoordinatorStep, SelectTask, Finish, PickNode, NoAvailableNode, tables, At
  <2>2. /\ run'[r].pc # "extract"
        /\ run'[r].completed = run[r].completed /\ run'[r].rejected = run[r].rejected
    <3>1. CASE SelectTask(r) BY <1>0, <3>1 DEF SelectTask, RunState
    <3>2. CASE PickNode(r) BY <1>0, <3>2 DEF PickNode, RunState
    <3>3. CASE GoTo(r, "done") \/ GoTo(r, "no_node") BY <3>3, WentOn
    <3>4. QED BY <1>1, <3>1, <3>2, <3>3 DEF CoordinatorStep, Finish, NoAvailableNode
  <2>3. QED BY <2>1, <2>2, NoVerdict
<1>2. CASE WorkerRefuses(r) \/ WorkerExecutes(r) \/ RememberResult(r) \/ CountFailures(r)
           \/ NoteFailure(r)
  <2>1. UNCHANGED task /\ run[r].pc \in Working
    BY <1>2 DEF WorkerRefuses, WorkerExecutes, RememberResult, CountFailures, NoteFailure,
                tables, At, Working
  <2>2. /\ run'[r].pc # "extract"
        /\ run'[r].completed = run[r].completed /\ run'[r].rejected = run[r].rejected
    <3>1. CASE \E l \in Working : GoTo(r, l) BY <3>1, WentOn DEF Working
    <3>2. CASE \E result \in {"error", "review_pending", "failed", "abandoned"} :
                 NextIteration(r, result)
      BY <3>2, Reported
    <3>3. CASE CountFailures(r) BY <1>0, <3>3 DEF CountFailures, RunState
    <3>4. QED BY <1>2, <3>1, <3>2, <3>3
            DEF WorkerRefuses, WorkerExecutes, RememberResult, NoteFailure, FinalStatus, Working
  <2>3. QED BY <2>1, <2>2, NoVerdict DEF Working
<1>3. CASE StoreResult(r) \/ FailTask(r)
  <2>1. PICK st \in {"review_pending", "failed", "abandoned"} :
          \E o : UpdateStatus(Cur(r), st, o)
    BY <1>3 DEF StoreResult, FailTask, FinalStatus
  <2>2. run[r].pc \in {"store", "fail"} BY <1>3 DEF StoreResult, FailTask, At
  <2>3. Cur(r) \in Task /\ task[Cur(r)].status = "planned"
    BY <1>0, <2>2, AgentFacts DEF HoldsStage, Cur, Working
  <2>4. task'[Cur(r)].status = st /\ \A t \in Task \ {Cur(r)} : task'[t] = task[t]
    BY <1>0, <2>1, <2>3 DEF UpdateStatus, TaskRow
  <2>5. /\ run'[r].pc # "extract"
        /\ run'[r].completed = run[r].completed /\ run'[r].rejected = run[r].rejected
    BY <1>3, WentOn DEF StoreResult, FailTask
  <2>6. QED BY <2>2, <2>3, <2>4, <2>5, NoVerdict
<1>4. CASE ReviewerRefuses(r) \/ ReviewerEvaluates(r) \/ RememberLesson(r) \/ RememberFailure(r)
  <2>1. /\ UNCHANGED task
        /\ run[r].pc \in {"review", "remember_lesson", "remember_failure"}
    BY <1>4 DEF ReviewerRefuses, ReviewerEvaluates, RememberLesson, RememberFailure, tables, At
  <2>2. /\ run'[r].pc # "extract"
        /\ run'[r].completed = run[r].completed /\ run'[r].rejected = run[r].rejected
    <3>1. CASE GoTo(r, "complete") \/ GoTo(r, "reject") BY <3>1, WentOn
    <3>2. CASE NextIteration(r, "error") BY <3>2, Reported
    <3>3. CASE ReviewerEvaluates(r) BY <1>0, <3>3 DEF ReviewerEvaluates, RunState
    <3>4. QED BY <1>4, <3>1, <3>2, <3>3 DEF ReviewerRefuses, RememberLesson, RememberFailure
  <2>3. QED BY <2>1, <2>2, NoVerdict
<1>5. ASSUME NEW t \in Task, NEW s \in {"completed", "rejected"}, NEW z, z # s,
             \E o : UpdateStatus(t, s, o), task[t].status = "review_pending",
             z \in {"completed", "rejected"}
      PROVE  /\ Cardinality(TasksIn(s)') = Cardinality(TasksIn(s)) + 1
             /\ TasksIn(z)' = TasksIn(z)
  <2>1. task'[t].status = s /\ \A u \in Task \ {t} : task'[u] = task[u]
    BY <1>0, <1>5 DEF UpdateStatus, TaskRow
  <2>2. TasksIn(s)' = TasksIn(s) \cup {t} /\ t \notin TasksIn(s)
    BY <1>5, <2>1 DEF TasksIn
  <2>3. TasksIn(z)' = TasksIn(z) BY <1>5, <2>1 DEF TasksIn
  <2>4. Cardinality(TasksIn(s) \cup {t}) = Cardinality(TasksIn(s)) + 1
    BY <2>2, TasksFinite, FS_AddElement
  <2>5. QED BY <2>2, <2>3, <2>4
<1>6. CASE CompleteTask(r)
  <2>1. Cur(r) \in Task /\ task[Cur(r)].status = "review_pending" /\ run[r].pc = "complete"
    BY <1>0, <1>6, AgentFacts DEF CompleteTask, At, HoldsStage, Cur, Reviewing
  <2>2. /\ Cardinality(TasksIn("completed")') = Cardinality(TasksIn("completed")) + 1
        /\ TasksIn("rejected")' = TasksIn("rejected")
    BY <1>5, <1>6, <2>1 DEF CompleteTask
  <2>3. /\ run'[r].pc = "extract"
        /\ run'[r].completed = run[r].completed /\ run'[r].rejected = run[r].rejected
    BY <1>6, WentOn DEF CompleteTask
  <2>4. Cardinality(TasksIn("completed")) = run[r].completed /\ run[r].completed \in Nat
    BY <1>0, <2>1 DEF Counts, At, RunState
  <2>5. QED BY <2>2, <2>3, <2>4 DEF Counts, At
<1>7. CASE ExtractLesson(r)
  <2>1. UNCHANGED task /\ run[r].pc = "extract" /\ NextIteration(r, "completed")
    BY <1>7 DEF ExtractLesson, At
  <2>2. /\ run'[r].pc = "select" /\ run'[r].completed = run[r].completed + 1
        /\ run'[r].rejected = run[r].rejected /\ run[r].completed \in Nat
    BY <2>1, Reported
  <2>3. TasksIn("completed")' = TasksIn("completed") /\ TasksIn("rejected")' = TasksIn("rejected")
    BY <2>1 DEF TasksIn
  <2>4. QED BY <2>1, <2>2, <2>3 DEF Counts, At
<1>8. CASE RejectTask(r)
  <2>1. Cur(r) \in Task /\ task[Cur(r)].status = "review_pending" /\ run[r].pc = "reject"
    BY <1>0, <1>8, AgentFacts DEF RejectTask, At, HoldsStage, Cur, Reviewing
  <2>2. /\ Cardinality(TasksIn("rejected")') = Cardinality(TasksIn("rejected")) + 1
        /\ TasksIn("completed")' = TasksIn("completed")
    BY <1>5, <1>8, <2>1 DEF RejectTask
  <2>3. /\ run'[r].pc = "select" /\ run'[r].rejected = run[r].rejected + 1
        /\ run'[r].completed = run[r].completed
    BY <1>8, Reported DEF RejectTask
  <2>4. QED BY <2>1, <2>2, <2>3 DEF Counts, At
<1>9. QED BY <1>1, <1>2, <1>3, <1>4, <1>6, <1>7, <1>8 DEF WorkerStep, ReviewerStep

LEMMA ReportNext == KernelInv /\ ReportInv /\ [Next]_vars => ReportInv'
<1> SUFFICES ASSUME KernelInv, PlanIsPrivate, AloneIsSerial, CountsExact, [Next]_vars
             PROVE  AloneIsSerial' /\ CountsExact'
  BY PrivateNext DEF ReportInv
<1>0. run \in [Runs -> RunState] /\ faults \in Nat BY DEF KernelInv, TypeOK
<1>1. ASSUME NEW r \in Runs, Start(r) \/ Step(r) \/ FaultStep(r)
      PROVE  AloneIsSerial' /\ CountsExact'
  <2>1. ASSUME NEW x \in Runs, Alone(x)' PROVE SerialInv'
    <3>1. Alone(r) /\ SerialInv BY <1>1, <2>1, SoleKnower
    <3>2. CASE Start(r)
      <4>1. run[r].pc = "idle" BY <3>2 DEF Start, CallRunTask, CallRunAll, MayStart, At
      <4>2. \A q \in Runs : run[q].pc \notin Active
        BY <3>1, <4>1 DEF Alone, Active, Planning, Working, Reviewing
      <4>3. QED BY <3>1, <3>2, <4>2, SerialStart
    <3>3. QED BY <1>1, <3>1, <3>2, SerialPlan, SerialAgent, SerialFault DEF Step
  <2>2. ASSUME NEW x \in Runs, Alone(x)', faults' = 0 PROVE Counts(x)'
    <3>1. x = r /\ Alone(r) /\ SerialInv BY <1>1, <2>2, SoleKnower
    <3>2. ~FaultStep(r)
      BY <1>0, <2>2 DEF FaultStep, SubtaskFault, RunFault, AgentFault, MemoryFault, Fault
    <3>3. UNCHANGED faults
      BY <1>1, <3>2 DEF Start, CallRunTask, CallRunAll, Step, PlanStep, CreateSubtask,
         ActivateSubtask, ListSubtask, FinishPlan, CoordinatorStep, SelectTask, Finish, PickNode,
         NoAvailableNode, WorkerStep, WorkerRefuses, WorkerExecutes, StoreResult,
         RememberResult, CountFailures, FailTask, NoteFailure, ReviewerStep, ReviewerRefuses,
         ReviewerEvaluates, RememberLesson, CompleteTask, ExtractLesson, RememberFailure,
         RejectTask, Fine
    <3>4. run[r].pc # "crashed"
      BY <1>1, <3>2 DEF Start, CallRunTask, CallRunAll, MayStart, Step, PlanStep, CreateSubtask,
         ActivateSubtask, ListSubtask, FinishPlan, CoordinatorStep, SelectTask, Finish, PickNode,
         NoAvailableNode, WorkerStep, WorkerRefuses, WorkerExecutes, StoreResult,
         RememberResult, CountFailures, FailTask, NoteFailure, ReviewerStep, ReviewerRefuses,
         ReviewerEvaluates, RememberLesson, CompleteTask, ExtractLesson, RememberFailure,
         RejectTask, At
    <3>5. Counts(r) BY <2>2, <3>1, <3>3, <3>4 DEF CountsExact
    <3>6. Counts(r)' BY <1>1, <3>1, <3>2, <3>5, PlanReports, AgentReports DEF Step
    <3>7. QED BY <3>1, <3>6
  <2>3. QED BY <2>1, <2>2 DEF AloneIsSerial, CountsExact
<1>2. CASE Crash
  <2>1. \A q \in Runs : \/ run'[q].pc = "crashed"
                        \/ run'[q] = run[q] /\ run[q].pc \notin Active
    BY <1>0, <1>2 DEF Crash, RunState
  <2>2. UNCHANGED <<task, faults>> BY <1>2 DEF Crash, tables
  <2>3. SerialInv'
    BY <2>1 DEF SerialInv, OneActive, HoldsStage, Active, Planning, Working, Reviewing
  <2>4. ASSUME NEW x \in Runs, Alone(x)', faults' = 0, run'[x].pc # "crashed" PROVE Counts(x)'
    <3>1. run'[x] = run[x] BY <2>1, <2>4
    <3>2. Alone(x) BY <2>1, <2>4 DEF Alone
    <3>3. Counts(x) BY <2>2, <2>4, <3>1, <3>2 DEF CountsExact
    <3>4. \A s : TasksIn(s)' = TasksIn(s) BY <2>2 DEF TasksIn
    <3>5. QED BY <3>1, <3>3, <3>4 DEF Counts, At
  <2>5. QED BY <2>3, <2>4 DEF AloneIsSerial, CountsExact
<1>3. CASE NodeStep \/ UNCHANGED vars
  <2>1. UNCHANGED <<task, faults, run>>
    BY <1>3 DEF NodeStep, Heartbeat, GoSilent, MarkOffline, SetNode, Fine, vars
  <2>2. \A s : TasksIn(s)' = TasksIn(s) BY <2>1 DEF TasksIn
  <2>3. AloneIsSerial' BY <2>1 DEF AloneIsSerial, Alone, SerialInv, OneActive, HoldsStage
  <2>4. CountsExact' BY <2>1, <2>2 DEF CountsExact, Alone, Counts, At
  <2>5. QED BY <2>3, <2>4
<1>4. QED BY <1>1, <1>2, <1>3 DEF Next

\* What a call reports that had the project for itself is what the table says, whatever the
\* plan, the work, the order of the tasks and the nodes are.
THEOREM ReportExact == Spec => []ReportIsExact
<1>1. Init => ReportInv
  <2> SUFFICES ASSUME Init PROVE ReportInv
    OBVIOUS
  <2>1. PlanIsPrivate /\ AloneIsSerial
    BY DEF Init, PlanIsPrivate, HoldsPending, AloneIsSerial, SerialInv, OneActive, HoldsStage,
           Active, Planning, Working, Reviewing
  <2>2. TasksIn("completed") = {} /\ TasksIn("rejected") = {} BY DEF Init, TasksIn
  <2>3. \A r \in Runs : run[r].completed = 0 /\ run[r].rejected = 0 /\ run[r].pc = "idle"
    BY DEF Init
  <2>4. QED BY <2>1, <2>2, <2>3, FS_EmptySet DEF ReportInv, CountsExact, Counts, At
<1>2. KernelInv /\ ReportInv => ReportIsExact
  <2> SUFFICES ASSUME KernelInv, ReportInv, NEW r \in Runs, faults = 0,
                      run[r].pc \in {"done", "no_node"},
                      \A s \in Runs \ {r} : run[s].pc = "idle"
               PROVE  /\ run[r].completed = Cardinality(TasksIn("completed"))
                      /\ run[r].rejected = Cardinality(TasksIn("rejected"))
    BY DEF ReportIsExact
  <2>1. Counts(r) BY DEF ReportInv, CountsExact, Alone
  <2>2. run[r].completed \in Nat BY DEF KernelInv, TypeOK, RunState
  <2>3. QED BY <2>1, <2>2 DEF Counts, At
<1>3. QED BY <1>1, <1>2, ReportNext, KernelInvariant, PTL DEF Spec

--------------------------------------------------------------------------------
\* The order of dispatch: select_task() reads the table, and the worker starts later; between
\* them nothing may come up that should have been taken first.

\* A task that waits for its node or its worker precedes everything that may be dispatched.
InTurn ==
  \A r \in Runs : run[r].pc \in {"node", "execute"} =>
    \A u \in Dispatchable \ {Cur(r)} : Precedes(Cur(r), u)

\* The only run that is active, or one that starts when none is, goes where nothing is chosen.
LEMMA TurnOver ==
  ASSUME NEW r \in Runs, \A q \in Runs \ {r} : run[q].pc \notin Active,
         \A q \in Runs \ {r} : run'[q] = run[q], run'[r].pc \notin {"node", "execute"}
  PROVE  InTurn'
<1>1. ASSUME NEW q \in Runs PROVE run'[q].pc \notin {"node", "execute"}
  BY DEF Active, Working
<1>2. QED BY <1>1 DEF InTurn

\* Whoever takes a step that is not a start is active.
LEMMA MoverActive ==
  ASSUME NEW r \in Runs, Step(r) \/ FaultStep(r)
  PROVE  run[r].pc \in Active
BY DEF Step, PlanStep, CreateSubtask, ActivateSubtask, ListSubtask, FinishPlan, CoordinatorStep,
       SelectTask, Finish, PickNode, NoAvailableNode, WorkerStep, WorkerRefuses, WorkerExecutes,
       StoreResult, RememberResult, CountFailures, FailTask, NoteFailure, ReviewerStep,
       ReviewerRefuses, ReviewerEvaluates, RememberLesson, CompleteTask, ExtractLesson,
       RememberFailure, RejectTask, FaultStep, SubtaskFault, RunFault, AgentFault, MemoryFault,
       At, Active, Planning, Working, Reviewing

\* Only the steps of the coordinator lead to the choice of a node and to the worker.
LEMMA WhereTurnsBegin ==
  ASSUME KernelInv, NEW r \in Runs, Start(r) \/ Step(r) \/ FaultStep(r),
         run'[r].pc \in {"node", "execute"}
  PROVE  SelectTask(r) \/ PickNode(r)
<1>0. run \in [Runs -> RunState] BY DEF KernelInv, TypeOK
<1>1. ~\E l : l \notin {"node", "execute"} /\ GoTo(r, l) BY WentTo
<1>2. ~\E result : NextIteration(r, result) BY WentBack
<1>3. ~(CallRunTask(r) \/ ListSubtask(r) \/ SubtaskFault(r))
  <2>1. CallRunTask(r) => run'[r].pc = "create" BY <1>0 DEF CallRunTask, RunState
  <2>2. ListSubtask(r) => run'[r].pc = "create" BY <1>0 DEF ListSubtask, RunState
  <2>3. SubtaskFault(r) => run'[r].pc = "create" BY <1>0 DEF SubtaskFault, RunState
  <2>4. QED BY <2>1, <2>2, <2>3
<1>4. ~CountFailures(r) BY <1>0 DEF CountFailures, RunState
<1>5. ~ReviewerEvaluates(r) BY <1>0 DEF ReviewerEvaluates, RunState
<1>6. ~Start(r) BY <1>1, <1>3 DEF Start, CallRunAll
<1>7. ~PlanStep(r)
  BY <1>1, <1>3 DEF PlanStep, CreateSubtask, ActivateSubtask, FinishPlan
<1>8. ~Finish(r) /\ ~NoAvailableNode(r) BY <1>1 DEF Finish, NoAvailableNode
<1>9. ~WorkerStep(r)
  BY <1>1, <1>2, <1>4
     DEF WorkerStep, WorkerRefuses, WorkerExecutes, StoreResult, RememberResult, FailTask,
         NoteFailure
<1>10. ~ReviewerStep(r)
  BY <1>1, <1>2, <1>5
     DEF ReviewerStep, ReviewerRefuses, RememberLesson, CompleteTask, ExtractLesson,
         RememberFailure, RejectTask
<1>11. ~FaultStep(r)
  BY <1>1, <1>2, <1>3 DEF FaultStep, RunFault, AgentFault, MemoryFault
<1>12. QED BY <1>6, <1>7, <1>8, <1>9, <1>10, <1>11 DEF Step, CoordinatorStep

LEMMA TurnNext == ~Concurrent /\ KernelInv /\ SerialInv /\ InTurn /\ [Next]_vars => InTurn'
<1> SUFFICES ASSUME ~Concurrent, KernelInv, SerialInv, InTurn, [Next]_vars PROVE InTurn'
  OBVIOUS
<1>0. run \in [Runs -> RunState] BY DEF KernelInv, TypeOK
<1>1. ASSUME NEW r \in Runs, Start(r) \/ Step(r) \/ FaultStep(r) PROVE InTurn'
  <2>1. \A q \in Runs \ {r} : run'[q] = run[q] BY <1>1, Mover
  <2>2. \A q \in Runs \ {r} : run[q].pc \notin Active
    <3>1. CASE Start(r) BY <3>1 DEF Start, CallRunTask, CallRunAll, MayStart
    <3>2. CASE run[r].pc \in Active BY <3>2, SoleActive
    <3>3. QED BY <1>1, <3>1, <3>2, MoverActive
  <2>3. CASE SelectTask(r)
    <3>1. PICK t \in Dispatchable : /\ \A u \in Dispatchable \ {t} : Precedes(t, u)
                                    /\ run'[r].task = t
      BY <1>0, <2>3 DEF SelectTask, RunState
    <3>2. UNCHANGED task BY <2>3 DEF SelectTask, tables
    <3>3. QED BY <2>1, <2>2, <3>1, <3>2 DEF InTurn, Cur, Dispatchable, Precedes, Active
  <2>4. CASE PickNode(r)
    <3>1. run'[r].task = run[r].task /\ run[r].pc = "node" /\ UNCHANGED task
      BY <1>0, <2>4 DEF PickNode, At, RunState, tables
    <3>2. QED BY <2>1, <2>2, <3>1 DEF InTurn, Cur, Dispatchable, Precedes, Active
  <2>5. QED BY <1>1, <2>1, <2>2, <2>3, <2>4, WhereTurnsBegin, TurnOver
<1>2. CASE Crash
  <2>1. ASSUME NEW q \in Runs PROVE run'[q].pc \notin {"node", "execute"}
    BY <1>0, <1>2 DEF Crash, RunState, Active, Working
  <2>2. QED BY <2>1 DEF InTurn
<1>3. CASE NodeStep \/ UNCHANGED vars
  <2>1. UNCHANGED <<task, run>>
    BY <1>3 DEF NodeStep, Heartbeat, GoSilent, MarkOffline, SetNode, vars
  <2>2. QED BY <2>1 DEF InTurn, Cur, Dispatchable, Precedes
<1>4. QED BY <1>1, <1>2, <1>3 DEF Next

\* Only a worker that begins adds to the executions of a task, and of its own only.
LEMMA WhoExecutes ==
  ASSUME KernelInv, [Next]_vars, NEW t \in Task, notes'[t].executed > notes[t].executed
  PROVE  \E r \in Runs : WorkerExecutes(r) /\ Cur(r) = t
<1>0. /\ notes \in [Task -> [executed : Nat, failed : Nat]] BY DEF KernelInv, TypeOK
<1>1. ~UNCHANGED notes BY <1>0
<1>2. PICK r \in Runs : WorkerExecutes(r) \/ NoteFailure(r)
  BY <1>1 DEF Next, Start, CallRunTask, CallRunAll, Step, PlanStep, CreateSubtask,
     ActivateSubtask, ListSubtask, FinishPlan, CoordinatorStep, SelectTask, Finish, PickNode,
     NoAvailableNode, WorkerStep, WorkerRefuses, StoreResult, RememberResult, CountFailures,
     FailTask, ReviewerStep, ReviewerRefuses, ReviewerEvaluates, RememberLesson, CompleteTask,
     ExtractLesson, RememberFailure, RejectTask, FaultStep, SubtaskFault, RunFault, AgentFault,
     MemoryFault, Crash, NodeStep, Heartbeat, GoSilent, MarkOffline, SetNode, tables, vars
<1>3. ~NoteFailure(r)
  <2>1. NoteFailure(r) => notes'[t].executed = notes[t].executed BY <1>0 DEF NoteFailure
  <2>2. QED BY <1>0, <2>1
<1>4. t = Cur(r)
  <2>1. t # Cur(r) => notes'[t] = notes[t] BY <1>0, <1>2, <1>3 DEF WorkerExecutes
  <2>2. QED BY <1>0, <2>1
<1>5. QED BY <1>2, <1>3, <1>4

\* When calls do not overlap, a worker starts on nothing that should wait for another task,
\* however long its node was awaited.
THEOREM PriorityKept == ~Concurrent => (Spec => PriorityRespected)
<1> SUFFICES ASSUME ~Concurrent PROVE Spec => PriorityRespected
  OBVIOUS
<1> DEFINE Ordered ==
      \A t \in Task : notes'[t].executed > notes[t].executed =>
        \A u \in Dispatchable \ {t} :
          \/ task[u].priority < task[t].priority
          \/ task[u].priority = task[t].priority /\ task[u].created > task[t].created
<1>1. Init => SerialInv /\ InTurn
  BY DEF Init, SerialInv, InTurn, OneActive, HoldsStage, Active, Planning, Working, Reviewing
<1>2. KernelInv /\ SerialInv /\ InTurn /\ [Next]_vars => SerialInv' /\ InTurn'
  BY SerialNext, TurnNext
<1>3. KernelInv /\ InTurn /\ [Next]_vars => Ordered
  <2> SUFFICES ASSUME KernelInv, InTurn, [Next]_vars, NEW t \in Task,
                      notes'[t].executed > notes[t].executed, NEW u \in Dispatchable \ {t}
               PROVE  \/ task[u].priority < task[t].priority
                      \/ /\ task[u].priority = task[t].priority
                         /\ task[u].created > task[t].created
    OBVIOUS
  <2>1. PICK r \in Runs : WorkerExecutes(r) /\ Cur(r) = t BY WhoExecutes
  <2>2. Precedes(t, u) BY <2>1 DEF InTurn, WorkerExecutes, At
  <2>3. task[t] \in TaskRow /\ task[u] \in TaskRow BY DEF KernelInv, TypeOK, Dispatchable
  <2>4. QED BY <2>2, <2>3 DEF Precedes, TaskRow
<1>4. KernelInv /\ InTurn /\ [Next]_vars => [Ordered]_vars BY <1>3
<1>5. QED BY <1>1, <1>2, <1>4, KernelInvariant, PTL DEF Spec, PriorityRespected

--------------------------------------------------------------------------------
\* What is left of the lifecycle when calls overlap: SharedLifecycle.

desert == [t \in Task |-> IF task[t].status = "absent" THEN "none" ELSE Deserves(task[t].work)]

\* The reviewer read review_pending, and what other runs have written since is a result or a
\* verdict: no run sends a task back to the worker.
JudgedStaysWorked ==
  \A r \in Runs : run[r].pc \in {"remember_lesson", "complete", "remember_failure", "reject"}
                    => task[Cur(r)].status # "planned"

SharedInv == PlanIsPrivate /\ JudgedStaysWorked

\* Whoever stands between the reviewer's read and its verdict has read, or stood there already.
LEMMA WhoJudges ==
  ASSUME KernelInv, NEW r \in Runs, Start(r) \/ Step(r) \/ FaultStep(r),
         run'[r].pc \in {"remember_lesson", "complete", "remember_failure", "reject"}
  PROVE  /\ UNCHANGED task /\ run'[r].task = Cur(r)
         /\ \/ task[Cur(r)].status = "review_pending"
            \/ run[r].pc \in {"remember_lesson", "remember_failure"}
<1> DEFINE judging == {"remember_lesson", "complete", "remember_failure", "reject"}
<1>0. run \in [Runs -> RunState] BY DEF KernelInv, TypeOK
<1>1. ~\E l : l \notin judging /\ GoTo(r, l) BY WentTo
<1>2. ~\E result : NextIteration(r, result) BY WentBack
<1>3. ~(CallRunTask(r) \/ ListSubtask(r) \/ SubtaskFault(r))
  <2>1. CallRunTask(r) => run'[r].pc = "create" BY <1>0 DEF CallRunTask, RunState
  <2>2. ListSubtask(r) => run'[r].pc = "create" BY <1>0 DEF ListSubtask, RunState
  <2>3. SubtaskFault(r) => run'[r].pc = "create" BY <1>0 DEF SubtaskFault, RunState
  <2>4. QED BY <2>1, <2>2, <2>3
<1>4. ~(CountFailures(r) \/ SelectTask(r) \/ PickNode(r))
  <2>1. CountFailures(r) => run'[r].pc = "fail" BY <1>0 DEF CountFailures, RunState
  <2>2. SelectTask(r) => run'[r].pc \in {"node", "review"} BY <1>0 DEF SelectTask, RunState
  <2>3. PickNode(r) => run'[r].pc = "execute" BY <1>0 DEF PickNode, RunState
  <2>4. QED BY <2>1, <2>2, <2>3
<1>5. ~(Start(r) \/ PlanStep(r) \/ CoordinatorStep(r) \/ RunFault(r) \/ AgentFault(r))
  BY <1>1, <1>2, <1>3, <1>4
     DEF Start, CallRunAll, PlanStep, CreateSubtask, ActivateSubtask, FinishPlan,
         CoordinatorStep, Finish, NoAvailableNode, RunFault, AgentFault
<1>6. ~WorkerStep(r)
  BY <1>1, <1>2, <1>4
     DEF WorkerStep, WorkerRefuses, WorkerExecutes, StoreResult, RememberResult, FailTask,
         NoteFailure
<1>7. CASE ReviewerEvaluates(r)
  BY <1>0, <1>7 DEF ReviewerEvaluates, RunState, Cur, tables
<1>8. CASE RememberLesson(r) \/ RememberFailure(r)
  BY <1>8, WentTo DEF RememberLesson, RememberFailure, At
<1>9. CASE MemoryFault(r)
  BY <1>1, <1>2, <1>9, WentTo DEF MemoryFault, At, tables
<1>10. CASE ReviewerStep(r)
  BY <1>1, <1>2, <1>7, <1>8, <1>10
     DEF ReviewerStep, ReviewerRefuses, CompleteTask, ExtractLesson, RejectTask
<1>11. QED BY <1>3, <1>5, <1>6, <1>9, <1>10 DEF Step, FaultStep

\* What one run's step makes of any status, as far as the others are concerned.
LEMMA NoneReplanned ==
  ASSUME KernelInv, PlanIsPrivate, NEW r \in Runs, Start(r) \/ Step(r) \/ FaultStep(r),
         NEW t \in Task, task[t].status # "pending", task'[t].status = "planned"
  PROVE  task[t].status = "planned"
<1>1. CASE AgentMove(r)
  <2>1. UNCHANGED task \/ AgentWrites(r) BY <1>1, AgentSteps
  <2>2. QED BY <2>1, WrittenStatus
<1>2. CASE PlanStep(r) \/ Start(r) \/ SubtaskFault(r) \/ RunFault(r)
  BY <1>2, PlanWrites
<1>3. QED BY <1>1, <1>2 DEF Step, FaultStep, AgentMove

LEMMA SharedInvNext == KernelInv /\ SharedInv /\ [Next]_vars => SharedInv'
<1> SUFFICES ASSUME KernelInv, PlanIsPrivate, JudgedStaysWorked, [Next]_vars
             PROVE  JudgedStaysWorked'
  BY PrivateNext DEF SharedInv
<1> DEFINE judging == {"remember_lesson", "complete", "remember_failure", "reject"}
<1>1. ASSUME NEW r \in Runs, Start(r) \/ Step(r) \/ FaultStep(r),
             NEW q \in Runs, run'[q].pc \in judging
      PROVE  task'[Cur(q)'].status # "planned"
  <2>1. CASE q = r
    <3>1. run[r].pc \in judging \/ task[Cur(r)].status = "review_pending"
      BY <1>1, <2>1, WhoJudges
    <3>2. task[Cur(r)].status # "planned" BY <3>1 DEF JudgedStaysWorked
    <3>3. QED BY <1>1, <2>1, <3>2, WhoJudges DEF Cur
  <2>2. CASE q # r
    <3>1. run'[q] = run[q] BY <1>1, <2>2, Mover
    <3>2. Cur(q) \in Task /\ task[Cur(q)].status \notin {"pending", "planned"}
      <4>1. Cur(q) \in Task BY <1>1, <3>1, AgentFacts DEF Reviewing
      <4>2. task[Cur(q)].status # "pending"
        BY <1>1, <3>1 DEF PlanIsPrivate, HoldsPending, Reviewing, Cur
      <4>3. QED BY <1>1, <3>1, <4>1, <4>2 DEF JudgedStaysWorked
    <3>3. task'[Cur(q)].status # "planned" BY <1>1, <3>2, NoneReplanned
    <3>4. QED BY <3>1, <3>3 DEF Cur
  <2>3. QED BY <2>1, <2>2
<1>2. CASE Crash
  <2>1. UNCHANGED task BY <1>2 DEF Crash, tables
  <2>2. ASSUME NEW q \in Runs PROVE run'[q] = run[q] \/ run'[q].pc = "crashed"
    BY <1>2 DEF Crash, KernelInv, TypeOK, RunState
  <2>3. QED BY <2>1, <2>2 DEF JudgedStaysWorked, Cur
<1>3. CASE NodeStep \/ UNCHANGED vars
  <2>1. UNCHANGED <<task, run>>
    BY <1>3 DEF NodeStep, Heartbeat, GoSilent, MarkOffline, SetNode, vars
  <2>2. QED BY <2>1 DEF JudgedStaysWorked, Cur
<1>4. QED BY <1>1, <1>2, <1>3 DEF Next, JudgedStaysWorked

LEMMA InsertIsCreated ==
  ASSUME task \in [Task -> TaskRow], NEW t \in Task, NEW w \in Works, NEW p,
         InsertTask(t, w, p), task[t].status = "absent"
  PROVE  Shared!Next
<1>1. /\ task'[t].status = "pending" /\ task'[t].work = w
      /\ \A u \in Task \ {t} : task'[u] = task[u]
  BY DEF InsertTask
<1>2. stage' = [stage EXCEPT ![t] = "pending"] /\ stage[t] = "absent"
  BY <1>1 DEF stage
<1>3. desert' = [desert EXCEPT ![t] = Deserves(w)]
  BY <1>1 DEF desert
<1>4. Deserves(w) \in Shared!Verdict
  BY KernelAssumption DEF Deserves, Shared!Verdict, WorkClass
<1>5. Shared!Create(t)
  BY <1>2, <1>3, <1>4 DEF Shared!Create, stage, desert
<1>6. QED BY <1>5 DEF Shared!Next

LEMMA UpdateIsShared ==
  ASSUME task \in [Task -> TaskRow], NEW t \in Task, NEW from, NEW to, NEW o,
         UpdateStatus(t, to, o), task[t].status \in from, task[t].status # "absent", to # "absent"
  PROVE  Shared!Move(t, from, to)
<1>1. /\ task'[t].status = to /\ task'[t].work = task[t].work
      /\ \A u \in Task \ {t} : task'[u] = task[u]
  BY DEF UpdateStatus, TaskRow
<1>2. stage' = [stage EXCEPT ![t] = to] /\ stage[t] \in from
  BY <1>1 DEF stage
<1>3. desert' = desert
  <2>1. ASSUME NEW u \in Task PROVE desert'[u] = desert[u] BY <1>1 DEF desert
  <2>2. QED BY <2>1 DEF desert
<1>4. QED BY <1>2, <1>3 DEF Shared!Move, stage, desert

LEMMA SubmitIsShared ==
  ASSUME task \in [Task -> TaskRow], NEW t \in Task, NEW o, UpdateStatus(t, "review_pending", o),
         NEW v \in {"completed", "rejected"}, desert[t] = v,
         task[t].status = "planned" \/ task[t].status = v
  PROVE  Shared!Next
<1>1. Shared!Move(t, {"planned", v}, "review_pending") BY UpdateIsShared
<1>2. Shared!Submit(t) BY <1>1 DEF Shared!Submit, Shared!Move, desert
<1>3. QED BY <1>2 DEF Shared!Next

LEMMA JudgeIsShared ==
  ASSUME task \in [Task -> TaskRow], NEW t \in Task, NEW v \in {"completed", "rejected"},
         NEW o, UpdateStatus(t, v, o), desert[t] = v, task[t].status = "review_pending"
  PROVE  Shared!Next
<1>1. Shared!Move(t, {"review_pending"}, v) BY UpdateIsShared
<1>2. Shared!Judge(t) BY <1>1 DEF Shared!Judge, Shared!Move, desert
<1>3. QED BY <1>2 DEF Shared!Next

\* Writing the status that the task has already is no step at all.
LEMMA SameStatus ==
  ASSUME task \in [Task -> TaskRow], NEW t \in Task, NEW o, UpdateStatus(t, task[t].status, o)
  PROVE  UNCHANGED <<stage, desert>>
<1>1. \A u \in Task : task'[u].status = task[u].status /\ task'[u].work = task[u].work
  BY DEF UpdateStatus, TaskRow
<1>2. QED BY <1>1 DEF stage, desert

\* A planner takes its own tasks to planned, one status at a time.
LEMMA PlannerShares ==
  ASSUME KernelInv, PlanIsPrivate, NEW r \in Runs, CallRunTask(r) \/ PlanStep(r)
  PROVE  Shared!Next \/ UNCHANGED <<stage, desert>>
<1>0. task \in [Task -> TaskRow]
  BY DEF KernelInv, TypeOK
<1>1. CASE CallRunTask(r)
  <2>1. /\ r \in Planners /\ run[r].pc = "idle" /\ RunFits(r, run[r], task)
        /\ \E w \in Works : \E p : InsertTask(<<r, 0>>, w, p)
    BY <1>1 DEF CallRunTask, MayStart, At, KernelInv, Root
  <2>2. <<r, 0>> \in Task /\ task[<<r, 0>>].status = "absent"
    BY <2>1, KernelAssumption DEF RunFits, Task
  <2>3. QED BY <1>0, <2>1, <2>2, InsertIsCreated
<1>2. CASE CreateSubtask(r)
  <2>1. /\ run[r].pc = "create" /\ run[r].step <= run[r].size
        /\ \E w \in Works : \E p : InsertTask(<<r, run[r].step>>, w, p)
    BY <1>2 DEF CreateSubtask, At
  <2>2. /\ r \in Planners /\ run[r].step \in Nat /\ run[r].size \in Nat
        /\ run[r].size <= MaxSubtasks
        /\ \A i \in 0..MaxSubtasks : i >= run[r].step => task[<<r, i>>].status = "absent"
    BY <2>1, PlannerFacts DEF Planning
  <2>3. run[r].step \in 0..MaxSubtasks BY <2>1, <2>2, KernelAssumption
  <2>4. <<r, run[r].step>> \in Task /\ task[<<r, run[r].step>>].status = "absent"
    BY <2>2, <2>3 DEF Task
  <2>5. QED BY <1>0, <2>1, <2>4, InsertIsCreated
<1>3. ASSUME NEW t \in Task, NEW o, UpdateStatus(t, "planned", o), task[t].status = "pending"
      PROVE  Shared!Next
  <2>1. Shared!Move(t, {"pending"}, "planned") BY <1>0, <1>3, UpdateIsShared
  <2>2. QED BY <2>1 DEF Shared!Next, Shared!Plan
<1>4. CASE ActivateSubtask(r)
  <2>1. /\ run[r].pc = "activate" /\ UpdateStatus(<<r, run[r].step>>, "planned", "none")
        /\ task[<<r, run[r].step>>].status = "pending"
    BY <1>4 DEF ActivateSubtask, At, PlanIsPrivate, HoldsPending
  <2>2. <<r, run[r].step>> \in Task BY <2>1, PlannerFacts DEF Planning, Task
  <2>3. QED BY <1>3, <2>1, <2>2
<1>5. CASE FinishPlan(r)
  <2>1. /\ UpdateStatus(<<r, 0>>, "planned", "plan") /\ run[r].pc \in Planning
        /\ task[<<r, 0>>].status = "pending"
    BY <1>5 DEF FinishPlan, At, Root, Planning, PlanIsPrivate, HoldsPending
  <2>2. <<r, 0>> \in Task BY <2>1, PlannerFacts
  <2>3. QED BY <1>3, <2>1, <2>2
<1>6. CASE ListSubtask(r)
  BY <1>6 DEF ListSubtask, tables, stage, desert
<1>7. QED BY <1>1, <1>2, <1>4, <1>5, <1>6 DEF PlanStep

\* An agent writes what the task's work deserves, or the way to it.
LEMMA AgentShares ==
  ASSUME KernelInv, SharedInv, NEW r \in Runs, WorkerStep(r) \/ ReviewerStep(r)
  PROVE  Shared!Next \/ UNCHANGED <<stage, desert>>
<1>0. task \in [Task -> TaskRow]
  BY DEF KernelInv, TypeOK
<1> DEFINE t == Cur(r)
           st == task[t].status
           w == task[t].work
<1>1. CASE StoreResult(r) \/ FailTask(r) \/ CompleteTask(r) \/ RejectTask(r)
  <2>1. run[r].pc \in {"store", "fail", "complete", "reject"}
    BY <1>1 DEF StoreResult, FailTask, CompleteTask, RejectTask, At
  <2>2. /\ t \in Task /\ task[t] \in TaskRow /\ RowFits(task[t]) /\ st # "absent"
        /\ RunFits(r, run[r], task)
    BY <2>1, AgentFacts DEF Working, Reviewing
  <2>3. st # "pending"
    BY <2>1 DEF SharedInv, PlanIsPrivate, HoldsPending, Working, Reviewing, Cur
  <2>4. st \in {"planned", "review_pending", "completed", "rejected", "failed", "abandoned"}
    BY <2>2, <2>3 DEF TaskRow, Status
  <2>5. desert[t] = Deserves(w) BY <2>2 DEF desert
  <2>6. CASE StoreResult(r)
    <3>1. UpdateStatus(t, "review_pending", w) /\ w \in {"good", "bad"}
      BY <2>2, <2>6 DEF StoreResult, At, RunFits, Cur
    <3>2. Deserves(w) \in {"completed", "rejected"} BY <3>1 DEF Deserves
    <3>3. st \in {"review_pending", "planned", Deserves(w)}
      BY <2>2, <2>4, <3>1 DEF RowFits, Deserves
    <3>4. CASE st = "review_pending" BY <1>0, <2>2, <3>1, <3>4, SameStatus
    <3>5. CASE st # "review_pending"
      BY <1>0, <2>2, <2>5, <3>1, <3>2, <3>3, <3>5, SubmitIsShared
    <3>6. QED BY <3>4, <3>5
  <2>7. CASE FailTask(r)
    <3>1. PICK to \in {"failed", "abandoned"} : UpdateStatus(t, to, "failure")
      BY <2>7 DEF FailTask, FinalStatus
    <3>2. w = "empty" BY <2>2, <2>7 DEF FailTask, At, RunFits, Cur
    <3>3. st \in {"planned", "failed", "abandoned"} BY <2>2, <2>4, <3>2 DEF RowFits
    <3>4. Shared!Move(t, {"planned", "failed", "abandoned"}, to)
      BY <1>0, <2>2, <3>1, <3>3, UpdateIsShared
    <3>5. desert[t] = "failed" BY <2>5, <3>2 DEF Deserves
    <3>6. Shared!Fail(t) BY <3>4, <3>5 DEF Shared!Fail, desert
    <3>7. QED BY <2>2, <3>6 DEF Shared!Next
  <2>8. ASSUME NEW o, UpdateStatus(t, Deserves(w), o), w \in {"good", "bad"}, st # "planned"
        PROVE  Shared!Next \/ UNCHANGED <<stage, desert>>
    <3>1. Deserves(w) \in {"completed", "rejected"} BY <2>8 DEF Deserves
    <3>2. st \in {"review_pending", Deserves(w)} BY <2>2, <2>4, <2>8 DEF RowFits, Deserves
    <3>3. CASE st = Deserves(w) BY <1>0, <2>2, <2>8, <3>3, SameStatus
    <3>4. CASE st = "review_pending"
      BY <1>0, <2>2, <2>5, <2>8, <3>1, <3>4, JudgeIsShared
    <3>5. QED BY <3>2, <3>3, <3>4
  <2>9. CASE CompleteTask(r) \/ RejectTask(r)
    <3>1. st # "planned"
      BY <2>9 DEF CompleteTask, RejectTask, At, SharedInv, JudgedStaysWorked
    <3>2. /\ CompleteTask(r) => w = "good" /\ UpdateStatus(t, "completed", run[r].out)
          /\ RejectTask(r) => w = "bad" /\ UpdateStatus(t, "rejected", "verdict")
      BY <2>2 DEF CompleteTask, RejectTask, At, RunFits, Cur
    <3>3. \E o : UpdateStatus(t, Deserves(w), o) /\ w \in {"good", "bad"}
      BY <2>9, <3>2 DEF Deserves
    <3>4. QED BY <2>8, <3>1, <3>3
  <2>10. QED BY <1>1, <2>6, <2>7, <2>9
<1>2. CASE UNCHANGED task BY <1>2 DEF stage, desert
<1>3. QED BY <1>1, <1>2
          DEF WorkerStep, WorkerRefuses, WorkerExecutes, RememberResult, CountFailures, NoteFailure,
              ReviewerStep, ReviewerRefuses, ReviewerEvaluates, RememberLesson, ExtractLesson,
              RememberFailure, tables

\* However calls overlap, fail and are killed, a task has one verdict, the one its work
\* deserves: it may be submitted and judged again, but it is never planned again, and no run
\* rejects or fails what another completes (worker.execute, reviewer.review).
THEOREM RunsShareOneVerdict == Spec => OneVerdict
<1>1. Init => SharedInv
  BY DEF Init, SharedInv, PlanIsPrivate, HoldsPending, JudgedStaysWorked, Planning, Working,
         Reviewing
<1>2. Init => Shared!Init
  BY DEF Init, Shared!Init
<1>3. KernelInv /\ SharedInv /\ [Next]_vars => Shared!Next \/ UNCHANGED <<stage, desert>>
  <2> SUFFICES ASSUME KernelInv, SharedInv, [Next]_vars
               PROVE  Shared!Next \/ UNCHANGED <<stage, desert>>
    OBVIOUS
  <2>1. CASE UNCHANGED task BY <2>1 DEF stage, desert
  <2>2. CASE Crash \/ NodeStep \/ UNCHANGED vars
    BY <2>1, <2>2 DEF Crash, NodeStep, Heartbeat, GoSilent, MarkOffline, SetNode, tables, vars
  <2>3. ASSUME NEW r \in Runs, CallRunAll(r) \/ CoordinatorStep(r) \/ FaultStep(r)
        PROVE  UNCHANGED task
    BY <2>3 DEF CallRunAll, CoordinatorStep, SelectTask, Finish, PickNode, NoAvailableNode,
                FaultStep, SubtaskFault, RunFault, AgentFault, MemoryFault, tables
  <2>4. QED BY <2>1, <2>2, <2>3, PlannerShares, AgentShares DEF Next, Start, Step, SharedInv
<1>4. KernelInv /\ SharedInv /\ [Next]_vars =>
        [Shared!Next]_<<[t \in Task |-> task[t].status],
                        [t \in Task |-> IF task[t].status = "absent" THEN "none"
                                        ELSE Deserves(task[t].work)]>>
  BY <1>3 DEF stage, desert
<1>5. QED BY <1>1, <1>2, <1>4, SharedInvNext, KernelInvariant, PTL
          DEF Spec, OneVerdict, Shared!Spec, Shared!vars
================================================================================
