---------------------------- MODULE GridMasterProofs ----------------------------
(***************************************************************************)
(* What holds of the phase 1 coordinator with any number of tasks, nodes,  *)
(* callers, errors and kills.                                              *)
(***************************************************************************)
EXTENDS GridMaster, FiniteSetTheorems, TLAPS

(* Types *)

CallerState ==
  [pc : {"idle", "select", "block", "assign", "busy", "count", "fail", "note", "offline"},
   task : Tasks \cup {NoTask}, node : Nodes \cup {NoNode}, retries : Nat]

\* What a call knows at each of its steps: the task it was made for, the node it chose
\* or that reported.
Knows(s) ==
  /\ s \in CallerState
  /\ s.pc \in {"select", "block", "assign", "busy", "count", "fail", "note"} => s.task \in Tasks
  /\ s.pc \in {"assign", "busy", "count", "fail", "note", "offline"} => s.node \in Nodes

CallersKnow == caller \in [Callers -> CallerState] /\ \A c \in Callers : Knows(caller[c])

Tables ==
  /\ task \in [Tasks -> Status]
  /\ notes \in [Tasks -> Nat] /\ failed \in [Tasks -> Nat]
  /\ node \in [Nodes -> {"online", "busy", "offline"}]
  /\ work \in [Tasks -> [Nodes -> Nat]]
  /\ faults \in Nat /\ crashes \in Nat

Typed == Tables /\ CallersKnow

LEMMA InitTyped == Init => Typed
BY GridMasterAssumption
   DEF Init, Typed, Tables, CallersKnow, Knows, CallerState, Status, Idle

LEMMA CallerBecomes ==
  ASSUME CallersKnow, NEW c \in Callers, NEW s, Becomes(c, s), Knows(s)
  PROVE  CallersKnow'
BY DEF CallersKnow, Becomes, Knows

LEMMA IdleKnows == Knows(Idle)
BY DEF Knows, CallerState, Idle

LEMMA StepKnows ==
  ASSUME Typed, [Next]_vars PROVE CallersKnow'
<1> USE GridMasterAssumption
<1>a. CallersKnow /\ Tables BY DEF Typed
<1>1. ASSUME NEW t \in Tasks, Submit(t) PROVE CallersKnow'
  BY <1>1, <1>a DEF Submit, CallersKnow
<1>2. ASSUME NEW c \in Callers, NEW t \in Tasks, Dispatch(c, t) PROVE CallersKnow'
  <2>1. Knows([Idle EXCEPT !.pc = "select", !.task = t])
    BY DEF Knows, CallerState, Idle
  <2>2. QED BY <1>2, <1>a, <2>1, CallerBecomes DEF Dispatch
<1>3. ASSUME NEW c \in Callers, SelectNode(c) PROVE CallersKnow'
  <2>1. Knows(caller[c]) /\ At(c, "select") BY <1>3, <1>a DEF CallersKnow, SelectNode
  <2>2. Knows([caller[c] EXCEPT !.pc = "block"])
    BY <2>1 DEF Knows, CallerState, At
  <2>3. \A n \in Nodes : Knows([caller[c] EXCEPT !.pc = "assign", !.node = n])
    BY <2>1 DEF Knows, CallerState, At
  <2>4. QED BY <1>3, <1>a, <2>2, <2>3, CallerBecomes DEF SelectNode, GoTo, Available
<1>4. ASSUME NEW c \in Callers, Block(c) \/ SetBusy(c) \/ NoteRetry(c) \/ SetOffline(c)
      PROVE  CallersKnow'
  BY <1>4, <1>a, IdleKnows, CallerBecomes DEF Block, SetBusy, NoteRetry, SetOffline
<1>5. ASSUME NEW c \in Callers, Assign(c) PROVE CallersKnow'
  <2>1. Knows(caller[c]) /\ At(c, "assign") BY <1>5, <1>a DEF CallersKnow, Assign
  <2>2. Knows([caller[c] EXCEPT !.pc = "busy"])
    BY <2>1 DEF Knows, CallerState, At
  <2>3. QED BY <1>5, <1>a, <2>2, CallerBecomes DEF Assign, GoTo
<1>6. ASSUME NEW c \in Callers, NEW t \in Tasks, NEW n \in Nodes, RecordSuccess(c, t, n)
      PROVE  CallersKnow'
  BY <1>6, <1>a DEF RecordSuccess, CallersKnow
<1>7. ASSUME NEW c \in Callers, NEW t \in Tasks, NEW n \in Nodes, ReceiveFailure(c, t, n)
      PROVE  CallersKnow'
  <2>1. Knows([Idle EXCEPT !.pc = "count", !.task = t, !.node = n])
    BY DEF Knows, CallerState, Idle
  <2>2. QED BY <1>7, <1>a, <2>1, CallerBecomes DEF ReceiveFailure
<1>8. ASSUME NEW c \in Callers, CountRetries(c) PROVE CallersKnow'
  <2>1. Knows(caller[c]) /\ At(c, "count") BY <1>8, <1>a DEF CallersKnow, CountRetries
  <2>2. Knows([caller[c] EXCEPT !.pc = "fail", !.retries = notes[caller[c].task]])
    BY <1>a, <2>1 DEF Knows, CallerState, At, Tables
  <2>3. QED BY <1>8, <1>a, <2>2, CallerBecomes DEF CountRetries
<1>9. ASSUME NEW c \in Callers, FailTask(c) PROVE CallersKnow'
  <2>1. Knows(caller[c]) /\ At(c, "fail") BY <1>9, <1>a DEF CallersKnow, FailTask
  <2>2. Knows([caller[c] EXCEPT !.pc = "note"])
    BY <2>1 DEF Knows, CallerState, At
  <2>3. QED BY <1>9, <1>a, <2>2, CallerBecomes DEF FailTask, GoTo
<1>10. ASSUME NEW c \in Callers, NEW n \in Nodes, FindSilent(c, n) PROVE CallersKnow'
  <2>1. Knows([Idle EXCEPT !.pc = "offline", !.node = n])
    BY DEF Knows, CallerState, Idle
  <2>2. QED BY <1>10, <1>a, <2>1, CallerBecomes DEF FindSilent
<1>11. ASSUME NEW c \in Callers, Fault(c) PROVE CallersKnow'
  <2>1. Knows(caller[c]) BY <1>a DEF CallersKnow
  <2>2. At(c, "select") => Knows([caller[c] EXCEPT !.pc = "block"])
    BY <2>1 DEF Knows, CallerState, At
  <2>3. QED BY <1>11, <1>a, <2>2, IdleKnows, CallerBecomes DEF Fault, GoTo
<1>12. ASSUME NEW n \in Nodes, Heartbeat(n) PROVE CallersKnow'
  BY <1>12, <1>a DEF Heartbeat, CallersKnow
<1>13. CASE Crash BY <1>13, IdleKnows DEF Crash, CallersKnow, Knows
<1>14. CASE UNCHANGED vars BY <1>14, <1>a DEF vars, CallersKnow
<1>15. QED
  BY <1>1, <1>2, <1>3, <1>4, <1>5, <1>6, <1>7, <1>8, <1>9, <1>10, <1>11, <1>12, <1>13,
     <1>14 DEF Next, CallerStep

\* The node that is set, and the work in hand that is booked.
LEMMA WorkTyped ==
  ASSUME Tables, NEW t \in Tasks, NEW n \in Nodes, NEW k \in Nat
  PROVE  [work EXCEPT ![t][n] = k] \in [Tasks -> [Nodes -> Nat]]
BY DEF Tables

LEMMA ReportTyped ==
  ASSUME Tables, NEW t \in Tasks, NEW n \in Nodes, Report(t, n)
  PROVE  work' \in [Tasks -> [Nodes -> Nat]]
<1>1. work[t][n] - 1 \in Nat BY DEF Report, Tables
<1>2. QED BY <1>1, WorkTyped DEF Report

LEMMA DispatchTyped ==
  ASSUME Typed, NEW c \in Callers, At(c, "busy"),
         work' = [work EXCEPT ![caller[c].task][caller[c].node] =
                    work[caller[c].task][caller[c].node] + 1]
  PROVE  work' \in [Tasks -> [Nodes -> Nat]]
<1>1. caller[c].task \in Tasks /\ caller[c].node \in Nodes
  BY DEF Typed, CallersKnow, Knows, At
<1>2. work[caller[c].task][caller[c].node] + 1 \in Nat BY <1>1 DEF Typed, Tables
<1>3. QED BY <1>1, <1>2, WorkTyped DEF Typed

LEMMA StepTables ==
  ASSUME Typed, [Next]_vars PROVE Tables'
<1>a. Tables BY DEF Typed
<1> USE <1>a, GridMasterAssumption DEF Tables, SetTask, SetNode, Fine, Status
<1>1. ASSUME NEW t \in Tasks, Submit(t) PROVE Tables'
  BY <1>1 DEF Submit
<1>2. ASSUME NEW c \in Callers, Block(c) \/ Assign(c) \/ NoteRetry(c) \/ SetOffline(c)
      PROVE  Tables'
  BY <1>2 DEF Block, Assign, NoteRetry, SetOffline
<1>3. ASSUME NEW c \in Callers, SetBusy(c) PROVE Tables'
  <2>1. work' \in [Tasks -> [Nodes -> Nat]] BY <1>3, DispatchTyped DEF SetBusy
  <2>2. QED BY <1>3, <2>1 DEF SetBusy
<1>4. ASSUME NEW c \in Callers, NEW t \in Tasks, NEW n \in Nodes,
             RecordSuccess(c, t, n) \/ ReceiveFailure(c, t, n)
      PROVE  Tables'
  <2>1. work' \in [Tasks -> [Nodes -> Nat]]
    BY <1>4, ReportTyped DEF RecordSuccess, ReceiveFailure
  <2>2. QED BY <1>4, <2>1 DEF RecordSuccess, ReceiveFailure
<1>5. ASSUME NEW c \in Callers, FailTask(c) PROVE Tables'
  <2> DEFINE s == FinalStatus(caller[c].retries)
             more == IF s = "failed" THEN 1 ELSE 0
  <2>1. s \in Status BY DEF FinalStatus
  <2>2. more \in Nat OBVIOUS
  <2> HIDE DEF s, more
  <2>3. /\ task' = [task EXCEPT ![caller[c].task] = s]
        /\ failed' = [failed EXCEPT ![caller[c].task] = @ + more]
        /\ node' = [m \in Nodes |-> IF m = caller[c].node THEN "online" ELSE node[m]]
        /\ UNCHANGED <<notes, work, faults, crashes>>
    BY <1>5 DEF FailTask, s, more
  <2>4. task' \in [Tasks -> Status] BY <2>1, <2>3
  <2>5. failed' \in [Tasks -> Nat]
    <3>1. caller[c].task \in Tasks BY <1>5 DEF Typed, CallersKnow, Knows, FailTask, At
    <3>2. failed[caller[c].task] + more \in Nat BY <2>2, <3>1
    <3>3. QED BY <2>3, <3>1, <3>2
  <2>6. node' \in [Nodes -> {"online", "busy", "offline"}] BY <2>3
  <2>7. QED BY <2>3, <2>4, <2>5, <2>6
<1>6. ASSUME NEW c \in Callers, Fault(c) PROVE Tables'
  <2>1. work' \in [Tasks -> [Nodes -> Nat]] BY <1>6, DispatchTyped DEF Fault
  <2>2. QED BY <1>6, <2>1 DEF Fault
<1>7. ASSUME NEW n \in Nodes, Heartbeat(n) PROVE Tables'
  BY <1>7 DEF Heartbeat
<1>8. CASE Crash BY <1>8 DEF Crash
<1>9. ASSUME UNCHANGED <<task, notes, node, work, failed, faults, crashes>> PROVE Tables'
  BY <1>9
<1>10. QED
  BY <1>1, <1>2, <1>3, <1>4, <1>5, <1>6, <1>7, <1>8, <1>9
     DEF Next, CallerStep, Dispatch, SelectNode, CountRetries, FindSilent, vars

LEMMA StepTyped ==
  ASSUME Typed, [Next]_vars PROVE Typed'
BY StepKnows, StepTables DEF Typed

\* The tables and the callers have the values that the code gives them.
THEOREM TypeCorrect == Spec => []TypeOK
<1>1. Typed => TypeOK BY DEF Typed, TypeOK, Tables, CallersKnow, CallerState
<1>2. QED BY <1>1, InitTyped, StepTyped, PTL DEF Spec

--------------------------------------------------------------------------------
(* What a dispatched task and a busy node wait for *)

\* The steps without an error or a kill.
CalmStep ==
  \/ \E t \in Tasks : Submit(t)
  \/ \E c \in Callers :
       \/ \E t \in Tasks :
            \/ Dispatch(c, t)
            \/ \E n \in Nodes : RecordSuccess(c, t, n) \/ ReceiveFailure(c, t, n)
       \/ CallerStep(c)
       \/ \E n \in Nodes : FindSilent(c, n)
  \/ \E n \in Nodes : Heartbeat(n)
  \/ UNCHANGED vars

LEMMA OnlyCalmSteps ==
  ASSUME Typed, [Next]_vars, faults' + crashes' = 0
  PROVE  faults + crashes = 0 /\ CalmStep
<1>1. faults \in Nat /\ crashes \in Nat BY DEF Typed, Tables
<1>2. ~Crash BY <1>1 DEF Crash
<1>3. \A c \in Callers : ~Fault(c) BY <1>1 DEF Fault
<1>4. CalmStep BY <1>2, <1>3 DEF Next, CalmStep
<1>5. faults' = faults /\ crashes' = crashes
  BY <1>4 DEF CalmStep, Submit, Dispatch, RecordSuccess, ReceiveFailure, CallerStep, SelectNode,
     Block, Assign, SetBusy, CountRetries, FailTask, NoteRetry, SetOffline, FindSilent,
     Heartbeat, vars, Fine
<1>6. QED BY <1>4, <1>5

\* How a call goes on, and what the nodes have in hand.
Holds(u) == \E n \in Nodes : work[u][n] > 0
Books(u) == \E c \in Callers : caller[c].task = u /\ caller[c].pc \in {"busy", "count", "fail"}

\* No step other than a fault or a kill takes a dispatched task out of all hands, but the
\* transaction that books it.
LEMMA DispatchedStep ==
  ASSUME Typed, [Next]_vars, DispatchedIsAccounted PROVE DispatchedIsAccounted'
<1>1. SUFFICES ASSUME faults' + crashes' = 0, NEW u \in Tasks, task'[u] = "dispatched"
      PROVE  Holds(u)' \/ Books(u)'
  BY DEF DispatchedIsAccounted, Holds, Books
<1>2. faults + crashes = 0 /\ CalmStep BY <1>1, OnlyCalmSteps
<1>3. task[u] = "dispatched" => Holds(u) \/ Books(u)
  BY <1>2 DEF DispatchedIsAccounted, Holds, Books
<1>4. Tables /\ CallersKnow BY DEF Typed
<1> USE DEF SetTask, GoTo, Becomes, At
<1>5. ASSUME NEW t \in Tasks, Submit(t) PROVE Holds(u)' \/ Books(u)'
  BY <1>1, <1>3, <1>4, <1>5 DEF Submit, Tables, Holds, Books
<1>6. ASSUME NEW c \in Callers, ~(caller[c].pc \in {"busy", "count", "fail"}),
             UNCHANGED <<task, work>>, NEW s, Becomes(c, s)
      PROVE  Holds(u)' \/ Books(u)'
  BY <1>1, <1>3, <1>4, <1>6 DEF CallersKnow, Holds, Books
<1>7. ASSUME NEW c \in Callers, Block(c) PROVE Holds(u)' \/ Books(u)'
  BY <1>1, <1>3, <1>4, <1>7 DEF Block, Tables, CallersKnow, Holds, Books
<1>8. ASSUME NEW c \in Callers, Assign(c) PROVE Holds(u)' \/ Books(u)'
  <2>1. CASE caller[c].task = u BY <1>4, <1>8, <2>1 DEF Assign, CallersKnow, CallerState, Books
  <2>2. CASE caller[c].task # u
    BY <1>1, <1>3, <1>4, <1>8, <2>2 DEF Assign, Tables, CallersKnow, Holds, Books
  <2>3. QED BY <2>1, <2>2
<1>9. ASSUME NEW c \in Callers, SetBusy(c) PROVE Holds(u)' \/ Books(u)'
  <2>1. caller[c].task \in Tasks /\ caller[c].node \in Nodes
    BY <1>4, <1>9 DEF SetBusy, CallersKnow, Knows
  <2>2. \A n \in Nodes : work[u][n] > 0 => work'[u][n] > 0
    BY <1>4, <1>9, <2>1 DEF SetBusy, Tables
  <2>3. CASE caller[c].task = u
    BY <1>4, <1>9, <2>1, <2>3 DEF SetBusy, Tables, Holds
  <2>4. CASE caller[c].task # u
    BY <1>1, <1>3, <1>4, <1>9, <2>2, <2>4 DEF SetBusy, CallersKnow, Holds, Books
  <2>5. QED BY <2>3, <2>4
<1>10. ASSUME NEW c \in Callers, NEW t \in Tasks, NEW n \in Nodes, RecordSuccess(c, t, n)
       PROVE  Holds(u)' \/ Books(u)'
  <2>1. t # u BY <1>1, <1>4, <1>10 DEF RecordSuccess, Tables
  <2>2. QED
    BY <1>1, <1>3, <1>4, <1>10, <2>1 DEF RecordSuccess, Report, Tables, Holds, Books
<1>11. ASSUME NEW c \in Callers, NEW t \in Tasks, NEW n \in Nodes, ReceiveFailure(c, t, n)
       PROVE  Holds(u)' \/ Books(u)'
  <2>1. caller' = [caller EXCEPT ![c] = [Idle EXCEPT !.pc = "count", !.task = t, !.node = n]]
    BY <1>11 DEF ReceiveFailure
  <2>2. CASE t = u BY <1>4, <2>1, <2>2 DEF CallersKnow, Idle, Books
  <2>3. CASE t # u
    <3>1. Holds(u) => Holds(u)' BY <1>4, <1>11, <2>3 DEF ReceiveFailure, Report, Tables, Holds
    <3>2. Books(u) => Books(u)' BY <1>4, <1>11, <2>1 DEF ReceiveFailure, CallersKnow, Books
    <3>3. QED BY <1>1, <1>3, <1>11, <3>1, <3>2 DEF ReceiveFailure
  <2>4. QED BY <2>2, <2>3
<1>12. ASSUME NEW c \in Callers, CountRetries(c) PROVE Holds(u)' \/ Books(u)'
  <2>1. Books(u) => Books(u)'
    BY <1>4, <1>12 DEF CountRetries, CallersKnow, CallerState, Books
  <2>2. Holds(u) => Holds(u)' BY <1>12 DEF CountRetries, Holds
  <2>3. QED BY <1>1, <1>3, <1>12, <2>1, <2>2 DEF CountRetries
<1>13. ASSUME NEW c \in Callers, FailTask(c) PROVE Holds(u)' \/ Books(u)'
  <2>1. FinalStatus(caller[c].retries) # "dispatched" BY DEF FinalStatus
  <2>2. caller[c].task # u
    BY <1>1, <1>4, <1>13, <2>1 DEF FailTask, Tables
  <2>3. QED
    BY <1>1, <1>3, <1>4, <1>13, <2>2 DEF FailTask, Tables, CallersKnow, Holds, Books
<1>14. ASSUME UNCHANGED <<task, work, caller>> PROVE Holds(u)' \/ Books(u)'
  BY <1>1, <1>3, <1>14 DEF Holds, Books
<1>15. ASSUME NEW c \in Callers,
              \/ \E t \in Tasks : Dispatch(c, t)
              \/ SelectNode(c) \/ NoteRetry(c) \/ SetOffline(c)
              \/ \E n \in Nodes : FindSilent(c, n)
       PROVE  Holds(u)' \/ Books(u)'
  <2>1. /\ ~(caller[c].pc \in {"busy", "count", "fail"})
        /\ UNCHANGED <<task, work>> /\ \E s : Becomes(c, s)
    BY <1>15 DEF Dispatch, SelectNode, NoteRetry, SetOffline, FindSilent
  <2>2. QED BY <1>6, <2>1
<1>16. QED
  BY <1>2, <1>5, <1>7, <1>8, <1>9, <1>10, <1>11, <1>12, <1>13, <1>14, <1>15
     DEF CalmStep, CallerStep, Heartbeat, vars

\* A task that is dispatched, and so accepted by no dispatch(), is with a node or in a
\* call that books or hands out its work, whatever calls overlap.
THEOREM DispatchedAccounted == Spec => []DispatchedIsAccounted
<1>1. Init => DispatchedIsAccounted BY DEF Init, DispatchedIsAccounted
<1>2. QED BY <1>1, InitTyped, StepTyped, DispatchedStep, PTL DEF Spec

\* What the nodes have in hand, and the calls that are about to set the node free.
HoldsAt(m) == \E t \in Tasks : work[t][m] > 0
Frees(m) == \E c \in Callers : caller[c].node = m /\ caller[c].pc \in {"count", "fail"}

\* A node becomes busy with work in hand, and each report of that work is on its way to a
\* transaction that sets the node free.
LEMMA BusyStep ==
  ASSUME Typed, [Next]_vars, BusyIsAccounted PROVE BusyIsAccounted'
<1>1. SUFFICES ASSUME faults' + crashes' = 0, NEW m \in Nodes, node'[m] = "busy"
      PROVE  HoldsAt(m)' \/ Frees(m)'
  BY DEF BusyIsAccounted, HoldsAt, Frees
<1>2. faults + crashes = 0 /\ CalmStep BY <1>1, OnlyCalmSteps
<1>3. node[m] = "busy" => HoldsAt(m) \/ Frees(m)
  BY <1>2 DEF BusyIsAccounted, HoldsAt, Frees
<1>4. Tables /\ CallersKnow BY DEF Typed
<1> USE DEF SetNode, GoTo, Becomes, At
<1>5. ASSUME UNCHANGED <<node, work, caller>> PROVE HoldsAt(m)' \/ Frees(m)'
  BY <1>1, <1>3, <1>5 DEF HoldsAt, Frees
<1>6. ASSUME NEW c \in Callers, ~(caller[c].pc \in {"count", "fail"}),
             UNCHANGED <<node, work>>, NEW s, Becomes(c, s)
      PROVE  HoldsAt(m)' \/ Frees(m)'
  BY <1>1, <1>3, <1>4, <1>6 DEF CallersKnow, HoldsAt, Frees
<1>7. ASSUME NEW c \in Callers, SetBusy(c) PROVE HoldsAt(m)' \/ Frees(m)'
  <2>1. caller[c].task \in Tasks /\ caller[c].node \in Nodes
    BY <1>4, <1>7 DEF SetBusy, CallersKnow, Knows
  <2>2. \A t \in Tasks : work[t][m] > 0 => work'[t][m] > 0
    BY <1>4, <1>7, <2>1 DEF SetBusy, Tables
  <2>3. CASE caller[c].node = m
    BY <1>4, <1>7, <2>1, <2>3 DEF SetBusy, Tables, HoldsAt
  <2>4. CASE caller[c].node # m
    BY <1>1, <1>3, <1>4, <1>7, <2>2, <2>4 DEF SetBusy, CallersKnow, HoldsAt, Frees
  <2>5. QED BY <2>3, <2>4
<1>8. ASSUME NEW c \in Callers, NEW t \in Tasks, NEW n \in Nodes, RecordSuccess(c, t, n)
      PROVE  HoldsAt(m)' \/ Frees(m)'
  <2>1. n # m /\ node[m] = "busy" BY <1>1, <1>8 DEF RecordSuccess
  <2>2. HoldsAt(m) => HoldsAt(m)'
    BY <1>4, <1>8, <2>1 DEF RecordSuccess, Report, Tables, HoldsAt
  <2>3. Frees(m) => Frees(m)' BY <1>8 DEF RecordSuccess, Frees
  <2>4. QED BY <1>3, <2>1, <2>2, <2>3
<1>9. ASSUME NEW c \in Callers, NEW t \in Tasks, NEW n \in Nodes, ReceiveFailure(c, t, n)
      PROVE  HoldsAt(m)' \/ Frees(m)'
  <2>1. caller' = [caller EXCEPT ![c] = [Idle EXCEPT !.pc = "count", !.task = t, !.node = n]]
    BY <1>9 DEF ReceiveFailure
  <2>2. CASE n = m BY <1>4, <2>1, <2>2 DEF CallersKnow, Idle, Frees
  <2>3. CASE n # m
    <3>1. HoldsAt(m) => HoldsAt(m)'
      BY <1>4, <1>9, <2>3 DEF ReceiveFailure, Report, Tables, HoldsAt
    <3>2. Frees(m) => Frees(m)' BY <1>4, <1>9, <2>1 DEF ReceiveFailure, CallersKnow, Frees
    <3>3. QED BY <1>1, <1>3, <1>9, <3>1, <3>2 DEF ReceiveFailure
  <2>4. QED BY <2>2, <2>3
<1>10. ASSUME NEW c \in Callers, CountRetries(c) PROVE HoldsAt(m)' \/ Frees(m)'
  <2>1. Frees(m) => Frees(m)'
    BY <1>4, <1>10 DEF CountRetries, CallersKnow, CallerState, Frees
  <2>2. HoldsAt(m) => HoldsAt(m)' BY <1>10 DEF CountRetries, HoldsAt
  <2>3. QED BY <1>1, <1>3, <1>10, <2>1, <2>2 DEF CountRetries
<1>11. ASSUME NEW c \in Callers, FailTask(c) PROVE HoldsAt(m)' \/ Frees(m)'
  <2>1. caller[c].node # m /\ node[m] = "busy" BY <1>1, <1>11 DEF FailTask
  <2>2. HoldsAt(m) => HoldsAt(m)' BY <1>11 DEF FailTask, HoldsAt
  <2>3. Frees(m) => Frees(m)' BY <1>4, <1>11, <2>1 DEF FailTask, CallersKnow, Frees
  <2>4. QED BY <1>3, <2>1, <2>2, <2>3
<1>12. ASSUME NEW c \in Callers, SetOffline(c) PROVE HoldsAt(m)' \/ Frees(m)'
  <2>1. node[m] = "busy" /\ UNCHANGED work BY <1>1, <1>12 DEF SetOffline
  <2>2. HoldsAt(m) => HoldsAt(m)' BY <2>1 DEF HoldsAt
  <2>3. Frees(m) => Frees(m)' BY <1>4, <1>12 DEF SetOffline, CallersKnow, Frees
  <2>4. QED BY <1>3, <2>1, <2>2, <2>3
<1>13. ASSUME NEW n \in Nodes, Heartbeat(n) PROVE HoldsAt(m)' \/ Frees(m)'
  BY <1>1, <1>3, <1>13 DEF Heartbeat, HoldsAt, Frees
<1>14. ASSUME NEW c \in Callers,
              \/ \E t \in Tasks : Dispatch(c, t)
              \/ SelectNode(c) \/ Block(c) \/ Assign(c) \/ NoteRetry(c)
              \/ \E n \in Nodes : FindSilent(c, n)
       PROVE  HoldsAt(m)' \/ Frees(m)'
  <2>1. /\ ~(caller[c].pc \in {"count", "fail"})
        /\ UNCHANGED <<node, work>> /\ \E s : Becomes(c, s)
    BY <1>14 DEF Dispatch, SelectNode, Block, Assign, NoteRetry, FindSilent
  <2>2. QED BY <1>6, <2>1
<1>15. QED
  BY <1>2, <1>5, <1>7, <1>8, <1>9, <1>10, <1>11, <1>12, <1>13, <1>14
     DEF CalmStep, CallerStep, Submit, vars

\* A busy node, which is given nothing before it reports, has something to report, or its
\* report is about to set it free.
THEOREM BusyAccounted == Spec => []BusyIsAccounted
<1>1. Init => BusyIsAccounted BY DEF Init, BusyIsAccounted
<1>2. QED BY <1>1, InitTyped, StepTyped, BusyStep, PTL DEF Spec

--------------------------------------------------------------------------------
(* How often a task fails *)

\* The calls that have yet to write their note, and those that counted few enough notes
\* to set the task to "failed" once more.
Noting(t) == {c \in Callers : caller[c].pc = "note" /\ caller[c].task = t}
Failing(t) == {c \in Callers : /\ caller[c].pc = "fail" /\ caller[c].task = t
                               /\ caller[c].retries < MaxRetries}

\* Each failure has its note, written, about to be written or lost; so that a call which
\* counts the notes leaves room for the failures of all the others.
Counted ==
  \A t \in Tasks :
    /\ failed[t] <= notes[t] + Cardinality(Noting(t)) + LostNotes
    /\ failed[t] + Cardinality(Failing(t)) <= MaxRetries + Cardinality(Callers) - 1 + LostNotes

LEMMA CallersFinite ==
  /\ IsFiniteSet(Callers) /\ Cardinality(Callers) \in Nat /\ Cardinality(Callers) > 0
  /\ \A S \in SUBSET Callers : /\ IsFiniteSet(S) /\ Cardinality(S) \in Nat
                               /\ Cardinality(S) <= Cardinality(Callers)
<1>1. IsFiniteSet(Callers) /\ Callers # {} BY GridMasterAssumption
<1>2. Cardinality(Callers) \in Nat BY <1>1, FS_CardinalityType
<1>3. Cardinality(Callers) # 0 BY <1>1, FS_EmptySet
<1>4. ASSUME NEW S \in SUBSET Callers
      PROVE  IsFiniteSet(S) /\ Cardinality(S) \in Nat /\ Cardinality(S) <= Cardinality(Callers)
  BY <1>1, FS_Subset, FS_CardinalityType
<1>5. QED BY <1>1, <1>2, <1>3, <1>4

LEMMA JoinOne ==
  ASSUME NEW S \in SUBSET Callers, NEW c \in Callers, c \notin S
  PROVE  Cardinality(S \cup {c}) = Cardinality(S) + 1
BY CallersFinite, FS_AddElement

LEMMA LeaveOne ==
  ASSUME NEW S \in SUBSET Callers, NEW c \in Callers
  PROVE  /\ c \in S => Cardinality(S \ {c}) = Cardinality(S) - 1
         /\ c \notin S => Cardinality(S \ {c}) = Cardinality(S)
BY CallersFinite, FS_RemoveElement

LEMMA LostNotesGrow ==
  ASSUME Tables
  PROVE  /\ LostNotes \in Nat
         /\ UNCHANGED <<faults, crashes>> => LostNotes' = LostNotes
         /\ faults' = faults + 1 /\ crashes' = crashes => LostNotes' = LostNotes + 1
         /\ faults' = faults /\ crashes' = crashes + 1 =>
              LostNotes' = LostNotes + Cardinality(Callers)
<1> DEFINE k == Cardinality(Callers)
<1>1. k \in Nat /\ faults \in Nat /\ crashes \in Nat BY CallersFinite DEF Tables
<1>2. LostNotes = faults + crashes * k /\ LostNotes' = faults' + crashes' * k
  BY DEF LostNotes
<1> HIDE DEF k
<1>3. crashes * k \in Nat /\ (crashes + 1) * k = crashes * k + k BY <1>1
<1>4. (crashes' = crashes + 1) => crashes' * k = crashes * k + k BY <1>3
<1>5. (crashes' = crashes) => crashes' * k = crashes * k OBVIOUS
<1> DEFINE l == crashes * k  m == crashes' * k
<1>6. l \in Nat /\ LostNotes = faults + l /\ LostNotes' = faults' + m
  BY <1>2, <1>3
<1>7. /\ (crashes' = crashes + 1) => m = l + k
      /\ (crashes' = crashes) => m = l
  BY <1>4, <1>5
<1> HIDE DEF l, m
<1>8. QED BY <1>1, <1>6, <1>7 DEF k

LEMMA InitCounted == Init => Counted
<1> SUFFICES ASSUME Init, NEW t \in Tasks
    PROVE  /\ failed[t] <= notes[t] + Cardinality(Noting(t)) + LostNotes
           /\ failed[t] + Cardinality(Failing(t)) <= MaxRetries + Cardinality(Callers) - 1 + LostNotes
  BY DEF Counted
<1>1. Noting(t) = {} /\ Failing(t) = {} BY DEF Init, Noting, Failing, Idle
<1>2. Cardinality(Noting(t)) = 0 /\ Cardinality(Failing(t)) = 0 BY <1>1, FS_EmptySet
<1>3. failed[t] = 0 /\ notes[t] = 0 BY DEF Init
<1>4. Tables BY InitTyped DEF Typed
<1>5. LostNotes \in Nat BY <1>4, LostNotesGrow
<1>6. QED BY <1>2, <1>3, <1>5, CallersFinite, GridMasterAssumption

\* A caller that moves from one step to another, neither of which counts.
LEMMA MovesElsewhere ==
  ASSUME Typed, NEW c \in Callers, NEW s, Becomes(c, s),
         caller[c].pc \notin {"fail", "note"}, s.pc \notin {"fail", "note"}, NEW t \in Tasks
  PROVE  Noting(t)' = Noting(t) /\ Failing(t)' = Failing(t)
BY DEF Typed, CallersKnow, Becomes, Noting, Failing

\* The arithmetic of Counted, for one task: f failures, n notes, p calls that have to write
\* one, q that fail the task, k callers, l lost notes.
LEMMA CountedStep ==
  ASSUME Typed, [Next]_vars, Counted PROVE Counted'
<1> SUFFICES ASSUME NEW u \in Tasks
    PROVE  /\ failed'[u] <= notes'[u] + Cardinality(Noting(u)') + LostNotes'
           /\ failed'[u] + Cardinality(Failing(u)') <=
                MaxRetries + Cardinality(Callers) - 1 + LostNotes'
  BY DEF Counted
<1> DEFINE f == failed[u]  g == failed'[u]
           n == notes[u]   o == notes'[u]
           p == Cardinality(Noting(u))   r == Cardinality(Noting(u)')
           q == Cardinality(Failing(u))  s == Cardinality(Failing(u)')
           k == Cardinality(Callers)
           l == LostNotes  m == LostNotes'
           Good == g <= o + r + m /\ g + s <= MaxRetries + k - 1 + m
<1>1. /\ Noting(u) \subseteq Callers /\ Noting(u)' \subseteq Callers
      /\ Failing(u) \subseteq Callers /\ Failing(u)' \subseteq Callers
  BY DEF Noting, Failing
<1>2. Tables /\ CallersKnow /\ Tables' /\ CallersKnow'
  BY StepTyped DEF Typed
<1>3. /\ f \in Nat /\ g \in Nat /\ n \in Nat /\ o \in Nat
      /\ l \in Nat
  BY <1>2, LostNotesGrow DEF Tables
<1>4. p \in Nat /\ q \in Nat /\ r \in Nat /\ s \in Nat /\ k \in Nat /\ p <= k /\ k > 0
  BY <1>1, CallersFinite
<1>5. MaxRetries \in Nat BY GridMasterAssumption
<1>6. f <= n + p + l /\ f + q <= MaxRetries + k - 1 + l
  BY DEF Counted
<1>7. /\ UNCHANGED <<faults, crashes>> => m = l
      /\ faults' = faults + 1 /\ crashes' = crashes => m = l + 1
      /\ faults' = faults /\ crashes' = crashes + 1 => m = l + k
  BY <1>2, LostNotesGrow
<1> SUFFICES Good OBVIOUS
<1>8. ASSUME UNCHANGED <<notes, failed, faults, crashes>>, Noting(u)' = Noting(u),
             Failing(u)' = Failing(u)
      PROVE  Good
  <2>1. g = f /\ o = n /\ r = p /\ s = q /\ m = l BY <1>7, <1>8
  <2>2. QED BY <1>6, <2>1
<1>9. ASSUME UNCHANGED <<notes, failed, faults, crashes, caller>> PROVE Good
  BY <1>8, <1>9 DEF Noting, Failing
<1>10. ASSUME NEW c \in Callers,
              \/ \E t \in Tasks : \/ Dispatch(c, t)
                                  \/ \E w \in Nodes : ReceiveFailure(c, t, w)
              \/ SelectNode(c) \/ Block(c) \/ Assign(c) \/ SetBusy(c) \/ SetOffline(c)
              \/ \E w \in Nodes : FindSilent(c, w)
       PROVE  Good
  <2>1. UNCHANGED <<notes, failed, faults, crashes>>
    BY <1>10 DEF Dispatch, ReceiveFailure, SelectNode, Block, Assign, SetBusy, SetOffline,
       FindSilent, Fine
  <2>2. caller[c].pc \notin {"fail", "note"}
    BY <1>10 DEF Dispatch, ReceiveFailure, SelectNode, Block, Assign, SetBusy, SetOffline,
       FindSilent, At
  <2>3. \E to : Becomes(c, to) /\ to.pc \notin {"fail", "note"}
    <3>1. caller[c] \in CallerState BY <1>2 DEF CallersKnow
    <3>2. \A x : [caller[c] EXCEPT !.pc = "assign", !.node = x].pc \notin {"fail", "note"}
      BY <3>1 DEF CallerState
    <3>3. \A x \in {"block", "busy"} : [caller[c] EXCEPT !.pc = x].pc \notin {"fail", "note"}
      BY <3>1 DEF CallerState
    <3>4. CASE SelectNode(c) BY <3>2, <3>3, <3>4 DEF SelectNode, GoTo
    <3>5. CASE Block(c) \/ SetBusy(c) \/ SetOffline(c)
      BY <3>5 DEF Block, SetBusy, SetOffline, Idle
    <3>6. CASE Assign(c) BY <3>3, <3>6 DEF Assign, GoTo
    <3>7. \A x, y : \A at \in {"select", "count", "offline"} :
            /\ [Idle EXCEPT !.pc = at, !.task = x].pc \notin {"fail", "note"}
            /\ [Idle EXCEPT !.pc = at, !.node = y].pc \notin {"fail", "note"}
            /\ [Idle EXCEPT !.pc = at, !.task = x, !.node = y].pc \notin {"fail", "note"}
      BY DEF Idle
    <3>8. CASE (\E t \in Tasks : \/ Dispatch(c, t)
                               \/ \E w \in Nodes : ReceiveFailure(c, t, w))
               \/ \E w \in Nodes : FindSilent(c, w)
      BY <3>7, <3>8 DEF Dispatch, ReceiveFailure, FindSilent
    <3>9. QED BY <1>10, <3>4, <3>5, <3>6, <3>8
  <2>4. QED BY <1>8, <2>1, <2>2, <2>3, MovesElsewhere
<1>11. ASSUME NEW c \in Callers, CountRetries(c) PROVE Good
  <2>1. /\ UNCHANGED <<notes, failed, faults, crashes>>
        /\ caller' = [caller EXCEPT ![c] =
                        [caller[c] EXCEPT !.pc = "fail", !.retries = notes[caller[c].task]]]
        /\ caller[c].pc = "count" /\ caller[c] \in CallerState
    BY <1>2, <1>11 DEF CountRetries, Becomes, At, Fine, CallersKnow
  <2>2. Noting(u)' = Noting(u)
    BY <1>2, <2>1 DEF Noting, CallersKnow, CallerState
  <2>3. CASE caller[c].task # u \/ ~(n < MaxRetries)
    <3>1. Failing(u)' = Failing(u)
      BY <1>2, <2>1, <2>3 DEF Failing, CallersKnow, CallerState
    <3>2. QED BY <1>8, <2>1, <2>2, <3>1
  <2>4. CASE caller[c].task = u /\ n < MaxRetries
    <3>1. Failing(u)' = Failing(u) \cup {c} /\ c \notin Failing(u)
      BY <1>2, <2>1, <2>4 DEF Failing, CallersKnow, CallerState
    <3>2. Noting(u) \cap (Failing(u) \cup {c}) = {}
      BY <2>1 DEF Noting, Failing
    <3>3. p + s <= k
      <4>1. Cardinality(Noting(u) \cup (Failing(u) \cup {c})) = p + s - Cardinality({})
        BY <1>1, <3>1, <3>2, CallersFinite, FS_Union
      <4>2. Cardinality({}) = 0 BY FS_EmptySet
      <4>3. Noting(u) \cup (Failing(u) \cup {c}) \subseteq Callers BY <1>1
      <4>4. Cardinality(Noting(u) \cup (Failing(u) \cup {c})) <= k
        BY <4>3, CallersFinite
      <4>5. QED BY <1>4, <4>1, <4>2, <4>4
    <3>4. g = f /\ o = n /\ r = p /\ m = l BY <1>7, <2>1, <2>2
    <3>5. n + 1 <= MaxRetries BY <1>3, <1>5, <2>4
    <3> HIDE DEF f, g, n, o, p, r, q, s, k, l, m
    <3>6. QED BY <1>3, <1>4, <1>5, <1>6, <3>3, <3>4, <3>5
  <2>5. QED BY <2>3, <2>4
<1>12. ASSUME NEW c \in Callers, FailTask(c) PROVE Good
  <2>1. /\ UNCHANGED <<notes, faults, crashes>>
        /\ caller' = [caller EXCEPT ![c] = [caller[c] EXCEPT !.pc = "note"]]
        /\ caller[c].pc = "fail" /\ caller[c] \in CallerState
    BY <1>2, <1>12 DEF FailTask, Becomes, GoTo, At, Fine, CallersKnow
  <2>2. CASE caller[c].task # u
    <3>1. Noting(u)' = Noting(u) /\ Failing(u)' = Failing(u)
      BY <1>2, <2>1, <2>2 DEF Noting, Failing, CallersKnow, CallerState
    <3>2. g = f BY <1>2, <1>12, <2>2 DEF FailTask, Tables
    <3>3. o = n /\ r = p /\ s = q /\ m = l BY <1>7, <2>1, <3>1
    <3>4. QED BY <1>6, <3>2, <3>3
  <2>3. CASE caller[c].task = u
    <3>1. Noting(u)' = Noting(u) \cup {c} /\ c \notin Noting(u)
      BY <1>2, <2>1, <2>3 DEF Noting, CallersKnow, CallerState
    <3>2. Failing(u)' = Failing(u) \ {c}
      BY <1>2, <2>1, <2>3 DEF Failing, CallersKnow, CallerState
    <3>3. r = p + 1 BY <1>1, <3>1, JoinOne
    <3>4. o = n /\ m = l BY <1>7, <2>1
    <3>5. CASE caller[c].retries < MaxRetries
      <4>1. c \in Failing(u) BY <2>1, <2>3, <3>5 DEF Failing
      <4>2. s = q - 1 BY <1>1, <3>2, <4>1, LeaveOne
      <4>3. FinalStatus(caller[c].retries) = "failed"
        BY <2>1, <3>5, <1>5 DEF FinalStatus, CallerState
      <4>4. g = f + 1 BY <1>2, <1>12, <2>3, <4>3 DEF FailTask, Tables
      <4> HIDE DEF f, g, n, o, p, r, q, s, k, l, m
      <4>5. QED BY <1>3, <1>4, <1>5, <1>6, <3>3, <3>4, <4>2, <4>4
    <3>6. CASE ~(caller[c].retries < MaxRetries)
      <4>1. c \notin Failing(u) BY <3>6 DEF Failing
      <4>2. s = q BY <1>1, <3>2, <4>1, LeaveOne
      <4>3. FinalStatus(caller[c].retries) = "abandoned"
        BY <2>1, <3>6, <1>5 DEF FinalStatus, CallerState
      <4>4. g = f BY <1>2, <1>12, <2>3, <4>3 DEF FailTask, Tables
      <4> HIDE DEF f, g, n, o, p, r, q, s, k, l, m
      <4>5. QED BY <1>3, <1>4, <1>5, <1>6, <3>3, <3>4, <4>2, <4>4
    <3>7. QED BY <3>5, <3>6
  <2>4. QED BY <2>2, <2>3
<1>13. ASSUME NEW c \in Callers, NoteRetry(c) PROVE Good
  <2>1. /\ UNCHANGED <<failed, faults, crashes>>
        /\ caller' = [caller EXCEPT ![c] = Idle] /\ caller[c].pc = "note"
        /\ notes' = [notes EXCEPT ![caller[c].task] = @ + 1]
    BY <1>13 DEF NoteRetry, Becomes, At, Fine
  <2>2. Noting(u)' = Noting(u) \ {c} /\ Failing(u)' = Failing(u)
    BY <1>2, <2>1 DEF Noting, Failing, Idle, CallersKnow
  <2>3. g = f /\ s = q /\ m = l BY <1>7, <2>1, <2>2
  <2>4. CASE caller[c].task = u
    <3>1. c \in Noting(u) BY <2>1, <2>4 DEF Noting
    <3>2. r = p - 1 BY <1>1, <2>2, <3>1, LeaveOne
    <3>3. o = n + 1 BY <1>2, <2>1, <2>4 DEF Tables
    <3> HIDE DEF f, g, n, o, p, r, q, s, k, l, m
    <3>4. QED BY <1>3, <1>4, <1>5, <1>6, <2>3, <3>2, <3>3
  <2>5. CASE caller[c].task # u
    <3>1. c \notin Noting(u) BY <2>5 DEF Noting
    <3>2. r = p BY <1>1, <2>2, <3>1, LeaveOne
    <3>3. o = n BY <1>2, <2>1, <2>5 DEF Tables
    <3>4. QED BY <1>6, <2>3, <3>2, <3>3
  <2>6. QED BY <2>4, <2>5
<1>14. ASSUME NEW c \in Callers, Fault(c) PROVE Good
  <2>1. /\ UNCHANGED <<notes, failed, crashes>> /\ faults' = faults + 1
    BY <1>14 DEF Fault
  <2>2. \E to : Becomes(c, to) /\ to.pc \notin {"fail", "note"}
    <3>1. caller[c] \in CallerState BY <1>2 DEF CallersKnow
    <3>2. QED BY <1>14, <3>1 DEF Fault, GoTo, Idle, CallerState
  <2>3. Noting(u) \ {c} \subseteq Noting(u)' /\ Failing(u)' \subseteq Failing(u)
    BY <1>2, <2>2 DEF Becomes, Noting, Failing, CallersKnow
  <2>4. s <= q
    BY <1>1, <2>3, CallersFinite, FS_Subset
  <2>5. p - 1 <= r
    <3> DEFINE x == Cardinality(Noting(u) \ {c})
    <3>1. x \in Nat /\ x >= p - 1
      <4>1. Noting(u) \ {c} \in SUBSET Callers BY <1>1
      <4>2. x \in Nat BY <4>1, CallersFinite
      <4>3. x = p - 1 \/ x = p BY <1>1, LeaveOne
      <4> HIDE DEF x, p
      <4>4. QED BY <1>4, <4>2, <4>3
    <3>2. x <= r
      BY <1>1, <2>3, CallersFinite, FS_Subset
    <3>3. QED BY <1>4, <3>1, <3>2
  <2>6. g = f /\ o = n /\ m = l + 1 BY <1>7, <2>1
  <2> HIDE DEF f, g, n, o, p, r, q, s, k, l, m
  <2>7. QED BY <1>3, <1>4, <1>5, <1>6, <2>4, <2>5, <2>6
<1>15. CASE Crash
  <2>1. /\ UNCHANGED <<notes, failed, faults>> /\ crashes' = crashes + 1
        /\ caller' = [c \in Callers |-> Idle]
    BY <1>15 DEF Crash
  <2>2. Noting(u)' = {} /\ Failing(u)' = {} BY <2>1 DEF Noting, Failing, Idle
  <2>3. r = 0 /\ s = 0 BY <2>2, FS_EmptySet
  <2>4. g = f /\ o = n /\ m = l + k BY <1>7, <2>1
  <2> HIDE DEF f, g, n, o, p, r, q, s, k, l, m
  <2>5. QED BY <1>3, <1>4, <1>5, <1>6, <2>3, <2>4
<1>16. ASSUME NEW t \in Tasks, NEW c \in Callers, NEW w \in Nodes, RecordSuccess(c, t, w)
       PROVE  Good
  BY <1>9, <1>16 DEF RecordSuccess, Fine
<1> HIDE DEF Good
<1>17. ASSUME UNCHANGED vars \/ (\E t \in Tasks : Submit(t)) \/ (\E w \in Nodes : Heartbeat(w))
       PROVE  Good
  BY <1>9, <1>17 DEF vars, Submit, Heartbeat, Fine
<1>18. QED
  BY <1>10, <1>11, <1>12, <1>13, <1>14, <1>15, <1>16, <1>17 DEF Next, CallerStep

\* A task is set to "failed" no more than MaxRetries times, the calls that overlap and the
\* notes that were not written set aside.
THEOREM FailuresBounded == Spec => []FailuresAreBounded
<1>1. Typed /\ Counted => FailuresAreBounded
  <2> SUFFICES ASSUME Typed, Counted, NEW t \in Tasks
      PROVE  failed[t] <= MaxRetries + Cardinality(Callers) - 1 + LostNotes
    BY DEF FailuresAreBounded
  <2> DEFINE q == Cardinality(Failing(t))
  <2>1. q \in Nat BY CallersFinite DEF Failing
  <2>2. failed[t] + q <= MaxRetries + Cardinality(Callers) - 1 + LostNotes BY DEF Counted
  <2>3. failed[t] \in Nat /\ LostNotes \in Nat BY LostNotesGrow DEF Typed, Tables
  <2> HIDE DEF q
  <2>4. QED BY <2>1, <2>2, <2>3, CallersFinite, GridMasterAssumption
<1>2. QED BY <1>1, InitTyped, StepTyped, InitCounted, CountedStep, PTL DEF Spec

================================================================================
