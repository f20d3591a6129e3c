--------------------------- MODULE GridFailoverProofs ---------------------------
(***************************************************************************)
(* What holds of the reassignment of tasks with any number of nodes,       *)
(* tasks, monitors and sweepers, whatever errors, restarts and departures  *)
(* there are.                                                              *)
(*                                                                         *)
(* The limit on reassignments is a count of notes that is read before the  *)
(* reset and written after it.  So both bounds relate the notes to the     *)
(* resets through the handlers that are between the two.                   *)
(***************************************************************************)
EXTENDS GridFailover, FiniteSetTheorems, TLAPS

(* Types *)

\* What a handler knows at each of its steps: the node it classified, the task it took
\* from its list.
Knows(s) ==
  /\ s \in HandlerState
  /\ s.pc \in {"swap", "recover", "mark"} => s.node \in Nodes
  /\ s.pc \in {"count", "reset", "note"} => s.task \in Tasks

HandlersKnow == handler \in [Handlers -> HandlerState] /\ \A h \in Handlers : Knows(handler[h])

TaskRow == [status : {"planned", "dispatched_to_node", "completed", "abandoned"},
            node : Nodes \cup {NoNode}]
NodeRow == [status : {"online", "offline"}, age : {"fresh", "stale", "old"}, up : BOOLEAN]

Tables == task \in [Tasks -> TaskRow] /\ notes \in [Tasks -> Nat] /\ node \in [Nodes -> NodeRow]

Memory ==
  /\ cache \in [Nodes -> Health]
  /\ request \in [Nodes -> {"none", "read", "classify", "store", "online"}]
  /\ choice \subseteq Tasks \X Nodes

Counters ==
  /\ regime \in Regimes /\ checked \subseteq Nodes
  /\ resets \in [Tasks -> Nat] /\ abandonments \in [Tasks -> Nat]
  /\ faults \in Nat /\ restarts \in Nat /\ departures \in Nat

Typed == Tables /\ Memory /\ Counters /\ HandlersKnow

LEMMA SleepingKnows == Knows(Sleeping)
BY DEF Knows, HandlerState, Sleeping, Reassigning, Health

LEMMA InitTyped == Init => Typed
<1> SUFFICES ASSUME Init PROVE Typed
  OBVIOUS
<1>1. Tables BY DEF Init, Tables, TaskRow, NodeRow
<1>2. Memory BY DEF Init, Memory, Health
<1>3. Counters BY DEF Init, Counters
<1>4. HandlersKnow BY SleepingKnows DEF Init, HandlersKnow, Knows
<1>5. QED BY <1>1, <1>2, <1>3, <1>4 DEF Typed

LEMMA HandlerBecomes ==
  ASSUME HandlersKnow, NEW h \in Handlers, NEW s, Becomes(h, s), Knows(s)
  PROVE  HandlersKnow'
BY DEF HandlersKnow, Becomes, Knows

\* Where a handler goes without a new task or node, keeping what it knows.
LEMMA GoesKnowing ==
  ASSUME HandlersKnow, NEW h \in Handlers, NEW l, GoTo(h, l),
         \/ l \in {"sleep", "check", "list", "next"}
         \/ l \in {"recover", "mark"} /\ At(h, "swap")
         \/ l = "note" /\ At(h, "reset")
  PROVE  HandlersKnow'
<1>1. Knows(handler[h]) BY DEF HandlersKnow
<1>2. Knows([handler[h] EXCEPT !.pc = l])
  BY <1>1 DEF Knows, HandlerState, At, Reassigning
<1>3. QED BY <1>2, HandlerBecomes DEF GoTo

LEMMA ClassifyTyped == ASSUME NEW n PROVE Classify(n) \in Health
BY DEF Classify, Health

LEMMA TakesNode ==
  ASSUME HandlersKnow, NEW h \in Handlers, NEW n \in handler[h].left, NEW x \in Health,
         Becomes(h, [handler[h] EXCEPT !.pc = "swap", !.left = @ \ {n}, !.node = n, !.health = x])
  PROVE  HandlersKnow'
<1>1. Knows(handler[h]) BY DEF HandlersKnow
<1>2. n \in Nodes BY <1>1 DEF Knows, HandlerState
<1>3. Knows([handler[h] EXCEPT !.pc = "swap", !.left = handler[h].left \ {n}, !.node = n,
                               !.health = x])
  BY <1>1, <1>2 DEF Knows, HandlerState
<1>4. QED BY <1>3, HandlerBecomes

LEMMA TakesCount ==
  ASSUME HandlersKnow, NEW h \in Handlers, At(h, "count"), NEW k \in Nat,
         Becomes(h, [handler[h] EXCEPT !.pc = "reset", !.count = k])
  PROVE  HandlersKnow'
<1>1. Knows(handler[h]) BY DEF HandlersKnow
<1>2. Knows([handler[h] EXCEPT !.pc = "reset", !.count = k])
  BY <1>1 DEF Knows, HandlerState, At, Reassigning
<1>3. QED BY <1>2, HandlerBecomes

LEMMA StepKnows ==
  ASSUME Typed, [Next]_vars PROVE HandlersKnow'
<1>0. HandlersKnow /\ Tables BY DEF Typed
<1>1. ASSUME NEW h \in Handlers, MonitorStep(h) PROVE HandlersKnow'
  <2>1. CASE BeginCheck(h)
    <3>1. Knows([Sleeping EXCEPT !.pc = "check", !.left = Nodes])
      BY DEF Knows, HandlerState, Sleeping, Reassigning, Health
    <3>2. QED BY <1>0, <2>1, <3>1, HandlerBecomes DEF BeginCheck
  <2>2. CASE ClassifyNode(h) BY <1>0, <2>2, ClassifyTyped, TakesNode DEF ClassifyNode
  <2>3. CASE EndCheck(h) BY <1>0, <2>3, SleepingKnows, HandlerBecomes DEF EndCheck
  <2>4. CASE SwapClassification(h)
    <3>1. \A x, y : Reaction(x, y) \in {"check", "recover", "mark"} BY DEF Reaction
    <3>2. QED BY <1>0, <2>4, <3>1, GoesKnowing DEF SwapClassification
  <2>5. CASE SetRecovered(h) \/ MarkOffline(h)
    BY <1>0, <2>5, GoesKnowing DEF SetRecovered, MarkOffline
  <2>6. CASE ListTasks(h)
    <3> DEFINE T == {t \in Dispatched : task[t].node = handler[h].node}
    <3>1. T \subseteq Tasks BY DEF Dispatched
    <3>2. Knows(handler[h]) BY <1>0 DEF HandlersKnow
    <3> HIDE DEF T
    <3>3. Knows([handler[h] EXCEPT !.pc = "next", !.todo = T])
      BY <3>1, <3>2 DEF Knows, HandlerState, Reassigning
    <3>4. QED BY <1>0, <2>6, <3>3, HandlerBecomes DEF ListTasks, T
  <2>7. QED BY <1>1, <2>1, <2>2, <2>3, <2>4, <2>5, <2>6 DEF MonitorStep
<1>2. ASSUME NEW h \in Handlers, ListTimedOut(h) PROVE HandlersKnow'
  <2>1. PICK late \in SUBSET Dispatched :
          Becomes(h, [Sleeping EXCEPT !.pc = "next", !.todo = late])
    BY <1>2 DEF ListTimedOut
  <2>2. late \subseteq Tasks BY <2>1 DEF Dispatched
  <2>3. Knows([Sleeping EXCEPT !.pc = "next", !.todo = late])
    BY <2>2 DEF Knows, HandlerState, Sleeping, Reassigning, Health
  <2>4. QED BY <1>0, <2>1, <2>3, HandlerBecomes
<1>3. ASSUME NEW h \in Handlers, ReassignStep(h) PROVE HandlersKnow'
  <2>0. Knows(handler[h]) BY <1>0 DEF HandlersKnow
  <2>1. CASE NextTask(h)
    <3>1. CASE GoTo(h, "check") \/ Becomes(h, Sleeping)
      BY <1>0, <3>1, GoesKnowing, SleepingKnows, HandlerBecomes
    <3>2. ASSUME NEW t \in handler[h].todo,
                 Becomes(h, [handler[h] EXCEPT !.pc = "count", !.task = t, !.todo = @ \ {t}])
          PROVE  HandlersKnow'
      <4>1. t \in Tasks BY <2>0, <3>2 DEF Knows, HandlerState
      <4>2. Knows([handler[h] EXCEPT !.pc = "count", !.task = t, !.todo = handler[h].todo \ {t}])
        BY <2>0, <4>1 DEF Knows, HandlerState, Reassigning
      <4>3. QED BY <1>0, <3>2, <4>2, HandlerBecomes
    <3>3. QED BY <2>1, <3>1, <3>2 DEF NextTask
  <2>2. CASE CountNotes(h)
    <3>1. notes[handler[h].task] \in Nat
      BY <1>0, <2>0, <2>2 DEF Knows, CountNotes, At, Tables
    <3>2. QED BY <1>0, <2>2, <3>1, TakesCount DEF CountNotes
  <2>3. CASE Reset(h) BY <1>0, <2>3, GoesKnowing DEF Reset
  <2>4. CASE InsertNote(h) BY <1>0, <2>4, GoesKnowing DEF InsertNote
  <2>5. QED BY <1>3, <2>1, <2>2, <2>3, <2>4 DEF ReassignStep
<1>4. ASSUME NEW h \in Handlers, SwallowedError(h) PROVE HandlersKnow'
  <2>1. CASE \E n \in handler[h].left :
               Becomes(h, [handler[h] EXCEPT !.pc = "swap", !.left = @ \ {n},
                                             !.node = n, !.health = "unknown"])
    BY <1>0, <2>1, TakesNode DEF Health
  <2>2. CASE At(h, "count") /\ Becomes(h, [handler[h] EXCEPT !.pc = "reset", !.count = 0])
    BY <1>0, <2>2, TakesCount
  <2>3. CASE \E l \in {"check", "list", "next"} : GoTo(h, l) BY <1>0, <2>3, GoesKnowing
  <2>4. QED BY <1>4, <2>1, <2>2, <2>3 DEF SwallowedError
<1>5. CASE Restart BY <1>5, SleepingKnows DEF Restart, HandlersKnow, Knows
<1>6. CASE UNCHANGED handler BY <1>0, <1>6 DEF HandlersKnow
<1>7. QED
  BY <1>1, <1>2, <1>3, <1>4, <1>5, <1>6
     DEF Next, ReceiveHeartbeat, RequestStep, ReadPrevious, ClassifyAgain, StoreOnline,
         SetOnline, RequestError, Register, Unregister, Die, Revive, GrowOlder, ReportResult,
         Choose, Assign, vars

LEMMA StepTables ==
  ASSUME Typed, [Next]_vars PROVE Tables'
<1>0. Tables /\ Memory /\ HandlersKnow BY DEF Typed
<1>1. ASSUME NEW h \in Handlers, MonitorStep(h) \/ ListTimedOut(h) PROVE Tables'
  <2>1. /\ UNCHANGED table
        /\ UNCHANGED node \/ \E n : \E x \in {"online", "offline"} : SetStatus(n, x)
    BY <1>1 DEF MonitorStep, BeginCheck, ClassifyNode, EndCheck, SwapClassification,
       SetRecovered, MarkOffline, ListTasks, ListTimedOut
  <2>2. node' \in [Nodes -> NodeRow] BY <1>0, <2>1 DEF SetStatus, Tables, NodeRow
  <2>3. QED BY <1>0, <2>1, <2>2 DEF Tables, table
<1>2. ASSUME NEW h \in Handlers, ReassignStep(h) PROVE Tables'
  <2>1. CASE NextTask(h) \/ CountNotes(h) BY <1>0, <2>1 DEF NextTask, CountNotes, Tables, table
  <2>2. CASE Reset(h) BY <1>0, <2>2 DEF Reset, GivenUp, Tables, TaskRow
  <2>3. CASE InsertNote(h)
    <3>1. handler[h].task \in Tasks BY <1>0, <2>3 DEF InsertNote, At, HandlersKnow, Knows
    <3>2. QED BY <1>0, <2>3, <3>1 DEF InsertNote, Tables
  <2>4. QED BY <1>2, <2>1, <2>2, <2>3 DEF ReassignStep
<1>3. ASSUME NEW n \in Nodes,
             \/ ReceiveHeartbeat(n) \/ RequestStep(n) \/ RequestError(n) \/ Register(n)
             \/ Unregister(n) \/ Die(n) \/ Revive(n) \/ GrowOlder(n)
      PROVE  Tables'
  <2>1. UNCHANGED table
    BY <1>3 DEF ReceiveHeartbeat, RequestStep, ReadPrevious, ClassifyAgain, StoreOnline,
       SetOnline, RequestError, Register, Unregister, Die, Revive, GrowOlder
  <2>2. node' \in [Nodes -> NodeRow]
    <3>0. node \in [Nodes -> NodeRow] BY <1>0 DEF Tables
    <3>1. CASE ReceiveHeartbeat(n) BY <3>0, <3>1 DEF ReceiveHeartbeat, NodeRow
    <3>2. CASE Register(n) \/ Unregister(n) \/ SetOnline(n)
      BY <3>0, <3>2 DEF Register, Unregister, SetOnline, SetStatus, NodeRow
    <3>3. CASE Die(n) \/ Revive(n) BY <3>0, <3>3 DEF Die, Revive, NodeRow
    <3>4. CASE GrowOlder(n)
      <4>1. (IF node[n].age = "fresh" THEN "stale" ELSE "old") \in {"fresh", "stale", "old"}
        OBVIOUS
      <4>2. QED BY <3>0, <3>4, <4>1 DEF GrowOlder, NodeRow
    <3>5. CASE UNCHANGED node BY <3>0, <3>5
    <3>6. QED
      BY <1>3, <3>1, <3>2, <3>3, <3>4, <3>5
         DEF RequestStep, ReadPrevious, ClassifyAgain, StoreOnline, RequestError
  <2>3. QED BY <1>0, <2>1, <2>2 DEF Tables, table
<1>4. ASSUME NEW t \in Tasks, ReportResult(t) PROVE Tables'
  BY <1>0, <1>4 DEF ReportResult, Tables, TaskRow
<1>5. ASSUME NEW t \in Tasks, NEW n \in Nodes,
             \/ Choose(t, n)
             \/ task' = [task EXCEPT ![t] = [status |-> "dispatched_to_node", node |-> n]]
                /\ UNCHANGED <<notes, node>>
      PROVE  Tables'
  BY <1>0, <1>5 DEF Choose, Tables, TaskRow
<1>6. CASE Assign BY <1>5, <1>6 DEF Assign
<1>7. CASE UNCHANGED <<table, node>> BY <1>0, <1>7 DEF Tables, table
<1>8. QED
  BY <1>1, <1>2, <1>3, <1>4, <1>5, <1>6, <1>7 DEF Next, SwallowedError, Restart, vars, table

LEMMA StepMemory ==
  ASSUME Typed, [Next]_vars PROVE Memory'
<1>0. Memory BY DEF Typed
<1>1. ASSUME NEW h \in Handlers,
             MonitorStep(h) \/ ListTimedOut(h) \/ ReassignStep(h) \/ SwallowedError(h)
      PROVE  Memory'
  <2>1. CASE SwapClassification(h)
    <3>1. handler[h].health \in Health BY DEF Typed, HandlersKnow, Knows, HandlerState
    <3>2. QED BY <1>0, <2>1, <3>1 DEF SwapClassification, Memory
  <2>2. CASE UNCHANGED <<cache, request, choice>> BY <1>0, <2>2 DEF Memory
  <2>3. QED
    BY <1>1, <2>1, <2>2
       DEF MonitorStep, BeginCheck, ClassifyNode, EndCheck, SetRecovered, MarkOffline,
           ListTasks, ListTimedOut, ReassignStep, NextTask, CountNotes, Reset, InsertNote,
           SwallowedError
<1>2. ASSUME NEW n \in Nodes,
             ReceiveHeartbeat(n) \/ RequestStep(n) \/ RequestError(n)
      PROVE  Memory'
  <2>1. UNCHANGED choice
    BY <1>2 DEF ReceiveHeartbeat, RequestStep, ReadPrevious, ClassifyAgain, StoreOnline,
       SetOnline, RequestError
  <2>2. \E l \in {"none", "read", "classify", "store", "online"} :
          request' = [request EXCEPT ![n] = l]
    BY <1>2 DEF ReceiveHeartbeat, RequestStep, ReadPrevious, ClassifyAgain, StoreOnline,
       SetOnline, RequestError, Proceed
  <2>3. UNCHANGED cache \/ cache' = [cache EXCEPT ![n] = "online"]
    BY <1>2 DEF ReceiveHeartbeat, RequestStep, ReadPrevious, ClassifyAgain, StoreOnline,
       SetOnline, RequestError
  <2>4. QED BY <1>0, <2>1, <2>2, <2>3 DEF Memory, Health
<1>3. ASSUME NEW t \in Tasks, NEW n \in Nodes, Choose(t, n) PROVE Memory'
  BY <1>0, <1>3 DEF Choose, Memory
<1>4. CASE Assign BY <1>0, <1>4 DEF Assign, Memory
<1>5. CASE Restart BY <1>5 DEF Restart, Memory, Health
<1>6. CASE UNCHANGED <<cache, request, choice>> BY <1>0, <1>6 DEF Memory
<1>7. QED
  BY <1>1, <1>2, <1>3, <1>4, <1>5, <1>6
     DEF Next, Register, Unregister, Die, Revive, GrowOlder, ReportResult, vars

LEMMA StepCounters ==
  ASSUME Typed, [Next]_vars PROVE Counters'
<1>0. Counters BY DEF Typed
<1>1. ASSUME NEW h \in Handlers, ClassifyNode(h) PROVE Counters'
  <2>1. handler[h].left \subseteq Nodes BY DEF Typed, HandlersKnow, HandlerState
  <2>2. QED BY <1>0, <1>1, <2>1 DEF ClassifyNode, Counters, bounds
<1>2. ASSUME NEW h \in Handlers, Reset(h) PROVE Counters'
  <2>1. handler[h].task \in Tasks BY <1>2 DEF Typed, HandlersKnow, Knows, Reset, At
  <2>2. resets' \in [Tasks -> Nat] /\ abandonments' \in [Tasks -> Nat]
    BY <1>0, <1>2, <2>1 DEF Reset, Counters
  <2>3. QED BY <1>0, <1>2, <2>2 DEF Reset, Counters, bounds
<1>3. ASSUME UNCHANGED <<regime, resets, abandonments>>,
             UNCHANGED checked \/ \E n : checked' = checked \ {n},
             UNCHANGED faults \/ faults' = faults + 1,
             UNCHANGED restarts \/ restarts' = restarts + 1,
             UNCHANGED departures \/ departures' = departures + 1
      PROVE  Counters'
  BY <1>0, <1>3 DEF Counters
<1>4. ASSUME NEW h \in Handlers,
             MonitorStep(h) \/ ListTimedOut(h) \/ ReassignStep(h) \/ SwallowedError(h)
      PROVE  Counters'
  BY <1>1, <1>2, <1>3, <1>4
     DEF MonitorStep, BeginCheck, EndCheck, SwapClassification, SetRecovered, MarkOffline,
         ListTasks, ListTimedOut, ReassignStep, NextTask, CountNotes, InsertNote,
         SwallowedError, Fault, history, bounds
<1>5. ASSUME NEW n \in Nodes,
             \/ ReceiveHeartbeat(n) \/ RequestStep(n) \/ RequestError(n) \/ Register(n)
             \/ Unregister(n) \/ Die(n) \/ Revive(n) \/ GrowOlder(n)
      PROVE  Counters'
  BY <1>3, <1>5
     DEF ReceiveHeartbeat, RequestStep, ReadPrevious, ClassifyAgain, StoreOnline, SetOnline,
         RequestError, Register, Unregister, Die, Revive, GrowOlder, Fault, history, bounds
<1>6. QED
  BY <1>3, <1>4, <1>5 DEF Next, ReportResult, Choose, Assign, Restart, vars, history, bounds

LEMMA StepTyped ==
  ASSUME Typed, [Next]_vars PROVE Typed'
BY StepKnows, StepTables, StepMemory, StepCounters DEF Typed

\* The tables, the memory of the master and its threads have the values that the code
\* gives them.
THEOREM TypeCorrect == Spec => []TypeOK
<1>1. Typed => TypeOK
  BY DEF Typed, TypeOK, Tables, Memory, Counters, HandlersKnow, TaskRow, NodeRow
<1>2. QED BY <1>1, InitTyped, StepTyped, PTL DEF Spec

--------------------------------------------------------------------------------
(* What a step means for the count of notes *)

\* A handler that reassigns nothing, or stops doing so.
Quiet(h) ==
  /\ handler'[h].pc \notin {"reset", "note"} /\ \A g \in Handlers \ {h} : handler'[g] = handler[g]
  /\ UNCHANGED <<notes, resets, abandonments, restarts>>
  /\ \/ handler[h].pc \notin {"reset", "note"} /\ UNCHANGED faults
     \/ faults' = faults + 1

\* A handler that has counted the notes of its task, or failed to.
Counts(h) ==
  /\ At(h, "count")
  /\ UNCHANGED <<notes, resets, abandonments, restarts>>
  /\ \E k : /\ Becomes(h, [handler[h] EXCEPT !.pc = "reset", !.count = k])
            /\ \/ k = notes[handler[h].task] /\ UNCHANGED faults
               \/ k = 0 /\ faults' = faults + 1

\* Steps of others.
Elsewhere ==
  /\ UNCHANGED <<handler, notes, resets, abandonments, restarts>>
  /\ UNCHANGED faults \/ faults' = faults + 1

LEMMA OnlyOneMoves ==
  ASSUME HandlersKnow, NEW h \in Handlers, NEW s, Becomes(h, s)
  PROVE  handler'[h] = s /\ \A g \in Handlers \ {h} : handler'[g] = handler[g]
BY DEF HandlersKnow, Becomes

LEMMA GoesTo ==
  ASSUME HandlersKnow, NEW h \in Handlers, NEW l, GoTo(h, l)
  PROVE  handler'[h].pc = l /\ \A g \in Handlers \ {h} : handler'[g] = handler[g]
<1>1. [handler[h] EXCEPT !.pc = l].pc = l BY DEF HandlersKnow, HandlerState
<1>2. QED BY <1>1, OnlyOneMoves DEF GoTo

LEMMA TurnsToNode ==
  ASSUME HandlersKnow, NEW h \in Handlers, NEW n, NEW y,
         Becomes(h, [handler[h] EXCEPT !.pc = "swap", !.left = @ \ {n}, !.node = n, !.health = y])
  PROVE  handler'[h].pc = "swap" /\ \A g \in Handlers \ {h} : handler'[g] = handler[g]
<1>1. [handler[h] EXCEPT !.pc = "swap", !.left = handler[h].left \ {n}, !.node = n,
                         !.health = y].pc = "swap"
  BY DEF HandlersKnow, HandlerState
<1>2. QED BY <1>1, OnlyOneMoves

LEMMA StepKinds ==
  ASSUME Typed, [Next]_vars
  PROVE  \/ \E h \in Handlers : Quiet(h) \/ Counts(h) \/ Reset(h) \/ InsertNote(h)
         \/ Elsewhere \/ Restart
<1>1. ASSUME NEW h \in Handlers, MonitorStep(h) \/ ListTimedOut(h) \/ NextTask(h)
      PROVE  Quiet(h)
  <2>1. /\ UNCHANGED <<notes, resets, abandonments, faults, restarts>>
        /\ handler[h].pc \notin {"reset", "note"}
    BY <1>1 DEF MonitorStep, BeginCheck, ClassifyNode, EndCheck, SwapClassification,
       SetRecovered, MarkOffline, ListTasks, ListTimedOut, NextTask, At, table, history, bounds
  <2>2. HandlersKnow /\ handler[h] \in HandlerState /\ Sleeping.pc = "sleep"
    BY DEF Typed, HandlersKnow, Sleeping
  <2>3. /\ handler'[h].pc \notin {"reset", "note"}
        /\ \A g \in Handlers \ {h} : handler'[g] = handler[g]
    <3>1. CASE \E l \in {"sleep", "check", "recover", "mark", "list", "next"} : GoTo(h, l)
      BY <2>2, <3>1, GoesTo
    <3>2. CASE Becomes(h, Sleeping) BY <2>2, <3>2, OnlyOneMoves
    <3>3. CASE BeginCheck(h)
      <4>1. [Sleeping EXCEPT !.pc = "check", !.left = Nodes].pc = "check" BY DEF Sleeping
      <4>2. QED BY <2>2, <3>3, <4>1, OnlyOneMoves DEF BeginCheck
    <3>4. CASE ListTimedOut(h)
      <4>1. \A x : [Sleeping EXCEPT !.pc = "next", !.todo = x].pc = "next" BY DEF Sleeping
      <4>2. QED BY <2>2, <3>4, <4>1, OnlyOneMoves DEF ListTimedOut
    <3>5. CASE ClassifyNode(h) BY <2>2, <3>5, TurnsToNode DEF ClassifyNode
    <3>6. CASE ListTasks(h)
      <4>1. \A x : [handler[h] EXCEPT !.pc = "next", !.todo = x].pc = "next"
        BY <2>2 DEF HandlerState
      <4>2. QED BY <2>2, <3>6, <4>1, OnlyOneMoves DEF ListTasks
    <3>7. ASSUME NEW t, NEW x,
                 Becomes(h, [handler[h] EXCEPT !.pc = "count", !.task = t, !.todo = x])
          PROVE  /\ handler'[h].pc \notin {"reset", "note"}
                 /\ \A g \in Handlers \ {h} : handler'[g] = handler[g]
      <4>1. [handler[h] EXCEPT !.pc = "count", !.task = t, !.todo = x].pc = "count"
        BY <2>2 DEF HandlerState
      <4>2. QED BY <2>2, <3>7, <4>1, OnlyOneMoves
    <3>8. CASE SwapClassification(h)
      <4>1. \A x, y : Reaction(x, y) \in {"check", "recover", "mark"} BY DEF Reaction
      <4>2. QED BY <3>1, <3>8, <4>1 DEF SwapClassification
    <3>9. CASE NextTask(h) BY <3>1, <3>2, <3>7, <3>9 DEF NextTask
    <3>10. QED
      BY <1>1, <3>1, <3>2, <3>3, <3>4, <3>5, <3>6, <3>8, <3>9
         DEF MonitorStep, EndCheck, SetRecovered, MarkOffline
  <2>4. QED BY <2>1, <2>3 DEF Quiet
<1>2. ASSUME NEW h \in Handlers, CountNotes(h) PROVE Counts(h)
  BY <1>2 DEF CountNotes, Counts, table, history, bounds
<1>3. ASSUME NEW h \in Handlers, SwallowedError(h) PROVE Quiet(h) \/ Counts(h)
  <2>1. /\ UNCHANGED <<notes, resets, abandonments, restarts>>
        /\ faults' = faults + 1
    BY <1>3 DEF SwallowedError, Fault, table, history
  <2>2. HandlersKnow /\ handler[h] \in HandlerState BY DEF Typed, HandlersKnow
  <2>3. CASE At(h, "count") /\ Becomes(h, [handler[h] EXCEPT !.pc = "reset", !.count = 0])
    BY <2>1, <2>3 DEF Counts
  <2>4. CASE \E n \in handler[h].left :
               Becomes(h, [handler[h] EXCEPT !.pc = "swap", !.left = @ \ {n},
                                             !.node = n, !.health = "unknown"])
    BY <2>1, <2>2, <2>4, TurnsToNode DEF Quiet
  <2>5. CASE \E l \in {"check", "list", "next"} : GoTo(h, l)
    BY <2>1, <2>2, <2>5, GoesTo DEF Quiet
  <2>6. QED BY <1>3, <2>3, <2>4, <2>5 DEF SwallowedError
<1>4. ASSUME NEW n \in Nodes,
             \/ ReceiveHeartbeat(n) \/ RequestStep(n) \/ RequestError(n) \/ Register(n)
             \/ Unregister(n) \/ Die(n) \/ Revive(n) \/ GrowOlder(n)
      PROVE  Elsewhere
  BY <1>4
     DEF ReceiveHeartbeat, RequestStep, ReadPrevious, ClassifyAgain, StoreOnline, SetOnline,
         RequestError, Register, Unregister, Die, Revive, GrowOlder, Fault, Elsewhere, table,
         history, bounds
<1>5. QED
  BY <1>1, <1>2, <1>3, <1>4
     DEF Next, ReassignStep, ReportResult, Choose, Assign, vars, table, history, bounds, Elsewhere

\* The handlers that reset or gave up t and have a note to write, and those that will reset t.
Noting(t) == {h \in Handlers : At(h, "note") /\ handler[h].task = t}
Resetting(t) == {h \in Handlers : /\ At(h, "reset") /\ handler[h].task = t
                                  /\ ~LimitReached(handler[h].count)}

LEMMA HandlersFinite ==
  /\ Cardinality(Handlers) \in Nat /\ Cardinality(Handlers) > 0
  /\ \A S \in SUBSET Handlers : /\ IsFiniteSet(S) /\ Cardinality(S) \in Nat
                                /\ Cardinality(S) <= Cardinality(Handlers)
                                /\ \A T \in SUBSET S : Cardinality(T) <= Cardinality(S)
<1>1. IsFiniteSet(Handlers) /\ Handlers # {} BY FailoverAssumption
<1>2. Cardinality(Handlers) \in Nat BY <1>1, FS_CardinalityType
<1>3. Cardinality(Handlers) # 0 BY <1>1, FS_EmptySet
<1>4. ASSUME NEW S \in SUBSET Handlers
      PROVE  /\ IsFiniteSet(S) /\ Cardinality(S) \in Nat /\ Cardinality(S) <= Cardinality(Handlers)
             /\ \A T \in SUBSET S : Cardinality(T) <= Cardinality(S)
  BY <1>1, FS_Subset, FS_CardinalityType
<1>5. QED BY <1>2, <1>3, <1>4

LEMMA JoinOne ==
  ASSUME NEW S \in SUBSET Handlers, NEW h \in Handlers
  PROVE  /\ h \notin S => Cardinality(S \cup {h}) = Cardinality(S) + 1
         /\ h \in S => Cardinality(S \cup {h}) = Cardinality(S)
<1>1. CASE h \notin S BY <1>1, HandlersFinite, FS_AddElement
<1>2. CASE h \in S
  <2>1. S \cup {h} = S BY <1>2
  <2>2. QED BY <1>2, <2>1
<1>3. QED BY <1>1, <1>2

LEMMA LeaveOne ==
  ASSUME NEW S \in SUBSET Handlers, NEW h \in Handlers
  PROVE  /\ h \in S => Cardinality(S \ {h}) = Cardinality(S) - 1
         /\ h \notin S => Cardinality(S \ {h}) = Cardinality(S)
BY HandlersFinite, FS_RemoveElement

LEMMA ProductIsNumber ==
  ASSUME NEW a \in Nat, NEW b \in Nat PROVE a * b \in Nat
OBVIOUS

LEMMA LostGrows ==
  ASSUME Counters
  PROVE  /\ Lost \in Nat /\ (Counters' => Lost' \in Nat)
         /\ UNCHANGED <<faults, restarts>> => Lost' = Lost
         /\ faults' = faults + 1 /\ restarts' = restarts => Lost' = Lost + 1
         /\ faults' = faults /\ restarts' = restarts + 1 => Lost' = Lost + Cardinality(Handlers)
<1> DEFINE k == Cardinality(Handlers)
<1>1. k \in Nat /\ faults \in Nat /\ restarts \in Nat BY HandlersFinite DEF Counters
<1>2. Lost = faults + restarts * k /\ Lost' = faults' + restarts' * k
  BY DEF Lost
<1> HIDE DEF k
<1>3. restarts * k \in Nat /\ (restarts + 1) * k = restarts * k + k BY <1>1
<1>4. (restarts' = restarts + 1) => restarts' * k = restarts * k + k BY <1>3
<1>5. (restarts' = restarts) => restarts' * k = restarts * k OBVIOUS
<1> DEFINE l == restarts * k  m == restarts' * k
<1>6. l \in Nat /\ Lost = faults + l /\ Lost' = faults' + m
  BY <1>2, <1>3
<1>7. /\ (restarts' = restarts + 1) => m = l + k
      /\ (restarts' = restarts) => m = l
  BY <1>4, <1>5
<1> HIDE DEF l, m
<1>8. Counters' => Lost' \in Nat
  <2> SUFFICES ASSUME faults' \in Nat, restarts' \in Nat PROVE Lost' \in Nat
    BY DEF Counters
  <2>1. restarts' * k \in Nat BY <1>1, ProductIsNumber
  <2>2. QED BY <1>2, <2>1
<1>9. QED BY <1>1, <1>6, <1>7, <1>8 DEF k

\* What each kind of step does to the two sets.
LEMMA QuietSets ==
  ASSUME NEW h \in Handlers, Quiet(h), NEW t
  PROVE  Noting(t)' = Noting(t) \ {h} /\ Resetting(t)' = Resetting(t) \ {h}
BY DEF Quiet, Noting, Resetting, At

LEMMA CountsSets ==
  ASSUME HandlersKnow, faults \in Nat, NEW h \in Handlers, Counts(h), NEW t
  PROVE  /\ Noting(t)' = Noting(t) /\ h \notin Noting(t) /\ h \notin Resetting(t)
         /\ Resetting(t)' \in {Resetting(t), Resetting(t) \cup {h}}
         /\ handler[h].task # t => Resetting(t)' = Resetting(t)
         /\ UNCHANGED faults /\ LimitReached(notes[t]) => Resetting(t)' = Resetting(t)
<1>1. PICK k : /\ Becomes(h, [handler[h] EXCEPT !.pc = "reset", !.count = k])
               /\ \/ k = notes[handler[h].task] /\ UNCHANGED faults
                  \/ k = 0 /\ faults' = faults + 1
  BY DEF Counts
<1>2. /\ handler[h] \in HandlerState /\ handler[h].pc = "count"
      /\ handler' = [handler EXCEPT ![h] = [handler[h] EXCEPT !.pc = "reset", !.count = k]]
  BY <1>1 DEF HandlersKnow, Counts, At, Becomes
<1>3. /\ handler'[h].pc = "reset" /\ handler'[h].task = handler[h].task /\ handler'[h].count = k
      /\ \A g \in Handlers \ {h} : handler'[g] = handler[g]
  BY <1>2 DEF HandlersKnow, HandlerState
<1>4. /\ Noting(t)' = Noting(t) /\ h \notin Noting(t) /\ h \notin Resetting(t)
  BY <1>2, <1>3 DEF Noting, Resetting, At
<1>5. Resetting(t)' = IF handler[h].task = t /\ ~LimitReached(k)
                      THEN Resetting(t) \cup {h} ELSE Resetting(t)
  BY <1>2, <1>3 DEF Resetting, At
<1>6. QED BY <1>1, <1>4, <1>5

LEMMA ResetSets ==
  ASSUME HandlersKnow, NEW h \in Handlers, Reset(h), NEW t
  PROVE  /\ Noting(t)' = (IF handler[h].task = t THEN Noting(t) \cup {h} ELSE Noting(t))
         /\ Resetting(t)' = Resetting(t) \ {h} /\ h \notin Noting(t)
         /\ h \in Resetting(t) <=> handler[h].task = t /\ ~LimitReached(handler[h].count)
<1>1. /\ handler[h] \in HandlerState /\ handler[h].pc = "reset"
      /\ handler' = [handler EXCEPT ![h] = [handler[h] EXCEPT !.pc = "note"]]
  BY DEF HandlersKnow, Reset, At, GoTo, Becomes
<1>2. /\ handler'[h].pc = "note" /\ handler'[h].task = handler[h].task
      /\ \A g \in Handlers \ {h} : handler'[g] = handler[g]
  BY <1>1 DEF HandlersKnow, HandlerState
<1>3. QED BY <1>1, <1>2 DEF Noting, Resetting, At

LEMMA InsertSets ==
  ASSUME HandlersKnow, NEW h \in Handlers, InsertNote(h), NEW t
  PROVE  /\ Noting(t)' = Noting(t) \ {h}
         /\ h \in Noting(t) <=> handler[h].task = t
         /\ Resetting(t)' = Resetting(t)
<1>1. handler[h].pc = "note" /\ handler'[h].pc = "next"
      /\ \A g \in Handlers \ {h} : handler'[g] = handler[g]
  BY GoesTo DEF InsertNote, At
<1>2. QED BY <1>1 DEF Noting, Resetting, At

LEMMA ElsewhereSets ==
  ASSUME UNCHANGED handler, NEW t
  PROVE  Noting(t)' = Noting(t) /\ Resetting(t)' = Resetting(t)
BY DEF Noting, Resetting, At

LEMMA RestartSets ==
  ASSUME Restart, NEW t PROVE Noting(t)' = {} /\ Resetting(t)' = {}
BY DEF Restart, Noting, Resetting, At, Sleeping

\* Facts that the two step lemmas share.
LEMMA CountingFacts ==
  ASSUME Typed, [Next]_vars, NEW t \in Tasks
  PROVE  /\ HandlersKnow /\ HandlersKnow' /\ faults \in Nat /\ Counters /\ MaxReassignments \in Nat
         /\ notes \in [Tasks -> Nat] /\ resets \in [Tasks -> Nat] /\ abandonments \in [Tasks -> Nat]
         /\ Noting(t) \in SUBSET Handlers /\ Noting(t)' \in SUBSET Handlers
         /\ Resetting(t) \in SUBSET Handlers /\ Resetting(t)' \in SUBSET Handlers
         /\ Cardinality(Noting(t)) \in Nat /\ Cardinality(Noting(t)') \in Nat
         /\ Cardinality(Resetting(t)) \in Nat /\ Cardinality(Resetting(t)') \in Nat
<1>1. /\ Noting(t) \in SUBSET Handlers /\ Noting(t)' \in SUBSET Handlers
      /\ Resetting(t) \in SUBSET Handlers /\ Resetting(t)' \in SUBSET Handlers
  BY DEF Noting, Resetting
<1>2. QED
  BY <1>1, StepTyped, FailoverAssumption, HandlersFinite DEF Typed, Tables, Counters

LEMMA ResetTask ==
  ASSUME HandlersKnow, resets \in [Tasks -> Nat], abandonments \in [Tasks -> Nat],
         NEW h \in Handlers, Reset(h), NEW t \in Tasks
  PROVE  /\ UNCHANGED <<notes, faults, restarts>>
         /\ handler[h].task # t => resets'[t] = resets[t] /\ abandonments'[t] = abandonments[t]
         /\ handler[h].task = t =>
              IF LimitReached(handler[h].count)
              THEN resets'[t] = resets[t] /\ abandonments'[t] = abandonments[t] + 1
              ELSE resets'[t] = resets[t] + 1 /\ abandonments'[t] = abandonments[t]
BY DEF Reset, bounds

LEMMA InsertTask ==
  ASSUME notes \in [Tasks -> Nat], NEW h \in Handlers, InsertNote(h), NEW t \in Tasks
  PROVE  /\ UNCHANGED <<resets, abandonments, faults, restarts>>
         /\ notes'[t] = notes[t] + (IF handler[h].task = t THEN 1 ELSE 0)
BY DEF InsertNote, history, bounds

--------------------------------------------------------------------------------
(* No task is given up too early *)

\* As long as a task was not given up, each of its notes stands for a reset, and so does
\* each note that a handler has counted.
EarnedBy(t) ==
  /\ abandonments[t] > 0 => resets[t] >= MaxReassignments
  /\ abandonments[t] = 0 =>
       /\ notes[t] + Cardinality(Noting(t)) <= resets[t]
       /\ \A h \in Handlers : At(h, "reset") /\ handler[h].task = t
                                => handler[h].count <= resets[t]

Earned == \A t \in Tasks : EarnedBy(t)

\* A step that takes no note and lets no handler count.
LEMMA EarnedStays ==
  ASSUME Typed, [Next]_vars, NEW t \in Tasks, EarnedBy(t),
         notes'[t] = notes[t], resets'[t] = resets[t], abandonments'[t] = abandonments[t],
         Noting(t)' \subseteq Noting(t),
         \A h \in Handlers : handler'[h] = handler[h] \/ handler'[h].pc # "reset"
  PROVE  EarnedBy(t)'
<1>1. Cardinality(Noting(t)') <= Cardinality(Noting(t)) BY CountingFacts, HandlersFinite
<1>2. abandonments[t] = 0 => notes'[t] + Cardinality(Noting(t)') <= resets'[t]
  <2> DEFINE p == Cardinality(Noting(t))  r == Cardinality(Noting(t)')
  <2>1. p \in Nat /\ r \in Nat /\ r <= p /\ notes[t] \in Nat /\ resets[t] \in Nat
    BY <1>1, CountingFacts
  <2>2. abandonments[t] = 0 => notes[t] + p <= resets[t] BY DEF EarnedBy
  <2> HIDE DEF p, r
  <2>3. abandonments[t] = 0 => notes[t] + r <= resets[t] BY <2>1, <2>2
  <2>4. QED BY <2>3 DEF r
<1>3. QED BY <1>2 DEF EarnedBy, At

LEMMA EarnedStep ==
  ASSUME Typed, [Next]_vars, Earned PROVE Earned'
<1> SUFFICES ASSUME NEW t \in Tasks PROVE EarnedBy(t)'
  BY DEF Earned
<1> DEFINE p == Cardinality(Noting(t))  r == Cardinality(Noting(t)')
<1>0. /\ HandlersKnow /\ EarnedBy(t) /\ MaxReassignments \in Nat /\ faults \in Nat
      /\ p \in Nat /\ r \in Nat
      /\ notes[t] \in Nat /\ resets[t] \in Nat /\ abandonments[t] \in Nat
  BY CountingFacts DEF Earned
<1>1. ASSUME NEW h \in Handlers, Quiet(h) PROVE EarnedBy(t)'
  <2>1. Noting(t)' \subseteq Noting(t) BY <1>1, QuietSets
  <2>2. \A g \in Handlers : handler'[g] = handler[g] \/ handler'[g].pc # "reset"
    BY <1>1 DEF Quiet
  <2>3. QED BY <1>0, <1>1, <2>1, <2>2, EarnedStays DEF Quiet
<1>2. ASSUME NEW h \in Handlers, Counts(h) PROVE EarnedBy(t)'
  <2>1. Noting(t)' = Noting(t) /\ UNCHANGED <<notes, resets, abandonments>>
    BY <1>0, <1>2, CountsSets DEF Counts
  <2>2. PICK k : /\ Becomes(h, [handler[h] EXCEPT !.pc = "reset", !.count = k])
                 /\ k = notes[handler[h].task] \/ k = 0
    BY <1>2 DEF Counts
  <2>3. /\ handler'[h].task = handler[h].task /\ handler'[h].count = k
        /\ \A g \in Handlers \ {h} : handler'[g] = handler[g]
    BY <1>0, <2>2 DEF HandlersKnow, HandlerState, Becomes
  <2>4. abandonments[t] = 0 /\ handler[h].task = t => k <= resets[t]
    <3> SUFFICES ASSUME abandonments[t] = 0, handler[h].task = t PROVE k <= resets[t]
      OBVIOUS
    <3>1. notes[t] + p <= resets[t] BY <1>0 DEF EarnedBy
    <3> HIDE DEF p, r
    <3>2. notes[t] <= resets[t] BY <1>0, <3>1
    <3>3. QED BY <1>0, <2>2, <3>2
  <2>5. QED BY <1>0, <2>1, <2>3, <2>4 DEF EarnedBy, At
<1>3. ASSUME NEW h \in Handlers, Reset(h) PROVE EarnedBy(t)'
  <2>1. /\ notes'[t] = notes[t]
        /\ handler[h].task # t => resets'[t] = resets[t] /\ abandonments'[t] = abandonments[t]
        /\ handler[h].task = t =>
             IF LimitReached(handler[h].count)
             THEN resets'[t] = resets[t] /\ abandonments'[t] = abandonments[t] + 1
             ELSE resets'[t] = resets[t] + 1 /\ abandonments'[t] = abandonments[t]
    BY <1>3, CountingFacts, ResetTask
  <2>2. \A g \in Handlers : handler'[g] = handler[g] \/ handler'[g].pc # "reset"
    BY <1>0, <1>3, GoesTo DEF Reset
  <2>3. CASE handler[h].task # t
    <3>1. Noting(t)' \subseteq Noting(t) BY <1>0, <1>3, <2>3, ResetSets
    <3>2. QED BY <1>0, <2>1, <2>2, <2>3, <3>1, EarnedStays
  <2>4. CASE handler[h].task = t /\ LimitReached(handler[h].count)
    <3>1. resets'[t] = resets[t] /\ abandonments'[t] = abandonments[t] + 1 BY <2>1, <2>4
    <3>2. abandonments[t] = 0 => handler[h].count <= resets[t]
      BY <1>0, <1>3, <2>4 DEF EarnedBy, Reset
    <3>3. handler[h].count \in Nat BY <1>0 DEF HandlersKnow, HandlerState
    <3>4. resets[t] >= MaxReassignments
      BY <1>0, <2>4, <3>2, <3>3 DEF EarnedBy, LimitReached
    <3>5. QED BY <1>0, <3>1, <3>4 DEF EarnedBy
  <2>5. CASE handler[h].task = t /\ ~LimitReached(handler[h].count)
    <3>1. resets'[t] = resets[t] + 1 /\ abandonments'[t] = abandonments[t] BY <2>1, <2>5
    <3>2. r = p + 1 BY <1>0, <1>3, <2>5, ResetSets, JoinOne, CountingFacts
    <3>3. abandonments[t] = 0 =>
            /\ notes[t] + p <= resets[t]
            /\ \A g \in Handlers : At(g, "reset") /\ handler[g].task = t
                                     => handler[g].count <= resets[t]
      BY <1>0 DEF EarnedBy
    <3>4. \A g \in Handlers : handler[g].count \in Nat BY <1>0 DEF HandlersKnow, HandlerState
    <3>5. abandonments[t] > 0 => resets[t] >= MaxReassignments BY <1>0 DEF EarnedBy
    <3> HIDE DEF p
    <3>6. abandonments[t] = 0 => notes'[t] + r <= resets'[t]
      <4> HIDE DEF r
      <4>1. QED BY <1>0, <2>1, <3>1, <3>2, <3>3
    <3>7. abandonments[t] = 0 =>
            \A g \in Handlers : At(g, "reset")' /\ handler'[g].task = t
                                  => handler'[g].count <= resets'[t]
      BY <1>0, <2>2, <3>1, <3>3, <3>4 DEF At
    <3>8. abandonments[t] > 0 => resets'[t] >= MaxReassignments BY <1>0, <3>1, <3>5
    <3>9. QED BY <3>1, <3>6, <3>7, <3>8 DEF EarnedBy
  <2>6. QED BY <2>3, <2>4, <2>5
<1>4. ASSUME NEW h \in Handlers, InsertNote(h) PROVE EarnedBy(t)'
  <2>1. /\ UNCHANGED <<resets, abandonments>>
        /\ notes'[t] = notes[t] + (IF handler[h].task = t THEN 1 ELSE 0)
    BY <1>4, CountingFacts, InsertTask
  <2>2. \A g \in Handlers : handler'[g] = handler[g] \/ handler'[g].pc # "reset"
    BY <1>0, <1>4, GoesTo DEF InsertNote
  <2>3. Noting(t)' = Noting(t) \ {h} /\ (h \in Noting(t) <=> handler[h].task = t)
    BY <1>0, <1>4, InsertSets
  <2>4. CASE handler[h].task # t
    <3>1. notes'[t] = notes[t] BY <1>0, <2>1, <2>4
    <3>2. QED BY <1>0, <2>1, <2>2, <2>3, <3>1, EarnedStays
  <2>5. CASE handler[h].task = t
    <3>1. r = p - 1 BY <2>3, <2>5, LeaveOne, CountingFacts
    <3>2. notes'[t] = notes[t] + 1 BY <2>1, <2>5
    <3>3. abandonments[t] = 0 => notes[t] + p <= resets[t] BY <1>0 DEF EarnedBy
    <3>4. abandonments[t] = 0 => notes'[t] + r <= resets[t]
      <4> HIDE DEF p, r
      <4>1. QED BY <1>0, <3>1, <3>2, <3>3
    <3>5. QED BY <1>0, <2>1, <2>2, <3>4 DEF EarnedBy, At
  <2>6. QED BY <2>4, <2>5
<1>5. CASE Elsewhere
  BY <1>0, <1>5, ElsewhereSets, EarnedStays DEF Elsewhere
<1>6. CASE Restart
  <2>1. Noting(t)' \subseteq Noting(t) BY <1>6, RestartSets
  <2>2. \A g \in Handlers : handler'[g].pc # "reset" BY <1>6 DEF Restart, Sleeping
  <2>3. UNCHANGED <<notes, resets, abandonments>> BY <1>6 DEF Restart, table, history
  <2>4. QED BY <1>0, <2>1, <2>2, <2>3, EarnedStays
<1>7. QED BY <1>1, <1>2, <1>3, <1>4, <1>5, <1>6, StepKinds

\* A task is given up only after it was put back MAX_REASSIGNMENTS times, although notes of
\* abandonments count like the others and handlers overlap, fail and are restarted.
THEOREM AbandonedLate == Spec => []AbandonedOnlyAfterMax
<1>1. Init => Earned
  <2> SUFFICES ASSUME Init, NEW t \in Tasks PROVE EarnedBy(t)
    BY DEF Earned
  <2>1. Noting(t) = {} BY DEF Init, Noting, At, Sleeping
  <2>2. Cardinality(Noting(t)) = 0 BY <2>1, FS_EmptySet
  <2>3. \A h \in Handlers : ~At(h, "reset") BY DEF Init, At, Sleeping
  <2>4. QED BY <2>2, <2>3 DEF Init, EarnedBy
<1>2. Earned => AbandonedOnlyAfterMax BY DEF Earned, EarnedBy, AbandonedOnlyAfterMax
<1>3. QED BY <1>1, <1>2, InitTyped, StepTyped, EarnedStep, PTL DEF Spec

--------------------------------------------------------------------------------
(* No task is put back too often *)

\* Each reset has its note, written or to be written, or it is lost; and the handlers that
\* have found the limit not reached are counted as resets already.
CountedFor(t) ==
  /\ resets[t] <= notes[t] + Cardinality(Noting(t)) + Lost
  /\ resets[t] + Cardinality(Resetting(t)) <= MaxReassignments + Cardinality(Handlers) - 1 + Lost

Counted == \A t \in Tasks : CountedFor(t)

\* f resets, n notes, p notes to be written, q resets to come and l losses become g, o, r, s
\* and m, with k handlers and x as the limit.
LEMMA CountedArithmetic ==
  ASSUME NEW f \in Nat, NEW n \in Nat, NEW p \in Nat, NEW q \in Nat, NEW l \in Nat,
         NEW g \in Nat, NEW o \in Nat, NEW r \in Nat, NEW s \in Nat, NEW m \in Nat,
         NEW k \in Nat, NEW x \in Nat,
         f <= n + p + l, f + q <= x + k - 1 + l, k > 0,
         \/ g = f /\ o + r + m >= n + p + l /\ s + l <= q + m /\ l <= m    \* nothing new, or a loss
         \/ g = f /\ o = n /\ r = p /\ m = l /\ s = q + 1 /\ n < x /\ p + s <= k  \* counted
         \/ g = f + 1 /\ o = n /\ r = p + 1 /\ m = l /\ s = q - 1         \* reset
         \/ g = f /\ m = l + k /\ r = 0 /\ s = 0 /\ o = n /\ p <= k       \* restart
  PROVE  g <= o + r + m /\ g + s <= x + k - 1 + m
OBVIOUS

LEMMA CountedStep ==
  ASSUME Typed, [Next]_vars, Counted PROVE Counted'
<1> SUFFICES ASSUME NEW t \in Tasks PROVE CountedFor(t)'
  BY DEF Counted
<1> DEFINE f == resets[t]  g == resets'[t]
           n == notes[t]   o == notes'[t]
           p == Cardinality(Noting(t))     r == Cardinality(Noting(t)')
           q == Cardinality(Resetting(t))  s == Cardinality(Resetting(t)')
           k == Cardinality(Handlers)      x == MaxReassignments
           l == Lost  m == Lost'
           Kept == g = f /\ o + r + m >= n + p + l /\ s + l <= q + m /\ l <= m
           Found == /\ g = f /\ o = n /\ r = p /\ m = l /\ s = q + 1
                    /\ n < x /\ p + s <= k
           Done == g = f + 1 /\ o = n /\ r = p + 1 /\ m = l /\ s = q - 1
           Lose == g = f /\ m = l + k /\ r = 0 /\ s = 0 /\ o = n /\ p <= k
<1>0. /\ HandlersKnow /\ Counters /\ faults \in Nat
      /\ Noting(t) \in SUBSET Handlers /\ Noting(t)' \in SUBSET Handlers
      /\ Resetting(t) \in SUBSET Handlers /\ Resetting(t)' \in SUBSET Handlers
      /\ resets \in [Tasks -> Nat] /\ abandonments \in [Tasks -> Nat] /\ notes \in [Tasks -> Nat]
  BY CountingFacts
<1>1. /\ f \in Nat /\ n \in Nat /\ p \in Nat /\ q \in Nat /\ l \in Nat /\ k \in Nat /\ x \in Nat
      /\ g \in Nat /\ o \in Nat /\ r \in Nat /\ s \in Nat /\ m \in Nat /\ k > 0 /\ p <= k
  <2>1. Tables' /\ Counters' BY StepTyped DEF Typed
  <2>2. g \in Nat /\ o \in Nat BY <2>1 DEF Tables, Counters
  <2>3. m \in Nat BY <1>0, <2>1, LostGrows
  <2>4. QED BY <1>0, <2>2, <2>3, CountingFacts, LostGrows, HandlersFinite
<1>2. /\ UNCHANGED <<faults, restarts>> => m = l
      /\ faults' = faults + 1 /\ restarts' = restarts => m = l + 1
      /\ faults' = faults /\ restarts' = restarts + 1 => m = l + k
  BY <1>0, LostGrows
<1>3. ASSUME NEW h \in Handlers, Quiet(h) PROVE Kept
  <2>1. Noting(t)' = Noting(t) \ {h} /\ Resetting(t)' = Resetting(t) \ {h} BY <1>3, QuietSets
  <2>2. g = f /\ o = n BY <1>3 DEF Quiet
  <2>3. CASE handler[h].pc \notin {"reset", "note"} /\ UNCHANGED faults
    <3>1. h \notin Noting(t) /\ h \notin Resetting(t) BY <2>3 DEF Noting, Resetting, At
    <3>2. r = p /\ s = q BY <1>0, <2>1, <3>1, LeaveOne
    <3>3. m = l BY <1>2, <1>3, <2>3 DEF Quiet
    <3> HIDE DEF f, g, n, o, p, r, q, s, l, m
    <3>4. QED BY <1>1, <2>2, <3>2, <3>3
  <2>4. CASE faults' = faults + 1
    <3>1. (r = p \/ r = p - 1) /\ (s = q \/ s = q - 1) BY <1>0, <2>1, LeaveOne
    <3>2. m = l + 1 BY <1>2, <1>3, <2>4 DEF Quiet
    <3> HIDE DEF f, g, n, o, p, r, q, s, l, m
    <3>3. QED BY <1>1, <2>2, <3>1, <3>2
  <2>5. QED BY <1>3, <2>3, <2>4 DEF Quiet
<1>4. ASSUME NEW h \in Handlers, Counts(h) PROVE Kept \/ Found
  <2>1. /\ Noting(t)' = Noting(t) /\ h \notin Noting(t) /\ h \notin Resetting(t)
        /\ Resetting(t)' \in {Resetting(t), Resetting(t) \cup {h}}
        /\ UNCHANGED faults /\ LimitReached(notes[t]) => Resetting(t)' = Resetting(t)
    BY <1>0, <1>4, CountsSets
  <2>2. g = f /\ o = n /\ r = p BY <1>4, <2>1 DEF Counts
  <2>3. CASE Resetting(t)' = Resetting(t)
    <3>1. m = l \/ m = l + 1 BY <1>2, <1>4 DEF Counts
    <3>2. s = q BY <2>3
    <3> HIDE DEF f, g, n, o, p, r, q, s, l, m
    <3>3. Kept BY <1>1, <2>2, <3>1, <3>2
    <3>4. QED BY <3>3
  <2>4. CASE Resetting(t)' = Resetting(t) \cup {h} /\ faults' = faults + 1
    <3>1. m = l + 1 BY <1>2, <1>4, <2>4 DEF Counts
    <3>2. s = q + 1 BY <1>0, <2>1, <2>4, JoinOne
    <3> HIDE DEF f, g, n, o, p, r, q, s, l, m
    <3>3. Kept BY <1>1, <2>2, <3>1, <3>2
    <3>4. QED BY <3>3
  <2>5. CASE Resetting(t)' = Resetting(t) \cup {h} /\ UNCHANGED faults
    <3>1. m = l BY <1>2, <1>4, <2>5 DEF Counts
    <3>2. s = q + 1 BY <1>0, <2>1, <2>5, JoinOne
    <3>3. ~LimitReached(notes[t]) BY <2>1, <2>5
    <3>4. n < x BY <1>1, <3>3 DEF LimitReached
    <3>5. p + s <= k
      <4>1. Noting(t) \cap Resetting(t)' = {} BY <2>1, <2>5 DEF Noting, Resetting, At
      <4>2. IsFiniteSet(Noting(t)) /\ IsFiniteSet(Resetting(t)') BY <1>0, HandlersFinite
      <4>3. Cardinality(Noting(t) \cup Resetting(t)') = p + s - Cardinality({})
        BY <4>1, <4>2, FS_Union
      <4>4. Cardinality({}) = 0 BY FS_EmptySet
      <4>5. Noting(t) \cup Resetting(t)' \in SUBSET Handlers BY <1>0
      <4>6. Cardinality(Noting(t) \cup Resetting(t)') <= k BY <4>5, HandlersFinite
      <4>7. QED BY <1>1, <4>3, <4>4, <4>6
    <3>6. Found BY <2>2, <3>1, <3>2, <3>4, <3>5
    <3>7. QED BY <3>6
  <2>6. QED BY <1>4, <2>1, <2>3, <2>4, <2>5 DEF Counts
<1>5. ASSUME NEW h \in Handlers, Reset(h) PROVE Kept \/ Done
  <2>1. /\ UNCHANGED <<notes, faults, restarts>>
        /\ handler[h].task # t => g = f
        /\ handler[h].task = t => g = IF LimitReached(handler[h].count) THEN f ELSE f + 1
    BY <1>0, <1>5, ResetTask
  <2>2. o = n /\ m = l BY <1>2, <2>1
  <2>3. /\ Noting(t)' = (IF handler[h].task = t THEN Noting(t) \cup {h} ELSE Noting(t))
        /\ Resetting(t)' = Resetting(t) \ {h} /\ h \notin Noting(t)
        /\ h \in Resetting(t) <=> handler[h].task = t /\ ~LimitReached(handler[h].count)
    BY <1>0, <1>5, ResetSets
  <2>4. CASE h \in Resetting(t)
    <3>1. r = p + 1 /\ s = q - 1 BY <1>0, <2>3, <2>4, JoinOne, LeaveOne
    <3>2. g = f + 1 BY <2>1, <2>3, <2>4
    <3>3. Done BY <2>2, <3>1, <3>2
    <3>4. QED BY <3>3
  <2>5. CASE h \notin Resetting(t)
    <3>1. s = q /\ (r = p \/ r = p + 1) BY <1>0, <2>3, <2>5, JoinOne, LeaveOne
    <3>2. g = f BY <2>1, <2>3, <2>5
    <3> HIDE DEF f, g, n, o, p, r, q, s, l, m
    <3>3. Kept BY <1>1, <2>2, <3>1, <3>2
    <3>4. QED BY <3>3
  <2>6. QED BY <2>4, <2>5
<1>6. ASSUME NEW h \in Handlers, InsertNote(h) PROVE Kept
  <2>1. g = f /\ m = l /\ o = n + (IF handler[h].task = t THEN 1 ELSE 0)
    BY <1>0, <1>2, <1>6, InsertTask
  <2>2. /\ Noting(t)' = Noting(t) \ {h}
        /\ h \in Noting(t) <=> handler[h].task = t
        /\ Resetting(t)' = Resetting(t)
    BY <1>0, <1>6, InsertSets
  <2>3. s = q /\ r = p - (IF handler[h].task = t THEN 1 ELSE 0)
    BY <1>0, <1>1, <2>2, LeaveOne
  <2> HIDE DEF f, g, n, o, p, r, q, s, l, m
  <2>4. QED BY <1>1, <2>1, <2>3
<1>7. ASSUME Kept \/ Found \/ Done \/ Lose PROVE CountedFor(t)'
  <2>1. f <= n + p + l /\ f + q <= x + k - 1 + l BY DEF Counted, CountedFor
  <2>2. Kept \/ Found \/ Done \/ Lose BY <1>7
  <2> HIDE DEF f, g, n, o, p, r, q, s, k, l, m, x
  <2>3. g <= o + r + m /\ g + s <= x + k - 1 + m
    BY <1>1, <2>1, <2>2, CountedArithmetic
  <2>4. QED BY <2>3 DEF CountedFor, f, g, n, o, p, r, q, s, k, l, m, x
<1>8. CASE Elsewhere
  <2>1. g = f /\ o = n /\ r = p /\ s = q BY <1>8, ElsewhereSets DEF Elsewhere
  <2>2. m = l \/ m = l + 1 BY <1>2, <1>8 DEF Elsewhere
  <2> HIDE DEF f, g, n, o, p, r, q, s, l, m
  <2>3. Kept BY <1>1, <2>1, <2>2
  <2>4. QED BY <1>7, <2>3
<1>9. CASE Restart
  <2>1. g = f /\ o = n /\ m = l + k BY <1>2, <1>9 DEF Restart, table, history
  <2>2. r = 0 /\ s = 0 BY <1>9, RestartSets, FS_EmptySet
  <2>3. Lose BY <1>1, <2>1, <2>2
  <2>4. QED BY <1>7, <2>3
<1>10. QED BY <1>3, <1>4, <1>5, <1>6, <1>7, <1>8, <1>9, StepKinds

\* A task is put back no more than MAX_REASSIGNMENTS times, the handlers that overlap and the
\* notes that errors and restarts cost set aside.
THEOREM ReassignmentsLimited == Spec => []ReassignmentsBounded
<1>1. Init => Counted
  <2> SUFFICES ASSUME Init, NEW t \in Tasks PROVE CountedFor(t)
    BY DEF Counted
  <2>1. Noting(t) = {} /\ Resetting(t) = {} BY DEF Init, Noting, Resetting, At, Sleeping
  <2>2. Cardinality(Noting(t)) = 0 /\ Cardinality(Resetting(t)) = 0 BY <2>1, FS_EmptySet
  <2>3. resets[t] = 0 /\ notes[t] = 0 BY DEF Init
  <2>4. Lost \in Nat BY InitTyped, LostGrows DEF Typed
  <2>5. QED BY <2>2, <2>3, <2>4, HandlersFinite, FailoverAssumption DEF CountedFor
<1>2. Typed /\ Counted => ReassignmentsBounded
  <2> SUFFICES ASSUME Typed, Counted, NEW t \in Tasks
      PROVE  resets[t] <= MaxReassignments + Cardinality(Handlers) - 1 + Lost
    BY DEF ReassignmentsBounded
  <2> DEFINE q == Cardinality(Resetting(t))
  <2>1. q \in Nat BY HandlersFinite DEF Resetting
  <2>2. resets[t] + q <= MaxReassignments + Cardinality(Handlers) - 1 + Lost
    BY DEF Counted, CountedFor
  <2>3. resets[t] \in Nat /\ Lost \in Nat BY LostGrows DEF Typed, Counters
  <2> HIDE DEF q
  <2>4. QED BY <2>1, <2>2, <2>3, HandlersFinite, FailoverAssumption
<1>3. QED BY <1>1, <1>2, InitTyped, StepTyped, CountedStep, PTL DEF Spec

================================================================================
