-------------------------- MODULE ClusterRegistryProofs --------------------------
(***************************************************************************)
(* What holds of the master's registry for any number of nodes, tasks,     *)
(* dispatchers, capabilities and restarts: its types, and that no worker   *)
(* gets a task that it never offered to do (NeedsWereOffered).             *)
(*                                                                         *)
(* The dispatcher compares a task with what is registered of a node, and   *)
(* calls the node later, when the node may have been registered anew,      *)
(* unregistered, or restarted with other capabilities.  RegistryInv says   *)
(* what survives: what is registered was offered (Known), what was offered *)
(* once stays so (OffersGrow), and so a choice that was made stays as good *)
(* as it was (DispatchFits), as does the work of a node, which it repeats  *)
(* in its reports (WorkFits).                                              *)
(***************************************************************************)
EXTENDS ClusterRegistry, FiniteSetTheorems, TLAPS

\* What is registered of a node is what some start of its worker offered.
Known == \A n \in Nodes : capable[n] = General \/ capable[n] \in worker[n].offered

\* What the locals s of a dispatcher satisfy, by where it is.
StateFits(s) ==
  /\ s.pc # "idle" => s.task \in Tasks
  /\ s.pc \notin {"idle", "choose"} => s.node \in Nodes
  /\ s.pc = "call" => EverOffered(s.node, s.task)

DispatchFits == \A d \in Dispatchers : StateFits(dispatch[d])

WorkFits == \A n \in Nodes : \A t \in worker[n].tasks : EverOffered(n, t)

RegistryInv == TypeOK /\ Known /\ DispatchFits /\ WorkFits /\ NeedsWereOffered

\* The part that is about the registry and the part that is about the workers.
Typed ==
  /\ row \in [Nodes -> [status : {"absent", "online", "offline"}, fresh : BOOLEAN]]
  /\ active \in [Nodes -> SUBSET Tasks]
  /\ quarantine \in [Nodes -> 0..QUARANTINE]
  /\ failures \in [Nodes -> 0..THRESHOLD]
  /\ results \subseteq Nodes \X Tasks

WorkersTyped ==
  worker \in [Nodes -> [tasks : SUBSET Tasks, told : SUBSET SUBSET Tasks,
                        offered : SUBSET Offers]]

LEMMA TypeParts ==
  TypeOK <=> /\ Typed /\ WorkersTyped /\ capable \in [Nodes -> Offers \cup {General}]
             /\ dispatch \in [Dispatchers -> DispatchState]
BY DEF TypeOK, Typed, WorkersTyped

--------------------------------------------------------------------------------
\* Types of the registry's rows, lists and counters

LEMMA TypedDispatch ==
  ASSUME RegistryInv, NEW d \in Dispatchers, DispatchStep(d)
  PROVE  Typed'
<1>0. /\ Typed /\ dispatch[d] \in DispatchState /\ StateFits(dispatch[d])
      /\ THRESHOLD \in Nat /\ QUARANTINE \in Nat
  BY TypeParts, RegistryAssumption DEF RegistryInv, DispatchFits
<1>1. CASE CountFailure(d)
  BY <1>0, <1>1 DEF CountFailure, StateFits, Typed, registry, outside
<1>2. CASE Quarantine(d)
  BY <1>0, <1>2 DEF Quarantine, StateFits, Typed, outside
<1>3. CASE ResetFailures(d)
  BY <1>0, <1>3 DEF ResetFailures, StateFits, Typed, registry, outside
<1>4. CASE IncrementActive(d)
  <2>1. dispatch[d].node \in Nodes /\ dispatch[d].task \in Tasks
    BY <1>0, <1>4 DEF IncrementActive, StateFits
  <2>2. QED BY <1>0, <1>4, <2>1 DEF IncrementActive, Typed, outside
<1>5. CASE (\E t \in Tasks : TakeSnapshot(d, t)) \/ ChooseNode(d) \/ WorkerAccepts(d) \/ WorkerFails(d)
  BY <1>0, <1>5 DEF TakeSnapshot, ChooseNode, WorkerAccepts, WorkerFails, Typed, registry, outside
<1>6. QED BY <1>1, <1>2, <1>3, <1>4, <1>5 DEF DispatchStep

\* What happens to a node between the dispatchers' steps.
NodeStep(n) ==
  \/ \E offers \in Offers : Register(n, offers) \/ RestartWorker(n, offers)
  \/ \E tasks \in SUBSET Tasks : ReceiveHeartbeat(n, tasks) \/ StoreTasks(n, tasks)
  \/ Unregister(n) \/ MarkOffline(n) \/ ClearTasks(n) \/ GrowSilent(n) \/ LiftQuarantine(n)
  \/ \E t \in Tasks : FinishTask(n, t) \/ DecrementActive(n, t)

LEMMA TypedNode ==
  ASSUME RegistryInv, NEW n \in Nodes, NodeStep(n)
  PROVE  Typed'
<1>0. Typed /\ QUARANTINE \in Nat
  BY TypeParts, RegistryAssumption DEF RegistryInv
<1>1. CASE \E offers \in Offers : Register(n, offers) \/ RestartWorker(n, offers)
  BY <1>0, <1>1 DEF Register, RestartWorker, Typed, registry, outside
<1>2. CASE \E tasks \in SUBSET Tasks : ReceiveHeartbeat(n, tasks) \/ StoreTasks(n, tasks)
  <2>1. ASSUME NEW tasks, ReceiveHeartbeat(n, tasks) PROVE Typed'
    BY <1>0, <2>1 DEF ReceiveHeartbeat, Typed, registry, outside
  <2>2. ASSUME NEW tasks \in SUBSET Tasks, StoreTasks(n, tasks) PROVE Typed'
    BY <1>0, <2>2 DEF StoreTasks, Typed, outside
  <2>3. QED BY <1>2, <2>1, <2>2
<1>3. CASE Unregister(n) BY <1>0, <1>3 DEF Unregister, Typed, outside
<1>4. CASE MarkOffline(n) \/ GrowSilent(n)
  BY <1>0, <1>4 DEF MarkOffline, GrowSilent, Typed, registry, outside
<1>5. CASE ClearTasks(n) BY <1>0, <1>5 DEF ClearTasks, Typed, outside
<1>6. CASE LiftQuarantine(n) BY <1>0, <1>6 DEF LiftQuarantine, Typed, outside
<1>7. CASE \E t \in Tasks : FinishTask(n, t) \/ DecrementActive(n, t)
  BY <1>0, <1>7 DEF FinishTask, DecrementActive, Typed, registry
<1>8. QED BY <1>1, <1>2, <1>3, <1>4, <1>5, <1>6, <1>7 DEF NodeStep

LEMMA TypedWhole ==
  ASSUME RegistryInv, RestartMaster \/ Tick \/ UNCHANGED vars
  PROVE  Typed'
<1>0. Typed /\ QUARANTINE \in Nat /\ THRESHOLD \in Nat
  BY TypeParts, RegistryAssumption DEF RegistryInv
<1>1. CASE RestartMaster BY <1>0, <1>1 DEF RestartMaster, Typed
<1>2. CASE Tick BY <1>0, <1>2 DEF Tick, Typed, outside
<1>3. CASE UNCHANGED vars BY <1>0, <1>3 DEF vars, Typed, registry, outside
<1>4. QED BY <1>1, <1>2, <1>3

--------------------------------------------------------------------------------
\* The workers: what they offered and what they got

\* Nothing that was offered is taken back.
OffersGrow == \A n \in Nodes : worker[n].offered \subseteq worker'[n].offered

LEMMA StillOffered ==
  ASSUME OffersGrow, NEW n \in Nodes, NEW t, EverOffered(n, t)
  PROVE  EverOffered(n, t)'
BY DEF OffersGrow, EverOffered

\* A worker's tasks change to some that it offered to do.
LEMMA WorkChanges ==
  ASSUME RegistryInv, NEW n \in Nodes, NEW tasks \in SUBSET Tasks, Executes(n, tasks),
         \A t \in tasks : EverOffered(n, t)
  PROVE  WorkersTyped' /\ OffersGrow /\ WorkFits' /\ NeedsWereOffered'
<1>0. WorkersTyped BY TypeParts DEF RegistryInv
<1>1. /\ worker'[n].tasks = tasks /\ worker'[n].told = worker[n].told \cup {tasks}
      /\ worker'[n].offered = worker[n].offered
      /\ \A m \in Nodes \ {n} : worker'[m] = worker[m]
  BY <1>0 DEF Executes, WorkersTyped
<1>2. WorkersTyped'
  <2> DEFINE w == [worker[n] EXCEPT !.tasks = tasks, !.told = @ \cup {tasks}]
  <2>1. w \in [tasks : SUBSET Tasks, told : SUBSET SUBSET Tasks, offered : SUBSET Offers]
    BY <1>0 DEF WorkersTyped
  <2>2. worker' = [worker EXCEPT ![n] = w] BY <1>0 DEF Executes, WorkersTyped
  <2> HIDE DEF w
  <2>3. QED BY <1>0, <2>1, <2>2 DEF WorkersTyped
<1>3. OffersGrow BY <1>1 DEF OffersGrow
<1>4. WorkFits' BY <1>1, <1>3, StillOffered DEF RegistryInv, WorkFits
<1>5. NeedsWereOffered'
  BY <1>1, <1>3, StillOffered DEF RegistryInv, NeedsWereOffered
<1>6. QED BY <1>2, <1>3, <1>4, <1>5

LEMMA WorkStays ==
  ASSUME RegistryInv, UNCHANGED worker
  PROVE  WorkersTyped' /\ OffersGrow /\ WorkFits' /\ NeedsWereOffered'
<1>1. OffersGrow BY DEF OffersGrow
<1>2. WorkersTyped BY TypeParts DEF RegistryInv
<1>3. QED BY <1>1, <1>2
          DEF WorkersTyped, RegistryInv, WorkFits, NeedsWereOffered, EverOffered

LEMMA WorkersKept ==
  ASSUME RegistryInv, [Next]_vars
  PROVE  WorkersTyped' /\ OffersGrow /\ WorkFits' /\ NeedsWereOffered'
<1>0. WorkersTyped /\ DispatchFits /\ WorkFits /\ NeedsWereOffered
  BY TypeParts DEF RegistryInv
<1>1. CASE UNCHANGED worker BY <1>1, WorkStays
<1>2. ASSUME NEW d \in Dispatchers, dispatch[d].pc = "call", Hands(d)
      PROVE  WorkersTyped' /\ OffersGrow /\ WorkFits' /\ NeedsWereOffered'
  <2> DEFINE n == dispatch[d].node
             t == dispatch[d].task
  <2>1. n \in Nodes /\ t \in Tasks /\ EverOffered(n, t)
    BY <1>0, <1>2 DEF DispatchFits, StateFits
  <2>2. worker[n].tasks \cup {t} \in SUBSET Tasks BY <1>0, <2>1 DEF WorkersTyped
  <2>3. \A u \in worker[n].tasks \cup {t} : EverOffered(n, u) BY <1>0, <2>1 DEF WorkFits
  <2>4. QED BY <1>2, <2>1, <2>2, <2>3, WorkChanges DEF Hands
<1>3. ASSUME NEW n \in Nodes, NEW t \in Tasks, FinishTask(n, t)
      PROVE  WorkersTyped' /\ OffersGrow /\ WorkFits' /\ NeedsWereOffered'
  <2>1. worker[n].tasks \ {t} \in SUBSET Tasks BY <1>0 DEF WorkersTyped
  <2>2. \A u \in worker[n].tasks \ {t} : EverOffered(n, u) BY <1>0 DEF WorkFits
  <2>3. QED BY <1>3, <2>1, <2>2, WorkChanges DEF FinishTask
<1>4. ASSUME NEW n \in Nodes, NEW offers \in Offers, RestartWorker(n, offers)
      PROVE  WorkersTyped' /\ OffersGrow /\ WorkFits' /\ NeedsWereOffered'
  <2>1. /\ worker'[n].tasks = {} /\ worker'[n].told = worker[n].told
        /\ worker'[n].offered = worker[n].offered \cup {offers}
        /\ \A m \in Nodes \ {n} : worker'[m] = worker[m]
    BY <1>0, <1>4 DEF RestartWorker, WorkersTyped
  <2>2. WorkersTyped'
    <3> DEFINE w == [worker[n] EXCEPT !.tasks = {}, !.offered = @ \cup {offers}]
    <3>1. w \in [tasks : SUBSET Tasks, told : SUBSET SUBSET Tasks, offered : SUBSET Offers]
      BY <1>0 DEF WorkersTyped
    <3>2. worker' = [worker EXCEPT ![n] = w] BY <1>0, <1>4 DEF RestartWorker, WorkersTyped
    <3> HIDE DEF w
    <3>3. QED BY <1>0, <3>1, <3>2 DEF WorkersTyped
  <2>3. OffersGrow BY <2>1 DEF OffersGrow
  <2>4. WorkFits' /\ NeedsWereOffered'
    BY <1>0, <2>1, <2>3, StillOffered DEF WorkFits, NeedsWereOffered
  <2>5. QED BY <2>2, <2>3, <2>4
<1>5. ASSUME NEW d \in Dispatchers, DispatchStep(d)
      PROVE  WorkersTyped' /\ OffersGrow /\ WorkFits' /\ NeedsWereOffered'
  BY <1>1, <1>2, <1>5
     DEF DispatchStep, TakeSnapshot, ChooseNode, WorkerAccepts, WorkerFails, CountFailure,
         Quarantine, ResetFailures, IncrementActive, outside
<1>6. ASSUME NEW n \in Nodes, NodeStep(n)
      PROVE  WorkersTyped' /\ OffersGrow /\ WorkFits' /\ NeedsWereOffered'
  BY <1>1, <1>3, <1>4, <1>6
     DEF NodeStep, Register, ReceiveHeartbeat, StoreTasks, Unregister, MarkOffline, ClearTasks,
         GrowSilent, LiftQuarantine, DecrementActive, outside
<1>7. CASE RestartMaster \/ Tick \/ UNCHANGED vars
  BY <1>1, <1>7 DEF RestartMaster, Tick, outside, vars
<1>8. QED BY <1>5, <1>6, <1>7 DEF Next, NodeStep

--------------------------------------------------------------------------------
\* The registrations and the dispatchers

LEMMA KnownKept ==
  ASSUME RegistryInv, [Next]_vars
  PROVE  Known' /\ capable' \in [Nodes -> Offers \cup {General}]
<1>0. OffersGrow /\ WorkersTyped BY WorkersKept, TypeParts DEF RegistryInv
<1>1. capable \in [Nodes -> Offers \cup {General}] BY TypeParts DEF RegistryInv
<1>2. CASE UNCHANGED capable BY <1>0, <1>1, <1>2 DEF OffersGrow, RegistryInv, Known
<1>3. ASSUME NEW n \in Nodes, NEW offers \in Offers, Register(n, offers)
      PROVE  Known' /\ capable' \in [Nodes -> Offers \cup {General}]
  <2>1. PICK c \in Offers \cup {General} : /\ capable' = [capable EXCEPT ![n] = c]
                                           /\ c = General \/ c \in worker[n].offered
    BY <1>3 DEF Register
  <2>2. QED BY <1>0, <1>1, <2>1 DEF OffersGrow, RegistryInv, Known
<1>4. CASE RestartMaster
  <2>1. capable' = [m \in Nodes |-> General] BY <1>4 DEF RestartMaster
  <2>2. QED BY <2>1 DEF Known
<1>5. ASSUME NEW d \in Dispatchers, DispatchStep(d) PROVE UNCHANGED capable
  BY <1>5 DEF DispatchStep, TakeSnapshot, ChooseNode, WorkerAccepts, WorkerFails, CountFailure,
              Quarantine, ResetFailures, IncrementActive, registry
<1>6. ASSUME NEW n \in Nodes, NodeStep(n), \A offers \in Offers : ~Register(n, offers)
      PROVE  UNCHANGED capable
  BY <1>6 DEF NodeStep, RestartWorker, ReceiveHeartbeat, StoreTasks, Unregister, MarkOffline,
              ClearTasks, GrowSilent, LiftQuarantine, FinishTask, DecrementActive, registry
<1>7. CASE Tick \/ UNCHANGED vars BY <1>2, <1>7 DEF Tick, vars, registry
<1>8. QED BY <1>2, <1>3, <1>4, <1>5, <1>6, <1>7 DEF Next, NodeStep

DispatchKept == dispatch' \in [Dispatchers -> DispatchState] /\ DispatchFits'

\* A dispatcher that goes where what it relies on is true.
LEMMA StateChanges ==
  ASSUME RegistryInv, OffersGrow, NEW d \in Dispatchers, NEW s, s \in DispatchState,
         StateFits(s), Becomes(d, s)
  PROVE  DispatchKept
<1>1. dispatch \in [Dispatchers -> DispatchState] BY TypeParts DEF RegistryInv
<1>2. dispatch' \in [Dispatchers -> DispatchState] BY <1>1 DEF Becomes
<1>3. dispatch'[d] = s /\ \A e \in Dispatchers \ {d} : dispatch'[e] = dispatch[e]
  BY <1>1 DEF Becomes
<1>4. ASSUME NEW e \in Dispatchers, StateFits(dispatch'[e]) PROVE StateFits(dispatch[e])'
  BY <1>4, StillOffered DEF StateFits
<1>5. \A e \in Dispatchers : StateFits(dispatch'[e]) BY <1>3 DEF RegistryInv, DispatchFits
<1>6. QED BY <1>2, <1>4, <1>5 DEF DispatchKept, DispatchFits

LEMMA ListedTyped ==
  ASSUME RegistryInv
  PROVE  Listed \subseteq Nodes \X (0..Cardinality(Tasks))
<1>1. ASSUME NEW n \in Nodes PROVE Cardinality(active[n]) \in 0..Cardinality(Tasks)
  <2>1. active[n] \subseteq Tasks /\ IsFiniteSet(Tasks)
    BY TypeParts, RegistryAssumption DEF RegistryInv, Typed
  <2>2. Cardinality(active[n]) <= Cardinality(Tasks) /\ IsFiniteSet(active[n])
    BY <2>1, FS_Subset
  <2>3. Cardinality(active[n]) \in Nat /\ Cardinality(Tasks) \in Nat
    BY <2>1, <2>2, FS_CardinalityType
  <2>4. QED BY <2>2, <2>3
<1>2. QED BY <1>1 DEF Listed

\* What a dispatcher compares with the task is what some registration offered.
LEMMA ChosenOffers ==
  ASSUME RegistryInv, NEW n \in Nodes, NEW t \in Tasks, Satisfies(n, t)
  PROVE  EverOffered(n, t)
BY DEF RegistryInv, Known, Satisfies, EverOffered

LEMMA DispatcherMoves ==
  ASSUME RegistryInv, OffersGrow, NEW d \in Dispatchers, DispatchStep(d)
  PROVE  DispatchKept
<1>0. dispatch[d] \in DispatchState /\ StateFits(dispatch[d])
  BY TypeParts DEF RegistryInv, DispatchFits
<1>1. Idle \in DispatchState /\ StateFits(Idle)
  BY DEF Idle, DispatchState, StateFits
<1>2. CASE Becomes(d, Idle)
  BY <1>1, <1>2, StateChanges
<1>3. ASSUME NEW l \in {"count", "quarantine", "reset", "increment"}, GoTo(d, l),
             dispatch[d].pc \notin {"idle", "choose"}
      PROVE  DispatchKept
  <2> DEFINE s == [dispatch[d] EXCEPT !.pc = l]
  <2>1. s \in DispatchState BY <1>0 DEF DispatchState
  <2>2. s.pc = l /\ s.task = dispatch[d].task /\ s.node = dispatch[d].node
    BY <1>0 DEF DispatchState
  <2>3. StateFits(s) BY <1>0, <1>3, <2>2 DEF StateFits
  <2>4. Becomes(d, s) BY <1>3 DEF GoTo
  <2>5. QED BY <2>1, <2>3, <2>4, StateChanges
<1>4. ASSUME NEW t \in Tasks, TakeSnapshot(d, t) PROVE DispatchKept
  <2> DEFINE s == [Idle EXCEPT !.pc = "choose", !.task = t, !.found = Listed]
  <2>1. s \in DispatchState BY ListedTyped DEF Idle, DispatchState
  <2>2. s.pc = "choose" /\ s.task = t BY DEF Idle
  <2>3. StateFits(s) BY <2>2 DEF StateFits
  <2>4. Becomes(d, s) BY <1>4 DEF TakeSnapshot
  <2>5. QED BY <2>1, <2>3, <2>4, StateChanges
<1>5. CASE ChooseNode(d)
  <2>1. CASE ~Becomes(d, Idle)
    <3>1. PICK f \in dispatch[d].found :
            /\ Eligible(f[1], dispatch[d].task) /\ dispatch[d].pc = "choose"
            /\ Becomes(d, [dispatch[d] EXCEPT !.pc = "call", !.found = {}, !.node = f[1]])
      BY <1>5, <2>1 DEF ChooseNode
    <3> DEFINE s == [dispatch[d] EXCEPT !.pc = "call", !.found = {}, !.node = f[1]]
    <3>2. f[1] \in Nodes /\ dispatch[d].task \in Tasks
      BY <1>0, <3>1 DEF DispatchState, StateFits
    <3>3. EverOffered(f[1], dispatch[d].task)
      BY <3>1, <3>2, ChosenOffers DEF Eligible
    <3>4. s \in DispatchState BY <1>0, <3>2 DEF DispatchState
    <3>5. s.pc = "call" /\ s.task = dispatch[d].task /\ s.node = f[1]
      BY <1>0 DEF DispatchState
    <3>6. StateFits(s) BY <3>2, <3>3, <3>5 DEF StateFits
    <3>7. QED BY <3>1, <3>4, <3>6, StateChanges
  <2>2. QED BY <1>2, <2>1
<1>6. QED BY <1>2, <1>3, <1>4, <1>5
          DEF DispatchStep, WorkerAccepts, WorkerFails, CountFailure, Quarantine, ResetFailures,
              IncrementActive

LEMMA DispatchersKept ==
  ASSUME RegistryInv, [Next]_vars
  PROVE  DispatchKept
<1>0. OffersGrow /\ dispatch \in [Dispatchers -> DispatchState] /\ DispatchFits
  BY WorkersKept, TypeParts DEF RegistryInv
<1>1. CASE UNCHANGED dispatch
  <2>1. ASSUME NEW d \in Dispatchers PROVE StateFits(dispatch[d])'
    BY <1>0, <1>1, StillOffered DEF DispatchFits, StateFits
  <2>2. QED BY <1>0, <1>1, <2>1 DEF DispatchKept, DispatchFits
<1>2. CASE RestartMaster
  <2>1. dispatch' = [d \in Dispatchers |-> Idle] BY <1>2 DEF RestartMaster
  <2>2. Idle \in DispatchState /\ Idle.pc = "idle" BY DEF Idle, DispatchState
  <2>3. QED BY <2>1, <2>2 DEF DispatchKept, DispatchFits, StateFits
<1>3. ASSUME NEW n \in Nodes, NodeStep(n) PROVE UNCHANGED dispatch
  BY <1>3 DEF NodeStep, Register, RestartWorker, ReceiveHeartbeat, StoreTasks, Unregister,
              MarkOffline, ClearTasks, GrowSilent, LiftQuarantine, FinishTask, DecrementActive
<1>4. CASE Tick \/ UNCHANGED vars BY <1>1, <1>4 DEF Tick, vars
<1>5. QED BY <1>0, <1>1, <1>2, <1>3, <1>4, DispatcherMoves DEF Next, NodeStep

--------------------------------------------------------------------------------
\* The theorems

LEMMA RegistryInvInit == Init => RegistryInv
<1> SUFFICES ASSUME Init PROVE RegistryInv
  OBVIOUS
<1>1. \A n \in Nodes : worker[n].tasks = {} /\ worker[n].told = {{}} /\ capable[n] = General
  BY DEF Init
<1>2. Typed
  BY RegistryAssumption DEF Init, Typed
<1>3. WorkersTyped BY DEF Init, WorkersTyped
<1>4. Idle \in DispatchState /\ Idle.pc = "idle" BY DEF Idle, DispatchState
<1>5. dispatch \in [Dispatchers -> DispatchState] /\ DispatchFits
  BY <1>4 DEF Init, DispatchFits, StateFits
<1>6. capable \in [Nodes -> Offers \cup {General}] BY DEF Init
<1>7. Known /\ WorkFits /\ NeedsWereOffered
  BY <1>1 DEF Known, WorkFits, NeedsWereOffered
<1>8. QED BY <1>2, <1>3, <1>5, <1>6, <1>7, TypeParts DEF RegistryInv

LEMMA RegistryInvNext == RegistryInv /\ [Next]_vars => RegistryInv'
<1> SUFFICES ASSUME RegistryInv, [Next]_vars PROVE RegistryInv'
  OBVIOUS
<1>1. Typed' BY TypedDispatch, TypedNode, TypedWhole DEF Next, NodeStep
<1>2. WorkersTyped' /\ WorkFits' /\ NeedsWereOffered' BY WorkersKept
<1>3. Known' /\ capable' \in [Nodes -> Offers \cup {General}] BY KnownKept
<1>4. dispatch' \in [Dispatchers -> DispatchState] /\ DispatchFits'
  BY DispatchersKept DEF DispatchKept
<1>5. TypeOK' BY <1>1, <1>2, <1>3, <1>4 DEF TypeOK, Typed, WorkersTyped
<1>6. QED BY <1>2, <1>3, <1>4, <1>5 DEF RegistryInv

THEOREM RegistryInvariant == FairSpec => []RegistryInv
BY RegistryInvInit, RegistryInvNext, PTL DEF FairSpec, Spec

\* Whatever handlers, dispatchers and restarts do to each other, the registry's rows, lists
\* and counters stay within their bounds.
THEOREM TypeCorrect == FairSpec => []TypeOK
<1>1. RegistryInv => TypeOK BY DEF RegistryInv
<1>2. QED BY <1>1, RegistryInvariant, PTL

\* No worker gets a task that no start of it offered to do (choose_best_node,
\* _satisfies_capabilities), however old the dispatcher's view of it is.
THEOREM NeedsOffered == FairSpec => []NeedsWereOffered
<1>1. RegistryInv => NeedsWereOffered BY DEF RegistryInv
<1>2. QED BY <1>1, RegistryInvariant, PTL
================================================================================
