------------------------------- MODULE LoopThread -------------------------------
(***************************************************************************)
(* The daemon threads of grid/: heartbeat_monitor.py on the master and     *)
(* heartbeat_sender.py on a worker start and stop theirs in the same way.  *)
(*                                                                         *)
(* start() looks at the thread the module remembers and creates a new stop *)
(* event under a lock; outside the lock it makes a thread, remembers it,   *)
(* and starts whatever thread is remembered by then.  stop() sets the      *)
(* event, waits for the remembered thread, but no longer than a timeout,   *)
(* and forgets the thread in any case.  The variable is read anew each     *)
(* time, and calls that overlap may find None or another thread in it,     *)
(* which raises.                                                           *)
(*                                                                         *)
(* The loop looks at the module's stop event of the moment, so a thread    *)
(* that was too busy to see its own event set goes on under the event of   *)
(* the next start().  What the loop does in a round is left to the modules *)
(* that extend this one.                                                   *)
(***************************************************************************)
EXTENDS Naturals, FiniteSets

CONSTANTS
  Controllers,       \* threads of the program that call start() and stop()
  MaxStarts          \* bound: calls of start() that find no thread alive

ASSUME LoopThreadAssumption == MaxStarts \in Nat \ {0} /\ IsFiniteSet(Controllers)

VARIABLES
  starts,    \* calls of start() that found no thread alive: they are 1..starts
  event,     \* _stop_event: the start that created it, 0 for the module's first
  set,       \* the events that are set
  current,   \* _monitor_thread or _sender_thread, 0 for None
  loop,      \* loop[t]: where the thread is that start t made
  control,   \* where each controller is, and the start or the thread it is about
  asked,     \* history: has stop() been called since the last start()?
  timeouts,  \* history: stop() calls that gave up waiting
  crossings, \* history: calls that began while another was under way, up to MaxStarts
  raised     \* history: has a call raised?

threadVars == <<starts, event, set, current, loop, control, asked, timeouts,
                crossings, raised>>

Threads == 1..MaxStarts
Alive == {t \in Threads : loop[t] \in {"check", "busy"}}
Idle == [pc |-> "idle", about |-> 0]

ThreadTypeOK ==
  /\ starts \in 0..MaxStarts /\ event \in 0..MaxStarts /\ set \subseteq 0..MaxStarts
  /\ current \in 0..MaxStarts
  /\ loop \in [Threads -> {"none", "made", "check", "busy", "dead"}]
  /\ control \in [Controllers ->
       [pc : {"idle", "make", "launch", "look", "join", "wait", "report", "forget"},
        about : 0..MaxStarts]]
  /\ asked \in BOOLEAN /\ timeouts \in Nat
  /\ crossings \in 0..MaxStarts /\ raised \in BOOLEAN

ThreadInit ==
  /\ starts = 0 /\ event = 0 /\ set = {} /\ current = 0
  /\ loop = [t \in Threads |-> "none"]
  /\ control = [c \in Controllers |-> Idle]
  /\ asked = FALSE /\ timeouts = 0 /\ crossings = 0 /\ raised = FALSE

At(c, l) == control[c].pc = l
GoTo(c, l) == control' = [control EXCEPT ![c].pc = l]
Return(c) == control' = [control EXCEPT ![c] = Idle]
Raise(c) == Return(c) /\ raised' = TRUE

Begin(c) ==
  /\ At(c, "idle")
  /\ crossings' = IF (\E d \in Controllers : ~At(d, "idle")) /\ crossings < MaxStarts
                  THEN crossings + 1 ELSE crossings

--------------------------------------------------------------------------------
\* start_monitor(), start_sender()

\* The lock section.  While the remembered thread is alive the call does nothing.
StartThread(c) ==
  /\ Begin(c) /\ current \notin Alive
  /\ starts < MaxStarts
  /\ starts' = starts + 1
  /\ event' = starts + 1
  /\ control' = [control EXCEPT ![c] = [pc |-> "make", about |-> starts + 1]]
  /\ asked' = FALSE
  /\ UNCHANGED <<set, current, loop, timeouts, raised>>

MakeThread(c) ==
  /\ At(c, "make")
  /\ loop' = [loop EXCEPT ![control[c].about] = "made"]
  /\ current' = control[c].about
  /\ GoTo(c, "launch")
  /\ UNCHANGED <<starts, event, set, asked, timeouts, crossings, raised>>

\* None has no start(), and a thread can be started once only.
LaunchThread(c) ==
  /\ At(c, "launch")
  /\ IF current # 0 /\ loop[current] = "made"
     THEN /\ loop' = [loop EXCEPT ![current] = "check"]
          /\ Return(c)
          /\ UNCHANGED raised
     ELSE /\ Raise(c)
          /\ UNCHANGED loop
  /\ UNCHANGED <<starts, event, set, current, asked, timeouts, crossings>>

--------------------------------------------------------------------------------
\* stop_monitor(), stop_sender()

\* Mutant: the event is not set.
StopWithoutEvent(c) ==
  /\ Begin(c)
  /\ GoTo(c, "look")
  /\ asked' = TRUE
  /\ UNCHANGED <<starts, event, set, current, loop, timeouts, raised>>

StopThread(c) ==
  /\ Begin(c)
  /\ set' = set \cup {event}
  /\ GoTo(c, "look")
  /\ asked' = TRUE
  /\ UNCHANGED <<starts, event, current, loop, timeouts, raised>>

LookForThread(c) ==
  /\ At(c, "look")
  /\ GoTo(c, IF current = 0 THEN "forget" ELSE "join")
  /\ UNCHANGED <<starts, event, set, current, loop, asked, timeouts, crossings, raised>>

\* None has no join(), and a thread that was not started cannot be waited for.
JoinThread(c) ==
  /\ At(c, "join")
  /\ IF current = 0 \/ loop[current] = "made"
     THEN Raise(c)
     ELSE /\ control' = [control EXCEPT ![c] = [pc |-> "wait", about |-> current]]
          /\ UNCHANGED raised
  /\ UNCHANGED <<starts, event, set, current, loop, asked, timeouts, crossings>>

\* Mutant: stop() does not wait.
WaitsForNothing(c) ==
  /\ At(c, "wait")
  /\ GoTo(c, "report")
  /\ UNCHANGED <<starts, event, set, current, loop, asked, timeouts, crossings, raised>>

Joined(c) ==
  /\ At(c, "wait") /\ control[c].about \notin Alive
  /\ GoTo(c, "report")
  /\ UNCHANGED <<starts, event, set, current, loop, asked, timeouts, crossings, raised>>

\* The round takes longer than the timeout.
JoinTimesOut(c) ==
  /\ At(c, "wait") /\ control[c].about \in Alive
  /\ GoTo(c, "report")
  /\ timeouts' = timeouts + 1
  /\ UNCHANGED <<starts, event, set, current, loop, asked, crossings, raised>>

\* The log line looks at the variable once more.
ReportStop(c) ==
  /\ At(c, "report")
  /\ IF current = 0 THEN Raise(c) ELSE GoTo(c, "forget") /\ UNCHANGED raised
  /\ UNCHANGED <<starts, event, set, current, loop, asked, timeouts, crossings>>

ForgetThread(c) ==
  /\ At(c, "forget")
  /\ current' = 0
  /\ Return(c)
  /\ UNCHANGED <<starts, event, set, loop, asked, timeouts, crossings, raised>>

ControlStep(c) ==
  \/ MakeThread(c) \/ LaunchThread(c)
  \/ StopThread(c) \/ LookForThread(c) \/ JoinThread(c)
  \/ Joined(c) \/ JoinTimesOut(c) \/ ReportStop(c) \/ ForgetThread(c)

--------------------------------------------------------------------------------
\* The loop

CheckEvent(t) ==
  /\ loop[t] = "check"
  /\ loop' = [loop EXCEPT ![t] = IF event \in set THEN "dead" ELSE "busy"]
  /\ UNCHANGED <<starts, event, set, current, control, asked, timeouts, crossings, raised>>

\* The end of a round, with the wait, which the event or the interval ends.
EndRound(t) ==
  /\ loop[t] = "busy"
  /\ loop' = [loop EXCEPT ![t] = "check"]
  /\ UNCHANGED <<starts, event, set, current, control, asked, timeouts, crossings, raised>>

--------------------------------------------------------------------------------
\* Properties

\* start() called "again while already running is a no-op": threads that run beside
\* the first are those that a stop() gave up on and those that calls crossing each
\* other lost, one each, and no call raises that nothing crossed.
ThreadsAreAccounted ==
  /\ Cardinality(Alive) <= 1 + timeouts + crossings
  /\ raised => crossings > 0

\* After stop() every thread ends, those that an earlier stop() gave up on, that a
\* start() revived, or that calls crossing each other lost, unless a start() comes.
StoppedThreadsEnd == asked ~> Alive = {} \/ ~asked
================================================================================
