----------------------------- MODULE HeartbeatSender -----------------------------
(***************************************************************************)
(* grid/heartbeat_sender.py on a worker node: the loop that sends          *)
(* heartbeats, the count of missed ones, the partition mode and the flag   *)
(* that asks the runtime to register again.                                *)
(*                                                                         *)
(* Threads that a stop_sender() gave up on share these variables with the  *)
(* current one, and their replies come in when they come in.  The runtime  *)
(* (worker_runtime, not in the repository) is seen through its calls of    *)
(* start_sender(), stop_sender() and needs_reregistration().               *)
(***************************************************************************)
EXTENDS LoopThread

CONSTANTS
  PARTITION_THRESHOLD,  \* _PARTITION_THRESHOLD
  MaxMissed             \* bound: the count of missed heartbeats stays there

ASSUME SenderAssumption ==
  /\ PARTITION_THRESHOLD \in Nat \ {0} /\ MaxMissed \in Nat
  /\ MaxMissed >= PARTITION_THRESHOLD

VARIABLES
  missed,     \* _missed_heartbeats
  partition,  \* _partition_mode
  flag,       \* _needs_reregistration
  owed        \* history: a rejection that the runtime has not been told of

senderVars == <<missed, partition, flag, owed>>
vars == <<threadVars, senderVars>>

TypeOK ==
  /\ ThreadTypeOK
  /\ missed \in 0..MaxMissed
  /\ partition \in BOOLEAN /\ flag \in BOOLEAN /\ owed \in BOOLEAN

Init ==
  /\ ThreadInit
  /\ missed = 0 /\ partition = FALSE /\ flag = FALSE /\ owed = FALSE

\* Mutant: the counter only.
StartKeepsPartition(c) ==
  /\ StartThread(c)
  /\ missed' = 0
  /\ UNCHANGED <<partition, flag, owed>>

StartSender(c) ==
  /\ StartThread(c)
  /\ missed' = 0 /\ partition' = FALSE
  /\ UNCHANGED <<flag, owed>>

Miss == missed' = IF missed < MaxMissed THEN missed + 1 ELSE missed

\* Mutant: a heartbeat that is accepted settles everything.
AcceptedSettlesAll(t) ==
  /\ EndRound(t)
  /\ missed' = 0 /\ partition' = FALSE /\ flag' = FALSE
  /\ UNCHANGED owed

Accepted(t) ==
  /\ EndRound(t)
  /\ missed' = 0 /\ partition' = FALSE
  /\ UNCHANGED <<flag, owed>>

\* 401 or 404.
Rejected(t) ==
  /\ EndRound(t) /\ Miss
  /\ flag' = TRUE /\ owed' = TRUE
  /\ UNCHANGED partition

NetworkError(t) ==
  /\ EndRound(t) /\ Miss
  /\ partition' = (partition \/ missed' >= PARTITION_THRESHOLD)
  /\ UNCHANGED <<flag, owed>>

UnexpectedError(t) ==
  /\ EndRound(t) /\ Miss
  /\ UNCHANGED <<partition, flag, owed>>

\* needs_reregistration() in each round of the runtime: reads and resets the flag.
NeedsReregistration ==
  /\ flag' = FALSE
  /\ owed' = (owed /\ ~flag)
  /\ UNCHANGED <<threadVars, missed, partition>>

SenderStep(t) ==
  \/ CheckEvent(t) /\ UNCHANGED senderVars
  \/ Accepted(t) \/ Rejected(t) \/ NetworkError(t) \/ UnexpectedError(t)

Next ==
  \/ \E c \in Controllers : StartSender(c) \/ (ControlStep(c) /\ UNCHANGED senderVars)
  \/ \E t \in Threads : SenderStep(t)
  \/ NeedsReregistration

\* Threads run, a request ends by its own timeout, and the runtime's loop goes on.
FairSpec ==
  /\ Init /\ [][Next]_vars
  /\ \A t \in Threads : WF_vars(SenderStep(t))
  /\ WF_vars(NeedsReregistration)

--------------------------------------------------------------------------------
\* Properties

\* The runtime holds results back in partition mode: it is never told so unless as
\* many heartbeats in a row were missed, whatever threads sent them.
PartitionIsJustified == partition => missed >= PARTITION_THRESHOLD

\* Every rejection reaches the runtime, which registers the node again, although the
\* flag is one for all threads and outlives none of its reads (needs_reregistration).
RejectionIsNoticed == owed ~> ~owed
================================================================================
