-------------------------- MODULE HeartbeatSenderProofs --------------------------
(***************************************************************************)
(* What holds of the heartbeat sender with any number of controllers and   *)
(* starts.  The argument about threads is in terms of the steps of         *)
(* LoopThread alone, which the monitor takes as well.                      *)
(***************************************************************************)
EXTENDS HeartbeatSender, FiniteSetTheorems, TLAPS

\* The steps of HeartbeatSender, seen by LoopThread.
ThreadStep ==
  \/ \E c \in Controllers : StartThread(c) \/ ControlStep(c)
  \/ \E t \in Threads : CheckEvent(t) \/ EndRound(t)
  \/ UNCHANGED threadVars

LEMMA StepsAreThreadSteps ==
  ASSUME [Next]_vars PROVE ThreadStep
  BY DEF Next, vars, StartSender, SenderStep, Accepted, Rejected, NetworkError,
         UnexpectedError, NeedsReregistration, ThreadStep

--------------------------------------------------------------------------------
(* Types *)

\* A call that crosses another is counted, as long as the bound allows.
LEMMA BeginCounts ==
  ASSUME ThreadTypeOK, NEW c \in Controllers, Begin(c)
  PROVE  /\ crossings' \in 0..MaxStarts
         /\ crossings' >= crossings
         /\ (\E d \in Controllers : ~At(d, "idle")) =>
              crossings' > crossings \/ crossings' = MaxStarts
         /\ (\A d \in Controllers : At(d, "idle")) => crossings' = crossings
<1> DEFINE Crosses == \E d \in Controllers : ~At(d, "idle")
<1>1. crossings \in 0..MaxStarts /\ MaxStarts \in Nat
  BY LoopThreadAssumption DEF ThreadTypeOK
<1>2. crossings' = IF Crosses /\ crossings < MaxStarts THEN crossings + 1 ELSE crossings
  BY DEF Begin
<1>3. (\A d \in Controllers : At(d, "idle")) <=> ~Crosses
  OBVIOUS
<1> HIDE DEF Crosses
<1>4. /\ crossings' \in 0..MaxStarts /\ crossings' >= crossings
      /\ Crosses => crossings' > crossings \/ crossings' = MaxStarts
      /\ ~Crosses => crossings' = crossings
  BY <1>1, <1>2
<1>5. QED BY <1>3, <1>4 DEF Crosses

\* The conjuncts of ThreadTypeOK that are not about Booleans.
ThreadShapes ==
  /\ starts \in 0..MaxStarts /\ event \in 0..MaxStarts /\ set \subseteq 0..MaxStarts
  /\ current \in 0..MaxStarts
  /\ loop \in [Threads -> {"none", "made", "check", "busy", "dead"}]
  /\ control \in [Controllers ->
       [pc : {"idle", "make", "launch", "look", "join", "wait", "report", "forget"},
        about : 0..MaxStarts]]
  /\ timeouts \in Nat
  /\ crossings \in 0..MaxStarts

LEMMA ThreadFlags ==
  ASSUME asked \in BOOLEAN, raised \in BOOLEAN, ThreadStep
  PROVE  asked' \in BOOLEAN /\ raised' \in BOOLEAN
<1>1. asked' = asked \/ asked' = TRUE \/ asked' = FALSE
  BY Zenon DEF ThreadStep, ControlStep, StartThread, MakeThread, LaunchThread, StopThread,
     LookForThread, JoinThread, Joined, JoinTimesOut, ReportStop, ForgetThread,
     CheckEvent, EndRound, threadVars
<1>2. raised' = raised \/ raised' = TRUE
  BY Zenon DEF ThreadStep, ControlStep, StartThread, MakeThread, LaunchThread, StopThread,
     LookForThread, JoinThread, Joined, JoinTimesOut, ReportStop, ForgetThread, Raise,
     CheckEvent, EndRound, threadVars
<1>3. QED BY <1>1, <1>2, Zenon

\* The two outcomes of a launch and of a report.
LEMMA LaunchOutcomes ==
  ASSUME NEW c \in Controllers, LaunchThread(c)
  PROVE  /\ At(c, "launch") /\ control' = [control EXCEPT ![c] = Idle]
         /\ UNCHANGED <<starts, current, timeouts, crossings>>
         /\ \/ /\ current # 0 /\ loop[current] = "made"
               /\ loop' = [loop EXCEPT ![current] = "check"]
            \/ ~(current # 0 /\ loop[current] = "made") /\ UNCHANGED loop
  BY DEF LaunchThread, Return, Raise

LEMMA ReportOutcomes ==
  ASSUME NEW c \in Controllers, ReportStop(c)
  PROVE  /\ At(c, "report") /\ UNCHANGED <<starts, current, loop, timeouts, crossings>>
         /\ \/ control' = [control EXCEPT ![c] = Idle] /\ current = 0
            \/ control' = [control EXCEPT ![c].pc = "forget"]
  BY DEF ReportStop, Return, Raise, GoTo

LEMMA ThreadTypes ==
  ASSUME ThreadTypeOK, ThreadStep PROVE ThreadTypeOK'
<1>1. ThreadShapes BY DEF ThreadTypeOK, ThreadShapes
<1>2. ThreadShapes'
  <2> USE LoopThreadAssumption, <1>1 DEF ThreadShapes, Threads
  <2>1. ASSUME NEW c \in Controllers, StartThread(c) PROVE ThreadShapes'
    BY <2>1, BeginCounts DEF StartThread
  <2>2. ASSUME NEW c \in Controllers, ControlStep(c) PROVE ThreadShapes'
    <3> USE DEF At, GoTo, Return, Raise, Idle
    <3>1. CASE MakeThread(c)    BY <3>1 DEF MakeThread
    <3>2. CASE LaunchThread(c)
      <4>1. /\ control' = [control EXCEPT ![c] = Idle]
            /\ UNCHANGED <<starts, event, set, current, timeouts, crossings>>
        BY <3>2, LaunchOutcomes DEF LaunchThread
      <4>2. \/ current # 0 /\ loop' = [loop EXCEPT ![current] = "check"]
            \/ loop' = loop
        BY <3>2, LaunchOutcomes
      <4>3. loop' \in [Threads -> {"none", "made", "check", "busy", "dead"}]
        BY <4>2
      <4>4. QED BY <4>1, <4>3
    <3>3. CASE StopThread(c)    BY <3>3, BeginCounts DEF StopThread
    <3>4. CASE LookForThread(c) BY <3>4 DEF LookForThread
    <3>5. CASE JoinThread(c)    BY <3>5 DEF JoinThread
    <3>6. CASE Joined(c)        BY <3>6 DEF Joined
    <3>7. CASE JoinTimesOut(c)  BY <3>7 DEF JoinTimesOut
    <3>8. CASE ReportStop(c)    BY <3>8 DEF ReportStop
    <3>9. CASE ForgetThread(c)  BY <3>9 DEF ForgetThread
    <3>10. QED BY <2>2, <3>1, <3>2, <3>3, <3>4, <3>5, <3>6, <3>7, <3>8, <3>9 DEF ControlStep
  <2>3. ASSUME NEW t \in Threads, CheckEvent(t) \/ EndRound(t) PROVE ThreadShapes'
    BY <2>3 DEF CheckEvent, EndRound
  <2>4. CASE UNCHANGED threadVars BY <2>4 DEF threadVars
  <2>5. QED BY <2>1, <2>2, <2>3, <2>4 DEF ThreadStep
<1>3. QED BY <1>2, ThreadFlags DEF ThreadTypeOK, ThreadShapes

\* Type correctness of the sender's variables.
THEOREM TypeCorrect == FairSpec => []TypeOK
<1>1. Init => TypeOK
  <2> SUFFICES ASSUME Init PROVE TypeOK OBVIOUS
  <2>1. ThreadShapes
    BY LoopThreadAssumption DEF Init, ThreadInit, ThreadShapes, Threads, Idle
  <2>2. /\ asked \in BOOLEAN /\ raised \in BOOLEAN
        /\ partition \in BOOLEAN /\ flag \in BOOLEAN /\ owed \in BOOLEAN
    BY Zenon DEF Init, ThreadInit
  <2>3. missed \in 0..MaxMissed
    BY SenderAssumption DEF Init
  <2>4. QED BY <2>1, <2>2, <2>3 DEF TypeOK, ThreadTypeOK, ThreadShapes
<1>2. TypeOK /\ [Next]_vars => TypeOK'
  <2> SUFFICES ASSUME TypeOK, [Next]_vars PROVE TypeOK' OBVIOUS
  <2>1. ThreadTypeOK' BY StepsAreThreadSteps, ThreadTypes DEF TypeOK
  <2>2. missed' \in 0..MaxMissed
    BY SenderAssumption DEF TypeOK, Next, vars, senderVars, StartSender, SenderStep,
       Accepted, Rejected, NetworkError, UnexpectedError, NeedsReregistration, Miss
  <2>3. /\ partition' \in BOOLEAN /\ flag' \in BOOLEAN /\ owed' \in BOOLEAN
    BY Zenon DEF TypeOK, Next, vars, senderVars, StartSender, SenderStep, Accepted,
       Rejected, NetworkError, UnexpectedError, NeedsReregistration
  <2>4. QED BY <2>1, <2>2, <2>3 DEF TypeOK
<1>3. QED BY <1>1, <1>2, PTL DEF FairSpec

\* The runtime is told of a partition only after as many misses in a row as the code's
\* threshold, whichever threads they came from (_partition_mode).
THEOREM PartitionJustified == FairSpec => []PartitionIsJustified
<1>1. Init => PartitionIsJustified
  BY DEF Init, PartitionIsJustified
<1>2. TypeOK /\ PartitionIsJustified /\ [Next]_vars => PartitionIsJustified'
  <2> SUFFICES ASSUME TypeOK, PartitionIsJustified, [Next]_vars, partition'
               PROVE  missed' >= PARTITION_THRESHOLD
    BY DEF PartitionIsJustified
  <2>1. \/ missed' = missed /\ partition' = partition
        \/ ~partition'
        \/ Miss /\ partition' = partition
        \/ Miss /\ partition' = (partition \/ missed' >= PARTITION_THRESHOLD)
    BY Zenon DEF Next, vars, senderVars, StartSender, SenderStep, Accepted, Rejected,
       NetworkError, UnexpectedError, NeedsReregistration
  <2>2. partition => missed >= PARTITION_THRESHOLD
    BY DEF PartitionIsJustified
  <2>3. Miss /\ missed >= PARTITION_THRESHOLD => missed' >= PARTITION_THRESHOLD
    BY SenderAssumption DEF Miss, TypeOK
  <2>4. QED BY <2>1, <2>2, <2>3, Zenon
<1>3. QED BY <1>1, <1>2, TypeCorrect, PTL DEF FairSpec

--------------------------------------------------------------------------------
(* Threads *)

Made == {t \in Threads : loop[t] = "made"}

\* The threads that run, may still be made or launched, or were lost before.
Started == {t \in 1..starts : loop[t] # "dead"}

\* Where threads come from.
Provenance ==
  /\ \A t \in Threads : t > starts => loop[t] = "none"
  /\ \A c \in Controllers :
       At(c, "make") => control[c].about \in 1..starts /\ loop[control[c].about] = "none"
  /\ \A c, d \in Controllers :
       At(c, "make") /\ At(d, "make") /\ control[c].about = control[d].about => c = d

\* Every thread, and every start that has not made one yet, comes of its own call.
LEMMA ProvenanceKept ==
  ASSUME ThreadTypeOK, Provenance, ThreadStep PROVE Provenance'
<1>1. ThreadShapes BY DEF ThreadTypeOK, ThreadShapes
<1> USE LoopThreadAssumption, <1>1 DEF ThreadShapes, Provenance, Threads, At
<1>2. ASSUME NEW c \in Controllers, StartThread(c) PROVE Provenance'
  BY <1>2 DEF StartThread
<1>3. ASSUME NEW c \in Controllers, ControlStep(c) PROVE Provenance'
  <2> USE DEF GoTo, Return, Raise, Idle
  <2>1. CASE MakeThread(c)    BY <2>1 DEF MakeThread
  <2>2. CASE LaunchThread(c)
    <3>1. /\ At(c, "launch") /\ control' = [control EXCEPT ![c] = Idle]
          /\ starts' = starts
          /\ \/ current # 0 /\ loop[current] = "made" /\ loop' = [loop EXCEPT ![current] = "check"]
             \/ loop' = loop
      BY <2>2, LaunchOutcomes
    <3>2. QED BY <3>1
  <2>3. CASE StopThread(c)    BY <2>3 DEF StopThread
  <2>4. CASE LookForThread(c) BY <2>4 DEF LookForThread
  <2>5. CASE JoinThread(c)    BY <2>5 DEF JoinThread
  <2>6. CASE Joined(c)        BY <2>6 DEF Joined
  <2>7. CASE JoinTimesOut(c)  BY <2>7 DEF JoinTimesOut
  <2>8. CASE ReportStop(c)
    <3>1. starts' = starts /\ loop' = loop
      BY <2>8, ReportOutcomes
    <3>2. CASE control' = [control EXCEPT ![c] = Idle] BY <3>1, <3>2
    <3>3. CASE control' = [control EXCEPT ![c].pc = "forget"] BY <3>1, <3>3
    <3>4. QED BY <2>8, <3>2, <3>3, ReportOutcomes
  <2>9. CASE ForgetThread(c)  BY <2>9 DEF ForgetThread
  <2>10. QED BY <1>3, <2>1, <2>2, <2>3, <2>4, <2>5, <2>6, <2>7, <2>8, <2>9 DEF ControlStep
<1>4. ASSUME NEW t \in Threads, CheckEvent(t) \/ EndRound(t) PROVE Provenance'
  BY <1>4 DEF CheckEvent, EndRound
<1>5. CASE UNCHANGED threadVars BY <1>5 DEF threadVars
<1>6. QED BY <1>2, <1>3, <1>4, <1>5 DEF ThreadStep

\* The threads are finitely many.
LEMMA StartsAreFinite ==
  IsFiniteSet(1..MaxStarts) /\ Cardinality(1..MaxStarts) = MaxStarts
<1>1. MaxStarts \in Nat BY LoopThreadAssumption
<1>2. QED BY <1>1, FS_Interval

LEMMA StartedIsFinite ==
  ASSUME ThreadTypeOK
  PROVE  /\ IsFiniteSet(Started)
         /\ Cardinality(Started) \in Nat /\ Cardinality(Started) <= MaxStarts
<1>1. MaxStarts \in Nat /\ starts \in 0..MaxStarts
  BY LoopThreadAssumption DEF ThreadTypeOK
<1>2. IsFiniteSet(1..MaxStarts) /\ Cardinality(1..MaxStarts) = MaxStarts
  BY StartsAreFinite
<1>3. Started \in SUBSET (1..MaxStarts)
  BY <1>1 DEF Started
<1>4. QED BY <1>2, <1>3, FS_Subset, FS_CardinalityType

LEMMA StartedStaysFinite ==
  ASSUME ThreadTypeOK' PROVE Cardinality(Started') \in Nat /\ Cardinality(Started') <= MaxStarts
<1>1. MaxStarts \in Nat /\ starts' \in 0..MaxStarts
  BY LoopThreadAssumption DEF ThreadTypeOK
<1>2. IsFiniteSet(1..MaxStarts) /\ Cardinality(1..MaxStarts) = MaxStarts
  BY StartsAreFinite
<1>3. Started' \in SUBSET (1..MaxStarts)
  BY <1>1 DEF Started
<1>4. QED BY <1>2, <1>3, FS_Subset, FS_CardinalityType

LEMMA AliveAreStarted ==
  ASSUME ThreadTypeOK, Provenance PROVE Alive \subseteq Started
  BY LoopThreadAssumption DEF ThreadTypeOK, Provenance, Alive, Started, Threads

\* A start adds one thread, a death takes one away, and nothing else changes their number.
LEMMA StartAddsOne ==
  ASSUME ThreadTypeOK, NEW c \in Controllers, StartThread(c)
  PROVE  Cardinality(Started)' <= Cardinality(Started) + 1
<1>1. Started' \subseteq Started \cup {starts + 1}
  BY LoopThreadAssumption DEF ThreadTypeOK, StartThread, Started
<1>2. /\ IsFiniteSet(Started \cup {starts + 1})
      /\ Cardinality(Started \cup {starts + 1}) <= Cardinality(Started) + 1
  BY StartedIsFinite, FS_AddElement
<1>3. Cardinality(Started') <= Cardinality(Started \cup {starts + 1})
  BY <1>1, <1>2, FS_Subset
<1>4. /\ Cardinality(Started') \in Nat /\ Cardinality(Started) \in Nat
      /\ Cardinality(Started \cup {starts + 1}) \in Nat
  BY <1>1, <1>2, StartedIsFinite, FS_Subset, FS_CardinalityType
<1>5. QED BY <1>2, <1>3, <1>4

LEMMA OthersAddNone ==
  ASSUME ThreadTypeOK, Provenance,
         \/ \E c \in Controllers : ControlStep(c)
         \/ \E t \in Threads : CheckEvent(t) \/ EndRound(t)
         \/ UNCHANGED threadVars
  PROVE  Cardinality(Started)' <= Cardinality(Started)
<1>1. Started' \subseteq Started
  <2>1. ThreadShapes BY DEF ThreadTypeOK, ThreadShapes
  <2> USE LoopThreadAssumption, <2>1 DEF ThreadShapes, Threads, Started
  <2>2. ASSUME NEW c \in Controllers, MakeThread(c) PROVE Started' \subseteq Started
    BY <2>2 DEF MakeThread, Provenance
  <2>3. ASSUME NEW c \in Controllers, LaunchThread(c) PROVE Started' \subseteq Started
    BY <2>3 DEF LaunchThread
  <2>4. ASSUME NEW t \in Threads, CheckEvent(t) \/ EndRound(t)
        PROVE  Started' \subseteq Started
    BY <2>4 DEF CheckEvent, EndRound
  <2>5. ASSUME starts' = starts, loop' = loop PROVE Started' \subseteq Started
    BY <2>5
  <2>6. QED
    BY <2>2, <2>3, <2>4, <2>5 DEF ControlStep, StopThread, LookForThread, JoinThread,
       Joined, JoinTimesOut, ReportStop, ForgetThread, threadVars
<1>2. Cardinality(Started') <= Cardinality(Started)
  BY <1>1, StartedIsFinite, FS_Subset
<1>3. QED BY <1>2

LEMMA DeathFreesOne ==
  ASSUME ThreadTypeOK, Provenance, NEW t \in Threads, CheckEvent(t), event \in set
  PROVE  Cardinality(Started)' <= Cardinality(Started) - 1
<1>1. Started' \subseteq Started \ {t} /\ t \in Started
  BY LoopThreadAssumption DEF ThreadTypeOK, Provenance, CheckEvent, Started, Threads
<1>2. IsFiniteSet(Started \ {t}) /\ Cardinality(Started \ {t}) = Cardinality(Started) - 1
  BY <1>1, StartedIsFinite, FS_RemoveElement
<1>3. Cardinality(Started') <= Cardinality(Started \ {t})
  BY <1>1, <1>2, FS_Subset
<1>4. QED BY <1>2, <1>3

--------------------------------------------------------------------------------
(* How many *)

AllIdle == \A c \in Controllers : At(c, "idle")
Stops(c) == control[c].pc \in {"look", "join", "wait", "report", "forget"}

\* One thread may run that no timeout and no crossing accounts for: while only starts
\* are under way, or the one that is remembered, until a stop that nothing crossed
\* has seen it end or has given it up.
Credit ==
  \/ /\ \A c \in Controllers : ~Stops(c)
     /\ AllIdle => current \in Alive
     /\ \A c \in Controllers : At(c, "launch") => current \in Alive \cup Made
  \/ \E d \in Controllers :
       /\ \A c \in Controllers \ {d} : At(c, "idle")
       /\ current \in Alive
       /\ \/ At(d, "look") \/ At(d, "join")
          \/ At(d, "wait") /\ control[d].about = current

Account ==
  \/ Cardinality(Started) <= timeouts + crossings
  \/ Cardinality(Started) <= timeouts + crossings + 1 /\ Credit

\* Which steps leave the credit as it is, use it up, or give it.
LEMMA CreditOfStart ==
  ASSUME ThreadTypeOK, NEW c \in Controllers, StartThread(c)
  PROVE  /\ AllIdle => ~Credit /\ Credit'
         /\ Credit => Credit'
<1>1. ThreadShapes BY DEF ThreadTypeOK, ThreadShapes
<1> USE <1>1 DEF ThreadShapes, Threads, StartThread, Credit, AllIdle, Stops, At, Alive, Made, Begin
<1>2. ASSUME AllIdle PROVE ~Credit BY <1>2
<1>3. ASSUME AllIdle PROVE Credit' BY <1>3
<1>4. ASSUME Credit PROVE Credit' BY <1>4
<1>5. QED BY <1>2, <1>3, <1>4

LEMMA CreditOfControl ==
  ASSUME ThreadTypeOK, Provenance, NEW c \in Controllers, ControlStep(c), Credit
  PROVE  \/ Credit' /\ UNCHANGED <<timeouts, crossings>>
         \/ timeouts' = timeouts + 1 /\ UNCHANGED crossings
         \/ StopThread(c) /\ (AllIdle => Credit')
<1>1. ThreadShapes BY DEF ThreadTypeOK, ThreadShapes
<1> USE LoopThreadAssumption, <1>1 DEF ThreadShapes, Threads, Credit, AllIdle, Stops, At, Alive, Made
<1> USE DEF GoTo, Return, Raise, Idle
<1>2. ASSUME MakeThread(c) PROVE Credit' /\ UNCHANGED <<timeouts, crossings>>
  <2>1. /\ At(c, "make") /\ control' = [control EXCEPT ![c].pc = "launch"]
        /\ current' = control[c].about
        /\ loop' = [loop EXCEPT ![control[c].about] = "made"]
        /\ UNCHANGED <<timeouts, crossings>>
    BY <1>2 DEF MakeThread
  <2>2. control[c].about \in Threads
    BY <2>1 DEF Provenance
  <2>3. \A d \in Controllers : ~Stops(d)
    BY <2>1
  <2>4. /\ \A d \in Controllers : ~Stops(d)'
        /\ ~At(c, "idle")'
    BY <2>1, <2>3
  <2>5. current' \in Made'
    BY <2>1, <2>2
  <2>6. QED BY <2>1, <2>4, <2>5
<1>3. ASSUME LaunchThread(c) PROVE Credit' /\ UNCHANGED <<timeouts, crossings>>
  <2>1. /\ At(c, "launch") /\ control' = [control EXCEPT ![c] = Idle]
        /\ current' = current
        /\ \/ current # 0 /\ loop[current] = "made" /\ loop' = [loop EXCEPT ![current] = "check"]
           \/ ~(current # 0 /\ loop[current] = "made") /\ loop' = loop
        /\ UNCHANGED <<timeouts, crossings>>
    BY <1>3, LaunchOutcomes
  <2>2. /\ \A d \in Controllers : ~Stops(d)
        /\ current \in Alive \cup Made
    BY <2>1
  <2>3. current \in Alive'
    BY <2>1, <2>2
  <2>4. \A d \in Controllers : ~Stops(d)'
    BY <2>1, <2>2
  <2>5. QED BY <2>1, <2>2, <2>3, <2>4
<1>4. ASSUME StopThread(c), AllIdle PROVE Credit'
  BY <1>4 DEF StopThread, Begin
<1>5. ASSUME LookForThread(c) PROVE Credit' /\ UNCHANGED <<timeouts, crossings>>
  <2>1. At(c, "look") /\ current \in Alive /\ current # 0
    BY <1>5 DEF LookForThread
  <2>2. /\ control' = [control EXCEPT ![c].pc = "join"]
        /\ UNCHANGED <<current, loop, timeouts, crossings>>
    BY <1>5, <2>1 DEF LookForThread
  <2>3. \A d \in Controllers \ {c} : At(d, "idle")'
    BY <2>1, <2>2
  <2>4. QED BY <2>1, <2>2, <2>3
<1>6. ASSUME JoinThread(c) PROVE Credit' /\ UNCHANGED <<timeouts, crossings>>
  BY <1>6 DEF JoinThread
<1>7. ~Joined(c) BY DEF Joined
<1>8. ASSUME JoinTimesOut(c) PROVE timeouts' = timeouts + 1 /\ UNCHANGED crossings
  BY <1>8 DEF JoinTimesOut
<1>9. ~ReportStop(c) /\ ~ForgetThread(c) BY DEF ReportStop, ForgetThread
<1>10. QED BY <1>2, <1>3, <1>4, <1>5, <1>6, <1>7, <1>8, <1>9 DEF ControlStep

LEMMA CreditOfLoop ==
  ASSUME ThreadTypeOK, NEW t \in Threads, Credit,
         (CheckEvent(t) /\ event \notin set) \/ EndRound(t)
  PROVE  Credit'
<1>1. ThreadShapes BY DEF ThreadTypeOK, ThreadShapes
<1>2. Alive' = Alive /\ Made' = Made /\ UNCHANGED <<control, current>>
  BY <1>1 DEF ThreadShapes, CheckEvent, EndRound, Alive, Made, Threads
<1>3. QED BY <1>2 DEF Credit, AllIdle, Stops, At

\* The sums: m threads after a step that n preceded, timeouts from t to u, crossings
\* from c to d, which stay at their bound.
LEMMA SumsGrow ==
  ASSUME NEW n \in Nat, NEW m \in Nat, NEW t \in Nat, NEW u \in Nat,
         NEW c \in Nat, NEW d \in Nat, m <= n, t <= u, c <= d
  PROVE  /\ n <= t + c => m <= u + d
         /\ n <= t + c + 1 => m <= u + d + 1
OBVIOUS

LEMMA SumsGrowByTimeout ==
  ASSUME NEW n \in Nat, NEW m \in Nat, NEW t \in Nat, NEW u \in Nat,
         NEW c \in Nat, NEW d \in Nat, m <= n, n <= t + c + 1, t + 1 <= u, c <= d
  PROVE  m <= u + d
OBVIOUS

LEMMA SumsGrowByStop ==
  ASSUME NEW n \in Nat, NEW m \in Nat, NEW t \in Nat, NEW u \in Nat,
         NEW c \in Nat, NEW d \in Nat, m <= n, n <= t + c + 1, t <= u, c + 1 <= d
  PROVE  m <= u + d
OBVIOUS

LEMMA SumsGrowByCrossing ==
  ASSUME NEW n \in Nat, NEW m \in Nat, NEW t \in Nat, NEW u \in Nat,
         NEW c \in Nat, NEW d \in Nat, m <= n + 1, t <= u, c + 1 <= d
  PROVE  /\ n <= t + c => m <= u + d
         /\ n <= t + c + 1 => m <= u + d + 1
OBVIOUS

LEMMA SumsAtTheBound ==
  ASSUME NEW m \in Nat, NEW u \in Nat, NEW d \in Nat, m <= MaxStarts, d = MaxStarts
  PROVE  m <= u + d
OBVIOUS

\* Every step keeps the account.
LEMMA AccountKept ==
  ASSUME ThreadTypeOK, Provenance, Account, ThreadStep PROVE Account'
<1> DEFINE n == Cardinality(Started)
           m == Cardinality(Started')
<1>1. ThreadTypeOK' BY ThreadTypes
<1>2. /\ n \in Nat /\ m \in Nat /\ m <= MaxStarts
      /\ timeouts \in Nat /\ timeouts' \in Nat /\ MaxStarts \in Nat
      /\ crossings \in Nat /\ crossings' \in Nat
  <2>1. n \in Nat BY StartedIsFinite
  <2>2. m \in Nat /\ m <= MaxStarts BY <1>1, StartedStaysFinite
  <2>3. QED BY <1>1, <2>1, <2>2, LoopThreadAssumption DEF ThreadTypeOK
<1>3. \/ n <= timeouts + crossings
      \/ n <= timeouts + crossings + 1 /\ Credit
  BY DEF Account
<1>4. n <= timeouts + crossings + 1 BY <1>2, <1>3
<1>5. SUFFICES \/ m <= timeouts' + crossings'
               \/ m <= timeouts' + crossings' + 1 /\ Credit'
  BY DEF Account
<1> HIDE DEF n, m
<1>6. ASSUME NEW c \in Controllers, StartThread(c)
      PROVE  \/ m <= timeouts' + crossings'
             \/ m <= timeouts' + crossings' + 1 /\ Credit'
  <2>1. m <= n + 1 /\ timeouts' = timeouts
    BY <1>6, StartAddsOne DEF StartThread, n, m
  <2>2. Begin(c) BY <1>6 DEF StartThread
  <2>3. CASE AllIdle
    <3>1. ~Credit /\ Credit' BY <1>6, <2>3, CreditOfStart
    <3>2. crossings' = crossings BY <2>2, <2>3, BeginCounts DEF AllIdle
    <3>3. n <= timeouts + crossings BY <1>3, <3>1, Zenon
    <3>4. m <= timeouts' + crossings' + 1 BY <1>2, <2>1, <3>2, <3>3
    <3>5. QED BY <3>1, <3>4, Zenon
  <2>4. CASE ~AllIdle
    <3>1. crossings + 1 <= crossings' \/ crossings' = MaxStarts
      BY <1>2, <2>2, <2>4, BeginCounts DEF AllIdle
    <3>2. Credit => Credit' BY <1>6, CreditOfStart
    <3>3. timeouts <= timeouts' BY <1>2, <2>1
    <3>4. CASE crossings + 1 <= crossings'
      <4>1. /\ n <= timeouts + crossings => m <= timeouts' + crossings'
            /\ n <= timeouts + crossings + 1 => m <= timeouts' + crossings' + 1
        BY <1>2, <2>1, <3>3, <3>4, SumsGrowByCrossing, Zenon
      <4>2. QED BY <1>3, <1>4, <3>2, <4>1, Zenon
    <3>5. CASE crossings' = MaxStarts
      <4>1. m <= timeouts' + crossings' BY <1>2, <3>5, SumsAtTheBound, Zenon
      <4>2. QED BY <4>1, Zenon
    <3>6. QED BY <3>1, <3>4, <3>5
  <2>5. QED BY <2>3, <2>4
<1>7. ASSUME NEW c \in Controllers, ControlStep(c)
      PROVE  \/ m <= timeouts' + crossings'
             \/ m <= timeouts' + crossings' + 1 /\ Credit'
  <2>1. m <= n
    BY <1>7, OthersAddNone DEF n, m
  <2>2. timeouts <= timeouts' /\ crossings <= crossings'
    <3>1. StopThread(c) => crossings' >= crossings /\ timeouts' = timeouts
      BY BeginCounts DEF StopThread
    <3>2. ~StopThread(c) => crossings' = crossings /\ (timeouts' = timeouts \/ timeouts' = timeouts + 1)
      BY <1>7 DEF ControlStep, MakeThread, LaunchThread, LookForThread, JoinThread, Joined,
         JoinTimesOut, ReportStop, ForgetThread
    <3>3. QED BY <1>2, <3>1, <3>2
  <2>3. /\ n <= timeouts + crossings => m <= timeouts' + crossings'
        /\ m <= timeouts' + crossings' + 1
    BY <1>2, <1>4, <2>1, <2>2, SumsGrow
  <2>4. CASE ~Credit
    BY <1>3, <2>3, <2>4, Zenon
  <2>5. CASE Credit'
    BY <2>3, <2>5, Zenon
  <2>6. CASE timeouts' = timeouts + 1
    <3>1. timeouts + 1 <= timeouts' BY <1>2, <2>6
    <3>2. m <= timeouts' + crossings'
      BY <1>2, <1>4, <2>1, <2>2, <3>1, SumsGrowByTimeout, Zenon
    <3>3. QED BY <3>2, Zenon
  <2>7. CASE StopThread(c) /\ ~AllIdle
    <3>1. crossings + 1 <= crossings' \/ crossings' = MaxStarts
      BY <1>2, <2>7, BeginCounts DEF StopThread, AllIdle
    <3>2. CASE crossings + 1 <= crossings'
      <4>1. m <= timeouts' + crossings'
        BY <1>2, <1>4, <2>1, <2>2, <3>2, SumsGrowByStop, Zenon
      <4>2. QED BY <4>1, Zenon
    <3>3. CASE crossings' = MaxStarts
      <4>1. m <= timeouts' + crossings' BY <1>2, <3>3, SumsAtTheBound, Zenon
      <4>2. QED BY <4>1, Zenon
    <3>4. QED BY <3>1, <3>2, <3>3
  <2>8. CASE Credit
    <3>1. \/ Credit'
          \/ timeouts' = timeouts + 1
          \/ StopThread(c) /\ (AllIdle => Credit')
      BY <1>7, <2>8, CreditOfControl
    <3>2. QED BY <2>5, <2>6, <2>7, <3>1, Zenon
  <2>9. QED BY <2>4, <2>8
<1>8. ASSUME NEW t \in Threads, CheckEvent(t) \/ EndRound(t)
      PROVE  \/ m <= timeouts' + crossings'
             \/ m <= timeouts' + crossings' + 1 /\ Credit'
  <2>1. timeouts' = timeouts /\ crossings' = crossings
    BY <1>8 DEF CheckEvent, EndRound
  <2>2. CASE CheckEvent(t) /\ event \in set
    <3>1. m <= n - 1 BY <2>2, DeathFreesOne DEF n, m
    <3>2. m <= timeouts' + crossings' BY <1>2, <1>4, <2>1, <3>1
    <3>3. QED BY <3>2, Zenon
  <2>3. CASE (CheckEvent(t) /\ event \notin set) \/ EndRound(t)
    <3>1. m <= n BY <1>8, OthersAddNone DEF n, m
    <3>2. Credit => Credit' BY <2>3, CreditOfLoop
    <3>3. /\ n <= timeouts + crossings => m <= timeouts' + crossings'
          /\ m <= timeouts' + crossings' + 1
      BY <1>2, <1>4, <2>1, <3>1
    <3>4. QED BY <1>3, <3>2, <3>3, Zenon
  <2>4. QED BY <1>8, <2>2, <2>3
<1>9. ASSUME UNCHANGED threadVars
      PROVE  \/ m <= timeouts' + crossings'
             \/ m <= timeouts' + crossings' + 1 /\ Credit'
  <2>1. m = n /\ timeouts' = timeouts /\ crossings' = crossings
    BY <1>9 DEF threadVars, n, m, Started
  <2>2. Credit' <=> Credit
    BY <1>9 DEF threadVars, Credit, AllIdle, Stops, At, Alive, Made
  <2>3. QED BY <1>3, <2>1, <2>2
<1>10. QED BY <1>6, <1>7, <1>8, <1>9 DEF ThreadStep

--------------------------------------------------------------------------------
(* When a call may raise *)

\* As long as no call crossed another there is one at a time, and the variable is what
\* that call makes of it.
Uncrossed ==
  crossings = 0 =>
    /\ raised # TRUE
    /\ \A c, d \in Controllers : ~At(c, "idle") /\ ~At(d, "idle") => c = d
    /\ \A c \in Controllers : At(c, "launch") => current \in Made
    /\ (\A c \in Controllers : ~At(c, "launch")) => current \notin Made
    /\ \A c \in Controllers : At(c, "join") \/ At(c, "wait") \/ At(c, "report") => current # 0

LEMMA UncrossedKept ==
  ASSUME ThreadTypeOK, Provenance, Uncrossed, ThreadStep PROVE Uncrossed'
<1>1. ThreadShapes BY DEF ThreadTypeOK, ThreadShapes
<1>2. SUFFICES ASSUME crossings' = 0 PROVE Uncrossed' BY DEF Uncrossed
<1>3. ASSUME NEW c \in Controllers, Begin(c) PROVE crossings = 0 /\ AllIdle
  BY <1>2, <1>3, BeginCounts, LoopThreadAssumption DEF ThreadTypeOK, AllIdle
<1> USE LoopThreadAssumption, <1>1 DEF ThreadShapes, Threads, At, Made, Uncrossed
<1>4. ASSUME NEW c \in Controllers, StartThread(c) PROVE Uncrossed'
  BY <1>3, <1>4 DEF StartThread, AllIdle
<1>5. ASSUME NEW c \in Controllers, ControlStep(c) PROVE Uncrossed'
  <2> USE DEF GoTo, Idle
  <2>1. CASE MakeThread(c)
    <3>1. crossings = 0 /\ At(c, "make") /\ control[c].about \in Threads
      BY <1>2, <2>1 DEF MakeThread, Provenance
    <3>2. QED BY <2>1, <3>1 DEF MakeThread
  <2>2. CASE LaunchThread(c)
    <3>1. crossings = 0 /\ At(c, "launch") /\ current \in Made
      BY <1>2, <2>2 DEF LaunchThread
    <3>2. /\ loop' = [loop EXCEPT ![current] = "check"]
          /\ control' = [control EXCEPT ![c] = Idle]
          /\ raised' = raised /\ current' = current
      BY <2>2, <3>1 DEF LaunchThread, Return
    <3>3. QED BY <3>1, <3>2
  <2>3. CASE StopThread(c)
    BY <1>3, <2>3 DEF StopThread, AllIdle
  <2>4. CASE LookForThread(c)
    BY <1>2, <2>4 DEF LookForThread
  <2>5. CASE JoinThread(c)
    <3>1. crossings = 0 /\ At(c, "join") /\ current # 0 /\ current \notin Made
      BY <1>2, <2>5 DEF JoinThread
    <3>2. /\ control' = [control EXCEPT ![c] = [pc |-> "wait", about |-> current]]
          /\ raised' = raised /\ current' = current /\ loop' = loop
      BY <2>5, <3>1 DEF JoinThread
    <3>3. QED BY <3>1, <3>2
  <2>6. CASE Joined(c)
    BY <1>2, <2>6 DEF Joined
  <2>7. CASE JoinTimesOut(c)
    BY <1>2, <2>7 DEF JoinTimesOut
  <2>8. CASE ReportStop(c)
    <3>1. crossings = 0 /\ At(c, "report") /\ current # 0
      BY <1>2, <2>8 DEF ReportStop
    <3>2. /\ control' = [control EXCEPT ![c].pc = "forget"]
          /\ raised' = raised /\ current' = current /\ loop' = loop
      BY <2>8, <3>1 DEF ReportStop
    <3>3. QED BY <3>1, <3>2
  <2>9. CASE ForgetThread(c)
    <3>1. crossings = 0 /\ At(c, "forget") /\ 0 \notin Made
      BY <1>2, <2>9 DEF ForgetThread
    <3>2. /\ control' = [control EXCEPT ![c] = Idle]
          /\ raised' = raised /\ current' = 0 /\ loop' = loop
      BY <2>9 DEF ForgetThread, Return
    <3>3. QED BY <3>1, <3>2
  <2>10. QED BY <1>5, <2>1, <2>2, <2>3, <2>4, <2>5, <2>6, <2>7, <2>8, <2>9 DEF ControlStep
<1>6. ASSUME NEW t \in Threads, CheckEvent(t) \/ EndRound(t) PROVE Uncrossed'
  <2>1. /\ crossings = 0 /\ UNCHANGED <<control, current>>
        /\ Made' = Made
    BY <1>2, <1>6 DEF CheckEvent, EndRound
  <2>2. raised' = raised BY <1>6, Zenon DEF CheckEvent, EndRound
  <2>3. QED BY <2>1, <2>2 DEF Uncrossed
<1>7. CASE UNCHANGED threadVars BY <1>2, <1>7 DEF threadVars
<1>8. QED BY <1>4, <1>5, <1>6, <1>7 DEF ThreadStep

--------------------------------------------------------------------------------

ThreadInv == ThreadTypeOK /\ Provenance /\ Account /\ Uncrossed

\* Whatever starts and stops cross each other, the threads that run beside the first are
\* those that a stop gave up on or a crossing lost, and nothing raises uncrossed.
THEOREM ThreadsAccounted == FairSpec => []ThreadsAreAccounted
<1>1. Init => ThreadInv
  <2> SUFFICES ASSUME Init PROVE ThreadInv OBVIOUS
  <2>1. ThreadTypeOK
    <3>1. ThreadShapes
      BY LoopThreadAssumption DEF Init, ThreadInit, ThreadShapes, Threads, Idle
    <3>2. asked \in BOOLEAN /\ raised \in BOOLEAN
      BY Zenon DEF Init, ThreadInit
    <3>3. QED BY <3>1, <3>2 DEF ThreadTypeOK, ThreadShapes
  <2>2. Provenance
    BY LoopThreadAssumption DEF Init, ThreadInit, Provenance, At, Idle, Threads
  <2>3. Account
    <3>1. Started = {} BY DEF Init, ThreadInit, Started
    <3>2. Cardinality(Started) = 0 BY <3>1, FS_EmptySet
    <3>3. QED BY <3>2 DEF Account, Init, ThreadInit
  <2>4. Uncrossed
    <3>1. raised # TRUE BY Zenon DEF Init, ThreadInit
    <3>2. /\ \A c \in Controllers : At(c, "idle")
          /\ current \notin Made
      BY LoopThreadAssumption DEF Init, ThreadInit, At, Idle, Made, Threads
    <3>3. QED BY <3>1, <3>2 DEF Uncrossed, At
  <2>5. QED BY <2>1, <2>2, <2>3, <2>4 DEF ThreadInv
<1>2. ThreadInv /\ [Next]_vars => ThreadInv'
  BY StepsAreThreadSteps, ThreadTypes, ProvenanceKept, AccountKept, UncrossedKept DEF ThreadInv
<1>3. ThreadInv => ThreadsAreAccounted
  <2> SUFFICES ASSUME ThreadInv PROVE ThreadsAreAccounted OBVIOUS
  <2>1. Cardinality(Alive) <= Cardinality(Started) /\ Cardinality(Alive) \in Nat
    BY AliveAreStarted, StartedIsFinite, FS_Subset, FS_CardinalityType DEF ThreadInv
  <2>2. Cardinality(Started) <= timeouts + crossings + 1
    BY StartedIsFinite DEF ThreadInv, Account, ThreadTypeOK
  <2>3. Cardinality(Alive) <= 1 + timeouts + crossings
    BY <2>1, <2>2, StartedIsFinite DEF ThreadInv, ThreadTypeOK
  <2>4. raised => crossings > 0
    <3>1. crossings \in Nat BY LoopThreadAssumption DEF ThreadInv, ThreadTypeOK
    <3>2. crossings = 0 => ~raised
      BY Zenon DEF ThreadInv, Uncrossed, ThreadTypeOK
    <3>3. crossings # 0 => crossings > 0 BY <3>1
    <3>4. QED BY <3>2, <3>3, Zenon
  <2>5. QED BY <2>3, <2>4 DEF ThreadsAreAccounted
<1>4. QED BY <1>1, <1>2, <1>3, PTL DEF FairSpec
================================================================================
