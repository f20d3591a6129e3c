------------------------------- MODULE MemoryTiers -------------------------------
(***************************************************************************)
(* The memory tables of Grid Master OS and the two jobs that thin them     *)
(* out: memory_manager.compress_memory(), which replaces old entries of    *)
(* low importance by one digest per day, and summarize_memory(), which     *)
(* archives old entries of middling importance under one summary per       *)
(* month (database.compress_old_entries(), summarize_old_entries()).       *)
(*                                                                         *)
(* A job reads the tasks in failure_memory, then the candidates, then      *)
(* replaces one group after the other, each in a transaction of its own;   *)
(* agents store entries and failures between these calls, and other jobs   *)
(* run.  What an entry says is left out; its tags, by which agents recall  *)
(* it, are kept, and so is (as history) what a digest was made from.       *)
(***************************************************************************)
EXTENDS Naturals, FiniteSets

CONSTANTS
  Jobs,              \* threads that compress or summarize
  Tasks,             \* tasks that entries belong to
  Tags,
  Kinds,             \* what agents store: <<entry_type, importance>>
  MaxScores,         \* the values of max_score that callers pass
  CompressAfter,     \* older_than_days of compress_memory()
  SummarizeAfter,    \* older_than_days of summarize_memory()
  MinDay,            \* MIN_GROUP: entries that are worth a daily digest
  MinMonth,          \* min_group: entries that are worth a monthly summary
  MonthLength,       \* days in a month
  MaxEntries,        \* bound: entries the agents store
  MaxDays,           \* bound: days that pass
  MaxFaults          \* bound: jobs that fail or are killed half-way

NoTask == "none"
Types == {"log", "intake", "dispatch", "result", "lesson", "failure", "knowledge",
          "compressed", "summary", "archived"}
\* What the jobs write, and no agent (worker.py:271, reviewer.py:171, grid_master.py:49, 137).
DigestTypes == {"compressed", "summary", "archived"}
SCORE_RESULT == 3
SCORE_PATTERN == 5
SCORE_LESSON == 7

ASSUME MemoryAssumption ==
  /\ NoTask \notin Tasks
  /\ IsFiniteSet(Jobs)
  /\ Kinds \subseteq (Types \ DigestTypes) \X (1..10) /\ MaxScores \subseteq 1..10
  /\ {CompressAfter, SummarizeAfter, MaxEntries, MaxDays, MaxFaults} \subseteq Nat
  /\ {MinDay, MinMonth, MonthLength} \subseteq Nat \ {0}

VARIABLES
  entries,   \* memory_entries
  lastId,    \* the last id given to an entry (AUTOINCREMENT)
  failures,  \* the tasks that failure_memory names
  today,
  job,       \* where each job is, and its local variables
  deleted,   \* history: the entries deleted
  stored,    \* history: entries stored by agents
  faults

vars == <<entries, lastId, failures, today, job, deleted, stored, faults>>

Entry == [id : Nat \ {0}, task : Tasks \cup {NoTask}, type : Types, score : 1..10,
          tags : SUBSET Tags, day : Nat, sources : SUBSET Nat]

Idle == [pc |-> "idle", kind |-> "compress", max |-> 1, protected |-> {},
         before |-> {}, todo |-> {}]

TypeOK ==
  /\ entries \subseteq Entry /\ deleted \subseteq Entry
  /\ lastId \in Nat /\ today \in Nat /\ stored \in Nat /\ faults \in Nat
  /\ failures \subseteq Tasks
  /\ \A j \in Jobs :
       /\ job[j].pc \in {"idle", "protect", "read", "write"}
       /\ job[j].kind \in {"compress", "summarize"}
       /\ job[j].todo \subseteq SUBSET Entry
  /\ \A e1, e2 \in entries : e1.id = e2.id => e1 = e2

Init ==
  /\ entries = {} /\ lastId = 0 /\ failures = {} /\ today = 0
  /\ job = [j \in Jobs |-> Idle]
  /\ deleted = {} /\ stored = 0 /\ faults = 0

--------------------------------------------------------------------------------
\* What the agents store

\* Mutant: lastrowid is taken before the INSERT.
IdBefore == lastId

NextId == lastId + 1

New(t, kind, tags) ==
  [id |-> NextId, task |-> t, type |-> kind[1], score |-> kind[2],
   tags |-> tags, day |-> today, sources |-> {}]

\* memory_manager.remember()
Remember(t, kind, tags) ==
  /\ stored < MaxEntries
  /\ entries' = entries \cup {New(t, kind, tags)}
  /\ lastId' = lastId + 1
  /\ stored' = stored + 1
  /\ UNCHANGED <<failures, today, job, deleted, faults>>

\* memory_manager.remember_failure(): the failure_memory row alone.
RememberFailure(t) ==
  /\ t \notin failures
  /\ failures' = failures \cup {t}
  /\ UNCHANGED <<entries, lastId, today, job, deleted, stored, faults>>

--------------------------------------------------------------------------------
\* The jobs

At(j, l) == job[j].pc = l
Becomes(j, state) == job' = [job EXCEPT ![j] = state]

\* Mutant: the guard lets SCORE_PATTERN through.
ScoreCloseEnough(max) == max <= SCORE_PATTERN

\* The guard that raises ValueError.
ScoreAllowed(max) == max < SCORE_PATTERN

Call(j, kind, max) ==
  /\ At(j, "idle") /\ ScoreAllowed(max)
  /\ Becomes(j, [Idle EXCEPT !.pc = "protect", !.kind = kind, !.max = max,
                             !.before = failures])
  /\ UNCHANGED <<entries, lastId, failures, today, deleted, stored, faults>>

\* Mutant: the tasks in failure_memory are not read.
ReadNoProtected(j) ==
  /\ At(j, "protect")
  /\ Becomes(j, [job[j] EXCEPT !.pc = "read"])
  /\ UNCHANGED <<entries, lastId, failures, today, deleted, stored, faults>>

ReadProtected(j) ==
  /\ At(j, "protect")
  /\ Becomes(j, [job[j] EXCEPT !.pc = "read", !.protected = failures])
  /\ UNCHANGED <<entries, lastId, failures, today, deleted, stored, faults>>

Compressible(e, max) ==
  e.score <= max /\ e.type \in {"log", "intake"} /\ e.day + CompressAfter < today

\* Mutant: archived entries are summarized again.
SummarizedAgain(e, max) ==
  /\ SCORE_RESULT <= e.score /\ e.score <= max
  /\ e.type \notin {"summary", "lesson", "failure", "knowledge"}
  /\ e.day + SummarizeAfter < today

Summarizable(e, max) ==
  /\ SCORE_RESULT <= e.score /\ e.score <= max
  /\ e.type \notin {"summary", "archived", "lesson", "failure", "knowledge"}
  /\ e.day + SummarizeAfter < today

Month(day) == day \div MonthLength

\* period[d] is the day or the month that day d belongs to.
GroupsBy(candidates, period, min) ==
  {g \in {{e \in candidates : period[e.day] = period[c.day]} : c \in candidates} :
     Cardinality(g) >= min}

ByDay == [day \in 0..today |-> day]
ByMonth == [day \in 0..today |-> Month(day)]

ReadCandidates(j) ==
  LET free == {e \in entries : e.task \notin job[j].protected}
      todo == IF job[j].kind = "compress"
              THEN GroupsBy({e \in free : Compressible(e, job[j].max)}, ByDay, MinDay)
              ELSE GroupsBy({e \in free : Summarizable(e, job[j].max)}, ByMonth, MinMonth)
  IN /\ At(j, "read")
     /\ Becomes(j, IF todo = {} THEN Idle ELSE [job[j] EXCEPT !.pc = "write", !.todo = todo])
     /\ UNCHANGED <<entries, lastId, failures, today, deleted, stored, faults>>

Ids(group) == {e.id : e \in group}

\* Mutant: the tags of the first source only.
TagsOfFirst(group) == (CHOOSE e \in group : \A o \in group : e.id <= o.id).tags

TagUnion(group) == UNION {e.tags : e \in group}

\* The digest of a group, from the rows as they were read.
Digest(group, type, score) ==
  [id |-> NextId, task |-> NoTask, type |-> type, score |-> score,
   tags |-> TagUnion(group), day |-> today, sources |-> Ids(group)]

\* INSERT the summary and UPDATE the sources by id, whatever they are by now.
Archive(group) ==
  /\ entries' = {IF e.id \in Ids(group) THEN [e EXCEPT !.type = "archived"] ELSE e
                   : e \in entries} \cup {Digest(group, "summary", SCORE_LESSON)}
  /\ UNCHANGED deleted

\* INSERT the digest and DELETE the sources by id.
Replace(group) ==
  /\ entries' = {e \in entries : e.id \notin Ids(group)}
                  \cup {Digest(group, "compressed", SCORE_RESULT)}
  /\ deleted' = deleted \cup {e \in entries : e.id \in Ids(group)}

\* One transaction for each group, the oldest first.
WriteGroup(j) ==
  /\ At(j, "write")
  /\ \E group \in job[j].todo :
       /\ \A other \in job[j].todo, e \in group : \E o \in other : e.day <= o.day
       /\ IF job[j].kind = "compress" THEN Replace(group) ELSE Archive(group)
       /\ Becomes(j, IF job[j].todo = {group} THEN Idle
                     ELSE [job[j] EXCEPT !.todo = @ \ {group}])
  /\ lastId' = lastId + 1
  /\ UNCHANGED <<failures, today, stored, faults>>

\* A database error or a kill: what was written stays, the rest is not done.
Interrupt(j) ==
  /\ faults < MaxFaults /\ job[j].pc # "idle"
  /\ faults' = faults + 1
  /\ Becomes(j, Idle)
  /\ UNCHANGED <<entries, lastId, failures, today, deleted, stored>>

NextDay ==
  /\ today < MaxDays
  /\ today' = today + 1
  /\ UNCHANGED <<entries, lastId, failures, job, deleted, stored, faults>>

Next ==
  \/ \E t \in Tasks, kind \in Kinds, tags \in SUBSET Tags : Remember(t, kind, tags)
  \/ \E t \in Tasks : RememberFailure(t)
  \/ \E j \in Jobs :
       \/ \E kind \in {"compress", "summarize"}, max \in MaxScores : Call(j, kind, max)
       \/ ReadProtected(j) \/ ReadCandidates(j) \/ WriteGroup(j) \/ Interrupt(j)
  \/ NextDay

Spec == Init /\ [][Next]_vars

--------------------------------------------------------------------------------
\* Properties

Covers(digest, e) == e.id \in digest.sources /\ e.tags \subseteq digest.tags

\* Whatever was deleted or archived is represented by a digest that is still in the
\* table and carries its tags, however jobs overlapped and wherever they stopped
\* (one transaction inserts the digest and removes or archives its sources).
NothingForgotten ==
  /\ \A e \in deleted : \E digest \in entries : Covers(digest, e)
  /\ \A e \in entries : e.type = "archived" =>
       \E digest \in entries : digest.type = "summary" /\ Covers(digest, e)

\* A job that read an entry before another deleted or archived it digests it again
\* (compress_old_entries, summarize_old_entries); but no entry enters more digests and
\* summaries than there are jobs, whatever types and ages the digests have themselves.
DigestedOncePerJob ==
  \A e \in entries \cup deleted :
    Cardinality({d \in entries : e.id \in d.sources}) <= Cardinality(Jobs)

Survives(e) == \E o \in entries' : o.id = e.id /\ o.type = e.type

\* An entry of a task that had failed before every running call stays as it is
\* (the protected task ids of both jobs), however many failures follow.
FailedBeforeKept ==
  [][\A e \in entries :
       (\A j \in Jobs : job[j].pc # "idle" => e.task \in job[j].before) => Survives(e)]_vars

\* Patterns, lessons and summaries stay, whatever max_score the callers pass
\* (the guard of compress_memory and summarize_memory).
ImportantKept == [][\A e \in entries : e.score >= SCORE_PATTERN => Survives(e)]_vars
================================================================================
