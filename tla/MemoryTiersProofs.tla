---------------------------- MODULE MemoryTiersProofs ----------------------------
(***************************************************************************)
(* What the two jobs may do to the memory tables, with any number of jobs, *)
(* entries, tasks and days.                                                *)
(***************************************************************************)
EXTENDS MemoryTiers, FiniteSetTheorems, TLAPS

Job == [pc : {"idle", "protect", "read", "write"}, kind : {"compress", "summarize"},
        max : 1..(SCORE_PATTERN - 1), protected : SUBSET Tasks, before : SUBSET Tasks,
        todo : SUBSET SUBSET Entry]

Everything == entries \cup deleted

Typed ==
  /\ entries \subseteq Entry /\ deleted \subseteq Entry /\ IsFiniteSet(entries)
  /\ lastId \in Nat /\ today \in Nat /\ stored \in Nat /\ faults \in Nat
  /\ failures \subseteq Tasks
  /\ job \in [Jobs -> Job]
  /\ \A e \in Everything : e.id <= lastId
  /\ \A e, o \in entries : e.id = o.id => e = o
  /\ \A e \in entries, o \in deleted : e.id # o.id

\* What no job changes of an entry.
Alike(x, e) ==
  x.task = e.task /\ x.score = e.score /\ x.tags = e.tags /\ x.sources = e.sources

Rows(j) == UNION job[j].todo

\* What a job has read is out of date in nothing but its type.
RowsRead ==
  \A j \in Jobs : \A x \in Rows(j) :
    /\ x.id <= lastId
    /\ \A e \in Everything : e.id = x.id => Alike(x, e)

\* Digests are not thinned out as routine entries are, and a summary not at all.
DigestsStay ==
  /\ \A e \in entries : e.sources # {} => e.type \in DigestTypes
  /\ \A e \in deleted : e.sources = {}
  /\ \A j \in Jobs : \A x \in Rows(j) :
       /\ job[j].kind = "compress" => x.sources = {}
       /\ \A e \in entries : e.id = x.id => e.type # "summary"

\* What a job may not touch.
Spared ==
  \A j \in Jobs :
    /\ job[j].pc = "protect" => job[j].before \subseteq failures
    /\ job[j].pc \in {"read", "write"} => job[j].before \subseteq job[j].protected
    /\ job[j].pc # "write" => job[j].todo = {}
    /\ \A x \in Rows(j) : x.score < SCORE_PATTERN /\ x.task \notin job[j].protected

MemoryInv == Typed /\ RowsRead /\ DigestsStay /\ Spared /\ NothingForgotten

\* The digests that an entry entered, and the jobs that have it in a group not yet written.
DigestsOf(i) == {d \in entries : i \in d.sources}
Pending(i) == {j \in Jobs : \E x \in Rows(j) : x.id = i}

\* Groups are disjoint, so that a job writes an entry into one digest; and no job that comes
\* later finds it among its candidates.
DigestsCounted ==
  /\ \A j \in Jobs : \A g, h \in job[j].todo : Ids(g) \cap Ids(h) # {} => g = h
  /\ \A d \in entries, e \in entries : e.id \in d.sources => e.type = "archived"
  /\ \A d \in entries : \A i \in d.sources : i <= lastId
  /\ \A i \in 1..lastId :
       DigestsOf(i) # {} =>
         Cardinality(DigestsOf(i)) + Cardinality(Pending(i)) <= Cardinality(Jobs)

--------------------------------------------------------------------------------
(* Entries and groups *)

\* Of a table with one row for each id, no more rows come than there were ids.
LEMMA NoMoreIds ==
  ASSUME NEW S, IsFiniteSet(S), NEW T, \A x \in T : \E y \in S : y.id = x.id,
         \A x, y \in T : x.id = y.id => x = y
  PROVE  IsFiniteSet(T) /\ Cardinality(T) <= Cardinality(S)
<1> DEFINE f == [x \in T |-> CHOOSE y \in S : y.id = x.id]
<1>1. \A x \in T : f[x] \in S /\ f[x].id = x.id OBVIOUS
<1>2. f \in [T -> S] BY <1>1
<1> HIDE DEF f
<1>3. \A a, b \in T : f[a] = f[b] => a = b BY <1>1
<1>4. f \in Injection(T, S) BY <1>2, <1>3 DEF Injection, IsInjective
<1>5. QED BY <1>4, FS_Injection

\* A group has members; and no two groups share one.
LEMMA GroupsPartition ==
  ASSUME NEW candidates, NEW period, NEW min
  PROVE  /\ \A g \in GroupsBy(candidates, period, min) : g # {} /\ g \subseteq candidates
         /\ \A g, h \in GroupsBy(candidates, period, min) : g \cap h # {} => g = h
<1> DEFINE group(c) == {e \in candidates : period[e.day] = period[c.day]}
<1>1. \A g \in GroupsBy(candidates, period, min) : \E c \in candidates : g = group(c)
  BY DEF GroupsBy
<1>2. \A c \in candidates : c \in group(c) /\ group(c) \subseteq candidates
  OBVIOUS
<1>3. ASSUME NEW c \in candidates, NEW d \in candidates, NEW e \in group(c) \cap group(d)
      PROVE  group(c) = group(d)
  <2>1. period[c.day] = period[d.day] OBVIOUS
  <2>2. QED BY <2>1
<1> HIDE DEF group
<1>4. QED BY <1>1, <1>2, <1>3

Archived(e) == [e EXCEPT !.type = "archived"]

LEMMA ArchivedEntry ==
  ASSUME NEW e \in Entry
  PROVE  /\ Archived(e) \in Entry /\ Archived(e).id = e.id
         /\ Archived(e).type = "archived" /\ Alike(e, Archived(e))
<1>1. Archived(e) \in Entry BY DEF Archived, Entry, Types
<1>2. /\ Archived(e).id = e.id /\ Archived(e).type = "archived"
      /\ Archived(e).task = e.task /\ Archived(e).score = e.score
      /\ Archived(e).tags = e.tags /\ Archived(e).sources = e.sources
  BY DEF Archived, Entry
<1>3. QED BY <1>1, <1>2 DEF Alike

LEMMA DigestTyped ==
  ASSUME Typed, NEW group \in SUBSET Entry, NEW type \in Types, NEW score \in 1..10
  PROVE  /\ Digest(group, type, score) \in Entry
         /\ Digest(group, type, score).id = lastId + 1
         /\ Digest(group, type, score).type = type
         /\ Digest(group, type, score).sources = Ids(group)
         /\ Digest(group, type, score).tags = TagUnion(group)
<1>1. TagUnion(group) \subseteq Tags BY DEF TagUnion, Entry
<1>2. Ids(group) \subseteq Nat BY DEF Ids, Entry
<1>3. lastId + 1 \in Nat \ {0} /\ today \in Nat BY DEF Typed
<1>4. QED BY <1>1, <1>2, <1>3 DEF Digest, NextId, Entry

LEMMA JobBecomes ==
  ASSUME Typed, NEW j \in Jobs, NEW state \in Job, Becomes(j, state)
  PROVE  /\ job' \in [Jobs -> Job] /\ job'[j] = state
         /\ \A o \in Jobs \ {j} : job'[o] = job[o]
         /\ \A o \in Jobs \ {j} : Rows(o)' = Rows(o)
         /\ Rows(j)' = UNION state.todo
<1>1. /\ job' \in [Jobs -> Job] /\ job'[j] = state
      /\ \A o \in Jobs \ {j} : job'[o] = job[o]
  BY DEF Typed, Becomes
<1>2. QED BY <1>1 DEF Rows

LEMMA IdleJob ==
  /\ Idle \in Job /\ Idle.pc = "idle" /\ Idle.todo = {} /\ UNION Idle.todo = {}
  /\ Idle.kind = "compress"
BY DEF Idle, Job, SCORE_PATTERN

--------------------------------------------------------------------------------
(* What a write does *)

\* The group that a job writes, its digest, and what is kept of the other rows.
WriteOf(j, group, digest, kept) ==
  /\ digest.id = lastId + 1 /\ digest.sources = Ids(group) /\ digest.tags = TagUnion(group)
  /\ entries' = kept \cup {digest}
  /\ \/ /\ job[j].kind = "compress" /\ digest.type = "compressed"
        /\ kept = {e \in entries : e.id \notin Ids(group)}
        /\ deleted' = deleted \cup {e \in entries : e.id \in Ids(group)}
     \/ /\ job[j].kind = "summarize" /\ digest.type = "summary"
        /\ kept = {IF e.id \in Ids(group) THEN Archived(e) ELSE e : e \in entries}
        /\ deleted' = deleted

LEMMA WriteGroupWrites ==
  ASSUME Typed, NEW j \in Jobs, WriteGroup(j)
  PROVE  \E group \in job[j].todo, digest \in Entry :
           /\ \E kept : WriteOf(j, group, digest, kept)
           /\ \E state \in Job :
                /\ Becomes(j, state)
                /\ state.todo = job[j].todo \ {group}
                /\ \/ state = Idle
                   \/ /\ state.pc = "write" /\ state.kind = job[j].kind
                      /\ state.before = job[j].before
                      /\ state.protected = job[j].protected
           /\ job[j].pc = "write" /\ lastId' = lastId + 1
           /\ UNCHANGED <<failures, today, stored, faults>>
<1>1. PICK group \in job[j].todo :
        /\ IF job[j].kind = "compress" THEN Replace(group) ELSE Archive(group)
        /\ Becomes(j, IF job[j].todo = {group} THEN Idle
                      ELSE [job[j] EXCEPT !.todo = @ \ {group}])
  BY DEF WriteGroup
<1>2. job[j] \in Job BY DEF Typed
<1>3. group \in SUBSET Entry BY <1>2 DEF Job
<1>4. \E state \in Job :
        /\ Becomes(j, state)
        /\ state.todo = job[j].todo \ {group}
        /\ \/ state = Idle
           \/ /\ state.pc = "write" /\ state.kind = job[j].kind
              /\ state.before = job[j].before
              /\ state.protected = job[j].protected
  <2>1. CASE job[j].todo = {group}
    <3>1. Becomes(j, Idle) BY <1>1, <2>1
    <3>2. QED BY <2>1, <3>1, IdleJob
  <2>2. CASE job[j].todo # {group}
    <3> DEFINE state == [job[j] EXCEPT !.todo = job[j].todo \ {group}]
    <3>1. Becomes(j, state) BY <1>1, <2>2
    <3>2. state \in Job /\ state.todo = job[j].todo \ {group} /\ state.pc = job[j].pc
      BY <1>2 DEF Job
    <3>3. /\ state.kind = job[j].kind /\ state.before = job[j].before
          /\ state.protected = job[j].protected
      BY <1>2 DEF Job
    <3>4. job[j].pc = "write" BY DEF WriteGroup, At
    <3> HIDE DEF state
    <3>5. QED BY <3>1, <3>2, <3>3, <3>4
  <2>3. QED BY <2>1, <2>2
<1>5. \E digest \in Entry : \E kept : WriteOf(j, group, digest, kept)
  <2>1. CASE job[j].kind = "compress"
    <3> DEFINE digest == Digest(group, "compressed", SCORE_RESULT)
    <3>1. /\ entries' = {e \in entries : e.id \notin Ids(group)} \cup {digest}
          /\ deleted' = deleted \cup {e \in entries : e.id \in Ids(group)}
      BY <1>1, <2>1 DEF Replace
    <3>2. "compressed" \in Types /\ SCORE_RESULT \in 1..10 BY DEF Types, SCORE_RESULT
    <3>3. /\ digest \in Entry /\ digest.id = lastId + 1 /\ digest.type = "compressed"
          /\ digest.sources = Ids(group) /\ digest.tags = TagUnion(group)
      BY <1>3, <3>2, DigestTyped
    <3> HIDE DEF digest
    <3>4. QED BY <2>1, <3>1, <3>3 DEF WriteOf
  <2>2. CASE job[j].kind = "summarize"
    <3> DEFINE digest == Digest(group, "summary", SCORE_LESSON)
    <3>1. /\ entries' = {IF e.id \in Ids(group) THEN Archived(e) ELSE e : e \in entries}
                          \cup {digest}
          /\ deleted' = deleted
      BY <1>1, <2>2 DEF Archive, Archived
    <3>2. "summary" \in Types /\ SCORE_LESSON \in 1..10 BY DEF Types, SCORE_LESSON
    <3>3. /\ digest \in Entry /\ digest.id = lastId + 1 /\ digest.type = "summary"
          /\ digest.sources = Ids(group) /\ digest.tags = TagUnion(group)
      BY <1>3, <3>2, DigestTyped
    <3> HIDE DEF digest
    <3>4. QED BY <2>2, <3>1, <3>3 DEF WriteOf
  <2>3. QED BY <1>2, <2>1, <2>2 DEF Job
<1>6. QED BY <1>4, <1>5 DEF WriteGroup, At

\* The rows that stay are what they were, but for the type of the group's.
LEMMA KeptRows ==
  ASSUME Typed, NEW j \in Jobs, NEW group, NEW digest, NEW kept,
         WriteOf(j, group, digest, kept)
  PROVE  /\ \A k \in kept :
              /\ k \in Entry
              /\ \E e \in entries :
                   /\ e.id = k.id /\ Alike(e, k)
                   /\ e.id \in Ids(group) => k.type = "archived" /\ job[j].kind = "summarize"
                   /\ e.id \notin Ids(group) => k = e
         /\ \A e \in entries : e.id \notin Ids(group) => e \in kept
         /\ deleted \subseteq deleted'
         /\ \A e \in deleted' \ deleted :
              e \in entries /\ e.id \in Ids(group) /\ job[j].kind = "compress"
         /\ \A e \in entries : e.id \in Ids(group) =>
              \/ e \in deleted'
              \/ Archived(e) \in kept /\ digest.type = "summary"
         /\ \A e, o \in kept : e.id = o.id => e = o
         /\ \A e \in kept, o \in deleted' : e.id # o.id
<1>1. /\ entries \subseteq Entry
      /\ \A e, o \in entries : e.id = o.id => e = o
      /\ \A e \in entries, o \in deleted : e.id # o.id
  BY DEF Typed
<1>2. CASE /\ job[j].kind = "compress" /\ digest.type = "compressed"
           /\ kept = {e \in entries : e.id \notin Ids(group)}
           /\ deleted' = deleted \cup {e \in entries : e.id \in Ids(group)}
  <2>1. \A k \in kept : k \in entries /\ k.id \notin Ids(group) /\ Alike(k, k)
    BY <1>2 DEF Alike
  <2>2. /\ \A e, o \in kept : e.id = o.id => e = o
        /\ \A e \in kept, o \in deleted' : e.id # o.id
    BY <1>1, <1>2
  <2>3. QED BY <1>1, <1>2, <2>1, <2>2
<1>3. CASE /\ job[j].kind = "summarize" /\ digest.type = "summary"
           /\ kept = {IF e.id \in Ids(group) THEN Archived(e) ELSE e : e \in entries}
           /\ deleted' = deleted
  <2>1. \A e \in entries : /\ e.id \in Ids(group) => Archived(e) \in kept
                           /\ e.id \notin Ids(group) => e \in kept
    BY <1>3
  <2>2. ASSUME NEW k \in kept
        PROVE  \E e \in entries :
                 /\ k \in Entry /\ e.id = k.id /\ Alike(e, k)
                 /\ e.id \in Ids(group) => k.type = "archived" /\ k = Archived(e)
                 /\ e.id \notin Ids(group) => k = e
    <3>1. PICK e \in entries : k = IF e.id \in Ids(group) THEN Archived(e) ELSE e
      BY <1>3
    <3>2. Alike(e, e) BY DEF Alike
    <3>3. e \in Entry BY <1>1
    <3>4. QED BY <3>1, <3>2, <3>3, ArchivedEntry
  <2>3. ASSUME NEW e \in kept, NEW o \in kept, e.id = o.id PROVE e = o
    <3>1. PICK a \in entries :
            /\ a.id = e.id
            /\ a.id \in Ids(group) => e = Archived(a)
            /\ a.id \notin Ids(group) => e = a
      BY <2>2
    <3>2. PICK b \in entries :
            /\ b.id = o.id
            /\ b.id \in Ids(group) => o = Archived(b)
            /\ b.id \notin Ids(group) => o = b
      BY <2>2
    <3>3. a = b BY <1>1, <2>3, <3>1, <3>2
    <3>4. QED BY <3>1, <3>2, <3>3
  <2>4. \A e \in kept, o \in deleted' : e.id # o.id
    BY <1>1, <1>3, <2>2
  <2>5. QED BY <1>3, <2>1, <2>2, <2>3, <2>4
<1>4. QED BY <1>2, <1>3 DEF WriteOf

--------------------------------------------------------------------------------
(* Steps that write no digest *)

LEMMA InitMemory == Init => MemoryInv /\ DigestsCounted
<1> SUFFICES ASSUME Init PROVE MemoryInv /\ DigestsCounted
  OBVIOUS
<1>1. /\ entries = {} /\ deleted = {} /\ lastId = 0 /\ failures = {} /\ today = 0
      /\ stored = 0 /\ faults = 0 /\ job = [j \in Jobs |-> Idle]
  BY DEF Init
<1>2. \A j \in Jobs : job[j] = Idle /\ Rows(j) = {}
  BY <1>1, IdleJob DEF Rows
<1>3. Typed
  <2>1. IsFiniteSet(entries) BY <1>1, FS_EmptySet
  <2>2. job \in [Jobs -> Job] BY <1>1, IdleJob
  <2>3. QED BY <1>1, <2>1, <2>2 DEF Typed, Everything
<1>4. RowsRead /\ DigestsStay BY <1>1, <1>2 DEF RowsRead, DigestsStay
<1>5. Spared BY <1>2, IdleJob DEF Spared
<1>6. NothingForgotten BY <1>1 DEF NothingForgotten
<1>7. DigestsCounted BY <1>1, <1>2, IdleJob DEF DigestsCounted
<1>8. QED BY <1>3, <1>4, <1>5, <1>6, <1>7 DEF MemoryInv

LEMMA CountsFinite ==
  ASSUME Typed, NEW i
  PROVE  /\ IsFiniteSet(DigestsOf(i)) /\ Cardinality(DigestsOf(i)) \in Nat
         /\ IsFiniteSet(Pending(i)) /\ Cardinality(Pending(i)) \in Nat
         /\ Cardinality(Pending(i)) <= Cardinality(Jobs) /\ Cardinality(Jobs) \in Nat
<1>1. DigestsOf(i) \in SUBSET entries /\ Pending(i) \in SUBSET Jobs
  BY DEF DigestsOf, Pending
<1>2. IsFiniteSet(entries) /\ IsFiniteSet(Jobs) BY MemoryAssumption DEF Typed
<1>3. QED BY <1>1, <1>2, FS_Subset, FS_CardinalityType

\* As long as no row comes or goes, jobs may only drop groups.
LEMMA CountsKept ==
  ASSUME Typed, DigestsCounted, UNCHANGED <<entries, lastId>>,
         \A j \in Jobs : job'[j].todo \subseteq job[j].todo
  PROVE  DigestsCounted'
<1>1. \A i : DigestsOf(i)' = DigestsOf(i) BY DEF DigestsOf
<1>2. \A i : Pending(i)' \subseteq Pending(i)
  BY DEF Pending, Rows
<1>3. ASSUME NEW i \in 1..lastId, DigestsOf(i) # {}
      PROVE  Cardinality(DigestsOf(i)') + Cardinality(Pending(i)') <= Cardinality(Jobs)
  <2>1. /\ IsFiniteSet(Pending(i)) /\ Cardinality(Pending(i)) \in Nat
        /\ Cardinality(DigestsOf(i)) \in Nat /\ Cardinality(Jobs) \in Nat
    BY CountsFinite
  <2>2. Cardinality(Pending(i)') <= Cardinality(Pending(i)) /\ Cardinality(Pending(i)') \in Nat
    BY <1>2, <2>1, FS_Subset, FS_CardinalityType
  <2>3. Cardinality(DigestsOf(i)) + Cardinality(Pending(i)) <= Cardinality(Jobs)
    BY <1>3 DEF DigestsCounted
  <2>4. QED BY <1>1, <2>1, <2>2, <2>3
<1>4. \A j \in Jobs : \A g, h \in job'[j].todo : Ids(g) \cap Ids(h) # {} => g = h
  BY DEF DigestsCounted
<1>5. QED BY <1>1, <1>3, <1>4 DEF DigestsCounted, Ids

\* An entry that an agent stores is in no job's group, and no digest is of its id.
LEMMA RememberKeeps ==
  ASSUME MemoryInv, DigestsCounted, NEW t \in Tasks, NEW kind \in Kinds,
         NEW tags \in SUBSET Tags, Remember(t, kind, tags)
  PROVE  MemoryInv' /\ DigestsCounted'
<1> DEFINE new == New(t, kind, tags)
<1>1. /\ entries' = entries \cup {new} /\ lastId' = lastId + 1 /\ stored' = stored + 1
      /\ UNCHANGED <<failures, today, job, deleted, faults>>
  BY DEF Remember
<1>2. /\ new \in Entry /\ new.id = lastId + 1 /\ new.sources = {}
      /\ new.type \notin DigestTypes
  <2>1. kind[1] \in Types \ DigestTypes /\ kind[2] \in 1..10 BY MemoryAssumption
  <2>2. lastId + 1 \in Nat \ {0} /\ today \in Nat BY DEF MemoryInv, Typed
  <2>3. QED BY <2>1, <2>2 DEF New, NextId, Entry
<1> HIDE DEF new
<1>3. lastId \in Nat /\ \A e \in Everything : e.id \in Nat /\ e.id <= lastId
  BY DEF MemoryInv, Typed, Everything, Entry
<1>4. \A e \in Everything : e.id # new.id BY <1>2, <1>3
<1>5. Everything' = Everything \cup {new} BY <1>1 DEF Everything
<1>6. \A j : Rows(j)' = Rows(j) BY <1>1 DEF Rows
<1>7. Typed'
  <2>1. IsFiniteSet(entries') BY <1>1, FS_AddElement DEF MemoryInv, Typed
  <2>2. \A e \in Everything' : e.id <= lastId' BY <1>1, <1>2, <1>3, <1>5
  <2>3. /\ \A e, o \in entries' : e.id = o.id => e = o
        /\ \A e \in entries', o \in deleted' : e.id # o.id
    BY <1>1, <1>4 DEF MemoryInv, Typed, Everything
  <2>4. lastId' \in Nat /\ stored' \in Nat BY <1>1 DEF MemoryInv, Typed
  <2>5. QED BY <1>1, <1>2, <2>1, <2>2, <2>3, <2>4 DEF MemoryInv, Typed
<1>8. RowsRead'
  <2>1. ASSUME NEW j \in Jobs, NEW x \in Rows(j)
        PROVE  x.id <= lastId' /\ x.id # new.id
    <3>1. x \in Entry BY DEF MemoryInv, Typed, Rows, Job
    <3>2. x.id \in Nat /\ x.id <= lastId BY <3>1 DEF MemoryInv, RowsRead, Entry
    <3>3. QED BY <1>1, <1>2, <1>3, <3>2
  <2>2. QED BY <1>1, <1>5, <1>6, <2>1 DEF MemoryInv, RowsRead
<1>9. DigestsStay'
  <2>1. new.type # "summary" BY <1>2 DEF DigestTypes
  <2>2. QED BY <1>1, <1>2, <1>6, <2>1 DEF MemoryInv, DigestsStay
<1>10. Spared' BY <1>1, <1>6 DEF MemoryInv, Spared
<1>11. NothingForgotten'
  <2>1. new.type # "archived" BY <1>2 DEF DigestTypes
  <2>2. QED BY <1>1, <2>1 DEF MemoryInv, NothingForgotten
<1>12. DigestsCounted'
  <2>1. \A i : DigestsOf(i)' = DigestsOf(i) BY <1>1, <1>2 DEF DigestsOf
  <2>2. \A i : Pending(i)' = Pending(i) BY <1>1, <1>6 DEF Pending
  <2>3. \A d \in entries : \A i \in d.sources : i \in Nat /\ i <= lastId
    BY DEF DigestsCounted, MemoryInv, Typed, Entry
  <2>4. DigestsOf(new.id) = {} BY <1>2, <1>3, <2>3 DEF DigestsOf
  <2>5. \A i \in 1..lastId' : i \in 1..lastId \/ i = new.id BY <1>1, <1>2, <1>3
  <2>6. \A i \in 1..lastId' :
          DigestsOf(i)' # {} =>
            Cardinality(DigestsOf(i)') + Cardinality(Pending(i)') <= Cardinality(Jobs)
    BY <2>1, <2>2, <2>4, <2>5 DEF DigestsCounted
  <2>7. \A d \in entries' : \A i \in d.sources : i <= lastId' BY <1>1, <1>2, <1>3, <2>3
  <2>8. \A d \in entries', e \in entries' : e.id \in d.sources => e.type = "archived"
    <3>1. \A d \in entries : new.id \notin d.sources BY <2>4 DEF DigestsOf
    <3>2. QED BY <1>1, <1>2, <3>1 DEF DigestsCounted
  <2>9. \A j \in Jobs : \A g, h \in job'[j].todo : Ids(g) \cap Ids(h) # {} => g = h
    BY <1>1 DEF DigestsCounted
  <2>10. QED BY <2>6, <2>7, <2>8, <2>9 DEF DigestsCounted, Ids
<1>13. QED BY <1>7, <1>8, <1>9, <1>10, <1>11, <1>12 DEF MemoryInv

\* A job that is called, reads the failures, or stops.
LEMMA JobMoveKeeps ==
  ASSUME MemoryInv, DigestsCounted, NEW j \in Jobs, NEW state \in Job, Becomes(j, state),
         state.todo = {}, state.pc # "write",
         state.pc = "protect" => state.before \subseteq failures,
         state.pc = "read" => state.before \subseteq state.protected,
         UNCHANGED <<entries, lastId, failures, today, deleted, stored>>, faults' \in Nat
  PROVE  MemoryInv' /\ DigestsCounted'
<1>1. Typed BY DEF MemoryInv
<1>2. /\ job' \in [Jobs -> Job] /\ job'[j] = state
      /\ \A o \in Jobs \ {j} : job'[o] = job[o]
      /\ \A o \in Jobs \ {j} : Rows(o)' = Rows(o)
      /\ Rows(j)' = {}
  BY <1>1, JobBecomes
<1>3. Typed' BY <1>1, <1>2 DEF Typed, Everything
<1>4. RowsRead' BY <1>2 DEF MemoryInv, RowsRead, Everything
<1>5. DigestsStay' BY <1>2 DEF MemoryInv, DigestsStay
<1>6. Spared' BY <1>2 DEF MemoryInv, Spared
<1>7. NothingForgotten' BY DEF MemoryInv, NothingForgotten
<1>8. DigestsCounted'
  <2>1. \A o \in Jobs : job'[o].todo \subseteq job[o].todo BY <1>2
  <2>2. QED BY <1>1, <2>1, CountsKept
<1>9. QED BY <1>3, <1>4, <1>5, <1>6, <1>7, <1>8 DEF MemoryInv

\* Steps that leave the entries and the jobs alone.
LEMMA OthersKeep ==
  ASSUME MemoryInv, DigestsCounted, UNCHANGED <<entries, lastId, job, deleted>>,
         failures \subseteq failures', failures' \subseteq Tasks,
         today' \in Nat, stored' \in Nat, faults' \in Nat
  PROVE  MemoryInv' /\ DigestsCounted'
<1>1. \A j : Rows(j)' = Rows(j) BY DEF Rows
<1>2. Typed' BY DEF MemoryInv, Typed, Everything
<1>3. RowsRead' /\ DigestsStay' BY <1>1 DEF MemoryInv, RowsRead, DigestsStay, Everything
<1>4. Spared' BY <1>1 DEF MemoryInv, Spared
<1>5. NothingForgotten' BY DEF MemoryInv, NothingForgotten
<1>6. DigestsCounted'
  <2>1. \A j \in Jobs : job'[j].todo \subseteq job[j].todo OBVIOUS
  <2>2. QED BY <2>1, CountsKept DEF MemoryInv
<1>7. QED BY <1>2, <1>3, <1>4, <1>5, <1>6 DEF MemoryInv

--------------------------------------------------------------------------------
(* Reading candidates *)

LEMMA CandidatesRead ==
  ASSUME Typed, NEW j \in Jobs, ReadCandidates(j)
  PROVE  \E todo \in SUBSET SUBSET entries :
           /\ \/ todo = {} /\ Becomes(j, Idle)
              \/ Becomes(j, [job[j] EXCEPT !.pc = "write", !.todo = todo])
           /\ job[j].pc = "read"
           /\ \A g, h \in todo : g \cap h # {} => g = h
           /\ \A e \in UNION todo :
                /\ e.score <= job[j].max /\ e.task \notin job[j].protected
                /\ e.type \notin {"summary", "archived"}
                /\ job[j].kind = "compress" => e.type \in {"log", "intake"}
           /\ UNCHANGED <<entries, lastId, failures, today, deleted, stored, faults>>
<1> DEFINE free == {e \in entries : e.task \notin job[j].protected}
           daily == {e \in free : Compressible(e, job[j].max)}
           monthly == {e \in free : Summarizable(e, job[j].max)}
           todo == IF job[j].kind = "compress" THEN GroupsBy(daily, ByDay, MinDay)
                   ELSE GroupsBy(monthly, ByMonth, MinMonth)
<1>1. /\ job[j].pc = "read"
      /\ Becomes(j, IF todo = {} THEN Idle ELSE [job[j] EXCEPT !.pc = "write", !.todo = todo])
      /\ UNCHANGED <<entries, lastId, failures, today, deleted, stored, faults>>
  BY DEF ReadCandidates, At
<1>2. \A e \in daily : e \in entries /\ e.score <= job[j].max /\ e.type \in {"log", "intake"}
                       /\ e.task \notin job[j].protected
  BY DEF Compressible
<1>3. \A e \in monthly : e \in entries /\ e.score <= job[j].max
                         /\ e.type \notin {"summary", "archived"}
                         /\ e.task \notin job[j].protected
  BY DEF Summarizable
<1> HIDE DEF daily, monthly
<1>4. /\ \A g, h \in todo : g \cap h # {} => g = h
      /\ job[j].kind = "compress" => \A g \in todo : g \subseteq daily
      /\ job[j].kind # "compress" => \A g \in todo : g \subseteq monthly
  <2>1. CASE job[j].kind = "compress" BY <2>1, GroupsPartition
  <2>2. CASE job[j].kind # "compress" BY <2>2, GroupsPartition
  <2>3. QED BY <2>1, <2>2
<1> HIDE DEF todo
<1>5. \A e \in UNION todo :
        /\ e \in entries /\ e.score <= job[j].max /\ e.task \notin job[j].protected
        /\ e.type \notin {"summary", "archived"}
        /\ job[j].kind = "compress" => e.type \in {"log", "intake"}
  BY <1>2, <1>3, <1>4
<1>6. todo \in SUBSET SUBSET entries BY <1>5
<1>7. \/ todo = {} /\ Becomes(j, Idle)
      \/ Becomes(j, [job[j] EXCEPT !.pc = "write", !.todo = todo])
  BY <1>1
<1>8. /\ job[j].pc = "read"
      /\ UNCHANGED <<entries, lastId, failures, today, deleted, stored, faults>>
  BY <1>1
<1>9. \A g, h \in todo : g \cap h # {} => g = h BY <1>4
<1> HIDE DEF free
<1>10. QED BY <1>5, <1>6, <1>7, <1>8, <1>9, Zenon

LEMMA ReadCandidatesKeeps ==
  ASSUME MemoryInv, DigestsCounted, NEW j \in Jobs, ReadCandidates(j)
  PROVE  MemoryInv' /\ DigestsCounted'
<1>1. Typed BY DEF MemoryInv
<1>2. PICK todo \in SUBSET SUBSET entries :
        /\ \/ todo = {} /\ Becomes(j, Idle)
           \/ Becomes(j, [job[j] EXCEPT !.pc = "write", !.todo = todo])
        /\ job[j].pc = "read"
        /\ \A g, h \in todo : g \cap h # {} => g = h
        /\ \A e \in UNION todo :
             /\ e.score <= job[j].max /\ e.task \notin job[j].protected
             /\ e.type \notin {"summary", "archived"}
             /\ job[j].kind = "compress" => e.type \in {"log", "intake"}
        /\ UNCHANGED <<entries, lastId, failures, today, deleted, stored, faults>>
  BY <1>1, CandidatesRead
<1>3. CASE todo = {} /\ Becomes(j, Idle)
  <2>1. faults' \in Nat BY <1>1, <1>2 DEF Typed
  <2>2. QED BY <1>2, <1>3, <2>1, IdleJob, JobMoveKeeps
<1>4. CASE Becomes(j, [job[j] EXCEPT !.pc = "write", !.todo = todo])
  <2> DEFINE state == [job[j] EXCEPT !.pc = "write", !.todo = todo]
  <2>1. job[j] \in Job /\ entries \subseteq Entry BY <1>1 DEF Typed
  <2>2. todo \in SUBSET SUBSET Entry BY <2>1
  <2>3. /\ state \in Job /\ state.pc = "write" /\ state.todo = todo
        /\ state.kind = job[j].kind /\ state.protected = job[j].protected
        /\ state.before = job[j].before
    BY <2>1, <2>2 DEF Job
  <2>4. Becomes(j, state) BY <1>4
  <2> HIDE DEF state
  <2>5. /\ job' \in [Jobs -> Job] /\ job'[j] = state
        /\ \A o \in Jobs \ {j} : job'[o] = job[o]
        /\ \A o \in Jobs \ {j} : Rows(o)' = Rows(o)
        /\ Rows(j)' = UNION todo
    BY <1>1, <2>3, <2>4, JobBecomes
  <2>6. UNION todo \subseteq entries OBVIOUS
  <2>7. Typed' BY <1>1, <1>2, <2>5 DEF Typed, Everything
  <2>8. RowsRead'
    <3>1. \A x \in UNION todo :
            /\ x.id <= lastId
            /\ \A e \in Everything : e.id = x.id => Alike(x, e)
      BY <1>1, <2>6 DEF Typed, Everything, Alike
    <3>2. QED BY <1>2, <2>5, <3>1 DEF MemoryInv, RowsRead, Everything
  <2>9. DigestsStay'
    <3>1. ASSUME NEW x \in UNION todo
          PROVE  /\ job[j].kind = "compress" => x.sources = {}
                 /\ \A e \in entries : e.id = x.id => e.type # "summary"
      <4>1. job[j].kind = "compress" => x.type \notin DigestTypes
        BY <1>2, <3>1 DEF DigestTypes
      <4>2. x \in entries /\ x.type # "summary" BY <1>2, <2>6, <3>1
      <4>3. \A e \in entries : e.id = x.id => e = x BY <1>1, <4>2 DEF Typed
      <4>4. QED BY <4>1, <4>2, <4>3 DEF MemoryInv, DigestsStay
    <3>2. QED BY <1>2, <2>3, <2>5, <3>1 DEF MemoryInv, DigestsStay
  <2>10. Spared'
    <3>1. ASSUME NEW x \in UNION todo
          PROVE  x.score < SCORE_PATTERN /\ x.task \notin job[j].protected
      <4>1. job[j].max \in 1..4 BY <2>1 DEF Job, SCORE_PATTERN
      <4>2. x.score \in 1..10 BY <1>1, <2>6, <3>1 DEF Typed, Entry
      <4>3. x.score <= job[j].max /\ x.task \notin job[j].protected BY <1>2, <3>1
      <4>4. QED BY <4>1, <4>2, <4>3 DEF SCORE_PATTERN
    <3>2. job[j].before \subseteq job[j].protected BY <1>2 DEF MemoryInv, Spared
    <3>3. QED BY <1>2, <2>3, <2>5, <3>1, <3>2 DEF MemoryInv, Spared
  <2>11. NothingForgotten' BY <1>2 DEF MemoryInv, NothingForgotten
  <2>12. DigestsCounted'
    <3>1. \A i : DigestsOf(i)' = DigestsOf(i) BY <1>2 DEF DigestsOf
    <3>2. ASSUME NEW i \in 1..lastId, DigestsOf(i) # {}
          PROVE  Pending(i)' \subseteq Pending(i)
      <4>1. \A x \in UNION todo : x.id # i
        BY <1>2, <2>6, <3>2 DEF DigestsOf, DigestsCounted
      <4>2. \A o \in Pending(i)' : o # j BY <2>5, <4>1 DEF Pending
      <4>3. QED BY <2>5, <4>2 DEF Pending
    <3>3. ASSUME NEW i \in 1..lastId, DigestsOf(i) # {}
          PROVE  Cardinality(DigestsOf(i)') + Cardinality(Pending(i)') <= Cardinality(Jobs)
      <4>1. /\ IsFiniteSet(Pending(i)) /\ Cardinality(Pending(i)) \in Nat
            /\ Cardinality(DigestsOf(i)) \in Nat /\ Cardinality(Jobs) \in Nat
        BY <1>1, CountsFinite
      <4>2. /\ Cardinality(Pending(i)') <= Cardinality(Pending(i))
            /\ Cardinality(Pending(i)') \in Nat
        BY <3>2, <3>3, <4>1, FS_Subset, FS_CardinalityType
      <4>3. Cardinality(DigestsOf(i)) + Cardinality(Pending(i)) <= Cardinality(Jobs)
        BY <3>3 DEF DigestsCounted
      <4>4. QED BY <3>1, <4>1, <4>2, <4>3
    <3>4. \A g, h \in todo : Ids(g) \cap Ids(h) # {} => g = h
      <4>1. ASSUME NEW g \in todo, NEW h \in todo, NEW x \in g, NEW y \in h, x.id = y.id
            PROVE  g = h
        <5>1. x = y BY <1>1, <2>6, <4>1 DEF Typed
        <5>2. QED BY <1>2, <5>1
      <4>2. QED BY <4>1 DEF Ids
    <3>5. \A o \in Jobs : \A g, h \in job'[o].todo : Ids(g) \cap Ids(h) # {} => g = h
      BY <2>3, <2>5, <3>4 DEF DigestsCounted
    <3>6. QED BY <1>2, <3>1, <3>3, <3>5 DEF DigestsCounted, Ids
  <2>13. QED BY <2>7, <2>8, <2>9, <2>10, <2>11, <2>12 DEF MemoryInv
<1>5. QED BY <1>2, <1>3, <1>4

--------------------------------------------------------------------------------
(* Writing a digest *)

\* The rows of a group, as the table has them now.
LEMMA GroupRows ==
  ASSUME MemoryInv, NEW j \in Jobs, NEW group \in job[j].todo
  PROVE  /\ group \subseteq Rows(j) /\ Ids(group) \subseteq Nat
         /\ \A i \in Ids(group) : i <= lastId
         /\ \A e \in Everything : e.id \in Ids(group) =>
              /\ e.score < SCORE_PATTERN /\ e.task \notin job[j].protected
              /\ e.tags \subseteq TagUnion(group)
              /\ job[j].kind = "compress" => e.sources = {}
         /\ \A e \in entries : e.id \in Ids(group) => e.type # "summary"
<1>1. group \subseteq Rows(j) BY DEF Rows
<1>2. Rows(j) \subseteq Entry BY DEF MemoryInv, Typed, Job, Rows
<1>3. \A x \in group :
        /\ x.id <= lastId /\ x.score < SCORE_PATTERN /\ x.task \notin job[j].protected
        /\ \A e \in Everything : e.id = x.id => Alike(x, e)
        /\ \A e \in entries : e.id = x.id => e.type # "summary"
        /\ job[j].kind = "compress" => x.sources = {}
  BY <1>1 DEF MemoryInv, RowsRead, DigestsStay, Spared
<1>4. \A x \in group : x.tags \subseteq TagUnion(group) BY DEF TagUnion
<1>5. Ids(group) \subseteq Nat /\ \A i \in Ids(group) : \E x \in group : x.id = i
  BY <1>1, <1>2 DEF Ids, Entry
<1>6. ASSUME NEW e \in Everything, e.id \in Ids(group)
      PROVE  /\ e.score < SCORE_PATTERN /\ e.task \notin job[j].protected
             /\ e.tags \subseteq TagUnion(group)
             /\ job[j].kind = "compress" => e.sources = {}
  <2>1. PICK x \in group : x.id = e.id BY <1>5, <1>6
  <2>2. Alike(x, e) BY <1>3, <2>1
  <2>3. QED BY <1>3, <1>4, <2>1, <2>2 DEF Alike
<1>7. QED BY <1>1, <1>3, <1>5, <1>6

\* Nothing is deleted that is itself a digest.
LEMMA DigestsKept ==
  ASSUME MemoryInv, NEW j \in Jobs, NEW group \in job[j].todo, NEW digest \in Entry, NEW kept,
         WriteOf(j, group, digest, kept), NEW d \in entries, d.sources # {}
  PROVE  \E k \in kept : /\ k.id = d.id /\ k.sources = d.sources /\ k.tags = d.tags
                         /\ d.type = "summary" => k = d
<1>1. /\ \A e \in entries : e.id \notin Ids(group) => e \in kept
      /\ \A e \in deleted' \ deleted :
           e \in entries /\ e.id \in Ids(group) /\ job[j].kind = "compress"
      /\ \A e \in entries : e.id \in Ids(group) =>
           \/ e \in deleted'
           \/ Archived(e) \in kept /\ digest.type = "summary"
  BY KeptRows DEF MemoryInv
<1>2. /\ d \in Everything /\ d \in Entry /\ d \notin deleted
  BY DEF MemoryInv, Typed, Everything
<1>3. CASE d.id \notin Ids(group) BY <1>1, <1>3
<1>4. CASE d.id \in Ids(group)
  <2>1. d.type # "summary" /\ (job[j].kind = "compress" => d.sources = {})
    BY <1>2, <1>4, GroupRows
  <2>2. d \notin deleted' BY <1>1, <1>2, <2>1
  <2>3. Archived(d) \in kept BY <1>1, <1>4, <2>2
  <2>4. QED BY <1>2, <2>1, <2>3, ArchivedEntry DEF Alike
<1>5. QED BY <1>3, <1>4

LEMMA WriteKeepsInv ==
  ASSUME MemoryInv, NEW j \in Jobs, NEW group \in job[j].todo, NEW digest \in Entry, NEW kept,
         WriteOf(j, group, digest, kept), NEW state \in Job, Becomes(j, state),
         state.todo = job[j].todo \ {group},
         \/ state = Idle
         \/ /\ state.pc = "write" /\ state.kind = job[j].kind
            /\ state.before = job[j].before /\ state.protected = job[j].protected,
         job[j].pc = "write", lastId' = lastId + 1,
         UNCHANGED <<failures, today, stored, faults>>
  PROVE  MemoryInv'
<1>1. Typed /\ lastId \in Nat BY DEF MemoryInv, Typed
<1>2. /\ digest.id = lastId + 1 /\ digest.sources = Ids(group)
      /\ digest.tags = TagUnion(group) /\ entries' = kept \cup {digest}
      /\ digest.type \in {"compressed", "summary"}
      /\ job[j].kind = "summarize" => digest.type = "summary"
  BY DEF WriteOf
<1>3. \A k \in kept :
        /\ k \in Entry
        /\ \E e \in entries :
             /\ e.id = k.id /\ Alike(e, k)
             /\ e.id \in Ids(group) => k.type = "archived" /\ job[j].kind = "summarize"
             /\ e.id \notin Ids(group) => k = e
  BY <1>1, KeptRows
<1>4. /\ deleted \subseteq deleted'
      /\ \A e \in deleted' \ deleted :
           e \in entries /\ e.id \in Ids(group) /\ job[j].kind = "compress"
      /\ \A e, o \in kept : e.id = o.id => e = o
      /\ \A e \in kept, o \in deleted' : e.id # o.id
  BY <1>1, KeptRows
<1>5. \A e \in entries : e.id \notin Ids(group) => e \in kept
  BY <1>1, KeptRows
<1>6. /\ \A i \in Ids(group) : i <= lastId
      /\ \A e \in Everything : e.id \in Ids(group) =>
           /\ e.tags \subseteq TagUnion(group)
           /\ job[j].kind = "compress" => e.sources = {}
      /\ \A e \in entries : e.id \in Ids(group) => e.type # "summary"
  BY GroupRows
<1>7. /\ job' \in [Jobs -> Job] /\ job'[j] = state
      /\ \A o \in Jobs \ {j} : job'[o] = job[o]
      /\ \A o \in Jobs : Rows(o)' \subseteq Rows(o)
  <2>1. /\ job' \in [Jobs -> Job] /\ job'[j] = state
        /\ \A o \in Jobs \ {j} : job'[o] = job[o] /\ Rows(o)' = Rows(o)
        /\ Rows(j)' = UNION (job[j].todo \ {group})
    BY <1>1, JobBecomes
  <2>2. Rows(j)' \subseteq Rows(j) BY <2>1 DEF Rows
  <2>3. QED BY <2>1, <2>2
<1>8. \A e \in Everything : e.id \in Nat /\ e.id <= lastId
  BY <1>1 DEF Typed, Everything, Entry
<1>9. \A e \in Everything : e.id # digest.id BY <1>1, <1>2, <1>8
<1>10. deleted' \subseteq Everything BY <1>4 DEF Everything
<1>11. \A k \in kept : k.id \in Nat /\ k.id <= lastId /\ k.id # digest.id
  BY <1>3, <1>8, <1>9 DEF Everything
<1>12. Typed'
  <2>1. IsFiniteSet(entries')
    <3>1. IsFiniteSet(entries) BY <1>1 DEF Typed
    <3>2. \A k \in kept : \E e \in entries : e.id = k.id BY <1>3
    <3>3. IsFiniteSet(kept) BY <1>4, <3>1, <3>2, NoMoreIds
    <3>4. QED BY <1>2, <3>3, FS_AddElement
  <2>2. \A e \in Everything' : e.id <= lastId'
    <3>1. \A e \in Everything : e.id <= lastId' BY <1>1, <1>8
    <3>2. \A e \in kept : e.id <= lastId' BY <1>1, <1>11
    <3>3. digest.id <= lastId' BY <1>1, <1>2
    <3>4. QED BY <1>2, <1>10, <3>1, <3>2, <3>3 DEF Everything
  <2>3. /\ \A e, o \in entries' : e.id = o.id => e = o
        /\ \A e \in entries', o \in deleted' : e.id # o.id
    BY <1>2, <1>4, <1>9, <1>10, <1>11
  <2>4. entries' \subseteq Entry /\ deleted' \subseteq Entry
    BY <1>1, <1>2, <1>3, <1>10 DEF Typed, Everything
  <2>5. lastId' \in Nat BY <1>1
  <2>6. QED BY <1>1, <1>7, <2>1, <2>2, <2>3, <2>4, <2>5 DEF Typed
<1>13. \A o \in Jobs : \A x \in Rows(o)' :
         /\ x \in Rows(o) /\ x.id \in Nat /\ x.id <= lastId /\ x.id # digest.id
  <2>1. \A o \in Jobs : Rows(o) \subseteq Entry BY <1>1 DEF Typed, Job, Rows
  <2>2. \A o \in Jobs : \A x \in Rows(o) : x.id \in Nat /\ x.id <= lastId
    BY <2>1 DEF MemoryInv, RowsRead, Entry
  <2>3. QED BY <1>1, <1>2, <1>7, <2>2
<1>14. RowsRead'
  <2> SUFFICES ASSUME NEW o \in Jobs, NEW x \in Rows(o)'
               PROVE  /\ x.id <= lastId'
                      /\ \A e \in Everything' : e.id = x.id => Alike(x, e)
    BY DEF RowsRead, Alike
  <2>1. x \in Rows(o) /\ x.id <= lastId' /\ x.id # digest.id BY <1>1, <1>13
  <2>2. \A e \in Everything : e.id = x.id => Alike(x, e)
    BY <2>1 DEF MemoryInv, RowsRead
  <2>3. \A k \in kept : k.id = x.id => Alike(x, k)
    BY <1>3, <2>2 DEF Everything, Alike
  <2>4. QED BY <1>2, <1>10, <2>1, <2>2, <2>3 DEF Everything
<1>15. DigestsStay'
  <2>1. \A e \in entries' : e.sources # {} => e.type \in DigestTypes
    <3>1. \A k \in kept : k.sources # {} => k.type \in DigestTypes
      BY <1>3 DEF MemoryInv, DigestsStay, Alike, DigestTypes
    <3>2. digest.type \in DigestTypes BY <1>2 DEF DigestTypes
    <3>3. QED BY <1>2, <3>1, <3>2
  <2>2. \A e \in deleted' : e.sources = {}
    BY <1>4, <1>6, <1>10 DEF MemoryInv, DigestsStay
  <2>3. ASSUME NEW o \in Jobs, NEW x \in Rows(o)'
        PROVE  /\ job'[o].kind = "compress" => x.sources = {}
               /\ \A e \in entries' : e.id = x.id => e.type # "summary"
    <3>1. x \in Rows(o) /\ x.id # digest.id BY <1>13
    <3>2. job'[o].kind = job[o].kind
      <4>1. CASE o # j BY <1>7, <4>1
      <4>2. CASE o = j
        <5>1. state # Idle BY <1>7, <4>2, IdleJob DEF Rows
        <5>2. QED BY <1>7, <4>2, <5>1
      <4>3. QED BY <4>1, <4>2
    <3>3. \A k \in kept : k.id = x.id => k.type # "summary"
      BY <1>3, <3>1 DEF MemoryInv, DigestsStay
    <3>4. QED BY <1>2, <3>1, <3>2, <3>3 DEF MemoryInv, DigestsStay
  <2>4. QED BY <2>1, <2>2, <2>3 DEF DigestsStay
<1>16. Spared'
  <2>1. ASSUME NEW o \in Jobs \ {j}
        PROVE  job'[o] = job[o] /\ Rows(o)' \subseteq Rows(o)
    BY <1>7
  <2>2. CASE state = Idle
    <3>1. Rows(j)' = {} BY <1>7, <2>2, IdleJob DEF Rows
    <3>2. QED BY <1>7, <2>1, <2>2, <3>1, IdleJob DEF MemoryInv, Spared
  <2>3. CASE state # Idle
    <3>1. /\ job'[j].pc = "write" /\ job'[j].before = job[j].before
          /\ job'[j].protected = job[j].protected /\ Rows(j)' \subseteq Rows(j)
      BY <1>7, <2>3
    <3>2. QED BY <2>1, <3>1 DEF MemoryInv, Spared
  <2>4. QED BY <2>2, <2>3
<1>17. NothingForgotten'
  <2>1. ASSUME NEW e \in deleted' PROVE \E d \in entries' : Covers(d, e)
    <3>1. CASE e \in deleted
      <4>1. PICK d \in entries : Covers(d, e)
        BY <3>1 DEF MemoryInv, NothingForgotten
      <4>2. d.sources # {} BY <4>1 DEF Covers
      <4>3. PICK k \in kept : k.sources = d.sources /\ k.tags = d.tags
        BY <4>2, DigestsKept
      <4>4. QED BY <1>2, <4>1, <4>3 DEF Covers
    <3>2. CASE e \notin deleted
      <4>1. e \in Everything /\ e.id \in Ids(group) BY <1>4, <1>10, <3>2
      <4>2. QED BY <1>2, <1>6, <4>1 DEF Covers
    <3>3. QED BY <3>1, <3>2
  <2>2. ASSUME NEW k \in entries', k.type = "archived"
        PROVE  \E d \in entries' : d.type = "summary" /\ Covers(d, k)
    <3>1. k \in kept BY <1>2, <2>2
    <3>2. PICK e \in entries :
            /\ e.id = k.id /\ Alike(e, k)
            /\ e.id \in Ids(group) => job[j].kind = "summarize"
            /\ e.id \notin Ids(group) => k = e
      BY <1>3, <3>1
    <3>3. CASE e.id \in Ids(group)
      <4>1. e.tags \subseteq TagUnion(group) BY <1>6, <3>3 DEF Everything
      <4>2. Covers(digest, k) /\ digest.type = "summary"
        BY <1>2, <3>2, <3>3, <4>1 DEF Covers, Alike
      <4>3. QED BY <1>2, <4>2
    <3>4. CASE e.id \notin Ids(group)
      <4>1. e.type = "archived" /\ k = e BY <2>2, <3>2, <3>4
      <4>2. PICK d \in entries : d.type = "summary" /\ Covers(d, e)
        BY <4>1 DEF MemoryInv, NothingForgotten
      <4>3. d.id \notin Ids(group) BY <1>6, <4>2
      <4>4. d \in entries' BY <1>2, <1>5, <4>3
      <4>5. QED BY <4>1, <4>2, <4>4
    <3>5. QED BY <3>3, <3>4
  <2>3. QED BY <2>1, <2>2 DEF NothingForgotten, Covers
<1>18. QED BY <1>12, <1>14, <1>15, <1>16, <1>17 DEF MemoryInv

\* An entry that enters one more digest leaves the group of the job that wrote it.
LEMMA WriteKeepsCounts ==
  ASSUME MemoryInv, DigestsCounted, NEW j \in Jobs, NEW group \in job[j].todo,
         NEW digest \in Entry, NEW kept, WriteOf(j, group, digest, kept),
         NEW state \in Job, Becomes(j, state), state.todo = job[j].todo \ {group},
         lastId' = lastId + 1
  PROVE  DigestsCounted'
<1>1. Typed /\ lastId \in Nat BY DEF MemoryInv, Typed
<1>2. /\ digest.id = lastId + 1 /\ digest.sources = Ids(group)
      /\ entries' = kept \cup {digest}
  BY DEF WriteOf
<1>3. \A k \in kept :
        \E e \in entries : /\ e.id = k.id /\ e.sources = k.sources
                           /\ e.id \in Ids(group) => k.type = "archived"
                           /\ e.id \notin Ids(group) => k = e
  BY <1>1, KeptRows DEF Alike
<1>4. \A e, o \in kept : e.id = o.id => e = o
  BY <1>1, KeptRows
<1>5. /\ job'[j] = state /\ \A o \in Jobs \ {j} : job'[o] = job[o]
      /\ \A o \in Jobs : job'[o].todo \subseteq job[o].todo
  BY <1>1, JobBecomes
<1>6. Ids(group) \subseteq Nat /\ \A i \in Ids(group) : i <= lastId
  BY GroupRows
<1>7. \A d \in entries : d.sources \subseteq Nat /\ \A i \in d.sources : i <= lastId
  BY <1>1 DEF DigestsCounted, Typed, Entry
<1>8. \A d \in entries' : d.sources \subseteq Nat /\ \A i \in d.sources : i <= lastId
  BY <1>2, <1>3, <1>6, <1>7
<1>9. \A d \in entries', e \in entries' : e.id \in d.sources => e.type = "archived"
  <2> SUFFICES ASSUME NEW d \in entries', NEW e \in entries', e.id \in d.sources
               PROVE  e.type = "archived"
    OBVIOUS
  <2>1. e.id # lastId + 1 BY <1>1, <1>8
  <2>2. e \in kept BY <1>2, <2>1
  <2>3. PICK was \in entries :
          /\ was.id = e.id
          /\ was.id \in Ids(group) => e.type = "archived"
          /\ was.id \notin Ids(group) => e = was
    BY <1>3, <2>2
  <2>4. CASE d = digest BY <1>2, <2>3, <2>4
  <2>5. CASE d \in kept
    <3>1. PICK had \in entries : had.sources = d.sources BY <1>3, <2>5
    <3>2. was.type = "archived" BY <2>3, <3>1 DEF DigestsCounted
    <3>3. QED BY <2>3, <3>2
  <2>6. QED BY <1>2, <2>4, <2>5
<1>10. ASSUME NEW i \in 1..lastId', DigestsOf(i)' # {}
       PROVE  Cardinality(DigestsOf(i)') + Cardinality(Pending(i)') <= Cardinality(Jobs)
  <2> DEFINE old == {k \in kept : i \in k.sources}
  <2>1. i \in 1..lastId
    <3>1. \E d \in entries' : i \in d.sources BY <1>10 DEF DigestsOf
    <3>2. QED BY <1>1, <1>8, <3>1
  <2>2. /\ IsFiniteSet(DigestsOf(i)) /\ Cardinality(DigestsOf(i)) \in Nat
        /\ IsFiniteSet(Pending(i)) /\ Cardinality(Pending(i)) \in Nat
        /\ Cardinality(Pending(i)) <= Cardinality(Jobs) /\ Cardinality(Jobs) \in Nat
    BY <1>1, CountsFinite
  <2>3. Cardinality(DigestsOf(i)) + Cardinality(Pending(i)) <= Cardinality(Jobs)
    <3>1. CASE DigestsOf(i) = {}
      <4>1. Cardinality(DigestsOf(i)) = 0 BY <3>1, FS_EmptySet
      <4>2. QED BY <2>2, <4>1
    <3>2. CASE DigestsOf(i) # {} BY <2>1, <3>2 DEF DigestsCounted
    <3>3. QED BY <3>1, <3>2
  <2>4. /\ IsFiniteSet(old) /\ Cardinality(old) <= Cardinality(DigestsOf(i))
        /\ Cardinality(old) \in Nat
    <3>1. \A k \in old : \E e \in DigestsOf(i) : e.id = k.id BY <1>3 DEF DigestsOf
    <3>2. \A a, b \in old : a.id = b.id => a = b BY <1>4
    <3> HIDE DEF old
    <3>3. IsFiniteSet(old) /\ Cardinality(old) <= Cardinality(DigestsOf(i))
      BY <2>2, <3>1, <3>2, NoMoreIds
    <3>4. QED BY <3>3, FS_CardinalityType
  <2>5. Pending(i)' \subseteq Pending(i) BY <1>5 DEF Pending, Rows
  <2>6. IsFiniteSet(Pending(i)') /\ Cardinality(Pending(i)') \in Nat
        /\ Cardinality(Pending(i)') <= Cardinality(Pending(i))
    BY <2>2, <2>5, FS_Subset, FS_CardinalityType
  <2>7. CASE i \in Ids(group)
    <3>1. DigestsOf(i)' = old \cup {digest} BY <1>2, <2>7 DEF DigestsOf
    <3>2. Cardinality(DigestsOf(i)') \in {Cardinality(old), Cardinality(old) + 1}
      <4> HIDE DEF old
      <4>1. QED BY <2>4, <3>1, FS_AddElement
    <3>3. j \in Pending(i)
      <4>1. \E x \in group : x.id = i BY <2>7 DEF Ids
      <4>2. QED BY <4>1 DEF Pending, Rows
    <3>4. j \notin Pending(i)'
      <4>1. ASSUME NEW h \in job[j].todo \ {group}, NEW x \in h, x.id = i PROVE FALSE
        <5>1. i \in Ids(h) \cap Ids(group) BY <2>7, <4>1 DEF Ids
        <5>2. QED BY <4>1, <5>1 DEF DigestsCounted
      <4>2. Rows(j)' = UNION (job[j].todo \ {group}) BY <1>5 DEF Rows
      <4>3. QED BY <4>1, <4>2 DEF Pending
    <3>5. Cardinality(Pending(i)') <= Cardinality(Pending(i)) - 1
      <4>1. /\ IsFiniteSet(Pending(i) \ {j})
            /\ Cardinality(Pending(i) \ {j}) = Cardinality(Pending(i)) - 1
        BY <2>2, <3>3, FS_RemoveElement
      <4>2. Pending(i)' \in SUBSET (Pending(i) \ {j}) BY <2>5, <3>4
      <4>3. Cardinality(Pending(i)') <= Cardinality(Pending(i) \ {j})
        BY <4>1, <4>2, FS_Subset
      <4>4. QED BY <4>1, <4>3
    <3> HIDE DEF old
    <3>6. QED BY <2>2, <2>3, <2>4, <2>6, <3>2, <3>5
  <2>8. CASE i \notin Ids(group)
    <3>1. DigestsOf(i)' = old BY <1>2, <2>8 DEF DigestsOf
    <3> HIDE DEF old
    <3>2. QED BY <2>2, <2>3, <2>4, <2>6, <3>1
  <2>9. QED BY <2>7, <2>8
<1>11. \A o \in Jobs : \A g, h \in job'[o].todo : Ids(g) \cap Ids(h) # {} => g = h
  BY <1>5 DEF DigestsCounted
<1>12. \A d \in entries' : \A i \in d.sources : i <= lastId' BY <1>1, <1>8
<1>13. QED BY <1>9, <1>10, <1>11, <1>12 DEF DigestsCounted, Ids

LEMMA WriteGroupKeeps ==
  ASSUME MemoryInv, DigestsCounted, NEW j \in Jobs, WriteGroup(j)
  PROVE  MemoryInv' /\ DigestsCounted'
<1>1. PICK group \in job[j].todo, digest \in Entry :
        /\ \E kept : WriteOf(j, group, digest, kept)
        /\ \E state \in Job :
             /\ Becomes(j, state)
             /\ state.todo = job[j].todo \ {group}
             /\ \/ state = Idle
                \/ /\ state.pc = "write" /\ state.kind = job[j].kind
                   /\ state.before = job[j].before
                   /\ state.protected = job[j].protected
        /\ job[j].pc = "write" /\ lastId' = lastId + 1
        /\ UNCHANGED <<failures, today, stored, faults>>
  BY WriteGroupWrites DEF MemoryInv
<1>2. PICK kept : WriteOf(j, group, digest, kept) BY <1>1
<1>3. PICK state \in Job :
        /\ Becomes(j, state)
        /\ state.todo = job[j].todo \ {group}
        /\ \/ state = Idle
           \/ /\ state.pc = "write" /\ state.kind = job[j].kind
              /\ state.before = job[j].before
              /\ state.protected = job[j].protected
  BY <1>1
<1>4. MemoryInv' BY <1>1, <1>2, <1>3, WriteKeepsInv
<1>5. DigestsCounted' BY <1>1, <1>2, <1>3, WriteKeepsCounts
<1>6. QED BY <1>4, <1>5

--------------------------------------------------------------------------------
(* The invariant *)

LEMMA StepsKeepMemory ==
  MemoryInv /\ DigestsCounted /\ [Next]_vars => MemoryInv' /\ DigestsCounted'
<1> SUFFICES ASSUME MemoryInv, DigestsCounted, [Next]_vars
             PROVE  MemoryInv' /\ DigestsCounted'
  OBVIOUS
<1>1. Typed BY DEF MemoryInv
<1>2. ASSUME NEW t \in Tasks, NEW kind \in Kinds, NEW tags \in SUBSET Tags,
             Remember(t, kind, tags)
      PROVE  MemoryInv' /\ DigestsCounted'
  BY <1>2, RememberKeeps
<1>3. ASSUME NEW t \in Tasks, RememberFailure(t) PROVE MemoryInv' /\ DigestsCounted'
  <2>1. /\ UNCHANGED <<entries, lastId, job, deleted>>
        /\ failures \subseteq failures' /\ failures' \subseteq Tasks
        /\ today' \in Nat /\ stored' \in Nat /\ faults' \in Nat
    BY <1>1, <1>3 DEF RememberFailure, Typed
  <2>2. QED BY <2>1, OthersKeep
<1>4. ASSUME NEW j \in Jobs, NEW kind \in {"compress", "summarize"}, NEW max \in MaxScores,
             Call(j, kind, max)
      PROVE  MemoryInv' /\ DigestsCounted'
  <2> DEFINE state == [Idle EXCEPT !.pc = "protect", !.kind = kind, !.max = max,
                                   !.before = failures]
  <2>1. Becomes(j, state) /\ max < SCORE_PATTERN
    BY <1>4 DEF Call, ScoreAllowed
  <2>2. max \in 1..(SCORE_PATTERN - 1)
    <3>1. max \in 1..10 BY MemoryAssumption
    <3>2. QED BY <2>1, <3>1 DEF SCORE_PATTERN
  <2>3. failures \in SUBSET Tasks BY <1>1 DEF Typed
  <2>4. /\ state \in Job /\ state.pc = "protect" /\ state.todo = {}
        /\ state.before = failures
    BY <2>2, <2>3 DEF Idle, Job
  <2>5. /\ UNCHANGED <<entries, lastId, failures, today, deleted, stored>> /\ faults' \in Nat
    BY <1>1, <1>4 DEF Call, Typed
  <2> HIDE DEF state
  <2>6. QED BY <2>1, <2>4, <2>5, JobMoveKeeps
<1>5. ASSUME NEW j \in Jobs, ReadProtected(j) PROVE MemoryInv' /\ DigestsCounted'
  <2> DEFINE state == [job[j] EXCEPT !.pc = "read", !.protected = failures]
  <2>1. /\ Becomes(j, state) /\ job[j].pc = "protect"
        /\ UNCHANGED <<entries, lastId, failures, today, deleted, stored>> /\ faults' \in Nat
    BY <1>1, <1>5 DEF ReadProtected, At, Typed
  <2>2. job[j] \in Job /\ failures \in SUBSET Tasks BY <1>1 DEF Typed
  <2>3. /\ state \in Job /\ state.pc = "read" /\ state.todo = job[j].todo
        /\ state.before = job[j].before /\ state.protected = failures
    BY <2>2 DEF Job
  <2>4. job[j].before \subseteq failures /\ job[j].todo = {}
    BY <2>1 DEF MemoryInv, Spared
  <2> HIDE DEF state
  <2>5. QED BY <2>1, <2>3, <2>4, JobMoveKeeps
<1>6. ASSUME NEW j \in Jobs, ReadCandidates(j) PROVE MemoryInv' /\ DigestsCounted'
  BY <1>6, ReadCandidatesKeeps
<1>7. ASSUME NEW j \in Jobs, WriteGroup(j) PROVE MemoryInv' /\ DigestsCounted'
  BY <1>7, WriteGroupKeeps
<1>8. ASSUME NEW j \in Jobs, Interrupt(j) PROVE MemoryInv' /\ DigestsCounted'
  <2>1. /\ Becomes(j, Idle) /\ UNCHANGED <<entries, lastId, failures, today, deleted, stored>>
        /\ faults' \in Nat
    BY <1>1, <1>8 DEF Interrupt, Typed
  <2>2. QED BY <2>1, IdleJob, JobMoveKeeps
<1>9. ASSUME NextDay PROVE MemoryInv' /\ DigestsCounted'
  <2>1. /\ UNCHANGED <<entries, lastId, job, deleted>>
        /\ failures \subseteq failures' /\ failures' \subseteq Tasks
        /\ today' \in Nat /\ stored' \in Nat /\ faults' \in Nat
    BY <1>1, <1>9 DEF NextDay, Typed
  <2>2. QED BY <2>1, OthersKeep
<1>10. ASSUME UNCHANGED vars PROVE MemoryInv' /\ DigestsCounted'
  <2>1. /\ UNCHANGED <<entries, lastId, job, deleted>>
        /\ failures \subseteq failures' /\ failures' \subseteq Tasks
        /\ today' \in Nat /\ stored' \in Nat /\ faults' \in Nat
    BY <1>1, <1>10 DEF vars, Typed
  <2>2. QED BY <2>1, OthersKeep
<1>11. QED
  BY <1>2, <1>3, <1>4, <1>5, <1>6, <1>7, <1>8, <1>9, <1>10 DEF Next

\* Only the write of a group takes rows away or changes their type.
LEMMA WhoSurvives ==
  ASSUME MemoryInv, [Next]_vars, NEW e \in entries, ~Survives(e)
  PROVE  \E j \in Jobs : /\ job[j].pc = "write" /\ e.score < SCORE_PATTERN
                         /\ e.task \notin job[j].before
<1>1. PICK j \in Jobs : WriteGroup(j)
  <2>1. ~(entries \subseteq entries') BY DEF Survives
  <2>2. QED
    BY <2>1 DEF Next, vars, Remember, RememberFailure, Call, ReadProtected,
                ReadCandidates, Interrupt, NextDay
<1>2. Typed BY DEF MemoryInv
<1>3. PICK group \in job[j].todo, digest \in Entry : \E kept : WriteOf(j, group, digest, kept)
  BY <1>1, <1>2, WriteGroupWrites
<1>4. PICK kept : WriteOf(j, group, digest, kept) BY <1>3
<1>5. e.id \in Ids(group)
  <2>1. e.id \notin Ids(group) => e \in kept BY <1>2, <1>4, KeptRows
  <2>2. kept \subseteq entries' BY <1>4 DEF WriteOf
  <2>3. QED BY <2>1, <2>2 DEF Survives
<1>6. e.score < SCORE_PATTERN /\ e.task \notin job[j].protected
  BY <1>5, GroupRows DEF Everything
<1>7. job[j].pc = "write" BY <1>1 DEF WriteGroup, At
<1>8. job[j].before \subseteq job[j].protected BY <1>7 DEF MemoryInv, Spared
<1>9. QED BY <1>6, <1>7, <1>8

LEMMA InvariantHolds == Spec => [](MemoryInv /\ DigestsCounted)
BY InitMemory, StepsKeepMemory, PTL DEF Spec

--------------------------------------------------------------------------------
(* Theorems *)

\* Every variable keeps its type, and ids stay unique.
THEOREM TypeCorrect == Spec => []TypeOK
<1>1. MemoryInv => TypeOK BY DEF MemoryInv, Typed, Job, TypeOK
<1>2. QED BY <1>1, InvariantHolds, PTL

\* What was deleted or archived is represented by a digest that is still there and has its
\* tags, with any number of jobs that read and write at once and stop anywhere.
THEOREM NoneForgotten == Spec => []NothingForgotten
<1>1. MemoryInv => NothingForgotten BY DEF MemoryInv
<1>2. QED BY <1>1, InvariantHolds, PTL

\* An entry enters at most one digest for each job there is.
THEOREM DigestsBounded == Spec => []DigestedOncePerJob
<1>1. ASSUME MemoryInv, DigestsCounted, NEW e \in entries \cup deleted
      PROVE  Cardinality({d \in entries : e.id \in d.sources}) <= Cardinality(Jobs)
  <2>1. Typed BY <1>1 DEF MemoryInv
  <2>2. e.id \in 1..lastId BY <1>1, <2>1 DEF Typed, Everything, Entry
  <2>3. PICK i \in 1..lastId : i = e.id BY <2>2
  <2>4. {d \in entries : e.id \in d.sources} = DigestsOf(i) BY <2>3 DEF DigestsOf
  <2>5. /\ Cardinality(DigestsOf(i)) \in Nat /\ Cardinality(Pending(i)) \in Nat
        /\ Cardinality(Jobs) \in Nat
    BY <2>1, CountsFinite
  <2>6. CASE DigestsOf(i) = {}
    <3>1. Cardinality(DigestsOf(i)) = 0 BY <2>6, FS_EmptySet
    <3>2. Cardinality(DigestsOf(i)) <= Cardinality(Jobs) BY <2>5, <3>1
    <3>3. QED BY <2>4, <3>2
  <2>7. CASE DigestsOf(i) # {}
    <3>1. Cardinality(DigestsOf(i)) + Cardinality(Pending(i)) <= Cardinality(Jobs)
      BY <1>1, <2>7 DEF DigestsCounted
    <3>2. Cardinality(DigestsOf(i)) <= Cardinality(Jobs) BY <2>5, <3>1
    <3>3. QED BY <2>4, <3>2
  <2>8. QED BY <2>6, <2>7
<1>2. MemoryInv /\ DigestsCounted => DigestedOncePerJob BY <1>1 DEF DigestedOncePerJob
<1>3. QED BY <1>2, InvariantHolds, PTL

\* Patterns, lessons and summaries stay, whatever max_score the callers pass.
THEOREM ImportantStay == Spec => ImportantKept
<1>1. ASSUME MemoryInv, [Next]_vars, NEW e \in entries, e.score >= SCORE_PATTERN
      PROVE  Survives(e)
  <2>1. e.score \in Nat BY <1>1 DEF MemoryInv, Typed, Entry
  <2>2. ~(e.score < SCORE_PATTERN) BY <1>1, <2>1 DEF SCORE_PATTERN
  <2>3. QED BY <1>1, <2>2, WhoSurvives
<1>2. MemoryInv /\ [Next]_vars =>
        [\A e \in entries : e.score >= SCORE_PATTERN => Survives(e)]_vars
  BY <1>1
<1>3. QED BY <1>2, InvariantHolds, PTL DEF Spec, ImportantKept

\* An entry of a task that had failed before every running job was called stays as it is,
\* whatever fails and is stored while the jobs run.
THEOREM FailedStay == Spec => FailedBeforeKept
<1>1. ASSUME MemoryInv, [Next]_vars, NEW e \in entries,
             \A j \in Jobs : job[j].pc # "idle" => e.task \in job[j].before
      PROVE  Survives(e)
  BY <1>1, WhoSurvives
<1>2. MemoryInv /\ [Next]_vars =>
        [\A e \in entries :
           (\A j \in Jobs : job[j].pc # "idle" => e.task \in job[j].before) => Survives(e)]_vars
  BY <1>1
<1>3. QED BY <1>2, InvariantHolds, PTL DEF Spec, FailedBeforeKept
================================================================================
