------------------------------ MODULE OutboxProofs ------------------------------
(***************************************************************************)
(* What holds of the outbox with any number of threads, keys, entries and  *)
(* kills.                                                                  *)
(***************************************************************************)
EXTENDS Outbox, FiniteSetTheorems, TLAPS

\* Ids are given once, in the order of the inserts, and every row that is anywhere was
\* accepted.
Numbered ==
  /\ lastId \in Nat /\ crashes \in Nat
  /\ acked \subseteq Row /\ IsFiniteSet(acked)
  /\ \A row \in acked : row.id <= lastId
  /\ \A row, other \in acked : row.id = other.id => row = other
  /\ table \subseteq acked /\ flushed \subseteq acked /\ cleared \subseteq acked
  /\ batch \in [Threads -> SUBSET acked]
  /\ conn \in [Threads -> [mode : Mode, view : SUBSET acked]]

\* rows are what is left of all when some were given up, oldest first.
Youngest(rows, all) ==
  rows \subseteq all /\ \A old \in all \ rows, row \in rows : old.id < row.id

\* What a connection sees that may still write: the committed rows, or what it has made of
\* them itself while no other writes.
Views ==
  \A t \in Threads :
    /\ conn[t].mode = "reading" => conn[t].view = table
    /\ conn[t].mode = "writing" =>
         /\ Youngest(conn[t].view, table)
         /\ \A o \in Threads \ {t} : conn[o].mode # "writing"

OutboxInv == Numbered /\ Views /\ CapacityRespected /\ LostAreOldest

--------------------------------------------------------------------------------
(* Numbers and rows *)

\* A set of numbers has a least one: otherwise the numbers below all of them would be a
\* finite set that a function maps one to one on a part of itself.
LEMMA LeastNumber ==
  ASSUME NEW T \in SUBSET Nat, NEW x \in T
  PROVE  \E m \in T : \A y \in T : m <= y
<1> SUFFICES ASSUME \A m \in T : \E y \in T : y < m PROVE FALSE
  OBVIOUS
<1> DEFINE Below == {n \in 0..x : \A y \in T : n < y}
           succ == [n \in Below |-> n + 1]
<1>1. IsFiniteSet(Below)
  <2>1. IsFiniteSet(0..x) BY FS_Interval
  <2>2. QED BY <2>1, FS_Subset
<1>2. 0 \in Below
  OBVIOUS
<1>3. ASSUME NEW n \in Below PROVE n + 1 \in Below
  <2>1. n + 1 \notin T
    <3>1. n \in Nat /\ \A y \in T : n < y BY <1>3
    <3>2. \A y \in T : ~(y < n + 1) BY <3>1
    <3>3. QED BY <3>2
  <2>2. \A y \in T : n + 1 < y BY <1>3, <2>1
  <2>3. QED BY <1>3, <2>2
<1>4. succ \in Injection(Below, Below)
  <2>1. succ \in [Below -> Below] BY <1>3
  <2>2. \A a, b \in Below : succ[a] = succ[b] => a = b OBVIOUS
  <2> HIDE DEF succ
  <2>3. QED BY <2>1, <2>2 DEF Injection, IsInjective
<1>5. succ \in Surjection(Below, Below)
  BY <1>1, <1>4, FS_Injection
<1>6. \E n \in Below : n + 1 = 0
  BY <1>2, <1>5 DEF Surjection
<1>7. QED BY <1>6

LEMMA AckedSubsets ==
  ASSUME Numbered, NEW rows \in SUBSET acked
  PROVE  IsFiniteSet(rows) /\ Cardinality(rows) \in Nat
BY FS_Subset, FS_CardinalityType DEF Numbered

\* Rows that were accepted have an oldest one.
LEMMA OldestExists ==
  ASSUME Numbered, NEW rows \in SUBSET acked, rows # {}
  PROVE  Oldest(rows) # {}
<1> DEFINE T == {row.id : row \in rows}
<1>1. T \in SUBSET Nat BY DEF Numbered, Row
<1>2. PICK x : x \in T OBVIOUS
<1>3. PICK m \in T : \A y \in T : m <= y BY <1>1, <1>2, LeastNumber
<1>4. PICK row \in rows : row.id = m BY <1>3
<1>5. row \in Oldest(rows) BY <1>3, <1>4 DEF Oldest
<1>6. QED BY <1>5

LEMMA YoungestOfYoungest ==
  ASSUME NEW all, NEW some, NEW rows, Youngest(some, all), Youngest(rows, some)
  PROVE  Youngest(rows, all)
BY DEF Youngest

\* MakeRoom keeps the youngest rows, and leaves room for one more.
LEMMA MakeRoomFits ==
  ASSUME Numbered, NEW rows \in SUBSET acked, Cardinality(rows) <= MaxEntries
  PROVE  /\ Youngest(MakeRoom(rows), rows)
         /\ Cardinality(MakeRoom(rows)) + 1 <= MaxEntries
<1>1. IsFiniteSet(rows) /\ Cardinality(rows) \in Nat /\ MaxEntries \in Nat \ {0}
  BY AckedSubsets, OutboxAssumption
<1>2. CASE ~(Cardinality(rows) >= MaxEntries)
  <2>1. MakeRoom(rows) = rows BY <1>2 DEF MakeRoom
  <2>2. Youngest(rows, rows) BY DEF Youngest
  <2>3. QED BY <1>1, <1>2, <2>1, <2>2
<1>3. CASE Cardinality(rows) >= MaxEntries
  <2>1. MakeRoom(rows) = rows \ Oldest(rows) BY <1>3 DEF MakeRoom
  <2>2. Oldest(rows) \subseteq rows BY DEF Oldest
  <2>3. Youngest(rows \ Oldest(rows), rows)
    <3>1. ASSUME NEW old \in Oldest(rows), NEW row \in rows \ Oldest(rows)
          PROVE  old.id < row.id
      <4>1. old \in rows /\ old.id <= row.id BY <3>1 DEF Oldest
      <4>2. old.id # row.id BY <3>1, <4>1 DEF Numbered
      <4>3. old.id \in Nat /\ row.id \in Nat BY <3>1, <4>1 DEF Numbered, Row
      <4>4. QED BY <4>1, <4>2, <4>3
    <3>2. QED BY <2>2, <3>1 DEF Youngest
  <2>4. rows # {} BY <1>1, <1>3, FS_EmptySet
  <2>5. PICK old \in rows : old \in Oldest(rows) BY <2>2, <2>4, OldestExists
  <2>6. /\ IsFiniteSet(rows \ {old})
        /\ Cardinality(rows \ {old}) = Cardinality(rows) - 1
    BY <1>1, <2>5, FS_RemoveElement
  <2>7. /\ Cardinality(rows \ Oldest(rows)) <= Cardinality(rows \ {old})
        /\ Cardinality(rows \ Oldest(rows)) \in Nat
    <3>1. rows \ Oldest(rows) \in SUBSET (rows \ {old}) BY <2>5
    <3>2. QED BY <2>6, <3>1, FS_Subset, FS_CardinalityType
  <2>8. QED BY <1>1, <2>1, <2>3, <2>6, <2>7
<1>4. QED BY <1>2, <1>3

LEMMA WritersView ==
  ASSUME Numbered, Views, NEW t \in Threads, CanWrite(t)
  PROVE  Youngest(View(t), table) /\ View(t) \subseteq acked
<1>1. conn[t].mode \in {"idle", "writing", "reading"}
  BY DEF Numbered, Mode, CanWrite
<1>2. QED BY <1>1 DEF Views, View, Youngest, Numbered

LEMMA WritersViewFits ==
  ASSUME OutboxInv, NEW t \in Threads, CanWrite(t)
  PROVE  Cardinality(View(t)) <= MaxEntries
<1>1. View(t) \subseteq table /\ IsFiniteSet(table)
  BY WritersView, AckedSubsets DEF OutboxInv, Youngest, Numbered
<1>2. /\ Cardinality(View(t)) <= Cardinality(table)
      /\ Cardinality(View(t)) \in Nat /\ Cardinality(table) \in Nat
  BY <1>1, FS_Subset, FS_CardinalityType
<1>3. QED BY <1>2, OutboxAssumption DEF OutboxInv, CapacityRespected

--------------------------------------------------------------------------------
(* Commits *)

\* A commit leaves no writer, and only readers of what is committed.
LEMMA CommitKeepsViews ==
  ASSUME Numbered, Views, NEW t \in Threads, CanWrite(t), NEW rows, NEW changed \in BOOLEAN,
         Commit(t, rows, changed), ~changed => rows = table, acked \subseteq acked'
  PROVE  Views' /\ conn' \in [Threads -> [mode : Mode, view : SUBSET acked']]
<1>1. table' = rows /\ conn'[t] = Idle BY DEF Commit
<1>2. ASSUME NEW o \in Threads \ {t}
      PROVE  /\ conn[o].mode # "writing"
             /\ conn'[o] = IF conn[o].mode = "reading" /\ changed
                           THEN [conn[o] EXCEPT !.mode = "outdated"] ELSE conn[o]
             /\ conn[o] \in [mode : Mode, view : SUBSET acked]
  BY <1>2 DEF Commit, CanWrite, Numbered
<1>3. ASSUME NEW o \in Threads \ {t}
      PROVE  /\ conn'[o].mode # "writing"
             /\ conn'[o].mode = "reading" => conn'[o].view = table'
             /\ conn'[o] \in [mode : Mode, view : SUBSET acked']
  <2>1. CASE conn[o].mode = "reading" /\ changed
    <3>1. conn'[o] = [conn[o] EXCEPT !.mode = "outdated"] BY <1>2, <2>1
    <3>2. conn'[o].mode = "outdated" /\ conn'[o].view = conn[o].view BY <1>2, <3>1
    <3>3. conn'[o] \in [mode : Mode, view : SUBSET acked'] BY <1>2, <3>1 DEF Mode
    <3>4. QED BY <3>2, <3>3
  <2>2. CASE ~(conn[o].mode = "reading" /\ changed)
    <3>1. conn'[o] = conn[o] BY <1>2, <2>2
    <3>2. conn[o].mode = "reading" => conn[o].view = table' BY <1>1, <2>2 DEF Views
    <3>3. QED BY <1>2, <3>1, <3>2
  <2>3. QED BY <2>1, <2>2
<1>4. /\ conn'[t].mode = "idle" /\ Idle \in [mode : Mode, view : SUBSET acked']
  BY <1>1 DEF Idle, Mode
<1>5. \A o \in Threads : /\ conn'[o].mode # "writing"
                         /\ conn'[o].mode = "reading" => conn'[o].view = table'
                         /\ conn'[o] \in [mode : Mode, view : SUBSET acked']
  BY <1>1, <1>3, <1>4
<1>6. conn' = [o \in Threads |-> conn'[o]] BY DEF Commit
<1>7. QED BY <1>5, <1>6 DEF Views

\* A commit of what the writer sees, less some rows that are delivered or cleared, gives
\* up no row before an older one.
LEMMA CommitKeepsLosses ==
  ASSUME OutboxInv, NEW kept, Youngest(kept, table), acked' = acked,
         flushed \subseteq flushed', cleared \subseteq cleared',
         table' \subseteq kept, kept \ table' \subseteq flushed' \cup cleared'
  PROVE  LostAreOldest'
<1> SUFFICES ASSUME NEW lost \in Lost', NEW row \in table' PROVE lost.id < row.id
  BY DEF LostAreOldest
<1>1. /\ lost \in acked /\ lost \notin flushed' /\ lost \notin cleared' /\ lost \notin table'
  BY DEF Lost
<1>2. row \in kept /\ row \in table BY DEF Youngest
<1>3. CASE lost \in table
  <2>1. lost \in table \ kept BY <1>1, <1>3
  <2>2. QED BY <1>2, <2>1 DEF Youngest
<1>4. CASE lost \notin table
  <2>1. lost \in Lost BY <1>1, <1>4 DEF Lost
  <2>2. QED BY <1>2, <2>1 DEF OutboxInv, LostAreOldest
<1>5. QED BY <1>3, <1>4

\* A commit of fewer rows takes no more room.
LEMMA CommitKeepsCapacity ==
  ASSUME OutboxInv, NEW rows, rows \subseteq table, table' = rows
  PROVE  CapacityRespected'
<1>1. table \in SUBSET acked /\ rows \in SUBSET acked BY DEF OutboxInv, Numbered
<1>2. IsFiniteSet(table) /\ Cardinality(table) \in Nat /\ Cardinality(rows) \in Nat
  BY <1>1, AckedSubsets DEF OutboxInv
<1>3. Cardinality(rows) <= Cardinality(table) BY <1>2, FS_Subset
<1>4. QED BY <1>2, <1>3, OutboxAssumption DEF OutboxInv, CapacityRespected

\* The three calls that remove or touch rows keep the invariant.
LEMMA CommitKeepsInvariant ==
  ASSUME OutboxInv, NEW t \in Threads, CanWrite(t), NEW rows, NEW changed \in BOOLEAN,
         Commit(t, rows, changed), ~changed => rows = table, rows \subseteq View(t),
         View(t) \ rows \subseteq flushed' \cup cleared',
         flushed \subseteq flushed', flushed' \subseteq acked,
         cleared \subseteq cleared', cleared' \subseteq acked,
         UNCHANGED <<lastId, batch, acked, crashes>>
  PROVE  OutboxInv'
<1>1. Youngest(View(t), table) /\ View(t) \subseteq table
  BY WritersView DEF OutboxInv, Youngest
<1>2. table' = rows BY DEF Commit
<1>3. Views' /\ conn' \in [Threads -> [mode : Mode, view : SUBSET acked']]
  BY CommitKeepsViews DEF OutboxInv
<1>4. Numbered'
  <2>1. table' \subseteq acked BY <1>1, <1>2 DEF OutboxInv, Numbered
  <2>2. QED BY <1>3, <2>1 DEF OutboxInv, Numbered
<1>5. CapacityRespected' BY <1>1, <1>2, CommitKeepsCapacity
<1>6. LostAreOldest' BY <1>1, <1>2, CommitKeepsLosses
<1>7. QED BY <1>3, <1>4, <1>5, <1>6 DEF OutboxInv
--------------------------------------------------------------------------------
(* The invariant *)

LEMMA InitOutbox == Init => OutboxInv
<1> SUFFICES ASSUME Init PROVE OutboxInv
  OBVIOUS
<1>1. Numbered
  <2>1. IsFiniteSet(acked) BY FS_EmptySet DEF Init
  <2>2. conn \in [Threads -> [mode : Mode, view : SUBSET acked]] BY DEF Init, Idle, Mode
  <2>3. QED BY <2>1, <2>2 DEF Init, Numbered
<1>2. Views BY DEF Init, Idle, Views
<1>3. CapacityRespected BY FS_EmptySet, OutboxAssumption DEF Init, CapacityRespected
<1>4. LostAreOldest BY DEF Init, LostAreOldest
<1>5. QED BY <1>1, <1>2, <1>3, <1>4 DEF OutboxInv

\* The new row has an id that no row had, and takes the place that MakeRoom left.
LEMMA EnqueueKeepsInvariant ==
  ASSUME OutboxInv, NEW t \in Threads, NEW k \in Keys \cup {NoKey}, Enqueue(t, k)
  PROVE  OutboxInv'
<1> DEFINE kept == MakeRoom(View(t))
           new == [id |-> NextId, key |-> k]
<1>1. /\ CanWrite(t) /\ Commit(t, kept \cup {new}, TRUE)
      /\ lastId' = NextId /\ acked' = acked \cup {new} /\ table' = kept \cup {new}
      /\ UNCHANGED <<batch, flushed, cleared, crashes>>
  BY DEF Enqueue, Commit
<1>2. Youngest(View(t), table) /\ View(t) \in SUBSET acked
  BY <1>1, WritersView DEF OutboxInv
<1>3. Youngest(kept, View(t)) /\ Cardinality(kept) + 1 <= MaxEntries
  BY <1>1, <1>2, WritersViewFits, MakeRoomFits DEF OutboxInv
<1>4. Youngest(kept, table) /\ kept \in SUBSET acked
  BY <1>2, <1>3, YoungestOfYoungest DEF Youngest
<1> HIDE DEF kept
<1>5. new \in Row /\ new.id = lastId + 1 /\ lastId \in Nat
  BY DEF OutboxInv, Numbered, NextId, Row
<1>6. \A row \in acked : row.id \in Nat /\ row.id < new.id
  <2>1. \A row \in acked : row.id \in Nat /\ row.id <= lastId
    BY DEF OutboxInv, Numbered, Row
  <2>2. QED BY <1>5, <2>1
<1> HIDE DEF new
<1>7. Numbered'
  <2>1. conn' \in [Threads -> [mode : Mode, view : SUBSET acked']]
    BY <1>1, CommitKeepsViews DEF OutboxInv
  <2>2. IsFiniteSet(acked') BY <1>1, FS_AddElement DEF OutboxInv, Numbered
  <2>3. \A row \in acked' : row.id <= lastId'
    <3>1. lastId' = lastId + 1 BY <1>1 DEF NextId
    <3>2. \A row \in acked : row.id <= lastId' BY <1>5, <1>6, <3>1
    <3>3. QED BY <1>1, <1>5, <3>1, <3>2
  <2>4. \A row, other \in acked' : row.id = other.id => row = other
    <3>1. \A row \in acked : row.id # new.id BY <1>5, <1>6
    <3>2. QED BY <1>1, <3>1 DEF OutboxInv, Numbered
  <2>5. acked' \subseteq Row /\ lastId' \in Nat /\ crashes' \in Nat
    BY <1>1, <1>5 DEF OutboxInv, Numbered, NextId
  <2>6. /\ table' \subseteq acked' /\ flushed' \subseteq acked' /\ cleared' \subseteq acked'
        /\ batch' \in [Threads -> SUBSET acked']
    BY <1>1, <1>4 DEF OutboxInv, Numbered
  <2>7. QED BY <2>1, <2>2, <2>3, <2>4, <2>5, <2>6 DEF Numbered
<1>8. Views' BY <1>1, CommitKeepsViews DEF OutboxInv
<1>9. CapacityRespected'
  <2>1. IsFiniteSet(kept) /\ Cardinality(kept) \in Nat BY <1>4, AckedSubsets DEF OutboxInv
  <2>2. Cardinality(kept \cup {new}) \in {Cardinality(kept), Cardinality(kept) + 1}
    BY <2>1, FS_AddElement
  <2>3. Cardinality(kept \cup {new}) <= MaxEntries
    BY <1>3, <2>1, <2>2, OutboxAssumption
  <2>4. QED BY <1>1, <2>3 DEF CapacityRespected
<1>10. LostAreOldest'
  <2> SUFFICES ASSUME NEW lost \in Lost', NEW row \in table' PROVE lost.id < row.id
    BY DEF LostAreOldest
  <2>1. /\ lost \in acked /\ lost \notin flushed /\ lost \notin cleared /\ lost \notin kept
    BY <1>1 DEF Lost
  <2>2. CASE row = new BY <1>6, <2>1, <2>2
  <2>3. CASE row \in kept
    <3>1. CASE lost \in table BY <1>4, <2>1, <2>3, <3>1 DEF Youngest
    <3>2. CASE lost \notin table
      <4>1. lost \in Lost /\ row \in table BY <1>4, <2>1, <2>3, <3>2 DEF Lost, Youngest
      <4>2. QED BY <4>1 DEF OutboxInv, LostAreOldest
    <3>3. QED BY <3>1, <3>2
  <2>4. QED BY <1>1, <2>2, <2>3
<1>11. QED BY <1>7, <1>8, <1>9, <1>10 DEF OutboxInv

\* A connection that opens, changes or drops its transaction without a commit.
LEMMA OwnTransactionKeepsInvariant ==
  ASSUME OutboxInv, NEW t \in Threads, NEW c \in [mode : Mode, view : SUBSET acked],
         conn' = [conn EXCEPT ![t] = c],
         c.mode = "reading" => c.view = table,
         c.mode = "writing" => CanWrite(t) /\ Youngest(c.view, table),
         UNCHANGED <<table, lastId, batch, acked, flushed, cleared, crashes>>
  PROVE  OutboxInv'
<1>1. conn' \in [Threads -> [mode : Mode, view : SUBSET acked]]
  BY DEF OutboxInv, Numbered
<1>2. Numbered' BY <1>1 DEF OutboxInv, Numbered
<1>3. Views'
  <2>1. conn'[t] = c /\ \A o \in Threads \ {t} : conn'[o] = conn[o]
    BY DEF OutboxInv, Numbered
  <2>2. ASSUME NEW o \in Threads
        PROVE  /\ conn'[o].mode = "reading" => conn'[o].view = table
               /\ conn'[o].mode = "writing" => Youngest(conn'[o].view, table)
    BY <2>1 DEF OutboxInv, Views
  <2>3. ASSUME NEW o \in Threads, NEW other \in Threads \ {o}, conn'[o].mode = "writing"
        PROVE  conn'[other].mode # "writing"
    <3>1. CASE o = t BY <2>1, <2>3, <3>1 DEF CanWrite
    <3>2. CASE other = t
      <4>1. conn[o].mode = "writing" BY <2>1, <2>3, <3>2
      <4>2. ~CanWrite(t) BY <2>3, <3>2, <4>1 DEF CanWrite
      <4>3. QED BY <2>1, <3>2, <4>2
    <3>3. CASE o # t /\ other # t BY <2>1, <2>3, <3>3 DEF OutboxInv, Views
    <3>4. QED BY <3>1, <3>2, <3>3
  <2>4. QED BY <2>2, <2>3 DEF Views, Youngest
<1>4. CapacityRespected' BY DEF OutboxInv, CapacityRespected
<1>5. LostAreOldest' BY DEF OutboxInv, LostAreOldest, Lost
<1>6. QED BY <1>2, <1>3, <1>4, <1>5 DEF OutboxInv

LEMMA DuplicateKeepsInvariant ==
  ASSUME OutboxInv, NEW t \in Threads, NEW k \in Keys \cup {NoKey}, EnqueueDuplicate(t, k)
  PROVE  OutboxInv'
<1> DEFINE kept == MakeRoom(View(t))
           c == [mode |-> "writing", view |-> kept]
<1>1. Youngest(View(t), table) /\ View(t) \in SUBSET acked /\ CanWrite(t)
  BY WritersView DEF EnqueueDuplicate, OutboxInv
<1>2. Youngest(kept, View(t))
  BY <1>1, WritersViewFits, MakeRoomFits DEF OutboxInv
<1>3. Youngest(kept, table) /\ kept \in SUBSET acked
  BY <1>1, <1>2, YoungestOfYoungest DEF Youngest
<1>4. /\ conn' = [conn EXCEPT ![t] = c]
      /\ UNCHANGED <<table, lastId, batch, acked, flushed, cleared, crashes>>
  BY DEF EnqueueDuplicate
<1> HIDE DEF kept
<1>5. c \in [mode : Mode, view : SUBSET acked] /\ c.mode = "writing" /\ c.view = kept
  BY <1>3 DEF Mode
<1> HIDE DEF c
<1>6. QED BY <1>1, <1>3, <1>4, <1>5, OwnTransactionKeepsInvariant

LEMMA RefusalKeepsInvariant ==
  ASSUME OutboxInv, NEW t \in Threads, WriteRefused(t)
  PROVE  OutboxInv'
<1> DEFINE c == IF conn[t].mode = "idle" THEN [mode |-> "reading", view |-> table] ELSE conn[t]
<1>1. /\ conn' = [conn EXCEPT ![t] = c] /\ ~CanWrite(t)
      /\ UNCHANGED <<table, lastId, batch, acked, flushed, cleared, crashes>>
  BY DEF WriteRefused
<1>2. conn[t] \in [mode : Mode, view : SUBSET acked] /\ table \in SUBSET acked
  BY DEF OutboxInv, Numbered
<1>3. c \in [mode : Mode, view : SUBSET acked]
  BY <1>2 DEF Mode
<1>4. c.mode = "reading" => c.view = table
  BY DEF OutboxInv, Views
<1>5. c.mode = "writing" => conn[t].mode = "writing"
  BY DEF Mode
<1>6. conn[t].mode # "writing"
  BY <1>1 DEF OutboxInv, Views, CanWrite
<1> HIDE DEF c
<1>7. QED BY <1>1, <1>3, <1>4, <1>5, <1>6, OwnTransactionKeepsInvariant

LEMMA CloseKeepsInvariant ==
  ASSUME OutboxInv, NEW t \in Threads, Close(t)
  PROVE  OutboxInv'
<1>1. Idle \in [mode : Mode, view : SUBSET acked] /\ Idle.mode = "idle"
  BY DEF Idle, Mode
<1>2. QED BY <1>1, OwnTransactionKeepsInvariant DEF Close

LEMMA FlushKeepsInvariant ==
  ASSUME OutboxInv, NEW t \in Threads, NEW ids \in SUBSET IdsIn(batch[t]), MarkFlushed(t, ids)
  PROVE  OutboxInv'
<1> DEFINE gone == {row \in View(t) : row.id \in ids}
           rest == View(t) \ gone
<1>1. /\ CanWrite(t) /\ Commit(t, rest, rest # table)
      /\ flushed' = flushed \cup gone
      /\ UNCHANGED <<lastId, batch, acked, cleared, crashes>>
  BY DEF MarkFlushed
<1>2. View(t) \subseteq acked BY <1>1, WritersView DEF OutboxInv
<1>3. gone \subseteq View(t) OBVIOUS
<1>4. rest \subseteq View(t) /\ View(t) \ rest \subseteq gone OBVIOUS
<1> HIDE DEF gone, rest
<1>5. flushed' \subseteq acked BY <1>1, <1>2, <1>3 DEF OutboxInv, Numbered
<1>6. cleared' \subseteq acked BY <1>1 DEF OutboxInv, Numbered
<1>7. QED BY <1>1, <1>4, <1>5, <1>6, CommitKeepsInvariant

LEMMA AttemptKeepsInvariant ==
  ASSUME OutboxInv, NEW t \in Threads, NEW id, RecordAttempt(t, id)
  PROVE  OutboxInv'
<1> DEFINE changed == View(t) # table \/ \E row \in View(t) : row.id = id
<1>1. /\ CanWrite(t) /\ Commit(t, View(t), changed)
      /\ UNCHANGED <<lastId, batch, acked, flushed, cleared, crashes>>
  BY DEF RecordAttempt
<1>2. changed \in BOOLEAN /\ (~changed => View(t) = table) OBVIOUS
<1> HIDE DEF changed
<1>3. flushed' \subseteq acked /\ cleared' \subseteq acked
  BY <1>1 DEF OutboxInv, Numbered
<1>4. QED BY <1>1, <1>2, <1>3, CommitKeepsInvariant

LEMMA ClearKeepsInvariant ==
  ASSUME OutboxInv, NEW t \in Threads, ClearAll(t)
  PROVE  OutboxInv'
<1> DEFINE changed == table # {}
<1>1. /\ CanWrite(t) /\ Commit(t, {}, changed)
      /\ cleared' = cleared \cup table
      /\ UNCHANGED <<lastId, batch, acked, flushed, crashes>>
  BY DEF ClearAll
<1>2. View(t) \subseteq table BY <1>1, WritersView DEF OutboxInv, Youngest
<1>3. flushed' \subseteq acked /\ cleared' \subseteq acked
  BY <1>1 DEF OutboxInv, Numbered
<1>4. {} \subseteq View(t) /\ View(t) \ {} \subseteq flushed' \cup cleared' BY <1>1, <1>2
<1>5. changed \in BOOLEAN /\ (~changed => {} = table) OBVIOUS
<1> HIDE DEF changed
<1>6. QED BY <1>1, <1>3, <1>4, <1>5, CommitKeepsInvariant

LEMMA DequeueKeepsInvariant ==
  ASSUME OutboxInv, NEW t \in Threads, DequeueAll(t)
  PROVE  OutboxInv'
<1>1. View(t) \subseteq acked BY DEF View, OutboxInv, Numbered
<1>2. /\ batch' = [batch EXCEPT ![t] = View(t)]
      /\ UNCHANGED <<table, lastId, conn, acked, flushed, cleared, crashes>>
  BY DEF DequeueAll
<1>3. Numbered' BY <1>1, <1>2 DEF OutboxInv, Numbered
<1>4. Views' /\ CapacityRespected' /\ LostAreOldest'
  BY <1>2 DEF OutboxInv, Views, CanWrite, Youngest, CapacityRespected, LostAreOldest, Lost
<1>5. QED BY <1>3, <1>4 DEF OutboxInv

\* The process dies: what was not committed is gone, and what was read.
LEMMA CrashKeepsInvariant ==
  ASSUME OutboxInv, Crash
  PROVE  OutboxInv'
<1>1. /\ conn' = [t \in Threads |-> Idle] /\ batch' = [t \in Threads |-> {}]
      /\ crashes' = crashes + 1 /\ UNCHANGED <<table, lastId, acked, flushed, cleared>>
  BY DEF Crash
<1>2. conn' \in [Threads -> [mode : Mode, view : SUBSET acked]]
  BY <1>1 DEF Idle, Mode
<1>3. batch' \in [Threads -> SUBSET acked] /\ crashes' \in Nat
  BY <1>1 DEF OutboxInv, Numbered
<1>4. Numbered' BY <1>1, <1>2, <1>3 DEF OutboxInv, Numbered
<1>5. Views' BY <1>1 DEF Idle, Views
<1>6. CapacityRespected' /\ LostAreOldest'
  BY <1>1 DEF OutboxInv, CapacityRespected, LostAreOldest, Lost
<1>7. QED BY <1>4, <1>5, <1>6 DEF OutboxInv

LEMMA StepsKeepInvariant == OutboxInv /\ [Next]_vars => OutboxInv'
<1> SUFFICES ASSUME OutboxInv, [Next]_vars PROVE OutboxInv'
  OBVIOUS
<1>1. ASSUME NEW t \in Threads, NEW k \in Keys \cup {NoKey}, Enqueue(t, k) PROVE OutboxInv'
  BY <1>1, EnqueueKeepsInvariant
<1>2. ASSUME NEW t \in Threads, NEW k \in Keys \cup {NoKey}, EnqueueDuplicate(t, k)
      PROVE  OutboxInv'
  BY <1>2, DuplicateKeepsInvariant
<1>3. ASSUME NEW t \in Threads, WriteRefused(t) PROVE OutboxInv'
  BY <1>3, RefusalKeepsInvariant
<1>4. ASSUME NEW t \in Threads, DequeueAll(t) PROVE OutboxInv'
  BY <1>4, DequeueKeepsInvariant
<1>5. ASSUME NEW t \in Threads, NEW ids \in SUBSET IdsIn(batch[t]), MarkFlushed(t, ids)
      PROVE  OutboxInv'
  BY <1>5, FlushKeepsInvariant
<1>6. ASSUME NEW t \in Threads, NEW id \in IdsIn(batch[t]), RecordAttempt(t, id)
      PROVE  OutboxInv'
  BY <1>6, AttemptKeepsInvariant
<1>7. ASSUME NEW t \in Threads, ClearAll(t) PROVE OutboxInv'
  BY <1>7, ClearKeepsInvariant
<1>8. ASSUME NEW t \in Threads, Close(t) PROVE OutboxInv'
  BY <1>8, CloseKeepsInvariant
<1>9. ASSUME Crash PROVE OutboxInv'
  BY <1>9, CrashKeepsInvariant
<1>10. ASSUME UNCHANGED vars PROVE OutboxInv'
  <2>1. Numbered' BY <1>10 DEF vars, OutboxInv, Numbered
  <2>2. Views' BY <1>10 DEF vars, OutboxInv, Views, Youngest
  <2>3. CapacityRespected' /\ LostAreOldest'
    BY <1>10 DEF vars, OutboxInv, CapacityRespected, LostAreOldest, Lost
  <2>4. QED BY <2>1, <2>2, <2>3 DEF OutboxInv
<1>11. QED
  BY <1>1, <1>2, <1>3, <1>4, <1>5, <1>6, <1>7, <1>8, <1>9, <1>10 DEF Next

\* Only mark_flushed() delivers, and what it finds under an id is the row its caller read
\* under that id, however long ago.
LEMMA FlushedRowsWereRead ==
  ASSUME OutboxInv, [Next]_vars, NEW row \in flushed' \ flushed
  PROVE  \E t \in Threads : row \in batch[t]
<1>1. PICK t \in Threads : \E ids \in SUBSET IdsIn(batch[t]) : MarkFlushed(t, ids)
  <2>1. flushed' # flushed OBVIOUS
  <2>2. QED
    BY <2>1 DEF Next, vars, Enqueue, EnqueueDuplicate, WriteRefused, DequeueAll,
                RecordAttempt, ClearAll, Close, Crash
<1>2. row \in View(t) /\ row.id \in IdsIn(batch[t]) BY <1>1 DEF MarkFlushed
<1>3. PICK read \in batch[t] : read.id = row.id BY <1>2 DEF IdsIn
<1>4. row \in acked /\ read \in acked
  BY <1>2, <1>3 DEF View, OutboxInv, Numbered
<1>5. row = read BY <1>3, <1>4 DEF OutboxInv, Numbered
<1>6. QED BY <1>3, <1>5

LEMMA InvariantHolds == Spec => []OutboxInv
BY InitOutbox, StepsKeepInvariant, PTL DEF Spec

--------------------------------------------------------------------------------
(* Theorems *)

\* Every variable keeps its type.
THEOREM TypeCorrect == Spec => []TypeOK
<1>1. OutboxInv => TypeOK
  BY DEF OutboxInv, Numbered, TypeOK
<1>2. QED BY <1>1, InvariantHolds, PTL

\* The queue never holds more than OUTBOX_MAX_ENTRIES, with any number of connections that
\* leave transactions open and commit what they saw before.
THEOREM CapacityKept == Spec => []CapacityRespected
<1>1. OutboxInv => CapacityRespected BY DEF OutboxInv
<1>2. QED BY <1>1, InvariantHolds, PTL

\* What is given up is older than all that is pending, crashes included.
THEOREM LossesOldest == Spec => []LostAreOldest
<1>1. OutboxInv => LostAreOldest BY DEF OutboxInv
<1>2. QED BY <1>1, InvariantHolds, PTL

\* mark_flushed() removes nothing that a thread had not read, though it is given ids only
\* and may come after other deliveries, evictions and new entries.
THEOREM FlushedRead == Spec => FlushedWereRead
<1>1. OutboxInv /\ [Next]_vars =>
        [\A row \in flushed' \ flushed : \E t \in Threads : row \in batch[t]]_vars
  BY FlushedRowsWereRead
<1>2. QED BY <1>1, InvariantHolds, PTL DEF Spec, FlushedWereRead
================================================================================
