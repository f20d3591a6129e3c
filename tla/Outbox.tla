--------------------------------- MODULE Outbox ---------------------------------
(***************************************************************************)
(* grid/outbox.py: the queue a worker node keeps in an SQLite file while   *)
(* the master cannot be reached.                                           *)
(*                                                                         *)
(* A module-level lock makes each call atomic in the process, but each     *)
(* thread has a connection of its own and Python's sqlite3 opens a         *)
(* transaction before the first write of a call and closes it at commit()  *)
(* only.  enqueue() returns -1 for a duplicate key without commit() or     *)
(* rollback(), so the transaction stays open, with the write lock and with *)
(* the eviction made on the way; a write refused for that lock leaves its  *)
(* own connection in a read transaction, and so on the state of that       *)
(* moment.  The model keeps, per connection, that mode and that view.      *)
(*                                                                         *)
(* The payload, its type and the attempt counters are left out: nothing    *)
(* in the queue depends on them.  The thread that flushes (memory_sync, not *)
(* in the repository) is seen through the calls it makes.                  *)
(***************************************************************************)
EXTENDS Naturals, FiniteSets

CONSTANTS
  Threads,      \* threads of the worker process that use the outbox
  Keys,         \* idempotency keys
  NoKey,        \* the key of an entry without one: never a duplicate
  MaxEntries,   \* OUTBOX_MAX_ENTRIES
  MaxInserts,   \* bound: entries ever inserted
  MaxCrashes    \* bound: kills of the worker process

ASSUME OutboxAssumption ==
  /\ NoKey \notin Keys
  /\ MaxEntries \in Nat \ {0} /\ MaxInserts \in Nat /\ MaxCrashes \in Nat

VARIABLES
  table,     \* the committed rows
  lastId,    \* sqlite_sequence: the last id given (AUTOINCREMENT)
  conn,      \* conn[t]: the transaction of t's connection and what it sees
  batch,     \* batch[t]: the rows that t last read with dequeue_all()
  acked,     \* history: rows whose id enqueue() returned
  flushed,   \* history: rows that mark_flushed() removed
  cleared,   \* history: rows that clear_all() removed
  crashes

vars == <<table, lastId, conn, batch, acked, flushed, cleared, crashes>>

Row == [id : Nat \ {0}, key : Keys \cup {NoKey}]

\* idle: no transaction.  writing: an open one that holds the write lock.
\* reading: an open one that only reads.  outdated: the same, after another
\* connection's commit; SQLite refuses to let it write ever after.
Mode == {"idle", "writing", "reading", "outdated"}
Idle == [mode |-> "idle", view |-> {}]

TypeOK ==
  /\ table \subseteq Row
  /\ lastId \in Nat
  /\ conn \in [Threads -> [mode : Mode, view : SUBSET Row]]
  /\ batch \in [Threads -> SUBSET Row]
  /\ acked \subseteq Row /\ flushed \subseteq Row /\ cleared \subseteq Row
  /\ crashes \in Nat

Init ==
  /\ table = {} /\ lastId = 0
  /\ conn = [t \in Threads |-> Idle]
  /\ batch = [t \in Threads |-> {}]
  /\ acked = {} /\ flushed = {} /\ cleared = {}
  /\ crashes = 0

--------------------------------------------------------------------------------
\* Connections

View(t) == IF conn[t].mode = "idle" THEN table ELSE conn[t].view

CanWrite(t) == /\ conn[t].mode # "outdated"
               /\ \A o \in Threads \ {t} : conn[o].mode # "writing"

\* commit(): the rows are there for all, except for who is still reading.
Commit(t, rows, changed) ==
  /\ table' = rows
  /\ conn' = [o \in Threads |->
                IF o = t THEN Idle
                ELSE IF conn[o].mode = "reading" /\ changed
                     THEN [conn[o] EXCEPT !.mode = "outdated"] ELSE conn[o]]

--------------------------------------------------------------------------------
\* The calls

Oldest(rows) == {row \in rows : \A other \in rows : row.id <= other.id}

\* Mutant: room is made when the queue has overflowed.
MakeRoomLate(rows) ==
  IF Cardinality(rows) > MaxEntries THEN rows \ Oldest(rows) ELSE rows

\* Mutant: the newest entry makes room.
MakeRoomAtTheEnd(rows) ==
  IF Cardinality(rows) >= MaxEntries
  THEN rows \ {row \in rows : \A other \in rows : row.id >= other.id} ELSE rows

MakeRoom(rows) ==
  IF Cardinality(rows) >= MaxEntries THEN rows \ Oldest(rows) ELSE rows

HasKey(rows, k) == k # NoKey /\ \E row \in rows : row.key = k

\* Mutant: a plain INTEGER PRIMARY KEY, one more than the largest id in use.
ReusedId == IF table = {} THEN 1
            ELSE (CHOOSE i \in {row.id : row \in table} : \A row \in table : row.id <= i) + 1

\* AUTOINCREMENT: never an id that was given before.
NextId == lastId + 1

Enqueue(t, k) ==
  LET rows == MakeRoom(View(t))
      row == [id |-> NextId, key |-> k]
  IN /\ CanWrite(t) /\ lastId < MaxInserts
     /\ ~HasKey(rows, k)
     /\ Commit(t, rows \cup {row}, TRUE)
     /\ lastId' = NextId
     /\ acked' = acked \cup {row}
     /\ UNCHANGED <<batch, flushed, cleared, crashes>>

\* IntegrityError: -1 is returned, and the transaction is left as it is.
EnqueueDuplicate(t, k) ==
  LET rows == MakeRoom(View(t))
  IN /\ CanWrite(t)
     /\ HasKey(rows, k)
     /\ conn' = [conn EXCEPT ![t] = [mode |-> "writing", view |-> rows]]
     /\ UNCHANGED <<table, lastId, batch, acked, flushed, cleared, crashes>>

\* Any write while another connection holds the write lock, or after the view
\* went out of date: "database is locked" is raised, the transaction begun stays.
WriteRefused(t) ==
  /\ ~CanWrite(t)
  /\ conn' = [conn EXCEPT ![t] =
                IF @.mode = "idle" THEN [mode |-> "reading", view |-> table] ELSE @]
  /\ UNCHANGED <<table, lastId, batch, acked, flushed, cleared, crashes>>

DequeueAll(t) ==
  /\ batch' = [batch EXCEPT ![t] = View(t)]
  /\ UNCHANGED <<table, lastId, conn, acked, flushed, cleared, crashes>>

\* The flusher delivered some of the rows it had read.
MarkFlushed(t, ids) ==
  LET rows == {row \in View(t) : row.id \in ids}
  IN /\ CanWrite(t)
     /\ Commit(t, View(t) \ rows, View(t) \ rows # table)
     /\ flushed' = flushed \cup rows
     /\ UNCHANGED <<lastId, batch, acked, cleared, crashes>>

\* The retry counter of a row is bumped: no row comes or goes, but what the
\* transaction had done before is committed with it.
RecordAttempt(t, id) ==
  /\ CanWrite(t)
  /\ Commit(t, View(t), View(t) # table \/ \E row \in View(t) : row.id = id)
  /\ UNCHANGED <<lastId, batch, acked, flushed, cleared, crashes>>

ClearAll(t) ==
  /\ CanWrite(t)
  /\ Commit(t, {}, table # {})
  /\ cleared' = cleared \cup table
  /\ UNCHANGED <<lastId, batch, acked, flushed, crashes>>

\* close(), or the end of the thread: an open transaction is rolled back.
Close(t) ==
  /\ conn[t].mode # "idle"
  /\ conn' = [conn EXCEPT ![t] = Idle]
  /\ UNCHANGED <<table, lastId, batch, acked, flushed, cleared, crashes>>

Crash ==
  /\ crashes < MaxCrashes
  /\ crashes' = crashes + 1
  /\ conn' = [t \in Threads |-> Idle]
  /\ batch' = [t \in Threads |-> {}]
  /\ UNCHANGED <<table, lastId, acked, flushed, cleared>>

IdsIn(rows) == {row.id : row \in rows}

Next ==
  \/ \E t \in Threads :
       \/ \E k \in Keys \cup {NoKey} : Enqueue(t, k) \/ EnqueueDuplicate(t, k)
       \/ WriteRefused(t)
       \/ DequeueAll(t)
       \/ \E ids \in SUBSET IdsIn(batch[t]) \ {{}} : MarkFlushed(t, ids)
       \/ \E id \in IdsIn(batch[t]) : RecordAttempt(t, id)
       \/ ClearAll(t)
       \/ Close(t)
  \/ Crash

Spec == Init /\ [][Next]_vars

--------------------------------------------------------------------------------
\* Properties

\* The queue never holds more than OUTBOX_MAX_ENTRIES, whichever connection's
\* view of it is committed.
CapacityRespected == Cardinality(table) <= MaxEntries

\* What was accepted and is neither delivered, nor cleared, nor pending.
Lost == acked \ (flushed \cup cleared \cup table)

\* Entries are given up oldest first: a lost one is older than everything that is
\* pending, crashes included.
LostAreOldest == \A lost \in Lost, row \in table : lost.id < row.id

\* mark_flushed() takes ids that were read earlier, by a thread that may have
\* been overtaken: it removes nothing that its caller had not read.
FlushedWereRead ==
  [][\A row \in flushed' \ flushed : \E t \in Threads : row \in batch[t]]_vars

\* (grid/outbox.py, "duplicate keys are silently ignored")  Entries are given up
\* to make room for others only: not before more were accepted than fit.
LossesMakeRoom == Lost # {} => Cardinality(Lost) + MaxEntries <= Cardinality(acked)
================================================================================
