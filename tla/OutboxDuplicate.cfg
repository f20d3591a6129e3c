\* A duplicate key on a full queue, one thread.
SPECIFICATION Spec
CONSTANTS
  Threads = {t1}
  Keys = {k1, k2}
  NoKey = NoKey
  MaxEntries = 2
  MaxInserts = 3
  MaxCrashes = 0
INVARIANTS LossesMakeRoom
