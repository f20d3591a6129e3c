\* Two threads, a queue of two entries, three inserts in all.
SPECIFICATION Spec
CONSTANTS
  Threads = {t1, t2}
  Keys = {k1, k2}
  NoKey = NoKey
  MaxEntries = 2
  MaxInserts = 3
  MaxCrashes = 1
SYMMETRY Symmetry
INVARIANTS CapacityRespected LostAreOldest
 
