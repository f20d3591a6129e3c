\* A monitor and a sweeper that overlap: with errors, and with departures and restarts.
SPECIFICATION FairSpec
CONSTANTS
  Nodes = {n1}
  Tasks = {t1}
  Monitors = {m1}
  Sweepers = {s1}
  MaxReassignments = 1
  Regimes <- MCRegimes
INVARIANTS TypeOK ReassignmentsBounded AbandonedOnlyAfterMax
PROPERTIES  LiveNodeIsSeen
