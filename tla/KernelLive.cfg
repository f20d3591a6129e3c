\* Liveness of a run and a driver that overlap; the node comes and goes.
SPECIFICATION FairSpec
CONSTANTS
  Planners = {p1}
  Drivers = {d1}
  Concurrent = TRUE
  MaxSubtasks = 1
  RootPriorities = {5}
  Works = {"good", "bad", "empty"}
  Nodes = {1}
  MaxIterations = 6
  MaxRetries = 1
  MaxFaults = 0
  MaxCrashes = 0
PROPERTIES EveryRunEnds EveryTaskFinished OneVerdict
\* Runs end: a state in which all have ended is not a deadlock.
CHECK_DEADLOCK FALSE
