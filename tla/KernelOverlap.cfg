\* Overlapping runs against the approved lifecycle.
SPECIFICATION FairSpec
CONSTANTS
  Planners = {p1}
  Drivers = {d1}
  Concurrent = TRUE
  MaxSubtasks = 1
  RootPriorities = {5}
  Works = {"good"}
  Nodes = {1}
  MaxIterations = 10
  MaxRetries = 1
  MaxFaults = 0
  MaxCrashes = 0
PROPERTIES VerdictIsFinal
\* Runs end: a state in which all have ended is not a deadlock.
CHECK_DEADLOCK FALSE
