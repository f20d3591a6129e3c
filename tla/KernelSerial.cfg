\* Two runs, one after the other, the first of which may be killed.
SPECIFICATION Spec
CONSTANTS
  Planners = {p1, p2}
  Drivers = {}
  Concurrent = FALSE
  MaxSubtasks = 1
  RootPriorities = {5, 10}
  Works = {"good", "bad", "empty"}
  Nodes = {1}
  MaxIterations = 4
  MaxRetries = 1
  MaxFaults = 0
  MaxCrashes = 1
SYMMETRY Symmetry
\* Runs end: a state in which all have ended is not a deadlock.
CHECK_DEADLOCK FALSE
PROPERTIES ApprovedLifecycle PriorityRespected
