\* A run and a driver that overlap, with an error; the node comes and goes.
SPECIFICATION Spec
CONSTANTS
  Planners = {p1}
  Drivers = {d1}
  Concurrent = TRUE
  MaxSubtasks = 1
  RootPriorities = {5}
  Works = {"good", "bad", "empty"}
  Nodes = {1}
  MaxIterations = 6
  MaxRetries = 1
  MaxFaults = 1
  MaxCrashes = 0
INVARIANTS VerdictMatchesWork VerdictIsRemembered PendingIsAccounted ExecutionsAreBounded NothingStranded ReportIsExact KernelInv
\* Runs end: a state in which all have ended is not a deadlock.
CHECK_DEADLOCK FALSE
