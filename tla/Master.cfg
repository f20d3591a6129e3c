\* Two tasks, a node and two callers that overlap, with an error or a kill.
SPECIFICATION Spec
CONSTANTS
  Tasks = {t1, t2}
  Nodes = {1}
  Callers = {c1, c2}
  MaxRetries = 1
  MaxWork = 2
  MaxFaults = 1
SYMMETRY Symmetry
INVARIANTS FailuresAreBounded DispatchedIsAccounted BusyIsAccounted
