\* Two jobs over three entries on three days.
SPECIFICATION Spec
CONSTANTS
  Jobs = {j1, j2}
  Tasks = {t1}
  Tags = {g1}
  Kinds <- MCKinds
  MaxScores = {4, 5}
  CompressAfter = 0
  SummarizeAfter = 0
  MinDay = 2
  MinMonth = 2
  MonthLength = 2
  MaxEntries = 3
  MaxDays = 2
  MaxFaults = 1
INVARIANTS TypeOK NothingForgotten DigestedOncePerJob
PROPERTIES  ImportantKept
SYMMETRY Symmetry
CHECK_DEADLOCK FALSE
