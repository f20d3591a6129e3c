\* A node, two dispatchers of one task, one restart of the worker or the master.
SPECIFICATION FairSpec
CONSTANTS
  Nodes = {1}
  Tasks = {"t1"}
  Dispatchers = {d1, d2}
  Offers <- MCOffers
  Needs <- MCNeeds
  THRESHOLD = 2
  QUARANTINE = 2
  MaxRestarts = 1
INVARIANTS TypeOK NeedsWereOffered
PROPERTIES QuarantineEnds LoadIsSeen
