\* A worker, two server threads, two attempts, one request within two ticks.
SPECIFICATION FairSpec
CONSTANTS
  Callers = {c1}
  Threads = {s1, s2}
  RPM = 1
  WINDOW = 2
  SLOW = 1
  MAX_ATTEMPTS = 2
INVARIANTS TypeOK LimitIsKept OutcomeIsTrue
PROPERTIES LinkRecovers
