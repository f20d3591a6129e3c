\* Two controllers, two starts; stops may give up on threads that send.
SPECIFICATION FairSpec
CONSTANTS
  Controllers = {c1, c2}
  MaxStarts = 2
  PARTITION_THRESHOLD = 3
  MaxMissed = 3
INVARIANTS PartitionIsJustified ThreadsAreAccounted
PROPERTIES StoppedThreadsEnd RejectionIsNoticed
