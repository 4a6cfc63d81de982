\* A job stopped and started again in the middle of a sync, over two seconds.
SPECIFICATION FairListSpec
CONSTANTS
  Loops = {l1, l2}
  MaxSeconds = 2
  MaxSnapshots = 3
INVARIANTS
  PublishedIsOnDisk
PROPERTIES
  SyncsUntilStopped
  StopEndsTheLoop
CHECK_DEADLOCK FALSE
