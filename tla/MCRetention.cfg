\* A sweeper that is stopped and started again while it sweeps.
SPECIFICATION FairRetentionSpec
CONSTANTS
  Documents = {d1, d2}
  Sessions = {s1, s2}
  Loops = {l1, l2}
INVARIANTS
  DeletedDocumentsCounted
PROPERTIES
  ExpiredIsDeleted
CHECK_DEADLOCK FALSE
