\* The consumer gets, skips and peeks: the fifo is a byte queue; on several
\* cores without barriers only the bytes of a put in progress are wrong.
SPECIFICATION PairSpec
CONSTANTS
  BSize = 5
  PutSizes = {1, 2, 3}
  Requests <- MCRequests
  Ordered = TRUE
  MaxBytes = 12
  WeakBSize = 4
  WeakPutSizes = {1, 2}
  WeakMaxBytes = 8
INVARIANTS
  FullNeverEmpty
  WeakDamage
  NoOverwrite
  InOrder
  CopiedOutRight
PROPERTIES
  Implements
CHECK_DEADLOCK FALSE
