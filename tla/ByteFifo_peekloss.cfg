\* A peek is taken to leave the bytes in place: it does not.
SPECIFICATION Spec
CONSTANTS
  BSize = 5
  PutSizes = {1, 3}
  Requests <- MCRequests
  Ordered = TRUE
  MaxBytes = 11
PROPERTIES
  PeekKeepsBytes
CHECK_DEADLOCK FALSE
