\* Two clients at a time and more at the end of their kill; one stream.
SPECIFICATION Spec
CONSTANTS
  MaxServIn = 2
  MaxDirect = 1
  MaxServents = 4
  MaxConns = 4
  MaxFails = 2
  MayQuit = FALSE
INVARIANTS
  IncomingBounded
  FreeIsIdle
PROPERTIES
  LimitHonoured
  ServerStarts
CHECK_DEADLOCK FALSE
