\* Clients come and go while the application quits.
SPECIFICATION Spec
CONSTANTS
  MaxServIn = 2
  MaxDirect = 1
  MaxServents = 3
  MaxConns = 3
  MaxFails = 0
  MayQuit = TRUE
INVARIANTS
  SocketsSound
PROPERTIES
  ShutdownEnds
CHECK_DEADLOCK FALSE
