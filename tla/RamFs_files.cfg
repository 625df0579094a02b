\* Two mux threads, two slots: nothing is refused, and what a file lacks
\* is what a full volume had no room for.
SPECIFICATION SafetySpec
CONSTANTS
  Writers = {w1, w2}
  Readers = {}
  Handles = {h1, h2}
  NoHandle = NoHandle
  w1 = w1
  w2 = w2
  h1 = h1
  h2 = h2
  QueueLen = 4
  NSlots = 2
  Block = 2
  Rounds = 2
  Cache = 5
  Chunk = 3
  MaxFile = 6
  MaxAsync = 1
  CloseMayFail = FALSE
  VolumeMayFill = TRUE
  ReadMayFail = FALSE
  MayQuit = FALSE
SYMMETRY HandleSymmetry
INVARIANTS
  WritersRegistered
  FlushedOnClose
  NeverRefused
PROPERTIES
  WriteAccepted
CHECK_DEADLOCK FALSE
