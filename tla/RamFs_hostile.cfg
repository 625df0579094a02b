\* Queue of one message, failing closes and reads, quit: handles stay sound, and
\* every request is answered as long as the service runs.
SPECIFICATION Spec
CONSTANTS
  Writers = {w1}
  Readers = {r1}
  Handles = {h1, h2}
  NoHandle = NoHandle
  w1 = w1
  r1 = r1
  h1 = h1
  h2 = h2
  QueueLen = 2
  NSlots = 1
  Block = 2
  Rounds = 3
  Cache = 5
  Chunk = 2
  MaxFile = 6
  MaxAsync = 1
  CloseMayFail = TRUE
  VolumeMayFill = FALSE
  ReadMayFail = TRUE
  MayQuit = TRUE
INVARIANTS
  HandlesSound
  OneAnswer
PROPERTIES
  ShortReadAtEnd
  Answered
CHECK_DEADLOCK FALSE
