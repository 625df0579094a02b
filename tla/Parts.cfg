SPECIFICATION PartsSpec
CONSTANTS
    Parts = {"head", "disk", "template", "http", "session"}
    Disks <- MCDisks
    Units <- MCUnits
    ObjectBases <- MCObjectBases
    BufferBases = {5120, 5121, 5631}
    QueueBases = {77}
    MaxInits = 2
    Requests <- MCRequests
    RequestMax = 7
    HeaderMax = 4
    WaitMax = 2
    \* Three logins for two places, over a restart of the clock.
    Threads = {t1, t2}
    Browsers = {1, 2}
    MAX_COOKIES = 2
    Wrap = 3
    MaxLogins = 3
    MaxRequests = 1
    MaxTime = 3
CHECK_DEADLOCK FALSE
INVARIANTS
  HeadSound
  Decodable
  LayoutSound
  NothingLeft
  Rendered
  Replies
PROPERTIES
    SessionKept
    ConnectionEnds
