\* A servent follows the mux thread; any PCR, the channel is started twice.
SPECIFICATION Spec
CONSTANTS
  SegmentNum = 4
  Safe = 2
  SegmentPkts = 1
  Duration = 1
  Streams = 2
  Pcr <- MCPcr
  Readers = {r1}
  MaxSeg = 9
  MaxRuns = 2
INVARIANTS
  ReadsWhole
  Bounded
PROPERTIES
  GetsToRead
CHECK_DEADLOCK FALSE
