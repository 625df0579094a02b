\* Two file objects over a volume of a few clusters that is often full.
SPECIFICATION Spec
CONSTANTS
  Dirs = {d1, d2}
  d1 = d1
  Names = {n1, n2}
  Paths <- MCPaths
  Handles = {h1, h2}
  MaxMade = 4
  NFat = 6
  NRoot = 1
  SS = 2
  PerSector = 3
  WriteSizes = {1, 2}
  ReadSizes = {2}
  MaxUnits = 3
SYMMETRY VolumeSymmetry
INVARIANTS
  VolumeSound
  ErrorsOnlyStale
PROPERTIES
  ShortOnlyWhenFull
  ImplementsStore
CHECK_DEADLOCK FALSE
