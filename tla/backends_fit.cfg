SPECIFICATION BackendsSpec
CONSTANTS
  PointerSize = 8
  MinChunk = 24
  ChunkStep = 16
  MaxBackends = 6
CHECK_DEADLOCK FALSE
INVARIANTS
  PointersFit
