\* Tables that change, scrambling, lost sync, DTS jumps, and a good source after them.
SPECIFICATION FairSpec
CONSTANTS
  v1 = v1  v2 = v2
  Infos = {v1, v2}
  Mixed = Mixed
  None = None
  DtsCycle = 6
  PcrCycle = 6
  TicksPerMs = 1
  Biss = TRUE
  Sections = {"whole"}
  Jumps <- MCJumps
  MaxChunk = 1
  PktPackets = 2
  StartMax = 1
  ReadyMax = 1
  ProbeMs = 1
  BufferMs = 1
  ThresholdMs = 1
INVARIANTS ReadyNotPaused PausedIsMarked BuffersInv
PROPERTIES Recovers
