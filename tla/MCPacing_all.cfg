\* Discontinuities ahead and back, flushes between them; packets that last one and a
\* half ticks, with and without adjust_buf.
SPECIFICATION MCSpec
CONSTANTS
  None = None
  DtsCycle = 8
  PcrCycle = 16
  TicksPerMs = 1
  PeriodPat = 4
  PeriodPmt = 4
  PeriodSdt = 6
  Steps <- MCSteps
  Jumps <- MCJumps
  MaxStep = 2
  PcrPerDts = 2
  TicksNum = 3
  TicksDen = 2
  CbrPackets = 2
  CbrDiff = 1
  CbrMaxLead = 2
  CbrJitter = 1
  CbrBuffer = 1
  CbrLow = 1
  CbrHigh = 1
  CbrOverflow = 3
  CbrThreshold = 3
  CbrSteps <- MCCbrSteps
  CbrMax = 2
  PacketBytes = 2
  SyncMax = 14
  SyncSizes = {3, 8}
  SyncFalse = 3
  SyncCap = 17
INVARIANTS InserterInv CbrInv SyncInv
PROPERTIES PcrFollowsWire BuffersMove
