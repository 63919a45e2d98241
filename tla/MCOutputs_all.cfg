\* Tables that change, fragment and mix, datagrams that do not divide; two runs
\* of an output and a client that reads as it likes; an EPG generator over three schedules.
SPECIFICATION MCSpec
CONSTANTS
  v1 = v1  v2 = v2
  Infos = {v1, v2}
  Mixed = Mixed
  None = None
  TsSize = 2
  PktSize = 7
  Sections = {"whole", "head", "tail", "tail_whole"}
  SrvClients = {1}
  SrvRuns = 2
  Schedules <- MCSchedules
  GenEnd = 4
  GenVersions = 3
  GenFirst = {2}
  GenLate = 1
  GenStuck = 1
  GenTdt = 1
  GenSection = 2
  GenTime = 1
  GenGroup = 2
  GenFails = 1
INVARIANTS FrameBounded PayloadMatches ServerInv GenInv
PROPERTIES TokenEndsServer SectionsFollowSchedule NothingLeft
CHECK_DEADLOCK FALSE
