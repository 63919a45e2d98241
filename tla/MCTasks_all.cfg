\* Two EPG ids with one stop under way, one router with
\* three requests, two clients that dump one output, two
\* probes of three programs.
SPECIFICATION MCSpec
CONSTANTS
  EpgIds = {1, 2}
  EpgInst = {1, 2, 3}
  EpgStoppers = {1}
  Routers = {1}
  RTasks = {1, 2}
  Of <- MCOf
  RouterProcs = {1, 2, 3}
  Aliases = {1}
  Sockets = {1, 2}
  RouterOps <- MCRouterOps
  DumpOuts = {1}
  DumpClients = {1, 2}
  DumpInst = {1, 2, 3}
  Probers = {1, 2}
  ProbeFull = 8
  Programs = {1, 2, 3}
  PmtPid <- MCPmtPid
  PidsOf <- MCPidsOf
INVARIANTS RouterInv DumpInv ProbeInv
PROPERTIES MapsKept RequestsEnd
CHECK_DEADLOCK FALSE
