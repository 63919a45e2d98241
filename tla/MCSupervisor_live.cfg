\* Liveness: one client with every request.
SPECIFICATION FairSpec
CONSTANTS
  None = None
  s1 = s1  s2 = s2  o1 = o1  o2 = o2  c1 = c1  c2 = c2  r1 = r1  r2 = r2
  Streams = {s1}
  Outputs = {o1}
  Clients = {c1}
  Restarters = {r1}
  Inst <- MCInst2
  Ops = {"start", "stop", "startall", "stopall"}
PROPERTIES LockReleased OutputRespawned
