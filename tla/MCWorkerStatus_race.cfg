\* Two tasks and the status loop, a lossy network.
SPECIFICATION Spec
CONSTANTS
  in = in  out = out  tick = tick
  Callers = {in, out}
  Ticker = tick
  Lossy = TRUE
  MaxQueue = 1
INVARIANTS ArmedMeansDirty
