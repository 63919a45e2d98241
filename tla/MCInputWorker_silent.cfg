\* A unix source that stays connected and sends nothing.
SPECIFICATION InputFairSpec
CONSTANTS
  in = in  tick = tick
  Callers = {in}
  Ticker = tick
  In = in
  Lossy = FALSE
  MaxQueue = 1
  InputTimeout = 2
  Kinds = {"unix"}
PROPERTY SilenceShows
