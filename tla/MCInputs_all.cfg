\* Every kind of input, nothing lost on the way to the admin server; an HLS broadcast
\* of five segments with a segment of no duration.
SPECIFICATION MCSpec
CONSTANTS
  in = in  tick = tick
  Callers = {in}
  Ticker = tick
  In = in
  Lossy = FALSE
  MaxQueue = 1
  InputTimeout = 2
  Kinds = {"unix", "udp", "rtp", "http", "hls", "ffmpeg"}
  HlsLast = 5
  HlsWindow = 3
  HlsCapacity = 3
  HlsKeep = 2
  HlsErrors = 1
  HlsPieces = 1
  HlsRoom = 1
  HlsZero = {5}
INVARIANTS InputInv HlsInv
PROPERTIES ReportsFollowSource CancelEnds HlsLive
CHECK_DEADLOCK FALSE
