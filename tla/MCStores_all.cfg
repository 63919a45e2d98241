\* The autosave killed and restarted at any point; autosave and /save at the same time;
\* two viewers with one key on an alias that is replaced.
SPECIFICATION MCSpec
CONSTANTS
  a1 = a1  mon = mon
  Monitor = mon
  Inodes <- MCInodes
  Savers = {a1}
  MaxLoads = 4
  Depth = 3
  Crashes = TRUE
  Keys = {1}
  ViewerIds = {1, 2}
  Channels = {1, 2}
  ViewRing = 2
INVARIANTS StoreInv OneFrameAfterRemoval
PROPERTIES OnlyOldestLost DirtyIsSaved ViewersLeave
CHECK_DEADLOCK FALSE
