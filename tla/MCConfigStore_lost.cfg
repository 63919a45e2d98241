\* A load during a save.
SPECIFICATION FairSpec
CONSTANTS
  a1 = a1  mon = mon
  Monitor = mon
  Inodes <- MCInodes
  Savers = {}
  MaxLoads = 2
  Depth = 1
  Crashes = FALSE
PROPERTY AutosaveReachesDisk
CHECK_DEADLOCK FALSE
