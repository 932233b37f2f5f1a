SPECIFICATION FairSpec
CONSTANTS
  Size <- MCSize
  FRAME_IDS = 2
  MAX_FRAME_PACKETS = 3
  MAX_PENDING_WRITES = 2
  Threads = "queue"
  MaxBusy = 1
  MaxFaults = 1
INVARIANTS
  WakeUpIsComing
PROPERTIES
  FramesArrive
CHECK_DEADLOCK FALSE
