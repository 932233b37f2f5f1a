SPECIFICATION Spec
CONSTANTS
  Size <- MCSize
  FRAME_IDS = 2
  MAX_FRAME_PACKETS = 3
  MAX_PENDING_WRITES = 2
  Threads = "binder"
  MaxBusy = 0
  MaxFaults = 0
INVARIANTS
  WakeUpIsComing
CHECK_DEADLOCK FALSE
