SPECIFICATION Spec
CONSTANTS
  Size <- MCLong
  FRAME_IDS = 2
  MAX_FRAME_PACKETS = 3
  MAX_PENDING_WRITES = 2
  Threads = "binder"
  MaxBusy = 1
  MaxFaults = 2
INVARIANTS
  TypeOK
  CrossesOnce
PROPERTIES
  ImplementsFrameLink
CHECK_DEADLOCK FALSE
