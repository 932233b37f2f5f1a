SPECIFICATION FairSpec
CONSTANTS
  dialled = dialled
  calling = calling
  Peer = {dialled, calling}
  Inbound = {calling}
  MAX_BUFFERED_PACKETS = 1
  Calm = TRUE
  MaxOpens = 2
  MaxConnections = 2
  MaxPackets <- MCPackets
INVARIANTS
  OpenLinkListens
  NoHoles
PROPERTIES
  DeadLinksClose
  OpenSettles
CHECK_DEADLOCK FALSE
