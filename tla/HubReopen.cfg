SPECIFICATION Spec
CONSTANTS
  dialled = dialled
  calling = calling
  Peer = {dialled}
  Inbound = {}
  MAX_BUFFERED_PACKETS = 2
  Calm = FALSE
  MaxOpens = 2
  MaxConnections = 2
  MaxPackets <- MCPackets
INVARIANTS
  OpenLinkListens
CHECK_DEADLOCK FALSE
