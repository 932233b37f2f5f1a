SPECIFICATION Spec
CONSTANTS
  x = x  y = y  z = z
  ann = ann  ben = ben
  ours = ours  theirs = theirs
  Id = {x, z}
  Key = {ours}
  Nibble = {0, 1}
  Hash <- SpreadHash
  LEAF_THRESHOLD = 2
  MAX_DEPTH = 2
  MAX_RECORDS_PER_MESSAGE = 1
  Device = {ann, ben}
  Link <- OneLink
  Initiator <- MCInitiator
  Responder <- MCResponder
  Trusted <- TrustAll
  Local <- NoLocal
  MaxRounds = 6
  MaxFaults = 1
INVARIANT StallIsSilence
