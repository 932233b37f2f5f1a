SPECIFICATION FairSpec
CONSTANTS
  x = x  y = y  z = z
  ann = ann  ben = ben
  ours = ours  theirs = theirs
  Id = {x, y, z}
  Key = {ours, theirs}
  Nibble = {0, 1}
  Hash <- MCHash
  LEAF_THRESHOLD = 4
  MAX_DEPTH = 2
  MAX_RECORDS_PER_MESSAGE = 1
  Device = {ann, ben}
  Link <- OneLink
  Initiator <- MCInitiator
  Responder <- MCResponder
  Trusted <- TrustSome
  Local <- NoLocal
  MaxRounds = 6
  MaxFaults = 0
PROPERTY Converges
