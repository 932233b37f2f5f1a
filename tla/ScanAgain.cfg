SPECIFICATION MCSpec
CONSTANTS
  Device = {d}
  Observation = {o, p}
  Scout = {s, t}
  Body = {good, bad}
  RecordId = {1, 2, 3}
  REVISION_MAX = 2
  Inline = 4
  MaxDepth = 2
  MaxSafe = 9216
  Broken = {16}
  Composed <- Compose
  Tag = 2
  Alphabet = {0, 4, 5, 16, 37, 49, 62, 74, 85}
  Profile = {"qr", "key", "tab"}
  Payload <- Payloads
  App <- AppOf
  Reading <- ReadingOf
  MaxRecords = 3
  MaxEdits = 2
  MaxLength = 2
  Mark = 61
PROPERTY RescanKeepsAnswer
CHECK_DEADLOCK FALSE
