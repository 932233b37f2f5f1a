SPECIFICATION Spec
CONSTANTS
  Device = {d, e}
  Event = {mose, waamv}
  MaxScans = 1
  MaxGrants = 1
  MaxMishaps = 0
PROPERTIES KeepsRecords
CHECK_DEADLOCK FALSE
