SPECIFICATION Spec
CONSTANTS
  Device = {d, e, f}
  Event = {mose}
  MaxScans = 1
  MaxGrants = 2
  MaxMishaps = 1
SYMMETRY Alike
INVARIANTS AdmittedIsCompared NobodyTrustedUncompared PairedIsMutual
PROPERTIES KeepsRecords RevocationSticks
CHECK_DEADLOCK FALSE
