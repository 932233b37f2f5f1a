SPECIFICATION Spec
CONSTANTS
  p1 = p1
  p2 = p2
  Peer = {p1, p2}
  c1 = c1
  Central = {c1}
  l1 = l1
  l2 = l2
  Label = {l1, l2}
  None = None
  MaxConnects = 3
  MaxHurried = 1
  MaxAttempts = 2
  MaxStarts = 3
  MaxHandles = 2
  MaxOutages = 1
  Patience = {FALSE}
\* Or PROPERTY StartsSettle: a start that is never answered.
INVARIANT StoppedStaysSilent
CHECK_DEADLOCK FALSE
