SPECIFICATION MCSpec
CONSTANTS
  c1 = c1
  c2 = c2
  u1 = u1
  None = None
  Call = {c1, c2}
  Url = {u1}
  Interval = 2
  MaxAttempts = 2
  BaseBackoff = 1
  MaxBackoff = 2
  RetryAfter <- Asked
  MaxAge <- Ages
  MaxVersion = 1
  Played <- MCPlayed
  Elsewhere = 9
  MaxMistakes = 2
  MaxField = 4095
INVARIANTS NothingSilent NeverCrossed
PROPERTIES PacedPerCaller CurrentWhenAsked EveryGetSettles
CHECK_DEADLOCK FALSE
