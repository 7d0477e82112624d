CONSTANTS
  Calls = {c1, c2, c3}
  MAX_ATTEMPTS = 2
  MaxFaults = 1
  Sessions = {s1, s2}
  Items = {i1, i2}
  SessionOf <- OneOwner
  NoSession = NoSession
  NoItem = NoItem
  MaxClicks = 4
SPECIFICATION MCSpec
INVARIANT
  ConfirmedIsCreated
PROPERTY
  ProcessingEnds
CHECK_DEADLOCK FALSE
