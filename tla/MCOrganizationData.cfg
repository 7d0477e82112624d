CONSTANTS
  Calls = {c1, c2}
  MAX_ATTEMPTS = 2
  MaxFaults = 1
  Orgs = {o1, o2}
  NoOrg = NoOrg
  Gone = {o2}
  MaxMoves = 5
SPECIFICATION MCSpec
INVARIANT
  JoinedIsOnItsWay
  NoUnscopedLoad
PROPERTY
  LoadingEnds
CHECK_DEADLOCK FALSE
