CONSTANTS
  Calls = {c1, c2, c3}
  MAX_ATTEMPTS = 2
  MaxFaults = 1
  Projects = {p1, p2}
  Questions = {q1, q2}
  Values = {v1, v2}
  Files = {f1}
  NoProject = NoProject
  NoAnswer = NoAnswer
  SESSION_HYDRATE_MAX_RETRIES = 1
  MaxActs = 4
SPECIFICATION MCSpec
PROPERTY
  UnsavedShown
  EditsReachServer
  ReconcileEnds
CHECK_DEADLOCK FALSE
