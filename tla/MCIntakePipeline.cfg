CONSTANTS
  Clients = {u1, u2}
  Suggestions = {s1, s2}
  Notes = {n1, n2}
  Fields = {q1}
  Files = {f1, f2}
  Batches <- Pairs
  MaxVersion = 1
  MaxCalls = 2
  Workers = {w1, w2}
  Content <- SameContent
  MAX_PROCESSING_ATTEMPTS = 2
SPECIFICATION MCSpec
INVARIANT
  OneAppliedPerField
  PanelFollowsFiles
PROPERTY
  DecisionsKept
  ReportedIsDone
  UndoneOnlyAfterRetry
  RequestEnds
  FileSettles
CHECK_DEADLOCK FALSE
