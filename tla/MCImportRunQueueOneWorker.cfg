SPECIFICATION MCSpec

CONSTANTS
  Workers = {w1}
  FileRuns = {f1}
  UploadedInterviews = {v1}
  DiscoveryInterviews = {v2}
  MaxAttempts = 2
  Clients = {c1}
  Keys = {k1}
  NoRun = NoRun
  NoKey = NoKey

CHECK_DEADLOCK FALSE

INVARIANTS
  RetryableCountsAgree
  DiscoveryInterviewInStep

PROPERTIES
  HumanWorkKept
  FollowsLifecycle
  QueuedRunSettles
