SPECIFICATION FairSpec

CONSTANTS
  FileSources = {f1}
  AudioSources = {a1}
  TextSources = {t1}
  Workers = {w1}
  Clients = {c1}
  MaxAttempts = 2
  NoSource = NoSource

INVARIANTS
  TextInStep
  TerminalMeansSettled

PROPERTIES
  FollowsLifecycle
  StartedSessionShown
