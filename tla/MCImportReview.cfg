CONSTANTS
  u1 = u1
  u2 = u2
  Clients <- MCClients
  plant = plant
  stream = stream
  orphan = orphan
  north = north
  south = south
  None = None
  LocationItems <- MCLocationItems
  ProjectItems <- MCProjectItems
  Parent <- MCParent
  Places <- MCPlaces
  Extracted <- MCExtracted
  k1 = k1
  k2 = k2
  Keys <- MCKeys
  Sendable <- MCSendable
  Sent = {{}, {TRUE}}
  MaxMade = 2
  MaxRejected = 2
SYMMETRY Symmetric
SPECIFICATION MCSpec
INVARIANT
  VoiceInStep
PROPERTIES
  OncePerDraft
  CompletesWhenDecided
  SummaryKeepsPace
  KeyedOnce
CHECK_DEADLOCK FALSE
