SPECIFICATION MCSpec
CONSTANTS
  DraftCount = 2
  Names = {acme, globex}
  SplitNames = {globex}
  Places = {plant}
  Parents = {item}
  Companies = {c1, c2, c3}
  Locations = {l1, l2}
  None = None
  New = New
  MaxEdits = 2
INVARIANTS
  LocationOfClient
  OrphanAsChosen
PROPERTIES
  PrefillKeepsChoices
  ReviewSettles
CHECK_DEADLOCK FALSE
