CONSTANTS
  c1 = c1
  l1 = l1
  l2 = l2
  p1 = p1
  p2 = p2
  p3 = p3
  Companies = {c1}
  Locations = {l1, l2}
  Projects = {p1, p2, p3}
  CompanyOf <- MCCompanyOf
  LocationOf <- MCLocationOf
  Clients = {u1}
  Nobody = Nobody
SYMMETRY AlikeProjects
SPECIFICATION Spec
INVARIANTS
  ArchivedByHandStays
  ActiveUnderArchived
  RestoreUndoesArchive
PROPERTY
  PurgedWasArchived
