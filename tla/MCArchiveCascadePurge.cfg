CONSTANTS
  c1 = c1
  l1 = l1
  l2 = l2
  p1 = p1
  p2 = p2
  p3 = p3
  Companies = {c1}
  Locations = {l1}
  Projects = {p1}
  CompanyOf <- OneLocation
  LocationOf <- OneProject
  Clients = {u1, u2}
  Nobody = Nobody
SPECIFICATION Spec
PROPERTY
  PurgedWasArchived
