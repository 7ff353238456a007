CONSTANTS
  k1 = k1
  k2 = k2
  k3 = k3
  b1 = b1
  b2 = b2
  p1 = p1
  p2 = p2
  primary = primary
  nullptr = nullptr
  Clients = {k1, k2, k3}
  Backups = {b1}
  ProfileIds = {p1, p2}
  profileOf <- AuthorAndReader
  MAX_SESSIONS = 1
  MaxInputs <- PacketsEach
  types <- Separate
SPECIFICATION Spec
CHECK_DEADLOCK FALSE
PROPERTIES SessionUpdated
