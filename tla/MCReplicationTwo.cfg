CONSTANTS
  k1 = k1
  k2 = k2
  k3 = k3
  b1 = b1
  b2 = b2
  p1 = p1
  p2 = p2
  primary = primary
  nullptr = nullptr
  Clients = {k1}
  Backups = {b1, b2}
  ProfileIds = {p1}
  profileOf <- Single
  MAX_SESSIONS = 1
  types <- Anything
  MaxInputs <- OnePacket
SPECIFICATION FairSpec
INVARIANTS ListsAgree
PROPERTIES BackupsCatchUp BackupTakesOver
CHECK_DEADLOCK FALSE
