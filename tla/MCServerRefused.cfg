\* A third login to a profile that allows two sessions.
CONSTANTS
  c1 = c1
  c2 = c2
  c3 = c3
  p1 = p1
  nullptr = nullptr
  Conns = {c1, c2, c3}
  ProfileIds = {p1}
  MAX_SESSIONS = 2
  MaxCommands = 1
  MaxLosses = 3
SPECIFICATION FairSpec
PROPERTY EveryCommandHandled
\* Clients may all have left.
CHECK_DEADLOCK FALSE
