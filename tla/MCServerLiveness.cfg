\* As many sessions as connections: nobody is refused.
CONSTANTS
  c1 = c1
  c2 = c2
  c3 = c3
  p1 = p1
  p2 = p2
  nullptr = nullptr
  Conns = {c1, c2, c3}
  ProfileIds = {p1, p2}
  MAX_SESSIONS = 3
  MaxCommands = 1
  MaxLosses = 1
SPECIFICATION FairSpec
PROPERTIES EveryCommandHandled InboxDrained
\* Clients may all have left, and the process may have been killed.
CHECK_DEADLOCK FALSE
