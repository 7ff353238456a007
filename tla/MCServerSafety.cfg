CONSTANTS
  c1 = c1
  c2 = c2
  c3 = c3
  p1 = p1
  p2 = p2
  nullptr = nullptr
  Conns = {c1, c2, c3}
  ProfileIds = {p1, p2}
  MAX_SESSIONS = 2
  MaxCommands = 2
  MaxLosses = 3
SYMMETRY ConnAndProfileSymmetry
SPECIFICATION Spec
INVARIANTS TypeOK SessionsAgree MaxSessions InboxHasFetcher SentOnce NothingLost
           OnlyInboxOvertaken StateFileCurrent
PROPERTIES EachFollowerOnce
\* Clients may all have left, a refused client leaves the lock taken, and the
\* process may have been killed.
CHECK_DEADLOCK FALSE
