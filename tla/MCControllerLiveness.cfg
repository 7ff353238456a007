\* Three threads, none of which ends inside a write.
CONSTANTS
  t1 = t1
  t2 = t2
  t3 = t3
  Threads = {t1, t2, t3}
  Rejected = {}
  MaxCalls = 2
SPECIFICATION FairSpec
PROPERTY EveryRequestGranted
\* The threads have finitely many calls to make.
CHECK_DEADLOCK FALSE
