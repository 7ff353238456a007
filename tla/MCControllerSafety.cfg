\* Four threads, one of which may be refused inside createProfileIfNotExists.
CONSTANTS
  t1 = t1
  t2 = t2
  t3 = t3
  t4 = t4
  Threads = {t1, t2, t3, t4}
  Rejected = {t4}
  MaxCalls = 2
SYMMETRY ThreadSymmetry
SPECIFICATION Spec
INVARIANTS TypeOK CountersExact MutualExclusion NoForgottenSleeper
PROPERTY Discipline
\* Every thread may have made its calls, or sleep behind a thread that ended
\* inside a write.
CHECK_DEADLOCK FALSE
