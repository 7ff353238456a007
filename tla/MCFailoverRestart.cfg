\* A primary that is killed and started again while its backup takes over.
CONSTANTS
  s1 = s1
  s2 = s2
  empty = empty
  torn = torn
  none = none
  Servers = {s1, s2}
  Clients = {}
  MaxStarts = 3
  MaxCrashes = 1
SPECIFICATION Spec
PROPERTY OwnAddressMeansPrimary
\* Both servers may serve and wait.
CHECK_DEADLOCK FALSE
