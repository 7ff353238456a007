\* Three servers, so that two backups may lose the same primary; one crash.
CONSTANTS
  s1 = s1
  s2 = s2
  s3 = s3
  k1 = k1
  empty = empty
  torn = torn
  none = none
  Servers = {s1, s2, s3}
  Clients = {k1}
  MaxStarts = 3
  MaxCrashes = 1
SPECIFICATION FairSpec
INVARIANTS TypeOK OnePrimaryUntilCrash BackupsAgreeUntilCrash
PROPERTIES EveryServerAnswered BackupTakesOver RouterFindsService
\* All servers may have ended, or serve and wait.
CHECK_DEADLOCK FALSE
