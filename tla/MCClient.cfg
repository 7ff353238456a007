CONSTANTS
  Addresses = {a1, a2}
  LastServer = 3
  MAX_FD = 3
  MaxLines = 2
SPECIFICATION FairSpec
INVARIANTS TypeOK CommandsInOrder SettledIsCarriedOut
PROPERTIES SenderEndsInGap Settles
CHECK_DEADLOCK FALSE
