CONSTANTS
  BASE = 4
  PACKET_BUFFER_LEN = 12
  Packets <- FourPackets
  MaxPackets = 3
  MaxReads = 5
SPECIFICATION Spec
INVARIANTS TypeOK WholeIsExact CleanCutsInventNothing
PROPERTIES OverrunOnlyInsideFrame
CHECK_DEADLOCK FALSE
