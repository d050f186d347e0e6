SPECIFICATION Spec
CONSTANTS
  SEQ_MOD = 7
  RCV_WINDOW = 3
  MAX_WINDOW_SIZE = 3
  NSegments = 4
  FinalAcks = 1
  Capacity = 3
  MaxFaults = 1
  Faults <- AnyDelivery
  FromFile = TRUE
  ReceiverFirst = TRUE
  Timely = FALSE
INVARIANTS
  DeliveredPrefix
  UnackedRetained
  AcksAreWritten
  ReceiverAligned
PROPERTY
  ImplementsWindows
CHECK_DEADLOCK FALSE
