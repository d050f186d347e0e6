SPECIFICATION Spec
CONSTANTS
  SEQ_MOD = 7
  RCV_WINDOW = 3
  MAX_WINDOW_SIZE = 4
  NSegments = 4
  FinalAcks = 1
  Capacity = 2
  MaxFaults = 1
  Faults <- AllFaults
  FromFile = TRUE
  ReceiverFirst = TRUE
  Timely = FALSE
CONSTRAINT
  Defined
INVARIANTS
  TypeOK
  DeliveredInOrder
CHECK_DEADLOCK FALSE
