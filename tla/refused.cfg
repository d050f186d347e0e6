SPECIFICATION FairSpec
CONSTANTS
  SEQ_MOD = 7
  RCV_WINDOW = 3
  MAX_WINDOW_SIZE = 4
  NSegments = 5
  FinalAcks = 3
  Capacity = 3
  MaxFaults = 2
  Faults <- LossAndRefusal
  FromFile = TRUE
  ReceiverFirst = FALSE
  Timely = FALSE
INVARIANTS
  EndLoopSendsEndOfFile
  RetransmitsOldest
  NoUninitialisedRead
  AcksAreWritten
PROPERTIES
  SenderReturns
  ImplementsDelivery
CHECK_DEADLOCK FALSE
