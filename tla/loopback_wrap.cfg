SPECIFICATION Spec
CONSTANTS
  SEQ_MOD = 7
  RCV_WINDOW = 3
  MAX_WINDOW_SIZE = 4
  NSegments = 8
  FinalAcks = 2
  Capacity = 9
  MaxFaults = 0
  Faults <- Loopback
  FromFile = TRUE
  ReceiverFirst = TRUE
  Timely = TRUE
INVARIANT
  SameFiles
