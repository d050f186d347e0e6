SPECIFICATION Spec
CONSTANTS
  SEQ_MOD = 7
  RCV_WINDOW = 3
  MAX_WINDOW_SIZE = 4
  NSegments = 1
  FinalAcks = 2
  Capacity = 4
  MaxFaults = 0
  Faults <- NoFaults
  FromFile = TRUE
  ReceiverFirst = TRUE
  Timely = TRUE
INVARIANT
  NoUninitialisedRead
