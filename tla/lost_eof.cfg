SPECIFICATION Spec
CONSTANTS
  SEQ_MOD = 7
  RCV_WINDOW = 3
  MAX_WINDOW_SIZE = 4
  NSegments = 4
  FinalAcks = 2
  Capacity = 4
  MaxFaults = 1
  Faults <- LossOnly
  FromFile = TRUE
  ReceiverFirst = TRUE
  Timely = TRUE
INVARIANT
  DoneMeansEnded
