SPECIFICATION FairSpec
CONSTANTS
  SEQ_MOD = 7
  RCV_WINDOW = 3
  MAX_WINDOW_SIZE = 4
  NSegments = 9
  FinalAcks = 2
  Capacity = 11
  MaxFaults = 0
  Faults <- NoFaults
  FromFile = TRUE
  ReceiverFirst = FALSE
  Timely = TRUE
INVARIANTS
  WindowExtent
  NoUninitialisedRead
  DoneMeansEnded
  EofMeansComplete
PROPERTIES
  Completes
  ImplementsFairDelivery
