SPECIFICATION Spec
CONSTANTS
  c1 = c1
  c2 = c2
  c3 = c3
  c4 = c4
  NULL = NULL
  Cells <- FourCells
  SEQ_MOD = 2
  RCV_WINDOW = 2
  MAX_PAYLOAD_SIZE = 2
  MAX_WINDOW_SIZE = 3
  TIME_BYTE = 2
  SegLengths <- FullSegments
  Clock <- OneTime
SYMMETRY CellSymmetry
CHECK_DEADLOCK FALSE
INVARIANTS
  TypeOK
  BufferIntact
  TableIntact
  DeletesOnce
  DecodesAsDatagram
  RoundTrip
  EncodeFits
  FirstOwnsOne
