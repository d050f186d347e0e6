SPECIFICATION Spec
CONSTANTS
  TYPE_MOD = 2
  LEN_MOD = 2
  Sizes = {0, 2, 3}
  Contents = {1}
  Uuids = {0, 1}
  MAX_RECORDS = 2
  c1 = c1
  c2 = c2
  c3 = c3
  Clients <- ThreeClients
  BACKLOG = 1
  ADDRESSES = 2
  MAX_FAILURES = 1
INVARIANTS
  RecordTypeOK
  LengthBacked
  ReadBack
  ServerTypeOK
  ErrnoKept
  OneDescriptor
  NoForgottenZombie
PROPERTIES
  EveryChildReaped
  EveryClientAnswered
CHECK_DEADLOCK FALSE
