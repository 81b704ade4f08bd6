CONSTANTS
  a = a
  b = b
  NoAddr = NoAddr
  Empty = Empty
  Addr = {a, b}
  TimerFires = FALSE
SPECIFICATION ProcSpec
CHECK_DEADLOCK FALSE
INVARIANTS
  ProcTypeOK
  SnapshotConsistent
  AddressCurrent
PROPERTY
  StopTerminates
