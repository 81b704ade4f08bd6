CONSTANTS
  a = a
  b = b
  NoAddr = NoAddr
  Empty = Empty
  Addr = {a}
  TimerFires = FALSE
SPECIFICATION ProcSpec
CHECK_DEADLOCK FALSE
PROPERTY
  SnapshotTaken
