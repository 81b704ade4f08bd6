CONSTANTS
  v0 = v0
  v1 = v1
  NoMsg = NoMsg
  Field <- MCField
  Trigger <- MCField
  Alarm = "alarms"
  Float = {}
  Value <- MCValue
  Abnormal = {}
  Zero = v0
  InitMem <- MCInitMem
  MaxMsgs = 3
  MaxQueue = 2
  TimerFires = TRUE
  Contended = FALSE
  MaxRows = 3
  Band = 2
  MaxId = 7
SPECIFICATION NestedSpec
CHECK_DEADLOCK FALSE
INVARIANTS
  NestedTypeOK
  Contiguous
  NestedSize
PROPERTIES
  IdsNeverReused
  BandRetained
