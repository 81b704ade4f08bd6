CONSTANTS
  v0 = v0
  v1 = v1
  NoMsg = NoMsg
  Field <- MCField
  Trigger <- MCTrigger
  Alarm = "alarms"
  Float <- MCFloat
  Value <- MCValue
  Abnormal = {}
  Zero = v0
  InitMem <- MCInitMem
  MaxMsgs = 4
  MaxRows = 2
  Band = 1
  MaxId = 4
SPECIFICATION PumpSpec
INVARIANTS
  PumpTypeOK
  LogCurrent
  Contiguous
  SizeBounded
PROPERTIES
  Retention
  IdsNeverReused
