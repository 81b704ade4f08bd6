CONSTANTS
  v0 = v0
  v1 = v1
  NoMsg = NoMsg
  Field <- MCField
  Trigger <- MCTrigger
  Alarm = "alarms"
  Float <- MCFloat
  Value <- MCValue
  Abnormal = {}
  Zero = v0
  InitMem <- MCInitMem
  MaxMsgs = 5
  MaxQueue = 2
  TimerFires = FALSE
  Contended = TRUE
SPECIFICATION BridgeSpec
CHECK_DEADLOCK FALSE
INVARIANTS
  FreshRows
  
PROPERTIES
  ImplementsRows
  HandlersRearm
