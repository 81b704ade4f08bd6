CONSTANTS
  v0 = v0
  v1 = v1
  NoMsg = NoMsg
  Field <- MCField
  Trigger <- MCTrigger
  Alarm = "alarms"
  Float <- MCFloat
  Value <- MCValue
  Abnormal = {}
  Zero = v0
  InitMem <- MCInitMem
  MaxMsgs = 3
  MaxQueue = 2
  TimerFires = TRUE
  Contended = TRUE
SPECIFICATION BridgeSpec
CHECK_DEADLOCK FALSE
INVARIANTS
  InputAnnounced
  WatchdogArmed
PROPERTY
  EveryMessageTaken
