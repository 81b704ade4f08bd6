CONSTANTS
  v0 = v0
  v1 = v1
  nan = nan
  NoMsg = NoMsg
  Field <- MCField
  Trigger <- MCTrigger
  Alarm = "alarms"
  Float <- MCFloat
  Value <- MCValue
  Abnormal <- MCAbnormal
  Zero = v0
  InitMem <- MCInitMem
  MaxMsgs = 7
SPECIFICATION Spec
INVARIANTS
  FreshRows
  NoChangeForgotten
  RowsParse
PROPERTY
  ReplayOnlyRestamps
