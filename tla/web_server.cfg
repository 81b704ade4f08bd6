CONSTANTS
  MaxLinks = 2
  MaxRequests = 3
  Backlog = 1
SPECIFICATION WebSpec
CHECK_DEADLOCK FALSE
INVARIANTS
  WebTypeOK
  ActedInOrder
  ServerSurvives
PROPERTIES
  PatientServed
  CommandsSent
  PatientMayLeave
