SPECIFICATION Spec
CONSTANTS
  MaxSeq = 3
  MaxAsked = 1
  e1 = e1
  e2 = e2
  Exchanges <- OneExchange
  Logs <- EndingLogs
INVARIANTS RecoverySound LocalEndHonoured
PROPERTIES ArtifactsKept QueueSpec EndPrecedence
CHECK_DEADLOCK FALSE
