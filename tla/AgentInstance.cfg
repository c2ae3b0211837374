SPECIFICATION Spec
CONSTANTS
  t1 = t1
  t2 = t2
  Tasks <- TwoTasks
  Calls <- ThreeCalls
  Wanted <- WantedKinds
  Shared = {s1}
  None = None
  Concurrency = 2
  Canceled = {t1}
  MaxFails = 1
 
PROPERTIES LeavesAccountedFor
CHECK_DEADLOCK FALSE
