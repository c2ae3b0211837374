SPECIFICATION FairSpec
CONSTANTS
  a = a
  b = b
  Calls <- MCCalls
  Operations <- MCOperations
  MaxIssued <- MCMaxIssued
  Chains = {c1, c2}
  MaxRetries = 2
  MaxSwitches = 1
INVARIANTS StaysAwake CallersAreToldTheTruth OneEar
PROPERTIES RequestsHeldBack CallsEnd
CHECK_DEADLOCK FALSE
