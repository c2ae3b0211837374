SPECIFICATION FairSpec
CONSTANTS
  e1 = e1
  e2 = e2
  e3 = e3
  Exchanges = {e1, e2, e3}
  Canceled = {e1}
  Resent = {e1}
  MaxPending = 1
  MaxSettledIds = 1
  Window = 3
  MaxArtifacts = 1
  MaxLog = 4
INVARIANT ToldTrue
PROPERTIES SilencedIsSilent EndIsReached
CHECK_DEADLOCK FALSE
