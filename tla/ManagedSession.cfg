SPECIFICATION FairSpec
CONSTANTS
  Exchanges = {x1, x2}
  First = x1
  Canceled = {x1}
  NoEx = none
INVARIANT BackendHeeded
PROPERTIES StoppedPostsNothing 
CHECK_DEADLOCK FALSE
