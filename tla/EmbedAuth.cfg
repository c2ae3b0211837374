SPECIFICATION PageFairSpec
CONSTANTS
  SignIns = {a, b}
  SignOuts = {o1}
  NoSignIn = NoSignIn
  MaxTokens = 4
  MaxManagers = 3
INVARIANT SessionShared
PROPERTIES ClearedStaysCleared 
CHECK_DEADLOCK FALSE
