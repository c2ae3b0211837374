SPECIFICATION SessionFairSpec
CONSTANTS
  Exchanges = {x1, x2}
  Rotating = x1
INVARIANT ClientsInStep
PROPERTIES ReaderLearns ParkedIsAnswered
CHECK_DEADLOCK FALSE
