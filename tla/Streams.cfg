SPECIFICATION StreamFairSpec
CONSTANTS
  Input <- MixedInput
  Profiles <- BothFormats
  MaxAttempts = 1
  PartConcurrency = 1
  MaxParts = 2
  MaxGroups = 1
  MaxMessages = 4
INVARIANTS ChunksAccountedFor ReadInOrder ReaderInStep
PROPERTIES BufferedIsYielded
CHECK_DEADLOCK FALSE
