SPECIFICATION FairSpec
CONSTANT MaxSeq = 5
INVARIANT NoStrandedHeld
PROPERTIES ExactlyOnceInOrder HeldIsReleased
CHECK_DEADLOCK FALSE
