SPECIFICATION FairSpec
CONSTANTS
  NW = 2
  NR = 2
  Writers = {w1, w2}
  w1 = w1
  w2 = w2
  MaxWrites = 3
INVARIANTS Ch343TypeOK BuffersAccounted SuspendedIsSilent NothingAfterFree
PROPERTIES SentInOrder WritesReturn UnplugEnds
CHECK_DEADLOCK FALSE
