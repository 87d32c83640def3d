SPECIFICATION FairSpec
CONSTANTS
  Capacity = 2
  MaxFrames = 2
  MaxOpens = 1
PROPERTY WriterFirstServed
CHECK_DEADLOCK FALSE
