\* Any writer, without pacing: it may run rings ahead of the reader.
SPECIFICATION FairSpec
CONSTANTS
  Capacity = 3
  MaxFrames = 8
  Checked = TRUE
INVARIANTS HeldFrameIntact FramesInOrder ExpectationOffByLaps
PROPERTIES CatchesUp ImplementsChannel
CHECK_DEADLOCK FALSE
