\* Two cameras, two commands, no greetings.
SPECIFICATION FairSpec
CONSTANTS
  CameraCount = 2
  MaxCommands = 2
  MaxGreetings = 0
  Retry = 2
  Disposal = FALSE
INVARIANTS LastQueuedWins CameraHoldsRecorded
PROPERTIES QueueDrains BroadcastReachesEveryCamera
CHECK_DEADLOCK FALSE
