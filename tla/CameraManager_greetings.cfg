\* Web pages greet the only camera while commands run and the manager is disposed.
SPECIFICATION FairSpec
CONSTANTS
  CameraCount = 1
  MaxCommands = 2
  MaxGreetings = 2
  Retry = 2
  Disposal = TRUE
INVARIANTS DiesOnlyAtFirstUse
PROPERTY DisposedRunnerEnds
CHECK_DEADLOCK FALSE
