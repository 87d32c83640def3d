SPECIFICATION Spec
CONSTANTS
  Positions = {0, 2, 5}
  MaxCommands = 3
  Short = 2
  Early = 1
INVARIANTS NoLostWakeup PwmHasDeadline StopsNearTarget
PROPERTIES DisposedStops
