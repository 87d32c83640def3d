SPECIFICATION Spec
CONSTANTS
  Calls = {h1, h2}
  Level = 3
  Bounds = {1}
  Window = 2
  MaxFrames = 4
  MaxConfigs = 1
SYMMETRY Symmetry
INVARIANTS GuardHolds NoWeldingFromOneFlash CameraToldApplied
PROPERTIES DecidesWithConfiguredBounds
CHECK_DEADLOCK FALSE
