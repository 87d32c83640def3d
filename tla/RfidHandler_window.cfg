\* The swipe window of the feature file, one swipe after the other.
SPECIFICATION SequentialSpec
CONSTANTS
  Calls = {c1, c2, c3}
  Cards = {a}
  NoCard = NoCard
  Window = 2
  MaxTime = 4
  MaxRestarts = 0
  WeakMemory = FALSE
INVARIANTS SwipeWindow
CHECK_DEADLOCK FALSE
