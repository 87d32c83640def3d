\* DisposeAsync against one late call.
SPECIFICATION FairSpec
CONSTANTS
  Calls = {c1}
  Cards = {a}
  NoCard = NoCard
  Window = 1
  MaxTime = 0
  MaxRestarts = 0
  WeakMemory = FALSE
PROPERTIES DisposeReturns
CHECK_DEADLOCK FALSE
