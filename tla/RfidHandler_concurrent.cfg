\* Three overlapping calls of Post and DisposeAsync, whose flag may be late, and a
\* restart at any time.
SPECIFICATION Spec
CONSTANTS
  Calls = {c1, c2, c3}
  Cards = {a, b}
  NoCard = NoCard
  Window = 1
  MaxTime = 2
  MaxRestarts = 1
  WeakMemory = TRUE
SYMMETRY Symmetry
INVARIANTS OneSwapAtATime SessionsMatch FreshSwipeHoldsWindow CounterCountsTurns
CHECK_DEADLOCK FALSE
