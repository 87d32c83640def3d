\* Two clients that subscribe to two signals; one of them may leave.
SPECIFICATION HubSpec
CONSTANTS
  Clients = {0, 1}
  SignalCount = 2
  MaxWrites = 0
  CountMod = 256
INVARIANT StayingClientSubscribed
CHECK_DEADLOCK FALSE
