\* Transfers of 0, 1, 3 and 4 bytes, split by the kernel in every way, with a
\* send buffer smaller than a transfer, signals, and a peer that goes away.
SPECIFICATION FairSpec
CONSTANTS
  Counts = {0, 1, 3, 4}
  SendBuffer = 2
  MaxBytes = 5
  MaxCalls = 3
  MaxSignals = 2
  ZeroWrites = TRUE
CHECK_DEADLOCK FALSE
INVARIANTS
  InBuffer
PROPERTIES
  CallEnds
  ImplementsTransfer
