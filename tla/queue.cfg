SPECIFICATION FairSpec
CONSTANTS
  Senders = {s1, s2}
  Receivers = {c1}
  Closers = {k1}
  Jobs = {j1, j2, j3}
  Capacity = 2
  None = None
INVARIANTS
  IInv
PROPERTIES
  ImplementsFifoQueue
  CloseReturns
  CloseWakesReceivers
