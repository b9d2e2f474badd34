SPECIFICATION StaffedSpec
CONSTANTS
  Handlers = {h1, h2}
  r1 = r1
  r2 = r2
  g1 = g1
  g2 = g2
  u1 = u1
  u2 = u2
  Nil = Nil
  Ids = {r1, r2}
  Groups = {g1}
  Users = {u1}
  Drafts <- QueuedDrafts
  GroupValues <- Active1
  StatusInputs = {}
  Capacity = 1
  MaxFaults = 0
  MaxRestarts = 2
CHECK_DEADLOCK FALSE
INVARIANTS
  ExitIsClean
PROPERTIES
  ImplementsDispatch
  CallsReturn
  SignalEndsProcess
