SPECIFICATION BackupSpec
CONSTANTS
  Handlers = {h1, h2}
  r1 = r1
  r2 = r2
  g1 = g1
  g2 = g2
  u1 = u1
  u2 = u2
  Nil = Nil
  Ids = {r1}
  Groups = {g1}
  Users = {u1}
  Drafts <- QueuedDrafts
  GroupValues <- Active1
  StatusInputs = {"pending"}
  Capacity = 1
  MaxFaults = 1
  MaxRestarts = 2
  MaxSnapshots = 1
SYMMETRY HandlerSymmetry
INVARIANTS
  JobHasRecord
  AtMostOneDispatch
  NothingDangles
