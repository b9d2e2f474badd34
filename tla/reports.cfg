SPECIFICATION ReportSpec
CONSTANTS
  a1 = a1
  a2 = a2
  g1 = g1
  g2 = g2
  Ids = {i1, i2}
  Groups = {g1, g2}
  Users = {a1, a2}
  Tags = {}
  Others = {"other"}
  Nil = Nil
  Trim <- NothingCut
  Requests <- SomeRequests
  Questions = {}
  Absent = Absent
  Bad = Bad
  Panic = Panic
  Numbers = {}
  Sizes = {}
  DefaultSize = 2
  LargestSize = 3
  Limit = 8
INVARIANTS
  LoadsAddUp
PROPERTIES
  GroupRowsAddUp
