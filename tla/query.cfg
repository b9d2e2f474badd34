SPECIFICATION Spec
CONSTANTS
  Ids = {i1, i2, i3}
  g1 = g1
  a1 = a1
  a2 = a2
  t1 = t1
  wide = wide
  blank = blank
  Groups = {g1, wide, blank}
  Users = {a1, a2}
  Tags = {t1}
  Others = {"other"}
  Nil = Nil
  Trim <- BlanksCut
  Requests <- SomeRequests
  Questions <- SomeQuestions
  Absent = Absent
  Bad = Bad
  Panic = Panic
  Numbers = {0}
  Sizes = {0, 1, 2, 9}
  DefaultSize = 2
  LargestSize = 3
  Limit = 8
INVARIANTS
  ListingsAgree
  ParsersAgree
  PagesPartition
  CountsAgree
