SPECIFICATION Spec
CONSTANTS
  Handlers = {h1, h2}
  u1 = u1
  u2 = u2
  g1 = g1
  Users = {u1, u2}
  Groups = {g1}
  Nil = Nil
  Commands <- Calls
  MaxFaults = 1
  MaxRestarts = 1
SYMMETRY HandlerSymmetry
VIEW Seen
INVARIANTS
  TypeOK
  AuthorityWasHeld
  MembersWereAgents
  StoreIsExplained
PROPERTIES
  ImplementsRegistry
