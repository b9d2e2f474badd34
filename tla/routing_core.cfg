SPECIFICATION Spec
CONSTANTS
  g1 = g1
  g2 = g2
  acme = acme
  vip = vip
  RuleIds = {0, 1, 2, 3, 4}
  Groups = {g1, g2}
  NoGroup = NoGroup
  Customers = {acme, bravo}
  Anyone = Anyone
  Tags = {vip}
  Offers <- SomeOffers
  Requests <- SomeRequests
  MaxMerged = 2
INVARIANTS
  PolicyOK
  DecisionIsBest
  HoursAreAnArc
  ValidatedPolicyServes
  MergeIsReplace
PROPERTIES
  OthersKeepOrder
