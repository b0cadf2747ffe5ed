SPECIFICATION FairSpec
CONSTANTS
  Workers = {w1, w2}
  Count = 3
  a = a
  b = b
  PathOf <- MCPathOf
  Left = {"regular", "absent"}
  MaxChanges = 1
INVARIANTS
  TypeOK
  EachPathInOnePlace
  StableIsOneVersion
  SendsSucceed
PROPERTIES
  Terminates
