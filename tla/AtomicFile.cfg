SPECIFICATION Spec
CONSTANTS
  Savers = {s1, s2}
  Prior = prior
  Tools = {"homestate", "metascore", "macossec", "runreceipt"}
INVARIANTS
  TypeOK
  NoPartialDestination
  ResultIsTrue
PROPERTIES
  ImplementsReplace
