SPECIFICATION Spec
CONSTANTS
  Savers = {s1, s2}
  Prior = prior
  Tools = {"hashsum", "envsub"}
INVARIANTS
  NoPartialDestination
