SPECIFICATION FairSpec
CONSTANTS
  Objects <- MCObjects
  Dirs <- MCDirs
  Names <- MCNames
  Candidates <- MCCandidates
  Tree <- MCTree
  Earlier <- MCEarlier
  Unsearchable = {"d"}
  Procs = {1}
  Concurrent = FALSE
  Failing = {}
  UserOps = {}
  MaxChanges = 0
PROPERTIES
  Terminates
