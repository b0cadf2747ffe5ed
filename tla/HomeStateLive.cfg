SPECIFICATION FairSpec
CONSTANTS
  Objects <- MCObjects
  Dirs <- MCDirs
  Names <- MCNames
  Candidates <- MCCandidates
  Tree <- MCTree
  Earlier <- MCEarlier
  Unsearchable = {}
  Procs = {1, 2}
  Concurrent = FALSE
  Failing = {"load", "readdir"}
  UserOps = {"create", "remove"}
  MaxChanges = 1
PROPERTIES
  Terminates
