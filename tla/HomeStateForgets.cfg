SPECIFICATION Spec
CONSTANTS
  Objects <- MCObjects
  Dirs <- MCDirs
  Names <- MCNames
  Candidates <- MCCandidates
  Tree <- MCTree
  Earlier <- MCEarlier
  Unsearchable = {}
  Procs = {1, 2}
  Concurrent = FALSE
  Failing = {"load"}
  UserOps = {}
  MaxChanges = 0
INVARIANTS
  OperationsAreRecorded
