SPECIFICATION Spec
CONSTANTS
  Objects <- MCObjects
  Dirs <- MCDirs
  Names <- MCNames
  Candidates <- MCCandidates
  Tree <- MCTree
  Earlier <- MCEarlier
  Unsearchable = {}
  Procs = {1}
  Concurrent = FALSE
  Failing = {"save"}
  UserOps = {}
  MaxChanges = 0
INVARIANTS
  RenamesAreRecorded
