SPECIFICATION Spec
CONSTANTS
  Objects <- MCObjects
  Dirs <- MCDirs
  Names <- MCNames
  Candidates <- MCCandidates
  Tree <- MCTree
  Earlier <- MCEarlier
  Unsearchable = {}
  Procs = {1, 2, 3}
  Concurrent = FALSE
  Failing = {"load", "rename", "save", "kill"}
  UserOps = {}
  MaxChanges = 0
INVARIANTS
  TypeOK
  NothingOverwritten
  SuccessIsRecorded
  RestoreUndoesFix
  FixLeavesNoInvalidName
PROPERTIES
  RecordsOnlyGrow
