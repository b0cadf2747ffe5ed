SPECIFICATION FairSpec
CONSTANTS
  N = 3
  Codes = {0, 7}
INVARIANTS
  TypeOK
  IntentBeforeLaunch
  RecordedCodesAreReal
  FinalReceiptIsSettled
  UnknownIsEarned
  StatusMatchesRecord
  NoChildOutlivesExit
PROPERTIES
  EvidenceOnlyGrows
  ImplementsEvidence
  Terminates
