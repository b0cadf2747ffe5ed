SPECIFICATION Spec
CONSTANTS
  N = 1
  Codes = {0, 7}
INVARIANTS
  CompletedForwardedOutput
