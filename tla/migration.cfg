SPECIFICATION Spec
CONSTANTS
  Jobs = {j1, j2, j3}
  Files = 2
  NULL = NULL
SYMMETRY Interchangeable
INVARIANTS TypeOK AppliedOnceInOrder SecretMatchesRole DoneIsReady
CHECK_DEADLOCK FALSE
