SPECIFICATION Spec
CONSTANTS
  Names <- MCNames
  Fold <- MCFold
  Simple <- MCSimple
  NoName = ""
  Calls <- MCCalls
  MaxInputBytes = 3
INVARIANTS
  DuplicatesRejected
