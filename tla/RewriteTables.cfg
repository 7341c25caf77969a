SPECIFICATION Spec
CONSTANTS
  y = y
  z = z
  s = s
  r = r
  t = t
  T = T
  u = u
  v = v
  V = V
  x = x
  Words <- MCWords
  Fold <- MCFold
  Statements <- AllStatements
  Plan <- MCPlan
  Stripped <- MCStripped
INVARIANTS
  TypeOK
  AliasesDistinct
  LocalReferencesKeepMeaning
  CorrelatedReferencesKeepMeaning
CHECK_DEADLOCK FALSE
