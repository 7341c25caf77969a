SPECIFICATION Spec
CONSTANTS
  y = y
  z = z
  s = s
  r = r
  t = t
  T = T
  u = u
  v = v
  V = V
  x = x
  Words <- MCWords
  Fold <- MCFold
  Statements <- PlainStatements
  Plan <- MCPlan
  Stripped <- MCStripped
INVARIANTS
  BareReferencesResolve
CHECK_DEADLOCK FALSE
