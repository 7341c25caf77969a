SPECIFICATION Spec
CONSTANTS
  y = y
  z = z
  s = s
  r = r
  t = t
  T = T
  u = u
  v = v
  V = V
  x = x
  Words <- MCWords
  Fold <- MCFold
  Statements <- ClashingStatements
  Plan <- MCPlan
  Stripped <- MCStripped
INVARIANTS
  QualifiedRebindingIsScopeSafe
CHECK_DEADLOCK FALSE
