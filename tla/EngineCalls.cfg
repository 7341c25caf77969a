SPECIFICATION FairSpec
CONSTANTS
  p1 = p1
  c1 = c1
  c2 = c2
  Procs = {p1}
  Callers = {c1, c2}
  ProcOf <- CallsOfOneProcess
  MaxEpoch = 1
  MaxCleans = 1
  Explicit = {file}
  Old = Old
  NoFile = NoFile
  Bundled = Bundled
  Unset = Unset
INVARIANTS
  TypeOK
  ClientIsUsable
PROPERTIES
  FirstCallWins
  CallsReturn
