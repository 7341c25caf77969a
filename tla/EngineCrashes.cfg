SPECIFICATION CacheSpec
CONSTANTS
  Procs = {p1, p2}
  MaxEpoch = 1
  MaxCleans = 1
  Explicit = {}
  Old = Old
  NoFile = NoFile
SYMMETRY AlikeProcesses
INVARIANTS
  CacheTypeOK
  LoadedIsGenuine
  PublishedIsComplete
  UndisturbedStartSucceeds
  TempsAccountedFor
PROPERTY PathsStayPut
