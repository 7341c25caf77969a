SPECIFICATION FairNativeSpec
CONSTANTS
  t1 = t1
  t2 = t2
  t3 = t3
  Threads = {t1, t2, t3}
  NoThread = NoThread
  Sizes = {1, 2, 3, 4, 5}
  MaxResponse = 5
  Programs <- MCPrograms
  SizeOf <- MCSizeOf
INVARIANTS
  CallTypeOK
  AnswerIsOneRun
  ReadsStayInBuffer
  GivesUpOnlyOnGrowth
  StartupErrorIsTold
  InvalidBlamesRequest
  DataComesFromEngine
PROPERTIES
  ServedOnlyWhileOpen
  EveryCallReturns
