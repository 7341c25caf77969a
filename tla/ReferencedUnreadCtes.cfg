SPECIFICATION AnalysisSpec
CONSTANTS
  Statements <- MCStatements
  Actual <- MCActual
  Metadatas <- MCMetadatas
  Definitions <- MCDefinitions
  Star = "*"
  NoName = ""
INVARIANTS
  EveryTablePresent
