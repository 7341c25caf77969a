SPECIFICATION AnalysisSpec
CONSTANTS
  Statements <- MCStatements
  Actual <- MCActual
  Metadatas <- MCMetadatas
  Definitions <- MCDefinitions
  Star = "*"
  NoName = ""
INVARIANTS
  TypeOK
  TablesPresent
  ReadsCovered
  ReadsExact
  LineageIsReferenced
  LineageExact
  ColumnsTold
PROPERTIES
  ResolvedOnce
