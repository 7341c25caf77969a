SPECIFICATION Spec
CONSTANTS
  Idents = {"a", "A", "b", "s", "S", "z", "dual"}
  Fold <- MCFold
  NoIdent = ""
  Dual = "dual"
  BadPattern = BadPattern
  Queries <- SmallTrees
  CallsOn <- ScopingCalls
INVARIANT CteReferencesNeverWrapped
