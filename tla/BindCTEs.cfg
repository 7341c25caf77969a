SPECIFICATION Spec
CONSTANTS
  Names <- MCNames
  Fold <- MCFold
  Simple <- MCSimple
  NoName = ""
  Calls <- MCCalls
  MaxInputBytes = 3
INVARIANTS
  TypeOK
  NamesDistinct
  BindingsReadEarlierOnes
  ConsumerKeepsItsNames
  InputBounded
