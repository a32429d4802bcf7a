SPECIFICATION Spec
CONSTANTS
  Character = {"a", "b", "h", "H"}
  Files <- MCFiles
  Messages <- MCMessages
INVARIANTS
  LoadIsGrammar
  FirstFittingRule
  LeastSplitBinds
  ErrorIsExplained
CHECK_DEADLOCK FALSE
