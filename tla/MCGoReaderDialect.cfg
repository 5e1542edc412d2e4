CONSTANTS
  Names <- MCNames
  Vocabulary <- MCFewKinds
  MaxTokens = 5
SPECIFICATION Spec
CHECK_DEADLOCK FALSE
INVARIANTS
  SameDialect
