CONSTANTS
  Names <- MCNames
  Vocabulary <- MCVocabulary
  MaxTokens = 10
  MaxGroupDepth = 10
  MaxNestDepth = 3
SPECIFICATION RustSpec
CHECK_DEADLOCK FALSE
INVARIANTS
  RegistersFollowTheTree
  StackBounded
  ReadsWithinTheLimit
  RefusesTheRest
