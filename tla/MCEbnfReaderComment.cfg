CONSTANTS
  Names <- MCNames
  Vocabulary <- MCVocabulary
  MaxTokens = 5
SPECIFICATION Spec
CHECK_DEADLOCK FALSE
INVARIANTS ReadsTheComment
