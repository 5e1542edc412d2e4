CONSTANTS
  Names <- MCNames
  Vocabulary <- MCVocabulary
  MaxTokens = 8
SPECIFICATION Spec
INVARIANTS
  ReadsTheNotation
  RefusesTheRest
  FailsFast
  NamesTheMistake
PROPERTIES
  MovesOn
