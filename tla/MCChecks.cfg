CONSTANTS
  Names <- MCNames
  Alternatives <- MCAlternatives
  Grammars <- MCGrammars
  AltDerivesEmpty <- altDerivesEmpty
  Choices <- choices
SPECIFICATION Spec
CHECK_DEADLOCK FALSE
INVARIANTS
  NullableIsLeast
  DerivesAsDecided
  AcceptsUnambiguous
  RefusesForAReason
PROPERTIES
  Terminates
