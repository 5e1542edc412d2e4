CONSTANTS
  Ids = {"a", "b", "ebnf"}
  RepoIds = {"ebnf", "b"}
  NoId = NoId
  NoPort = NoPort
  Unreadable = Unreadable
  NoFile = NoFile
  NoEntry = NoEntry
  Malformed = Malformed
  Manifests <- MCManifests
  Registers <- MCRegisters
SPECIFICATION PartsSpec
CHECK_DEADLOCK FALSE
INVARIANTS
  PassesOnlyWhatIsRecorded
  FailsForAReason
  AdviceSuffices
  ReadsCargoManifests
  ReadsNpmManifests
  ReadsGoSources
  CountsAreTrue
  ClassesDenote
  LexersAgree
