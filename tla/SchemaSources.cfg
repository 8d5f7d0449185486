SPECIFICATION FairSpec
CONSTANTS
  NumEndpoints = 2
  NumChunks = 2
  Unlisted <- SecondHasNone
  MaxVersion = 3
  Sources <- AllSources
INVARIANTS ManifestsAreWhole
PROPERTIES OnlyNewerVersions SourceConverges
CHECK_DEADLOCK FALSE
