SPECIFICATION SchemaToolsSpec
CONSTANTS
  Schemas <- MCUpdates
  Updates <- MCUpdates
  LeafDepth = 1
  MaxDepth = 3
  MaxMatches = 2
  MaxPaths = 2
  MaxResults = 2
  Api <- MCApi
  Documents <- MCRepeated
  Prefetches <- MCPrefetches
  Names <- MCNames
  Places <- MCPlaces
  Chosen <- MCChosen
  Responses <- Answers
INVARIANTS ResponsesFitSchema
CHECK_DEADLOCK FALSE
