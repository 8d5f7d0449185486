SPECIFICATION SchemaToolsSpec
CONSTANTS
  Schemas <- MCSchemas
  Updates <- MCUpdates
  LeafDepth = 1
  MaxDepth = 3
  MaxMatches = 2
  MaxPaths = 2
  MaxResults = 2
  Api <- MCApi
  Documents <- MCDocuments
  Prefetches <- MCPrefetches
  Names <- MCNames
  Places <- MCPlaces
  Chosen <- MCChosen
  Responses <- Answers
INVARIANTS ClimbsEnd EveryTypeIsFound ResultsAreUsable IntrospectionIsExact ToolDescribesOperation ResponsesFitSchema PrivateFieldsAreFiltered
CHECK_DEADLOCK FALSE
