SPECIFICATION Spec
CONSTANTS
  Configs <- SomeConfigs
  Tokens <- SomeTokens
  Methods <- AllMethods
  Names <- AllNames
  Builtins <- OneBuiltin
  Apps <- OneApp
  AppTools <- ToolsOfApps
  Resources <- ResourcesOfApps
  Catalogs <- TwoCatalogs
  Scopes <- TwoScopes
  NServers = 2
  WithPath <- SecondHasPath
INVARIANTS OnlyPermittedRuns TokensAreVouched GoodTokensPass
CHECK_DEADLOCK FALSE
