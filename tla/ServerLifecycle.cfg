SPECIFICATION FairSpec
CONSTANTS
  main = main
  health = health
  Transports <- BothTransports
  Addrs <- TwoListeners
  MaxGen = 3
  MaxVersion = 2
  MaxEdits = 2
  BadSchemas <- FirstBad
INVARIANTS SocketsHaveServers OneLiveGeneration AllListenersServe StartsFromLatest
PROPERTIES ShutdownHonoured ConfigConverges OperationUpdatesApply
CHECK_DEADLOCK FALSE
