SPECIFICATION Spec
CONSTANTS
  main = main
  health = health
  Transports <- HttpOnly
  Addrs <- OneListener
  MaxGen = 2
  MaxVersion = 1
  MaxEdits = 1
  BadSchemas <- NoneBad
PROPERTIES ConfigErrorsKeepServing
CHECK_DEADLOCK FALSE
