SPECIFICATION FairCallSpec
CONSTANTS
  call = call
  other = other
  Requests <- TwoCalls
  Depth = 2
  MaxEdits = 2
INVARIANTS HooksAreIsolated EnginesAreWhole
PROPERTIES ScriptsConverge
