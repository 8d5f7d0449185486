SPECIFICATION FairSourceSpec
CONSTANTS
  one = one
  two = two
  dir = dir
  single = single
  a = a
  b = b
  Watches <- TwoEntries
  Paths <- DirAndFile
  Files <- TwoNames
  PathOf <- Overlapping
  FilesOf <- FilesOfPaths
  Directories <- OneDirectory
  ManifestPath = single
  MaxContent = 3
  MaxEdits = 2
  Ids <- TwoNames
  MaxStamp = 2
  Limit = 1
INVARIANTS SetsAreComplete PreviousIsDelivered
PROPERTIES SourceConverges
CHECK_DEADLOCK FALSE
