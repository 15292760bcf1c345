CONSTANTS
  NFiles = 2
  BatchSize = 1
  MaxWrites = 3
  Views = {v1, v2}
  NoFile = NoFile
  MaxCalls = 4
CHECK_DEADLOCK FALSE
SPECIFICATION Spec
INVARIANTS TypeOK WatchedByHandles
PROPERTIES OutdatedNoticed
