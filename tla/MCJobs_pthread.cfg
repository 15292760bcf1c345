SPECIFICATION FairSpec
CONSTANTS
  MaxWorkers = 2
  Tasks = {t1, t2}
  NoTask = NoTask
  MaxErrors = 1
  MaxStarts = 2
  LateScheduling = FALSE
  Condition = "pthread"
PROPERTIES
  CallsReturn
