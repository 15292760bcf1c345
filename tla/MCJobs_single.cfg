SPECIFICATION Spec
CONSTANTS
  MaxWorkers = 3
  Tasks = {t1, t2, t3}
  NoTask = NoTask
  MaxErrors = 1
  MaxStarts = 1
  LateScheduling = FALSE
  Condition = "QWaitCondition"
INVARIANTS
  TypeOK
  StopGuarantee
  ErrorsReported
PROPERTIES
  NoFinishAfterStop
SYMMETRY TaskSymmetry
