SPECIFICATION FairSpec
CONSTANTS
  Invocations = {i1, i2}
  NoInvocation = NoInvocation
  Background = Background
  Flushes = {f1}
  FlushAtNextInvoke = TRUE
  BufferSize = 10
  RecordBytes = 6
  MaxBatch = 1
  Totals = {0, 1}
INVARIANTS
  IndInv
PROPERTIES
  ForceAnswered
  FlushReturns
CHECK_DEADLOCK FALSE
