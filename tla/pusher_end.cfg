SPECIFICATION Spec
CONSTANTS
  Invocations = {i1, i2}
  NoInvocation = NoInvocation
  Background = Background
  Flushes = {f1, f2}
  FlushAtNextInvoke = FALSE
  BufferSize = 10
  RecordBytes = 6
  MaxBatch = 2
  Totals = {0, 1, 2, 3}
SYMMETRY FlushSymmetry
INVARIANTS
  OneHolder
  Partition
  SignalOnce
  StopEmptiesBuffer
PROPERTIES
  ImplementsLogPipe
CHECK_DEADLOCK FALSE
