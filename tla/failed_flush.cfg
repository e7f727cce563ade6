SPECIFICATION Spec
CONSTANTS
  LastInvocation = 1
  Handlers = {k1}
  MaxLogs = 0
  MaxPost = 2
  Flushes = {f1}
  FlushAtNextInvoke = FALSE
  BufferSize = 100
  RecordBytes = 1
  Background = Background
  Allowed = {"pushFail"}
INVARIANTS
  FailedFlushIsRetried
CHECK_DEADLOCK FALSE
