SPECIFICATION FairSpec
CONSTANTS
  LastInvocation = 2
  Handlers = {k1}
  MaxLogs = 0
  MaxPost = 2
  Flushes = {f1, f2}
  FlushAtNextInvoke = TRUE
  BufferSize = 100
  RecordBytes = 1
  Background = Background
  Allowed = {}
PROPERTIES
  InvocationReturns
CHECK_DEADLOCK FALSE
