SPECIFICATION FairSpec
CONSTANTS
  LastInvocation = 3
  Handlers = {k1}
  MaxLogs = 1
  MaxPost = 3
  Flushes = {f1}
  FlushAtNextInvoke = FALSE
  BufferSize = 100
  RecordBytes = 1
  Background = Background
  Allowed = {"pushFail"}
INVARIANTS
  FinerInv
  NeverMisattributed
PROPERTIES
  InvocationReturns
  ShutdownCompletes
