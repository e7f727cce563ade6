SPECIFICATION Spec
CONSTANTS
  LastInvocation = 2
  Handlers = {k1}
  MaxLogs = 1
  MaxPost = 2
  Flushes = {f1, f2}
  FlushAtNextInvoke = TRUE
  BufferSize = 100
  RecordBytes = 1
  Background = Background
  Allowed = {"pushFail", "otherEvents"}
SYMMETRY ExtensionSymmetry
INVARIANTS
  DoneMeansFlushed
  InOrder
  FlushContext
CHECK_DEADLOCK FALSE
