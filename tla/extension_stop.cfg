SPECIFICATION Spec
CONSTANTS
  LastInvocation = 1
  Handlers = {k1, k2}
  MaxLogs = 0
  MaxPost = 2
  Flushes = {f1}
  FlushAtNextInvoke = FALSE
  BufferSize = 100
  RecordBytes = 1
  Background = Background
  Allowed = {"timeout", "earlyEnd", "drainTimeout", "signal", "nextFails",
             "crash", "badPost", "badTime", "badReport"}
SYMMETRY ExtensionSymmetry
INVARIANTS
  IndInv
  ProcessorStopsFirst
  OneStop
  EndsByStop
  GracefulExit
  SpansRight
  DurationsFreed
CHECK_DEADLOCK FALSE
