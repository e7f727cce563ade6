SPECIFICATION Spec
CONSTANTS
  LastInvocation = 2
  Handlers = {k1}
  MaxLogs = 0
  MaxPost = 2
  Flushes = {f1, f2}
  FlushAtNextInvoke = FALSE
  BufferSize = 100
  RecordBytes = 1
  Background = Background
  Allowed = {"timeout"}
SYMMETRY ExtensionSymmetry
INVARIANTS
  OrphanTimedOut
  DoneMeansFlushed
PROPERTIES
  UsesPusher
  UsesProcessor
CHECK_DEADLOCK FALSE
