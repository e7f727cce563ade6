SPECIFICATION FairSpec
CONSTANTS
  FlushTimeout = 4
  SyncTimeout = 1
  StopTimeouts <- MCStopTimeouts
  PushTimeouts = {0, 2}
  RetryIntervals = {2, 3}
  MaxInterval = 4
  MaxTime = 8
  Payloads <- MCPayloads
  BufferSizes <- MCBufferSizes
INVARIANTS
  IndInv
  EndsInTime
  OkMeansTaken
  DoneNeverSends
  WholeRecords
  CutCountsRecords
PROPERTIES
  FlushEnds
CHECK_DEADLOCK FALSE
