SPECIFICATION Spec
CONSTANTS
  Numbers = {ED_BUFFER_SIZE_MB, ED_LAMBDA_MAX_ITEMS}
INVARIANTS
  IndInv
  FailureReported
  ShutBeforeClosed
  EndpointOfMode
  SecondShutdownHarmless
CHECK_DEADLOCK FALSE
