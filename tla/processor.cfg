SPECIFICATION Spec
CONSTANTS
  Requests = {r1, r2}
  NoRequest = NoRequest
  MaxEvents = 2
INVARIANTS
  IndInv
  AnnounceOnce
CHECK_DEADLOCK FALSE
