\* Read timeouts only: a late response of a timed-out call is still queued.
CONSTANTS
  Ops <- MCOps
  Faults <- MCTimeouts
  MaxReq = 3
SPECIFICATION Spec
INVARIANT ResponseMatchesRequest
CHECK_DEADLOCK FALSE
