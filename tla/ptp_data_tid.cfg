\* A reliable transport; does the data phase carry the request's id?
CONSTANTS
  Ops <- MCOps
  Faults <- MCNoFaults
  MaxReq = 3
SPECIFICATION Spec
INVARIANT DataFrameCarriesRequestId
CHECK_DEADLOCK FALSE
