\* Lost writes, failed-but-delivered writes and read timeouts.
CONSTANTS
  Ops <- MCOps
  Faults <- MCAllFaults
  MaxReq = 3
SPECIFICATION Spec
INVARIANT FreshRequestIds
\* The caller stops after MaxReq calls.
CHECK_DEADLOCK FALSE
