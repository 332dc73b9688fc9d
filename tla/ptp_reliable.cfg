\* A reliable transport; the camera may refuse any operation.
CONSTANTS
  Ops <- MCOps
  Faults <- MCNoFaults
  MaxReq = 4
SPECIFICATION Spec
INVARIANT TypeOK
INVARIANT ResultSound
INVARIANT Quiescent
PROPERTY TransactionReturns
PROPERTY AtomicTransactions
\* The caller stops after MaxReq calls.
CHECK_DEADLOCK FALSE
