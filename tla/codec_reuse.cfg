CONSTANTS
  MAXFILENAMELEN <- MCMaxFileNameLen
  CameraInfos <- MCNoInfos
  SetNames <- MCTwoSetNames
  MaxOps = 3
SPECIFICATION Spec
INVARIANT FilenameDecodes
\* The caller stops after MaxOps calls.
CHECK_DEADLOCK FALSE
