CONSTANTS
  MAXFILENAMELEN <- MCMaxFileNameLen
  CameraInfos <- MCLongNameInfo
  SetNames <- MCNoNames
  MaxOps = 2
SPECIFICATION Spec
INVARIANT FilenameTerminated
\* The caller stops after MaxOps calls.
CHECK_DEADLOCK FALSE
