CONSTANTS
  MAXFILENAMELEN <- MCMaxFileNameLen
  CameraInfos <- MCCameraInfos
  SetNames <- MCOneSetName
  MaxOps = 4
SPECIFICATION Spec
INVARIANT TypeOK
INVARIANT FilenameDecodes
INVARIANT CaptureDateDecodes
\* The caller stops after MaxOps calls.
CHECK_DEADLOCK FALSE
