\* Uploads around block boundaries and the resolution thresholds, one too
\* large; downloads, listings and deletes on a three-image camera.
CONSTANTS
  DSC_BLOCKSIZE <- MCBlockSize
  DSC_MAXIMAGESIZE <- MCResolutionMax
  UploadSizes <- MCTransferSizes
  Images <- MCImages
  MaxOps = 4
SPECIFICATION Spec
INVARIANT TypeOK
INVARIANT UploadExact
INVARIANT DownloadExact
INVARIANT ResolutionMatchesUpload
PROPERTY DeleteExact
\* The caller stops after MaxOps calls, or after camera_init failed or camera_exit.
CHECK_DEADLOCK FALSE
