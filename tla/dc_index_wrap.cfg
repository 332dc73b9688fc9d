CONSTANTS
  DSC_BLOCKSIZE <- MCBlockSize
  DSC_MAXIMAGESIZE <- MCMaxImageSize
  UploadSizes <- MCUploadSizes
  Images <- MCManyImages
  MaxOps = 2
SPECIFICATION Spec
INVARIANT DownloadExact
\* The caller stops after MaxOps calls.
CHECK_DEADLOCK FALSE
