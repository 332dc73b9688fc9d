\* Every frame of MCDims with every raw content over MCVals.
CONSTANTS
  Dims <- MCDims
  Vals <- MCVals
SPECIFICATION Spec
INVARIANT TypeOK
INVARIANT ReadsInBounds
INVARIANT PreviewIsBlockAverage
\* bayer_unshuffle_preview returns once every row is done.
CHECK_DEADLOCK FALSE
