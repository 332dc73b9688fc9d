CONSTANTS
  SHORT_OPTION <- MCShortOption
  LONG_OPTION <- MCLongOption
  Words <- MCWords
  MaxArgs = 4
SPECIFICATION Spec
INVARIANT TypeOK
INVARIANT UsageContract
CHECK_DEADLOCK FALSE
