CONSTANTS
  SHORT_OPTION <- MCShortOption
  LONG_OPTION <- MCLongOption
  Words <- MCWordsDash
  MaxArgs = 2
SPECIFICATION Spec
INVARIANT ArgumentsVerified
CHECK_DEADLOCK FALSE
