CONSTANTS
  Keys <- MCKeys
  Values <- MCValues
  DbTypeNames <- MCDbTypeNames
  NativeOptions <- MCNativeOptions
  Lower <- MCLower
  MaxEntries = 3

SPECIFICATION Spec

\* Parsing and the option check end: a terminal state is not a deadlock.
CHECK_DEADLOCK FALSE

INVARIANT TypeOK
INVARIANT LastModeKeyWins
INVARIANT UnrecognizedKeysPassedThrough
