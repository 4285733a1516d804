CONSTANTS
  FileSizes <- MCFileSizes
SPECIFICATION ContentSpec
\* A finished or failed content cell has no further step.
CHECK_DEADLOCK FALSE
INVARIANTS
  ContentLengthIsSize
