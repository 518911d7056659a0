\* Changes after the first flush of the watcher.
SPECIFICATION LiveSpec
CONSTANTS
  Top = {a}
  Inner = {f}
  Dir = d
  MaxVersion = 3
  MayOverflow = FALSE
  MayFail = FALSE
  MayMisread = FALSE
  Recreate = FALSE
PROPERTIES
  ChangesReachIndex
\* Other programs make no more than MaxVersion - 1 changes, then all is quiet.
CHECK_DEADLOCK FALSE
