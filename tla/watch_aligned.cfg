\* Files and a directory change while the watcher debounces and indexes.
SPECIFICATION LiveSpec
CONSTANTS
  Top = {a}
  Inner = {f}
  Dir = d
  MaxVersion = 5
  MayOverflow = TRUE
  MayFail = TRUE
  MayMisread = FALSE
  Recreate = FALSE
INVARIANTS
  AtRestAligned
PROPERTIES
  FirstEventsFlushed
\* Other programs make no more than MaxVersion - 1 changes, then all is quiet.
CHECK_DEADLOCK FALSE
