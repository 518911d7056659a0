\* An offset at the end is taken for a completed upload.
SPECIFICATION ClientSpec
CONSTANTS
  Uploads = {u1, u2}
  Handlers = {h1, h2}
  Items = {i1}
  Length <- MCLength
  MaxSuffix = 1
  Mounts = {TRUE}
  Overlap = TRUE
  CleanupEnabled = FALSE
  ScanLookupFails = FALSE
  MaxAttempts = 2
  None = None
  Other = Other
INVARIANTS
  DoneIsFinalised
