\* A broken connection leaves an old PATCH behind.
SPECIFICATION ClientSpec
CONSTANTS
  Uploads = {u1, u2}
  Handlers = {h1, h2}
  Items = {i1}
  Length <- MCLength
  MaxSuffix = 1
  Mounts = {TRUE}
  Overlap = TRUE
  CleanupEnabled = FALSE
  ScanLookupFails = FALSE
  MaxAttempts = 2
  None = None
  Other = Other
INVARIANTS
  NamedIsWhole
