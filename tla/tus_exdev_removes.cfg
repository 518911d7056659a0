\* Two uploads of one file name are finalised at once, by copy.
SPECIFICATION Spec
CONSTANTS
  u1 = u1
  u2 = u2
  h1 = h1
  h2 = h2
  Uploads = {u1, u2}
  Handlers = {h1, h2}
  Length <- MCLength
  MaxSuffix = 1
  Mounts = {FALSE}
  Overlap = FALSE
  CleanupEnabled = FALSE
  ScanLookupFails = FALSE
  None = None
  Other = Other
INVARIANTS
  CompletedIsThere
