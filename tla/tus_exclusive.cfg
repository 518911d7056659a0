\* Two uploads, one request each at a time; rename and copy.
SPECIFICATION Spec
CONSTANTS
  u1 = u1
  u2 = u2
  h1 = h1
  h2 = h2
  Uploads = {u1, u2}
  Handlers = {h1, h2}
  Length <- MCLength
  MaxSuffix = 0
  Mounts = {TRUE, FALSE}
  Overlap = FALSE
  CleanupEnabled = FALSE
  ScanLookupFails = FALSE
  None = None
  Other = Other
INVARIANTS
  TypeOK
  AcknowledgedBytesStaged
  NamedIsWhole
  CompletedIsWhole
  UncontendedIsThere
PROPERTIES
  OffsetMonotone
  KeepsPromise
