\* The Flutter queue, crashes and the TTL cleanup.
SPECIFICATION ClientLiveSpec
CONSTANTS
  Uploads = {u1, u2}
  Handlers = {h1}
  Items = {i1}
  Length <- MCLength
  MaxSuffix = 0
  Mounts = {TRUE, FALSE}
  Overlap = TRUE
  CleanupEnabled = TRUE
  ScanLookupFails = TRUE
  MaxAttempts = 1
  None = None
  Other = Other
PROPERTIES
  ResumesKnownUpload
  VerdictReached
  StagingReclaimed
  KeepsPromise
