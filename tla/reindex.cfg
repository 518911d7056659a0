\* Reindex jobs over a stale index, with failures, cancellation and a request.
SPECIFICATION Spec
CONSTANTS
  alice = alice
  bob = bob
  a = a
  c = c
  Users = {alice, bob}
  Files = {a, c}
  Home <- MCHome
  MaxJobs = 2
  MaxVersion = 3
  MayFail = TRUE
INVARIANTS
  ReindexTypeOK
  OneJobAtATime
  CompletedAligned
  CompletedTextAligned
PROPERTIES
  ScanSparesPresent
\* No job is left to start and no request changes anything.
CHECK_DEADLOCK FALSE
