SPECIFICATION ServerSpec
CONSTANTS
  Places <- MCPlaces
  NoPlace = NoPlace
  Candidates <- MCCandidates
  Start <- MCStart
  Parts = 2
  Ids = {1, 2}
  Handlers = {1, 2}
  Mounts = {TRUE, FALSE}
  MaxAsked = 3
  MaxInodes = 5
  Streams <- MCStreams
  Buffer = 2
  MaxEvents = 3
INVARIANTS
  NothingLost HomeIsWhole TrashListsFiles ChannelsRight
  StreamsInOrder
PROPERTIES
  RestoreReplacesNothing ShutdownDrains
CHECK_DEADLOCK FALSE
