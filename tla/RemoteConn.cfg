SPECIFICATION CallerSpec
CONSTANTS
  Calls = {c1, c2}
  NoCall = NoCall
  MaxId = 2
  MaxQueue = 1
  SlowWrap = TRUE
INVARIANTS
  TypeOK
  PendingIsComplete
  PromisesSetOnce
  WriteChain
  LinkWatched
PROPERTIES
  ImplementsRequestReply
  NoStrandedCaller
CHECK_DEADLOCK FALSE
