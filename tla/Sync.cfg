SPECIFICATION Spec
CONSTANTS
  a = a
  clock = clock
  e1 = e1
  e2 = e2
  Clients = {a}
  Managers = {a}
  Listeners = {a}
  Clock = clock
  Ops = {"add", "remove", "reorder", "seek", "play", "next", "stop"}
  Entries = {e1, e2}
  MaxRequests = 3
  MaxLoads = 1
  StartQueues <- OneOrTwoWaiting
  NoEntry = NoEntry
INVARIANTS
  TypeOK
  OnlyOldAnswersMislead
  NewsReachesEveryone
PROPERTIES
  SnapshotLosesNoTrack
