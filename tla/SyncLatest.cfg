SPECIFICATION Spec
CONSTANTS
  a = a
  clock = clock
  e1 = e1
  e2 = e2
  Clients = {a}
  Managers = {a}
  Listeners = {a}
  Clock = clock
  Ops = {"play"}
  Entries = {e1}
  MaxRequests = 1
  MaxLoads = 1
  StartQueues <- OneWaiting
  NoEntry = NoEntry
INVARIANTS
  RecoversLatestSnapshot
