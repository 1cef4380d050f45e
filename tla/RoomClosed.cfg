SPECIFICATION Spec
CONSTANTS
  alice = alice
  bob = bob
  e1 = e1
  e2 = e2
  e3 = e3
  m1 = m1
  Entries = {e1, e3}
  Users = {alice, bob}
  Managers = {m1}
  Contributor <- MCContributor
  Duration <- MCDuration
  QueueLimits = {2}
  Modes = {"fair_random"}
  SeekPositions <- MCSeekPositions
  RoomCapacity = 2
  MaxRevision = 4
  MaxTime = 1
  MaxRestarts = 0
  NoEntry = NoEntry
  NoUser = NoUser
  NoCmd = NoCmd
PROPERTIES
  ClosedRoomKeepsItsQueue
