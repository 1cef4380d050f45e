SPECIFICATION FairSpec
CONSTANTS
  carol = carol
  dave = dave
  s1 = s1
  s2 = s2
  s3 = s3
  Users = {carol, dave}
  UserOf <- MCUserOf
  NoTimer = NoTimer
  Sockets = {s1, s2, s3}
  Timers = {t1, t2}
  EmptyDelay = 2
  MaxRestarts = 1
INVARIANTS
  PresenceInv
PROPERTIES
  PauseAfterWholeDelay
  EmptyRoomPauses
  DoomedSocketsEnd
CHECK_DEADLOCK FALSE
