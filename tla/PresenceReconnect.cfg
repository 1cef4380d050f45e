SPECIFICATION Spec
CONSTANTS
  carol = carol
  dave = dave
  s1 = s1
  s2 = s2
  s3 = s3
  Users = {carol, dave}
  UserOf <- MCUserOf
  NoTimer = NoTimer
  Sockets = {s1, s3}
  Timers = {t1}
  EmptyDelay = 1
  MaxRestarts = 0
PROPERTIES
  ListenersKeepPlaying
CHECK_DEADLOCK FALSE
