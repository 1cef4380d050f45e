SPECIFICATION FairSpec
CONSTANTS
  Tracks = {t1, t2}
  NoTrack = NoTrack
INVARIANTS
  PlayerInv
  OnlyLateLyricsMislead
PROPERTIES
  ListenerHears
