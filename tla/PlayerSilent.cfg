SPECIFICATION FairSpec
CONSTANTS
  Tracks = {t1, t2}
  NoTrack = NoTrack
PROPERTY
  StartListeningIsEnough
