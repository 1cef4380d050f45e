SPECIFICATION FairSpec
CONSTANTS
  h1 = h1
  h2 = h2
  h3 = h3
  k1 = k1
  k2 = k2
  b1 = b1
  b2 = b2
  Handlers = {h1, h2, h3}
  Keys = {k1, k2}
  Bodies = {b1, b2}
  MaxItems = 1
  NoItem = NoItem
  NoAnswer = NoAnswer
  NoHandler = NoHandler
INVARIANT
  CacheInv
PROPERTIES
  ImplementsOnce
  RequestsEnd
