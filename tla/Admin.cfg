SPECIFICATION FairSpec
CONSTANTS
  den = den
  hall = hall
  Rooms = {den, hall}
  NoRoom = NoRoom
  NoTask = NoTask
INVARIANTS ConsoleInv DetailsAreOfTheRoom InvitationIsOfTheRoom
PROPERTIES BusyEnds
CHECK_DEADLOCK FALSE
