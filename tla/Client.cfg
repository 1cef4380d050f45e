SPECIFICATION FairSpec
CONSTANTS
  Sockets = {1, 2, 3}
  NoSocket = 0
  MaxConnections = 3
INVARIANTS SessionInv NeverStranded OneConnection MemberNeedsNoInvitation
PROPERTIES Recovers
CHECK_DEADLOCK FALSE
