SPECIFICATION Spec
CONSTANTS
  N = 4
  M = 1
  Registrar <- MCRegistrar
  PoolElement <- MCPoolElement
  Association = {1}
  MaxElementsPerHTRequest = 1
  MaxBadPEReports = 2
  MSG_SEND_TO_ALL = FALSE
  ENRPAnnounceViaMulticast = FALSE
  ENRPSupportTakeoverSuggestion = FALSE
  UsefulPeer <- MCUsefulPeer
  Established <- MCRegistrar
  InitialHome <- HighestHome
  Bound <- CrashBound
  Recurring = {}
  MaxQueue = 2
INVARIANTS
  OneOwner
PROPERTIES
  ImplementsOwnership
CHECK_DEADLOCK FALSE
