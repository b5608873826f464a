SPECIFICATION Spec
CONSTANTS
  N = 2
  M = 1
  Registrar <- MCRegistrar
  PoolElement <- MCPoolElement
  Association = {1}
  MaxElementsPerHTRequest = 2
  MaxBadPEReports = 2
  MSG_SEND_TO_ALL = FALSE
  ENRPAnnounceViaMulticast = FALSE
  ENRPSupportTakeoverSuggestion = FALSE
  UsefulPeer <- MCUsefulPeer
  Established <- MCRegistrar
  InitialHome <- HighestHome
  Bound <- OneCrash
  Recurring = {}
  MaxQueue = 2
PROPERTIES
  SurvivorTakesOver
CHECK_DEADLOCK FALSE
