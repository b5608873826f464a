SPECIFICATION FairSpec
CONSTANTS
  N = 3
  M = 2
  Registrar <- MCRegistrar
  PoolElement <- MCPoolElement
  Association = {1}
  MaxElementsPerHTRequest = 1
  MaxBadPEReports = 2
  MSG_SEND_TO_ALL = TRUE
  ENRPAnnounceViaMulticast = FALSE
  ENRPSupportTakeoverSuggestion = FALSE
  UsefulPeer <- MCUsefulPeer
  Established <- MCRegistrar
  InitialHome <- HighestHome
  Bound <- LossyCrash
  Recurring = {}
  MaxQueue = 2
INVARIANTS
  TakeoverKnown
PROPERTIES
  DeadForgotten
CHECK_DEADLOCK FALSE
