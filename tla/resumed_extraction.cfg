SPECIFICATION Spec
CONSTANTS
  N = 2
  M = 2
  Registrar <- MCRegistrar
  PoolElement <- MCPoolElement
  Association = {1}
  MaxElementsPerHTRequest = 1
  MaxBadPEReports = 2
  MSG_SEND_TO_ALL = FALSE
  ENRPAnnounceViaMulticast = FALSE
  ENRPSupportTakeoverSuggestion = FALSE
  UsefulPeer <- MCUsefulPeer
  Established <- MCRegistrar
  InitialHome <- HighestHome
  Bound <- ResumeBound
  Recurring = {}
  MaxQueue = 2
PROPERTIES
  SyncComplete
CHECK_DEADLOCK FALSE
