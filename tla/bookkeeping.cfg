SPECIFICATION Spec
CONSTANTS
  N = 3
  M = 2
  Registrar <- MCRegistrar
  PoolElement <- MCPoolElement
  Association = {1}
  MaxElementsPerHTRequest = 1
  MaxBadPEReports = 2
  MSG_SEND_TO_ALL = FALSE
  ENRPAnnounceViaMulticast = FALSE
  ENRPSupportTakeoverSuggestion = TRUE
  UsefulPeer <- MCUsefulPeer
  Established <- MCRegistrar
  InitialHome <- FirstHome
  Bound <- BookkeepingBound
  Recurring = {}
  MaxQueue = 2
INVARIANTS
  PeersSupervised
  TypeOK
  PEsSupervised
CHECK_DEADLOCK FALSE
