SPECIFICATION FairSpec
CONSTANTS
  N = 2
  M = 3
  Registrar <- MCRegistrar
  PoolElement <- MCPoolElement
  Association = {1}
  MaxElementsPerHTRequest = 2
  MaxBadPEReports = 2
  MSG_SEND_TO_ALL = FALSE
  ENRPAnnounceViaMulticast = TRUE
  ENRPSupportTakeoverSuggestion = FALSE
  UsefulPeer <- MCUsefulPeer
  Established <- MCRegistrar
  InitialHome <- DistributedHome
  Bound <- RestartBound
  Recurring = {"announce"}
  MaxQueue = 1
PROPERTIES
  MentorComplete
  PeerListsConverge
