SPECIFICATION FairSpec
CONSTANTS
  Modulus = 16
  Ports = {"other"}
  LocalISNs = {1}
  RemoteISNs = {14}
  Windows = {0, 1}
  MaxUp = 2
  MaxDown = 0
  MaxTunnelled = 0
  MaxBuffer = 3
  TunErrors = FALSE
  EpollErrors = FALSE
  SendErrors = FALSE
  Forks = TRUE
INVARIANT QueueInOrder
PROPERTIES SessionMoves FailedSocketClosed HeadForwarded
