SPECIFICATION Spec
CONSTANTS
  Modulus = 16
  Ports = {"other"}
  LocalISNs = {1}
  RemoteISNs = {14}
  Windows = {1}
  MaxUp = 1
  MaxDown = 1
  MaxTunnelled = 1
  MaxBuffer = 2
  TunErrors = FALSE
  EpollErrors = FALSE
  SendErrors = TRUE
  Forks = FALSE
INVARIANT NoBytesLost
