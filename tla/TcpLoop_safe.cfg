SPECIFICATION Spec
CONSTANTS
  Modulus = 16
  Ports = {"other", "https"}
  LocalISNs = {13}
  RemoteISNs = {14}
  Windows = {1, 2}
  MaxUp = 1
  MaxDown = 2
  MaxTunnelled = 1
  MaxBuffer = 2
  TunErrors = TRUE
  EpollErrors = TRUE
  SendErrors = FALSE
  Forks = TRUE
INVARIANTS TypeOK SocketLifetime FinCountedOnce Accounting AckedIsSent TunnelFirst
PROPERTIES WindowRespected ClosedIsFinal LifeSpec
