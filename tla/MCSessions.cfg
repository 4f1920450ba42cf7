SPECIFICATION Spec
CONSTANTS
  DnsFlows = {"dns"}
  UdpFlows = {"udp"}
  IcmpFlows = {"ping"}
  TcpFlows = {"tcp"}
  Ids = {1}
  ICMP_TIMEOUT = 1
  UDP_TIMEOUT_53 = 1
  UDP_TIMEOUT_ANY = 2
  UDP_KEEP_TIMEOUT = 1
  TCP_TIMEOUT = 1
  TCP_KEEP_TIMEOUT = 1
  MaxAge = 2
  maxsessions = 1
  Slots = {s1, s2}
  EPOLL_TIMEOUT = 2
  fwd53 = FALSE
  TunErrors = TRUE
INVARIANTS EventsAlive OneSession
PROPERTIES LifeSpec UsedNotIdle
SYMMETRY Sym
