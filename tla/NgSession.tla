----------------------------- MODULE NgSession -----------------------------
(***************************************************************************)
(* struct ng_session of the tun2http engine as far as UDP and ICMP         *)
(* sessions use it, and TCP sessions seen from outside; and the timeouts   *)
(* that shrink as the number of sessions grows.                            *)
(***************************************************************************)
EXTENDS Integers

CONSTANTS
  DnsFlows,    \* UDP: addresses and ports of a conversation, to port 53
  UdpFlows,    \* UDP: any other port
  IcmpFlows,   \* ICMP: a pair of addresses
  TcpFlows,    \* TCP: addresses and ports of a conversation
  Ids,         \* identifiers of echo requests
  ICMP_TIMEOUT, UDP_TIMEOUT_53, UDP_TIMEOUT_ANY, UDP_KEEP_TIMEOUT,
  TCP_TIMEOUT,         \* TCP_INIT_, TCP_IDLE_ or TCP_CLOSE_TIMEOUT
  TCP_KEEP_TIMEOUT,
  MaxAge,      \* bound: ages above it are not told apart
  maxsessions  \* SESSION_LIMIT percent of the limit on descriptors

Timeouts == {ICMP_TIMEOUT, UDP_TIMEOUT_53, UDP_TIMEOUT_ANY, UDP_KEEP_TIMEOUT,
             TCP_TIMEOUT, TCP_KEEP_TIMEOUT}

ASSUME TimeoutsAssumption ==
  /\ maxsessions \in Nat \ {0} /\ MaxAge \in Nat
  /\ Timeouts \subseteq Nat

ASSUME FlowsAssumption ==
  /\ (DnsFlows \cup UdpFlows) \cap (IcmpFlows \cup TcpFlows) = {}
  /\ DnsFlows \cap UdpFlows = {} /\ IcmpFlows \cap TcpFlows = {}
  /\ "none" \notin DnsFlows \cup UdpFlows \cup IcmpFlows \cup TcpFlows

Flows == DnsFlows \cup UdpFlows \cup IcmpFlows \cup TcpFlows

\* The states are those of UDP.  An ICMP session is FINISHING when its stop is
\* set; a TCP session when it is in TCP_CLOSING, and CLOSED in TCP_CLOSE.
\* UDP_BLOCKED is left out: block_udp, the only code to set it, is never called.
States == {"NONE", "ACTIVE", "FINISHING", "CLOSED"}

Session ==
  [flow : Flows \cup {"none"},
   state : States,
   age : 0 .. MaxAge,    \* seconds since the time in the record
   id : Ids \cup {0},    \* icmp.id
   pinged : SUBSET Ids,  \* ICMP: the identifiers sent through the socket
   used : BOOLEAN]       \* the app sent something since time(NULL) last changed

\* pinged and used are not in the code; the properties are stated with them.

NoSession == [flow |-> "none", state |-> "NONE", age |-> 0, id |-> 0,
              pinged |-> {}, used |-> FALSE]

NewSession(f, id) ==
  [flow |-> f, state |-> "ACTIVE", age |-> 0, id |-> id,
   pinged |-> {}, used |-> TRUE]

\* Integer division of C.
CDiv(a, b) == IF a < 0 THEN -((-a) \div b) ELSE a \div b

\* A timeout, scaled down by the number of sessions; zero when there are as
\* many as may be, and below zero when there are more.
Scaled(timeout, sessions) ==
  CDiv(timeout * (100 - ((sessions * 100) \div maxsessions)), 100)

get_udp_timeout(u, sessions) ==
  Scaled(IF u.flow \in DnsFlows THEN UDP_TIMEOUT_53 ELSE UDP_TIMEOUT_ANY, sessions)

get_icmp_timeout(u, sessions) == Scaled(ICMP_TIMEOUT, sessions)

get_tcp_timeout(u, sessions) == Scaled(TCP_TIMEOUT, sessions)

get_timeout(u, sessions) ==
  CASE u.flow \in IcmpFlows -> get_icmp_timeout(u, sessions)
    [] u.flow \in TcpFlows -> get_tcp_timeout(u, sessions)
    [] OTHER -> get_udp_timeout(u, sessions)

keep_timeout(flow) == IF flow \in TcpFlows THEN TCP_KEEP_TIMEOUT ELSE UDP_KEEP_TIMEOUT

Idle(u, sessions) == u.state = "ACTIVE" /\ u.age > get_timeout(u, sessions)
=============================================================================
