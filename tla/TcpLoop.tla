------------------------------ MODULE TcpLoop ------------------------------
(***************************************************************************)
(* The event loop of the tun2http engine (handle_events in session.c)      *)
(* driving one TCP session, from the app's SYN to the removal of the       *)
(* session from the list, any number of times.                             *)
(*                                                                         *)
(* One round of the loop: monitor_tcp_session sets what epoll waits for,   *)
(* check_tcp_session handles timeouts and closing sessions (at most every  *)
(* EPOLL_MIN_CHECK ms), epoll_wait returns a batch of events, and the      *)
(* batch is handled: packets of the app while there are any, and one event *)
(* of the session's socket, in either order.  A socket event therefore may *)
(* be handled in a state other than the one it was raised for.             *)
(*                                                                         *)
(* A resolver process, forked for a DNS query (udp.c:394), holds a copy of *)
(* every open descriptor for some two seconds.  epoll registers what the   *)
(* copies share: a socket closed meanwhile stays registered, and its       *)
(* events go on carrying the pointer to the session.                       *)
(***************************************************************************)
EXTENDS Tcp

CONSTANTS
  Ports,         \* the destinations the app connects to, from Dests
  LocalISNs,     \* initial sequence numbers rand() may give the engine
  RemoteISNs,    \* those the app chooses
  MaxUp,         \* bound: bytes of the app's stream
  MaxDown,       \* bound: bytes of the server's stream
  MaxTunnelled,  \* bound: the same, on port 443; at most MaxDown
  MaxBuffer,     \* bound: room in the socket's send buffer
  TunErrors,     \* may a write to the tun device fail?
  EpollErrors,   \* may epoll_ctl fail?
  SendErrors,    \* may send() fail on a connected socket (EAGAIN, ENOBUFS)?
  Forks          \* do other sessions make DNS queries?

ASSUME ConstantsAssumption ==
  /\ Ports \subseteq Dests
  /\ LocalISNs \subseteq SeqNums /\ RemoteISNs \subseteq SeqNums
  /\ MaxUp \in Nat /\ MaxDown \in Nat /\ MaxBuffer \in Nat
  /\ MaxTunnelled \in 0 .. MaxDown
  /\ TunErrors \in BOOLEAN /\ EpollErrors \in BOOLEAN /\ SendErrors \in BOOLEAN
  /\ Forks \in BOOLEAN

VARIABLES
  tcp,     \* the session's record, or NoSession
  ksock,   \* the kernel's side of its socket
  registered,  \* does epoll report its events?  (For tcp.mask.)
  phase,   \* where the loop is
  batch    \* events of the socket that epoll_wait returned, not yet handled

kernel == <<ksock, registered>>

vars == <<tcp, kernel, phase, batch>>

\* The session's record, its socket, the loop's phase and the batch of events
\* hold the values struct ng_session, the kernel and epoll can give them.
TypeOK ==
  /\ tcp \in Session
  /\ ksock \in {"none", "connecting", "connected",
               "failed",     \* an error is pending on it
               "reset"}      \* the error has been read
  /\ registered \in BOOLEAN
  /\ phase \in {"monitor", "check", "wait", "dispatch"}
  /\ batch \subseteq {"IN", "OUT", "ERR", "HUP"}

Init ==
  /\ tcp = NoSession /\ ksock = "none" /\ registered = FALSE
  /\ phase = "monitor" /\ batch = {}

\* Any call on a failed socket returns its error once; then it is at its end.
ErrorRead == IF ksock = "failed" THEN "reset" ELSE ksock

\* close(): epoll forgets the socket, unless a resolver that was forked while
\* it was open still runs.
CloseSocket ==
  /\ ksock' = "none"
  /\ registered' \in IF Forks THEN {FALSE, registered} ELSE {FALSE}

\* Did the write to the tun device succeed?
TunWrites == IF TunErrors THEN BOOLEAN ELSE {TRUE}

-----------------------------------------------------------------------------
\* monitor_tcp_session: what to wait for, and a keep-alive to an app whose
\* window is full (written only every EPOLL_MIN_CHECK ms: written \in BOOLEAN).
\* The events are chosen before a failed write changes the state.
\* EPOLL_CTL_MOD fails where EPOLL_CTL_ADD failed.
MonitorTcpSession ==
  \E ok \in TunWrites, written, room \in BOOLEAN :
    LET events == Events(tcp, room)
        probe == /\ tcp.state \in {"ESTABLISHED", "CLOSE_WAIT"}
                 /\ get_send_window(tcp) = 0
                 /\ written
        t == IF probe THEN write_ack(tcp, ok) ELSE tcp
    IN  /\ room => CanForward(tcp, 1, MaxBuffer)
        /\ tcp' = [t EXCEPT !.mask = events,
                            !.state = IF events # tcp.mask /\ ~registered
                                      THEN "CLOSING" ELSE @]

Monitor ==
  /\ phase = "monitor" /\ phase' = "check"
  /\ IF tcp.open THEN MonitorTcpSession ELSE UNCHANGED tcp
  /\ UNCHANGED <<kernel, batch>>

\* check_tcp_session: the timeout, then the closing of the socket, then the
\* removal of a session closed for TCP_KEEP_TIMEOUT.
CheckTcpSession ==
  LET t == close_closing(time_out(tcp))
      gone == tcp.state = "CLOSE" /\ tcp.expired
  IN  /\ tcp' = IF gone THEN NoSession ELSE t
      /\ IF t.open = tcp.open THEN UNCHANGED kernel ELSE CloseSocket

Check ==
  /\ phase = "check" /\ phase' = "wait"
  /\ CheckTcpSession
  /\ UNCHANGED batch

\* Less than EPOLL_MIN_CHECK ms since the last check.
SkipCheck ==
  /\ phase = "check" /\ phase' = "wait"
  /\ UNCHANGED <<tcp, kernel, batch>>

\* epoll_wait reports errors and hang-ups always and other events as the mask
\* says.  Of a socket that is closed but held anything may be reported, again
\* and again, as long as the resolver runs.
Reported ==
  CASE ksock = "failed" -> {{"ERR"}}
    [] ksock = "reset" -> {tcp.mask \cup {"HUP"}}
    [] ksock = "connected" -> SUBSET tcp.mask
    [] ksock = "connecting" -> {{}}
    [] ksock = "none" -> (SUBSET tcp.mask) \cup {{"ERR"}, tcp.mask \cup {"HUP"}}

EpollWait ==
  /\ phase = "wait" /\ phase' = "dispatch"
  /\ batch' \in IF registered THEN Reported ELSE {{}}
  /\ UNCHANGED <<tcp, kernel>>

EndDispatch ==
  /\ phase = "dispatch" /\ phase' = "monitor"
  /\ batch = {}
  /\ UNCHANGED <<tcp, kernel, batch>>

-----------------------------------------------------------------------------
\* handle_tcp: one packet of the app.

\* The packets the app may send: its SYN, again at any time, a reset, and
\* segments anywhere in its stream, acknowledging anything up to one byte
\* more than the engine can have sent.
Packets ==
  LET seqs == { Add(tcp.remote_start, d) : d \in 0 .. MaxUp + 1 }
      acks == { Add(tcp.local_start, d) : d \in 0 .. MaxDown + 3 }
  IN  [flags : {{"SYN"}, {"RST"}}, seq : {tcp.remote_start}, ack_seq : {0},
       len : {0}, window : Windows]
      \cup { p \in [flags : {{"ACK"}, {"ACK", "FIN"}}, seq : seqs,
                    ack_seq : acks, len : 0 .. MaxUp, window : Windows] :
               Sub(p.seq, tcp.remote_start) + p.len <= MaxUp + 1 }

NewSyn ==
  /\ phase = "dispatch" /\ tcp.state = "NONE"
  /\ \E seq \in RemoteISNs, len \in 0 .. MaxUp, window \in Windows,
        dest \in Ports, isn \in LocalISNs, room \in BOOLEAN :
       tcp' = NewSession([flags |-> {"SYN"}, seq |-> seq, ack_seq |-> 0,
                          len |-> len, window |-> window], dest, isn, room)
  /\ ksock' = "connecting"
  /\ registered' \in IF EpollErrors THEN BOOLEAN ELSE {TRUE}
  /\ UNCHANGED <<phase, batch>>

\* Port 443 before the proxy answered.
HandleConnecting(pkt, i) ==
  /\ Connecting(tcp)
  /\ LET s == IF tcp.connect_sent = "SENT" THEN tcp
              ELSE send_connect(tcp, ksock = "connected")
     IN  tcp' = queue_tcp(s, pkt, i)

Closed == tcp.state \in {"CLOSING", "CLOSE"}

HandleClosed ==
  /\ ~Connecting(tcp) /\ Closed
  /\ tcp' = write_rst(tcp)

\* Data after the server's end of file or after the app's FIN.
Unwanted(pkt) == pkt.len > 0 /\ (~tcp.open \/ tcp.state = "CLOSE_WAIT")

HandleUnwanted(pkt) ==
  /\ ~Connecting(tcp) /\ ~Closed /\ Unwanted(pkt)
  /\ tcp' = write_rst(Heard(tcp, pkt))

\* What remains: the data, if any, is queued, and the flags are looked at.
Accepts(pkt) == ~Connecting(tcp) /\ ~Closed /\ ~Unwanted(pkt)

HandleRst(pkt, i) ==
  /\ Accepts(pkt) /\ "RST" \in pkt.flags
  /\ tcp' = [Taken(tcp, pkt, i) EXCEPT !.state = "CLOSING"]

HandleRepeatedSyn(pkt, i) ==
  /\ Accepts(pkt) /\ "RST" \notin pkt.flags /\ AcksAll(tcp, pkt)
  /\ "SYN" \in pkt.flags
  /\ tcp' = Taken(tcp, pkt, i)

HandleFin(pkt, i) ==
  /\ Accepts(pkt) /\ {"RST", "SYN"} \cap pkt.flags = {} /\ AcksAll(tcp, pkt)
  /\ "FIN" \in pkt.flags
  /\ \E ok \in TunWrites : tcp' = receive_fin(Taken(tcp, pkt, i), ok)

HandleAck(pkt, i) ==
  /\ Accepts(pkt) /\ {"RST", "SYN", "FIN"} \cap pkt.flags = {} /\ AcksAll(tcp, pkt)
  /\ "ACK" \in pkt.flags
  /\ tcp' = receive_ack(Taken(tcp, pkt, i), pkt)

HandleOtherAck(pkt, i) ==
  /\ Accepts(pkt) /\ "RST" \notin pkt.flags /\ ~AcksAll(tcp, pkt)
  /\ tcp' = receive_other_ack(Taken(tcp, pkt, i), pkt)

\* A packet of the session; i is its place in the queue.
HandlesPacket(pkt, i) ==
  /\ IsPlace(tcp.forward, pkt.seq, i)
  /\ \/ HandleConnecting(pkt, i)
     \/ HandleClosed
     \/ HandleUnwanted(pkt)
     \/ HandleRst(pkt, i)
     \/ HandleRepeatedSyn(pkt, i)
     \/ HandleFin(pkt, i)
     \/ HandleAck(pkt, i)
     \/ HandleOtherAck(pkt, i)
  /\ ksock' = IF Connecting(tcp) /\ tcp.connect_sent = "NOT_SENT"
              THEN ErrorRead ELSE ksock
  /\ UNCHANGED <<registered, phase, batch>>

HandlePacket ==
  /\ phase = "dispatch" /\ tcp.state # "NONE"
  /\ \E pkt \in Packets, i \in 1 .. Len(tcp.forward) + 1 : HandlesPacket(pkt, i)

HandleTcp == NewSyn \/ HandlePacket

-----------------------------------------------------------------------------
\* check_tcp_socket: one event of the session's socket.

SocketEvent ==
  /\ phase = "dispatch" /\ batch # {} /\ batch' = {}
  /\ UNCHANGED phase

SocketError ==
  /\ SocketEvent /\ "ERR" \in batch
  /\ tcp' = [write_rst(tcp) EXCEPT !.expired = FALSE]
  /\ ksock' = ErrorRead /\ UNCHANGED registered

SocketConnected ==
  /\ SocketEvent /\ "ERR" \notin batch /\ tcp.state = "LISTEN"
  /\ "IN" \notin batch
  /\ \E ok \in TunWrites : tcp' = connected(tcp, ok)
  /\ UNCHANGED kernel

SocketReply ==
  /\ SocketEvent /\ "ERR" \notin batch /\ tcp.state = "LISTEN"
  /\ "IN" \in batch
  /\ tcp' = IF ksock = "failed" THEN write_rst(tcp) ELSE connect_reply(tcp)
  /\ ksock' = ErrorRead /\ UNCHANGED registered

\* How many bytes the server of a session sends.
DownBound(s) == IF s.dest = "https" THEN MaxTunnelled ELSE MaxDown

\* recv() on the socket, now as k says.
Receive(s, k) ==
  \/ /\ k # "reset" /\ ksock' = ErrorRead /\ UNCHANGED registered   \* an error
     /\ tcp' = [write_rst(s) EXCEPT !.expired = FALSE]
  \/ /\ k = "connected" /\ ksock' = k /\ UNCHANGED registered       \* EAGAIN
     /\ tcp' = [s EXCEPT !.expired = FALSE]
  \/ /\ CloseSocket                                          \* end of file
     /\ \E ok \in TunWrites : tcp' = receive_eof(s, ok)
  \/ /\ ksock' = k /\ UNCHANGED registered                        \* data
     /\ \E n \in 1 .. MaxDown, ok \in TunWrites :
          /\ n <= get_send_window(s)
          /\ s.hist.down + n <= DownBound(s)
          /\ tcp' = receive_data(s, n, ok)

Reads(s) ==
  /\ s.state \in {"ESTABLISHED", "CLOSE_WAIT"}
  /\ "IN" \in batch /\ get_send_window(s) > 0

\* What the forwarding loop may do, whatever room the socket has.
Sends ==
  IF "OUT" \in batch
  THEN UNION { ForwardOutcomes(tcp, size) : size \in 0 .. MaxBuffer }
  ELSE { [k |-> 0, part |-> 0] }

\* May the kernel refuse bytes the loop counts as sent?  It surely does when
\* the socket has failed since epoll_wait, or before.
Refusals(o) ==
  IF o.k = 0 THEN {FALSE} ELSE IF ksock \in {"failed", "reset"} THEN {TRUE}
  ELSE IF SendErrors THEN BOOLEAN ELSE {FALSE}

\* Any other event: forward the app's data, acknowledge it, then read.
SocketRelay ==
  /\ SocketEvent /\ "ERR" \notin batch /\ tcp.state # "LISTEN" /\ tcp.open
  /\ \E o \in Sends, room \in BOOLEAN, ok \in TunWrites :
     \E refused \in Refusals(o) :
       LET s == acknowledge(Forwarded(tcp, o, refused),
                            o.k > 0 \/ o.part > 0, room, ok)
           k == IF o.k > 0 THEN ErrorRead ELSE ksock
       IN  /\ o.part > 0 => ksock = "connected"
           /\ IF Reads(s) THEN Receive(s, k)
              ELSE tcp' = s /\ ksock' = k /\ UNCHANGED registered

\* The event of a socket closed before finds no room to send or to receive
\* (get_receive_buffer), and a state in which nothing is read.
SocketGone ==
  /\ SocketEvent /\ "ERR" \notin batch /\ tcp.state # "LISTEN" /\ ~tcp.open
  /\ tcp' = [tcp EXCEPT !.recv_open = FALSE]
  /\ UNCHANGED kernel

CheckTcpSocket ==
  SocketError \/ SocketConnected \/ SocketReply \/ SocketRelay \/ SocketGone

-----------------------------------------------------------------------------
\* The kernel connects the socket, or the connection fails; time passes.

Connects ==
  /\ ksock = "connecting" /\ ksock' = "connected"
  /\ UNCHANGED <<tcp, registered, phase, batch>>

Fails ==
  /\ ksock \in {"connecting", "connected"} /\ ksock' = "failed"
  /\ UNCHANGED <<tcp, registered, phase, batch>>

\* The timeout passes.  That of a closed session, TCP_KEEP_TIMEOUT, is longer
\* than a resolver lives: 300 seconds against 2.
Expires ==
  /\ tcp.state # "NONE" /\ ~tcp.expired
  /\ tcp.state = "CLOSE" => ~registered
  /\ tcp' = [tcp EXCEPT !.expired = TRUE]
  /\ UNCHANGED <<kernel, phase, batch>>

\* The resolver that holds a closed socket ends, with an answer or without.  (While
\* a batch is handled it shows after it, at the next epoll_wait.)
ResolverExits ==
  /\ registered /\ ~tcp.open /\ batch = {}
  /\ registered' = FALSE
  /\ UNCHANGED <<tcp, ksock, phase, batch>>

Environment == Connects \/ Fails \/ Expires \/ ResolverExits

Loop == Monitor \/ Check \/ SkipCheck \/ EpollWait \/ CheckTcpSocket \/ EndDispatch

Next == Loop \/ HandleTcp \/ Environment

Spec == Init /\ [][Next]_vars

-----------------------------------------------------------------------------
\* Safety.  Positions in the app's and in the server's stream:
RemoteOffset(seq) == Sub(seq, tcp.remote_start)
LocalOffset(seq) == Sub(seq, tcp.local_start)

\* The app's SYN was answered and the session is not closing.
Answered == tcp.state \in {"SYN_RECV", "ESTABLISHED", "CLOSE_WAIT",
                           "FIN_WAIT1", "LAST_ACK"}

(***************************************************************************)
(* The socket is closed exactly once and never used again: it is open in   *)
(* the states that relay data, closed in those that follow the server's    *)
(* end of file and in CLOSE, so a session is never freed with its          *)
(* descriptor open.  An event of the batch reaches a session that is in    *)
(* the list, whatever packets came first, never to one that was freed; its *)
(* socket is open unless a resolver process holds a copy, for which epoll  *)
(* goes on reporting the session after close().                            *)
(***************************************************************************)
SocketLifetime ==
  /\ tcp.open <=> ksock # "none"
  /\ tcp.open => tcp.state \in {"LISTEN", "SYN_RECV", "ESTABLISHED",
                                "CLOSE_WAIT", "CLOSING"}
  /\ ~tcp.open => tcp.state \in {"NONE", "FIN_WAIT1", "LAST_ACK",
                                 "CLOSING", "CLOSE"}
  /\ batch # {} => tcp.state # "NONE" /\ (tcp.open \/ registered)

(***************************************************************************)
(* Each side's FIN takes one sequence number.  The app's FIN is confirmed  *)
(* once, either when it arrives or when the last byte queued before it has *)
(* been forwarded ("confirm FIN"), never before; the engine's FIN is sent  *)
(* once, and only when everything the app sent has been forwarded.         *)
(***************************************************************************)
FinCountedOnce ==
  /\ tcp.hist.fin <= 1 /\ tcp.hist.finack <= 1
  /\ tcp.state \in {"LISTEN", "SYN_RECV", "ESTABLISHED", "FIN_WAIT1"}
       => tcp.hist.fin = 0
  /\ tcp.state = "CLOSE_WAIT" => (tcp.hist.fin = 1 <=> tcp.forward = <<>>)
  /\ tcp.state = "LAST_ACK" => tcp.hist.fin = 1
  /\ tcp.state \in {"FIN_WAIT1", "LAST_ACK"}
       => tcp.hist.finack = 1 /\ tcp.forward = <<>>

(***************************************************************************)
(* remote_seq and local_seq tell how much of each stream has been relayed, *)
(* modulo 2^32: every byte the server sent and every byte counted as sent  *)
(* to it, the SYNs and the FINs, in any order of packets, events and write *)
(* errors.                                                                 *)
(* (On port 443 the SYN-ACK may be missing.)                                *)
(***************************************************************************)
Accounting ==
  Answered =>
    /\ RemoteOffset(tcp.remote_seq)
         = (tcp.hist.syn + tcp.hist.up + tcp.hist.fin) % Modulus
    /\ LocalOffset(tcp.local_seq)
         = (tcp.hist.synack + tcp.hist.down + tcp.hist.finack) % Modulus
    /\ tcp.dest # "https" => tcp.hist.syn = 1 /\ tcp.hist.synack = 1

(***************************************************************************)
(* Once the session is established, the acknowledgements recorded never    *)
(* pass the bytes sent: get_send_window would take the in-flight bytes for *)
(* the raw sequence number otherwise.                                      *)
(***************************************************************************)
AckedIsSent ==
  tcp.state \in {"ESTABLISHED", "CLOSE_WAIT", "FIN_WAIT1", "LAST_ACK"} =>
    LocalOffset(tcp.acked) <= LocalOffset(tcp.local_seq)

(***************************************************************************)
(* Segments that arrive in any order wait in the order of the stream, and  *)
(* only the first is ever partly sent; the rest of it starts at the next   *)
(* byte the server expects.                                                *)
(***************************************************************************)
QueueInOrder ==
  LET q == tcp.forward
  IN  /\ \A i, j \in 1 .. Len(q) :
           i < j => RemoteOffset(q[i].seq) < RemoteOffset(q[j].seq)
      /\ \A i \in 1 .. Len(q) :
           q[i].sent > 0 =>
             /\ i = 1 /\ q[i].sent < q[i].len
             /\ Answered => Add(q[i].seq, q[i].sent) = tcp.remote_seq

(***************************************************************************)
(* On port 443 nothing of the app's stream reaches the proxy, and nothing  *)
(* of the proxy's the app, before the proxy has answered the CONNECT.      *)
(***************************************************************************)
TunnelFirst ==
  tcp.dest = "https" /\ tcp.connect_sent # "ESTABLISHED" /\ ~tcp.hist.lost
    => tcp.hist.up = 0 /\ tcp.hist.down = 0

(***************************************************************************)
(* Data relayed to the app fits in the window it last advertised, counting *)
(* all that is unacknowledged.                                             *)
(***************************************************************************)
WindowRespected ==
  [][ tcp'.hist.down > tcp.hist.down /\ tcp'.state # "CLOSING"
        => Sub(tcp'.local_seq, tcp'.acked) <= tcp'.send_window ]_vars

(***************************************************************************)
(* A session in CLOSE stays there until it is removed, whatever packets    *)
(* still come; outside port 443 one in CLOSING only goes to CLOSE.         *)
(***************************************************************************)
ClosedIsFinal ==
  [][ /\ tcp.state = "CLOSE" => tcp'.state \in {"CLOSE", "NONE"}
      /\ tcp.state = "CLOSING" /\ tcp.dest # "https"
           => tcp'.state \in {"CLOSING", "CLOSE"} ]_vars

\* The session as the list of sessions sees it.
LifeState ==
  CASE tcp.state = "NONE" -> "NONE"
    [] tcp.state = "CLOSING" -> "FINISHING"
    [] tcp.state = "CLOSE" -> "CLOSED"
    [] OTHER -> "ACTIVE"

Life == INSTANCE SessionLife WITH state <- LifeState, socket <- tcp.open

(***************************************************************************)
(* Through all of TCP a session lives as SessionLife says, which is what   *)
(* Sessions takes a TCP session for: it closes its descriptor once, is     *)
(* closed for good after it was closing, and comes back from closing only  *)
(* on port 443 and while its descriptor is open.                           *)
(***************************************************************************)
LifeSpec == Life!Spec

-----------------------------------------------------------------------------
\* Liveness.

\* The loop's thread keeps running: epoll_wait always times out, the tun device
\* runs dry, and a check is skipped only within EPOLL_MIN_CHECK ms of the one
\* before.  Timeouts pass, connect() succeeds or fails in the end, and epoll
\* is level-triggered: a socket with room is reported writable when asked.
\* The room monitor_tcp_session found is still there when the event is
\* handled, for nothing but the engine's own sends takes it.
Fairness ==
  /\ WF_vars(Monitor) /\ SF_vars(Check) /\ WF_vars(EpollWait)
  /\ WF_vars(CheckTcpSocket) /\ WF_vars(EndDispatch)
  /\ WF_vars(Expires) /\ SF_vars(ResolverExits)
  /\ WF_vars(ksock = "connecting" /\ (Connects \/ Fails))
  /\ SF_vars(Monitor /\ "OUT" \in tcp'.mask)
  /\ SF_vars(EpollWait /\ "OUT" \in batch')
  /\ SF_vars(SocketRelay /\ tcp'.hist.up > tcp.hist.up)

FairSpec == Spec /\ Fairness

(***************************************************************************)
(* A socket whose connection failed is closed, whatever the state of its   *)
(* session when the failure comes.  The one exception: check_tcp_socket    *)
(* takes a failed send for a complete one, which eats the error, and then  *)
(* only recv, and so only an open window of the app, brings the end of     *)
(* file to light.                                                          *)
(***************************************************************************)
FailedSocketClosed ==
  ksock = "failed" ~>
    ksock = "none" \/ (ksock = "reset" /\ get_send_window(tcp) = 0)

(***************************************************************************)
(* A session stays neither in LISTEN, even if the app repeats its SYN,     *)
(* which restarts the timeout, nor, once closed, in the list, even if      *)
(* packets for it keep coming.                                             *)
(***************************************************************************)
SessionMoves ==
  /\ tcp.state = "LISTEN" ~> tcp.state # "LISTEN"
  /\ tcp.state = "CLOSE" ~> tcp.state = "NONE"

\* The segment at the head of the queue can go out.
Forwardable ==
  /\ tcp.state \in {"ESTABLISHED", "CLOSE_WAIT"}
  /\ CanForward(tcp, 1, MaxBuffer)

(***************************************************************************)
(* No lost wake-up: when the segment at the head of the queue can go out,  *)
(* it does, or the session ends, also while the app's window is closed.    *)
(***************************************************************************)
HeadForwarded == Forwardable ~> ~Forwardable
=============================================================================
