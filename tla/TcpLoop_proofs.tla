--------------------------- MODULE TcpLoop_proofs ---------------------------
(***************************************************************************)
(* Proofs about TcpLoop for every value of its constants: the type         *)
(* invariant, SocketLifetime, FinCountedOnce, ClosedIsFinal, the           *)
(* refinement of SessionLife, TunnelFirst, Accounting, AckedIsSent and     *)
(* WindowRespected; and QueueInOrder of each session whose stream does not *)
(* straddle the int boundary.                                              *)
(*                                                                         *)
(* None of them is inductive by itself.  FinInv adds what the first ones   *)
(* rest on: events wait only while a batch is being handled; the engine's  *)
(* own FIN is unsent in every state that can still send it; a session      *)
(* whose CONNECT is unanswered has not met a FIN, so that the CONNECT,     *)
(* which moves the session back to LISTEN, cannot make one count twice;    *)
(* an empty slot keeps nothing of the session before; and a session whose  *)
(* closed socket a resolver process keeps registered is not yet due for    *)
(* removal (Linked).  Moves says where a step can take a session from a    *)
(* state of FinInv, which is what ClosedIsFinal and the refinement need.   *)
(*                                                                         *)
(* TunnelFirst rests on WaitsRight, about the events that wait while a     *)
(* CONNECT is unanswered: an event raised before the session left LISTEN   *)
(* can still be handled after it, and must find nothing to relay.          *)
(*                                                                         *)
(* CountStep says what a step can do to the sequence numbers and to the    *)
(* counts of what they stand for.  Accounting is inductive once the counts *)
(* are known in every state a CONNECT can bring back (AccountInv).  The    *)
(* acknowledgements and the window need that the SYN-ACK is counted once   *)
(* (OnceInv), and streams short enough for positions to be unambiguous     *)
(* (HalfStreams); what compare_u32 gets wrong is proved to do no harm to   *)
(* the acknowledgements, and none to the window as long as what is in      *)
(* flight is at most a quarter of the numbers (QuarterInFlight).           *)
(*                                                                         *)
(* The queue stays in order (QueueInv) because nothing is partly sent      *)
(* while the SYN-ACK or the answer to the CONNECT is awaited, and because  *)
(* what compare_u32 finds at or after remote_seq never lies before a       *)
(* partly sent segment, in a stream that does not straddle the int         *)
(* boundary (StraightStream).                                              *)
(***************************************************************************)
EXTENDS TcpLoop, Tcp_proofs

EarlyConnect ==
  Connecting(tcp) =>
    /\ tcp.state \in {"LISTEN", "SYN_RECV", "CLOSING", "CLOSE"}
    /\ tcp.hist.fin = 0 /\ tcp.hist.finack = 0

Lives ==
  /\ SocketLifetime
  /\ FinCountedOnce
  /\ EarlyConnect
  /\ phase # "dispatch" => batch = {}
  /\ tcp.state \in {"LISTEN", "SYN_RECV", "ESTABLISHED", "CLOSE_WAIT"}
       => tcp.hist.finack = 0
  /\ tcp.state = "NONE" => tcp = NoSession

\* A session whose closed socket epoll still reports is not due for removal.
Linked ==
  registered => tcp.state # "NONE" /\ ~(tcp.state = "CLOSE" /\ tcp.expired)

FinInv == Lives /\ Linked

\* Where a session can go: it is opened, moves on while active and never opens
\* its socket again, finishes, resumes (port 443 only), is closed and removed.
\* A CONNECT that was answered stays answered.
ActiveStates == {"LISTEN", "SYN_RECV", "ESTABLISHED", "CLOSE_WAIT", "FIN_WAIT1", "LAST_ACK"}

Moves ==
  /\ \/ tcp'.state = tcp.state /\ tcp'.open = tcp.open
     \/ tcp.state = "NONE" /\ tcp'.state = "LISTEN" /\ tcp'.open
     \/ /\ tcp.state \in ActiveStates /\ tcp'.state \in ActiveStates \cup {"CLOSING"}
        /\ tcp'.open => tcp.open
     \/ /\ tcp.state = "CLOSING" /\ Connecting(tcp) /\ tcp.open
        /\ tcp'.state = "LISTEN" /\ tcp'.open
     \/ /\ tcp.state \in ActiveStates \cup {"CLOSING"} /\ tcp'.state = "CLOSE"
        /\ ~tcp'.open /\ tcp'.expired = FALSE
     \/ tcp.state = "CLOSE" /\ tcp.expired /\ tcp'.state = "NONE" /\ ~tcp'.open
  /\ tcp.state # "NONE" /\ ~Connecting(tcp) => ~Connecting(tcp')

-----------------------------------------------------------------------------
\* Types.

\* The record of an empty slot is a session.
LEMMA NoSessionType ==
  /\ NoSession \in Session /\ NoSession.state = "NONE" /\ NoSession.open = FALSE
  /\ NoSession.dest = "other" /\ NoSession.expired = FALSE
  /\ NoSession.hist.fin = 0 /\ NoSession.hist.finack = 0
<1>1. 0 \in SeqNums  BY ModulusAssumption, SMT DEF SeqNums
<1>2. NoHistory \in History /\ NoHistory.fin = 0 /\ NoHistory.finack = 0
  BY SMT DEF NoHistory, History
<1>3. <<>> \in Seq(Segment)  BY SMT
<1> QED
  BY <1>1, <1>2, <1>3, SMT DEF NoSession, Session, SendWindows, States, Dests

\* The socket stays open: nothing happens to it, or its error is read.
Kept(k) == k \in {ksock, ErrorRead}

\* A socket that stays open is what it was for SocketLifetime.
LEMMA KeptOpen ==
  ASSUME TypeOK, NEW k, Kept(k)
  PROVE  /\ k \in {"none", "connecting", "connected", "failed", "reset"}
         /\ k = "none" <=> ksock = "none"
BY SMT DEF Kept, ErrorRead, TypeOK

\* The outcomes of writes are Booleans.
LEMMA OutcomeTypes ==
  /\ \A ok \in TunWrites : ok \in BOOLEAN
  /\ \A o : \A refused \in Refusals(o) : refused \in BOOLEAN
<1>1. {TRUE} \subseteq BOOLEAN /\ {FALSE} \subseteq BOOLEAN  BY Zenon
<1> QED  BY <1>1, Zenon DEF TunWrites, Refusals

\* The packets the app may send are packets.
LEMMA PacketsType ==
  ASSUME TypeOK
  PROVE  Packets \subseteq Packet
<1>1. /\ tcp.remote_start \in SeqNums /\ tcp.local_start \in SeqNums
      /\ 0 \in SeqNums
  BY SessionFields, ModulusAssumption, SMT DEF TypeOK, SeqNums
<1> DEFINE seqs == { Add(tcp.remote_start, d) : d \in 0 .. MaxUp + 1 }
           acks == { Add(tcp.local_start, d) : d \in 0 .. MaxDown + 3 }
<1>2. seqs \subseteq SeqNums /\ acks \subseteq SeqNums
  BY <1>1, AddSubType, ConstantsAssumption, SMT
<1>3. 0 .. MaxUp \subseteq Nat /\ 0 \in Nat
  BY ConstantsAssumption, SMT
<1> HIDE DEF seqs, acks
<1>4. [flags : {{"SYN"}, {"RST"}}, seq : {tcp.remote_start}, ack_seq : {0},
       len : {0}, window : Windows] \subseteq Packet
  <2>1. {{"SYN"}, {"RST"}} \subseteq SUBSET Flags  BY SMT DEF Flags
  <2>2. {tcp.remote_start} \subseteq SeqNums /\ {0} \subseteq SeqNums /\ {0} \subseteq Nat
    BY <1>1, <1>3, Zenon
  <2> QED  BY <1>3, <2>1, <2>2, Zenon DEF Packet
<1>5. [flags : {{"ACK"}, {"ACK", "FIN"}}, seq : seqs, ack_seq : acks,
       len : 0 .. MaxUp, window : Windows] \subseteq Packet
  <2>1. {{"ACK"}, {"ACK", "FIN"}} \subseteq SUBSET Flags  BY SMT DEF Flags
  <2> QED  BY <1>2, <1>3, <2>1, Zenon DEF Packet
<1> QED  BY <1>4, <1>5, Zenon DEF Packets, seqs, acks

\* The events a session waits for are IN and OUT.
LEMMA EventsType ==
  ASSUME NEW s \in Session, NEW room \in BOOLEAN
  PROVE  Events(s, room) \in SUBSET {"IN", "OUT"}
BY SMT DEF Events

\* What the forwarding loop may do is an outcome for the session.
LEMMA SendsType ==
  ASSUME TypeOK, NEW o \in Sends
  PROVE  OutcomeOf(o, tcp)
<1>1. tcp \in Session /\ 0 .. MaxBuffer \subseteq Nat
  BY ConstantsAssumption, SMT DEF TypeOK
<1>2. CASE "OUT" \in batch
  <2>1. PICK size \in 0 .. MaxBuffer : o \in ForwardOutcomes(tcp, size)
    BY <1>2, Zenon DEF Sends
  <2> QED  BY <1>1, <2>1, OutcomesType
<1>3. CASE "OUT" \notin batch
  <2>1. o = [k |-> 0, part |-> 0]  BY <1>3, Zenon DEF Sends
  <2>2. Len(tcp.forward) \in Nat  BY <1>1, SessionFields, SMT
  <2> QED  BY <2>1, <2>2, SMT DEF OutcomeOf
<1> QED  BY <1>2, <1>3

\* The session after the forwarding loop and the acknowledgement.
LEMMA RelayedType ==
  ASSUME TypeOK, NEW o \in Sends, NEW room \in BOOLEAN, NEW ok \in TunWrites,
         NEW refused \in Refusals(o)
  PROVE  LET t == Forwarded(tcp, o, refused)
             fwd == o.k > 0 \/ o.part > 0
         IN  /\ t \in Session /\ fwd \in BOOLEAN /\ ok \in BOOLEAN
             /\ acknowledge(t, fwd, room, ok) \in Session
<1>1. refused \in BOOLEAN  BY OutcomeTypes, Zenon
<1>2. ok \in BOOLEAN  BY OutcomeTypes, Zenon
<1>3. OutcomeOf(o, tcp) /\ tcp \in Session  BY SendsType DEF TypeOK
<1>4. Forwarded(tcp, o, refused) \in Session  BY <1>1, <1>3, ForwardedType
<1> DEFINE fwd == o.k > 0 \/ o.part > 0
<1>5. fwd \in BOOLEAN  BY Zenon
<1> HIDE DEF fwd
<1>6. acknowledge(Forwarded(tcp, o, refused), fwd, room, ok) \in Session
  BY <1>2, <1>4, <1>5, AcknowledgeType
<1> QED  BY <1>2, <1>4, <1>5, <1>6, Zenon DEF fwd

\* What epoll may report, by the state of the socket.
LEMMA ReportedIs ==
  ASSUME TypeOK
  PROVE  /\ ksock = "failed" => Reported = {{"ERR"}}
         /\ ksock = "reset" => Reported = {tcp.mask \cup {"HUP"}}
         /\ ksock = "connected" => Reported = SUBSET tcp.mask
         /\ ksock = "connecting" => Reported = {{}}
         /\ ksock = "none" => Reported = (SUBSET tcp.mask) \cup {{"ERR"}, tcp.mask \cup {"HUP"}}
<1>1. CASE ksock = "failed"  BY <1>1, SMT DEF Reported
<1>2. CASE ksock = "reset"  BY <1>2, SMT DEF Reported
<1>3. CASE ksock = "connected"  BY <1>3, SMT DEF Reported
<1>4. CASE ksock = "connecting"  BY <1>4, SMT DEF Reported
<1>5. CASE ksock = "none"  BY <1>5, SMT DEF Reported
<1> QED  BY <1>1, <1>2, <1>3, <1>4, <1>5, Zenon DEF TypeOK

\* Events are events, and only those waited for are reported of data and room.
LEMMA ReportedType ==
  ASSUME TypeOK, NEW b \in Reported
  PROVE  /\ b \subseteq {"IN", "OUT", "ERR", "HUP"}
         /\ "OUT" \in b => "OUT" \in tcp.mask
<1>1. tcp.mask \subseteq {"IN", "OUT"}  BY SessionFields DEF TypeOK
<1> DEFINE m == tcp.mask
<1> HIDE DEF m
<1>2. ASSUME b \subseteq m \cup {"ERR", "HUP"}
      PROVE  b \subseteq {"IN", "OUT", "ERR", "HUP"} /\ ("OUT" \in b => "OUT" \in tcp.mask)
  <2>1. "OUT" \notin {"ERR", "HUP"}  BY SMT
  <2>2. "OUT" \in b => "OUT" \in m  BY <1>2, <2>1, Zenon
  <2> QED  BY <1>1, <1>2, <2>2, Zenon DEF m
<1>3. CASE ksock = "failed"
  <2>1. b = {"ERR"}  BY <1>3, ReportedIs
  <2> QED  BY <1>2, <2>1, Zenon
<1>4. CASE ksock = "reset"
  <2>1. b = m \cup {"HUP"}  BY <1>4, ReportedIs DEF m
  <2> QED  BY <1>2, <2>1, Zenon
<1>5. CASE ksock = "connected"
  <2>1. b \subseteq m  BY <1>5, ReportedIs DEF m
  <2> QED  BY <1>2, <2>1, Zenon
<1>6. CASE ksock = "connecting"
  <2>1. b = {}  BY <1>6, ReportedIs
  <2> QED  BY <1>2, <2>1, Zenon
<1>7. CASE ksock = "none"
  <2>1. b = {"ERR"} \/ b = m \cup {"HUP"} \/ b \subseteq m  BY <1>7, ReportedIs DEF m
  <2> QED  BY <1>2, <2>1, Zenon
<1> QED  BY <1>3, <1>4, <1>5, <1>6, <1>7, Zenon DEF TypeOK

\* What close() leaves of the socket.
LEMMA ClosedTypes ==
  ASSUME TypeOK, CloseSocket
  PROVE  ksock' = "none" /\ registered' \in BOOLEAN
BY Zenon DEF CloseSocket, TypeOK

\* The event of a closed socket changes nothing but the room it is found to have.
LEMMA GoneEffect ==
  ASSUME TypeOK, SocketGone
  PROVE  /\ tcp' \in Session /\ Same(tcp', tcp) /\ SameFlow(tcp', tcp)
         /\ tcp'.state = tcp.state /\ tcp'.hist = tcp.hist
         /\ tcp'.expired = tcp.expired
         /\ tcp'.acked = tcp.acked /\ tcp'.send_window = tcp.send_window
         /\ tcp'.local_seq = tcp.local_seq /\ tcp'.local_start = tcp.local_start
         /\ tcp'.remote_seq = tcp.remote_seq /\ tcp'.remote_start = tcp.remote_start
         /\ ksock' = ksock /\ registered' = registered
         /\ batch # {} /\ batch' = {} /\ phase = "dispatch" /\ phase' = phase
         /\ ~tcp.open /\ tcp.state # "LISTEN"
<1>1. tcp \in Session /\ tcp' = [tcp EXCEPT !.recv_open = FALSE]
  BY Zenon DEF TypeOK, SocketGone
<1>2. tcp' \in Session  BY <1>1, Zenon DEF Session
<1>3. /\ Same(tcp', tcp) /\ SameFlow(tcp', tcp)
      /\ tcp'.state = tcp.state /\ tcp'.hist = tcp.hist
      /\ tcp'.expired = tcp.expired
      /\ tcp'.acked = tcp.acked /\ tcp'.send_window = tcp.send_window
      /\ tcp'.local_seq = tcp.local_seq /\ tcp'.local_start = tcp.local_start
      /\ tcp'.remote_seq = tcp.remote_seq /\ tcp'.remote_start = tcp.remote_start
  BY <1>1, Zenon DEF Same, SameFlow, Session
<1> QED  BY <1>2, <1>3, Zenon DEF SocketGone, SocketEvent, kernel

\* Each of the loop's steps keeps the types.
LEMMA LoopType ==
  ASSUME TypeOK, Loop
  PROVE  TypeOK'
<1> USE DEF TypeOK
<1>1. CASE Monitor
  <2>1. tcp' \in Session /\ UNCHANGED kernel
    <3>1. CASE MonitorTcpSession
      <4>1. PICK ok \in TunWrites, written \in BOOLEAN, room \in BOOLEAN :
              LET events == Events(tcp, room)
                  probe == /\ tcp.state \in {"ESTABLISHED", "CLOSE_WAIT"}
                           /\ get_send_window(tcp) = 0
                           /\ written
                  t == IF probe THEN write_ack(tcp, ok) ELSE tcp
              IN  tcp' = [t EXCEPT !.mask = events,
                                   !.state = IF events # tcp.mask /\ ~registered
                                             THEN "CLOSING" ELSE @]
        BY <3>1, Zenon DEF MonitorTcpSession
      <4> DEFINE events == Events(tcp, room)
                 probe == /\ tcp.state \in {"ESTABLISHED", "CLOSE_WAIT"}
                          /\ get_send_window(tcp) = 0
                          /\ written
                 t == IF probe THEN write_ack(tcp, ok) ELSE tcp
                 v == IF events # tcp.mask /\ ~registered THEN "CLOSING" ELSE t.state
      <4>2. ok \in BOOLEAN  BY OutcomeTypes, Zenon
      <4>3. events \in SUBSET {"IN", "OUT"}  BY EventsType
      <4>4. t \in Session  BY <4>2, WriteType, Zenon
      <4>5. tcp' = [t EXCEPT !.mask = events, !.state = v]  BY <4>1, Zenon
      <4> HIDE DEF t, events
      <4>6. v \in States  BY <4>4, SessionFields, SMT DEF States
      <4> HIDE DEF v
      <4>7. tcp' \in Session  BY <4>3, <4>4, <4>5, <4>6, MaskEffect, Zenon
      <4> QED  BY <1>1, <4>7, Zenon DEF Monitor
    <3>2. CASE UNCHANGED tcp  BY <1>1, <3>2, Zenon DEF Monitor
    <3> QED  BY <1>1, <3>1, <3>2, Zenon DEF Monitor
  <2> QED  BY <1>1, <2>1, Zenon DEF Monitor, kernel
<1>2. CASE Check
  <2>1. close_closing(time_out(tcp)) \in Session  BY CheckType
  <2>2. tcp' \in Session
    BY <1>2, <2>1, NoSessionType, Zenon DEF Check, CheckTcpSession
  <2>3. ksock' \in {ksock, "none"} /\ registered' \in BOOLEAN
    BY <1>2, ClosedTypes, Zenon DEF Check, CheckTcpSession, kernel
  <2> QED  BY <1>2, <2>2, <2>3, Zenon DEF Check
<1>3. CASE SkipCheck  BY <1>3, Zenon DEF SkipCheck, kernel
<1>4. CASE EpollWait
  <2>1. batch' \subseteq {"IN", "OUT", "ERR", "HUP"}
    <3>2. CASE ~registered  BY <1>4, <3>2, SMT DEF EpollWait
    <3>3. CASE registered
      <4>1. batch' \in Reported  BY <1>4, <3>3, Zenon DEF EpollWait
      <4> QED  BY <4>1, ReportedType, Zenon
    <3> QED  BY <3>2, <3>3
  <2> QED  BY <1>4, <2>1, Zenon DEF EpollWait, kernel
<1>5. CASE CheckTcpSocket
  <2>1. /\ tcp' \in Session /\ (Kept(ksock') \/ ksock' = "none")
        /\ registered' \in BOOLEAN
    <3>1. CASE SocketError
      BY <3>1, WriteType, ExpiredEffect, Zenon DEF SocketError, Kept
    <3>2. CASE SocketConnected
      BY <3>2, ConnectedType, OutcomeTypes, Zenon DEF SocketConnected, Kept, kernel
    <3>3. CASE SocketReply
      BY <3>3, WriteType, ConnectedType, Zenon DEF SocketReply, Kept
    <3>4. CASE SocketRelay
      <4>o. PICK o \in Sends, room \in BOOLEAN, ok \in TunWrites :
            \E refused \in Refusals(o) :
              LET s == acknowledge(Forwarded(tcp, o, refused),
                                   o.k > 0 \/ o.part > 0, room, ok)
                  k == IF o.k > 0 THEN ErrorRead ELSE ksock
              IN  /\ o.part > 0 => ksock = "connected"
                  /\ IF Reads(s) THEN Receive(s, k)
                     ELSE tcp' = s /\ ksock' = k /\ UNCHANGED registered
        BY <3>4, Zenon DEF SocketRelay
      <4>1. PICK refused \in Refusals(o) :
              LET s == acknowledge(Forwarded(tcp, o, refused),
                                   o.k > 0 \/ o.part > 0, room, ok)
                  k == IF o.k > 0 THEN ErrorRead ELSE ksock
              IN  /\ o.part > 0 => ksock = "connected"
                  /\ IF Reads(s) THEN Receive(s, k)
                     ELSE tcp' = s /\ ksock' = k /\ UNCHANGED registered
        BY <4>o, Zenon
      <4> DEFINE s == acknowledge(Forwarded(tcp, o, refused),
                                  o.k > 0 \/ o.part > 0, room, ok)
                 k == IF o.k > 0 THEN ErrorRead ELSE ksock
      <4>2. s \in Session /\ Kept(k)  BY RelayedType, Zenon DEF Kept
      <4>3. IF Reads(s) THEN Receive(s, k)
            ELSE tcp' = s /\ ksock' = k /\ UNCHANGED registered
        BY <4>1
      <4> HIDE DEF s, k
      <4>4. ASSUME Reads(s), Receive(s, k)
            PROVE  /\ tcp' \in Session /\ (Kept(ksock') \/ ksock' = "none")
                   /\ registered' \in BOOLEAN
        <5>r. registered' \in BOOLEAN  BY <4>4, ClosedTypes, Zenon DEF Receive
        <5>1. CASE ksock' = ErrorRead /\ tcp' = [write_rst(s) EXCEPT !.expired = FALSE]
          BY <4>2, <5>1, <5>r, WriteType, ExpiredEffect, Zenon DEF Kept
        <5>2. CASE ksock' = k /\ tcp' = [s EXCEPT !.expired = FALSE]
          BY <4>2, <5>2, <5>r, ExpiredEffect, Zenon
        <5>3. CASE ksock' = "none" /\ \E b \in TunWrites : tcp' = receive_eof(s, b)
          BY <4>2, <4>4, <5>3, <5>r, ReceiveEofType, OutcomeTypes, Zenon DEF Reads
        <5>4. CASE ksock' = k /\ \E n \in 1 .. MaxDown, b \in TunWrites :
                                    tcp' = receive_data(s, n, b)
          <6>1. 1 .. MaxDown \subseteq Nat  BY ConstantsAssumption, SMT
          <6> QED  BY <4>2, <5>4, <5>r, <6>1, OutcomeTypes, ReceiveType, Zenon
        <5> QED  BY <4>4, <5>1, <5>2, <5>3, <5>4, Zenon DEF Receive, CloseSocket
      <4> QED  BY <4>2, <4>3, <4>4, Zenon
    <3>5. CASE SocketGone  BY <3>5, GoneEffect, Zenon DEF Kept
    <3> QED  BY <1>5, <3>1, <3>2, <3>3, <3>4, <3>5, Zenon DEF CheckTcpSocket
  <2>2. phase' = phase /\ batch' = {}
    BY <1>5, Zenon DEF CheckTcpSocket, SocketError, SocketConnected, SocketReply,
                       SocketRelay, SocketGone, SocketEvent
  <2>3. ksock' \in {"none", "connecting", "connected", "failed", "reset"}
    BY <2>1, KeptOpen, Zenon
  <2> QED  BY <2>1, <2>2, <2>3, SMT
<1>6. CASE EndDispatch  BY <1>6, Zenon DEF EndDispatch, kernel
<1> QED  BY <1>1, <1>2, <1>3, <1>4, <1>5, <1>6, Zenon DEF Loop

\* A packet opens a session or is handled by the session there is.
LEMMA HandleTcpType ==
  ASSUME TypeOK, HandleTcp
  PROVE  TypeOK'
<1> USE DEF TypeOK
<1>1. CASE NewSyn
  <2>1. PICK seq \in RemoteISNs, len \in 0 .. MaxUp, window \in Windows,
             dest \in Ports, isn \in LocalISNs, room \in BOOLEAN :
          tcp' = NewSession([flags |-> {"SYN"}, seq |-> seq, ack_seq |-> 0,
                             len |-> len, window |-> window], dest, isn, room)
    BY <1>1, Zenon DEF NewSyn
  <2> DEFINE pkt == [flags |-> {"SYN"}, seq |-> seq, ack_seq |-> 0,
                     len |-> len, window |-> window]
  <2>2. {"SYN"} \in SUBSET Flags  BY SMT DEF Flags
  <2>3. seq \in SeqNums /\ 0 \in SeqNums /\ len \in Nat /\ window \in Windows
    BY ConstantsAssumption, ModulusAssumption, SMT DEF SeqNums
  <2>4. pkt \in Packet  BY <2>2, <2>3, Zenon DEF Packet
  <2> HIDE DEF pkt
  <2>5. dest \in Dests /\ isn \in SeqNums  BY ConstantsAssumption, Zenon
  <2>6. tcp' \in Session  BY <2>1, <2>4, <2>5, NewSessionType, Zenon DEF pkt
  <2> QED  BY <1>1, <2>6, Zenon DEF NewSyn
<1>2. CASE HandlePacket
  <2>1. PICK pkt \in Packets, i \in 1 .. Len(tcp.forward) + 1 : HandlesPacket(pkt, i)
    BY <1>2, Zenon DEF HandlePacket
  <2>2. pkt \in Packet  BY PacketsType, Zenon
  <2>3. Taken(tcp, pkt, i) \in Session  BY <2>2, QueueType
  <2>4. tcp' \in Session
    <3>1. CASE HandleConnecting(pkt, i)
      <4> DEFINE s == IF tcp.connect_sent = "SENT" THEN tcp
                      ELSE send_connect(tcp, ksock = "connected")
      <4>1. tcp' = queue_tcp(s, pkt, i)  BY <3>1, Zenon DEF HandleConnecting
      <4>2. (ksock = "connected") \in BOOLEAN  BY Zenon
      <4>3. s \in Session /\ s.forward = tcp.forward
        BY <4>2, WriteType, SendConnectEffect, Zenon
      <4> HIDE DEF s
      <4> QED  BY <2>2, <4>1, <4>3, QueueType, Zenon
    <3>2. CASE HandleClosed
      BY <3>2, WriteType, Zenon DEF HandleClosed
    <3>3. CASE HandleUnwanted(pkt)
      BY <2>2, <3>3, HeardType, WriteType, Zenon DEF HandleUnwanted
    <3>4. CASE HandleRst(pkt, i)
      BY <2>3, <3>4, Zenon DEF HandleRst, Session, States
    <3>5. CASE HandleRepeatedSyn(pkt, i)
      BY <2>3, <3>5, Zenon DEF HandleRepeatedSyn
    <3>6. CASE HandleFin(pkt, i)
      BY <2>3, <3>6, ReceiveFinType, OutcomeTypes, Zenon DEF HandleFin
    <3>7. CASE HandleAck(pkt, i)
      BY <2>2, <2>3, <3>7, ReceiveAckType, Zenon DEF HandleAck
    <3>8. CASE HandleOtherAck(pkt, i)
      BY <2>2, <2>3, <3>8, ReceiveAckType, Zenon DEF HandleOtherAck
    <3> QED
      BY <2>1, <3>1, <3>2, <3>3, <3>4, <3>5, <3>6, <3>7, <3>8, Zenon DEF HandlesPacket
  <2>5. ksock' \in {"none", "connecting", "connected", "failed", "reset"}
    BY <2>1, KeptOpen, Zenon DEF HandlesPacket, Kept
  <2> QED  BY <2>1, <2>4, <2>5, Zenon DEF HandlesPacket
<1> QED  BY <1>1, <1>2 DEF HandleTcp

\* Neither the kernel nor time changes anything else.
LEMMA EnvironmentType ==
  ASSUME TypeOK, Environment
  PROVE  TypeOK'
<1> USE DEF TypeOK
<1>1. CASE Connects  BY <1>1, Zenon DEF Connects
<1>2. CASE Fails  BY <1>2, Zenon DEF Fails
<1>3. CASE Expires  BY <1>3, ExpiredEffect, Zenon DEF Expires, kernel
<1>4. CASE ResolverExits  BY <1>4, Zenon DEF ResolverExits
<1> QED  BY <1>1, <1>2, <1>3, <1>4 DEF Environment

(***************************************************************************)
(* Whatever the sequence numbers' width, the packets, the events and the   *)
(* failed writes, the handlers leave a session record: sequence numbers    *)
(* stay in their width and the queue holds segments.                       *)
(***************************************************************************)
THEOREM TypeCorrect == Spec => []TypeOK
<1>1. Init => TypeOK
  BY NoSessionType, Zenon DEF Init, TypeOK
<1>2. TypeOK /\ [Next]_vars => TypeOK'
  <2>1. TypeOK /\ Next => TypeOK'
    BY LoopType, HandleTcpType, EnvironmentType DEF Next
  <2>2. TypeOK /\ UNCHANGED vars => TypeOK'
    BY Zenon DEF TypeOK, vars, kernel
  <2> QED  BY <2>1, <2>2
<1> QED  BY <1>1, <1>2, PTL DEF Spec

-----------------------------------------------------------------------------
\* The socket and the FINs.

\* A step that changes at most the state, and that only to CLOSING, and the
\* queue only where no FIN is in play.
Quiet ==
  /\ tcp.state # "NONE"
  /\ tcp'.state \in {tcp.state, "CLOSING"} /\ tcp'.open = tcp.open
  /\ tcp.state = "CLOSE" => tcp'.state = "CLOSE"
  /\ tcp'.dest = tcp.dest /\ tcp'.connect_sent = tcp.connect_sent
  /\ tcp'.hist.fin = tcp.hist.fin /\ tcp'.hist.finack = tcp.hist.finack
  /\ tcp.state \in {"CLOSE_WAIT", "FIN_WAIT1", "LAST_ACK"} /\ tcp'.state = tcp.state
       => (tcp'.forward = <<>> <=> tcp.forward = <<>>)
  /\ Kept(ksock') /\ registered' = registered /\ phase' = phase /\ batch' \in {batch, {}}

\* The queue has nothing to do with the timeout.
LEMMA QueueTime ==
  ASSUME NEW s \in Session, NEW pkt, NEW i
  PROVE  queue_tcp(s, pkt, i).expired = s.expired
<1> DEFINE q == Enqueue(s.forward, pkt, i)
<1>1. queue_tcp(s, pkt, i) \in {s, [s EXCEPT !.forward = q]}  BY Zenon DEF queue_tcp
<1> HIDE DEF q
<1>2. [s EXCEPT !.forward = q].expired = s.expired  BY Zenon DEF Session
<1> QED  BY <1>1, <1>2, Zenon

\* What the other handlers do to it.
LEMMA TimeKept ==
  ASSUME NEW s \in Session
  PROVE  /\ write_rst(s).expired = s.expired
         /\ \A pkt : Heard(s, pkt).expired = FALSE
         /\ \A ok : receive_fin(s, ok).expired = s.expired
         /\ s.state = "CLOSING" => close_closing(s).expired = FALSE
<1>1. write_rst(s).expired = s.expired
  <2> DEFINE syn == IF s.state = "LISTEN" THEN 1 ELSE 0
             a == Add(s.remote_seq, syn)
             b == s.hist.syn + syn
             v == IF s.state = "CLOSE" THEN s.state ELSE "CLOSING"
             t == [s EXCEPT !.remote_seq = a, !.hist.syn = b, !.state = v]
  <2>1. write_rst(s) = t  BY Zenon DEF write_rst
  <2> HIDE DEF a, b, v
  <2>2. t.expired = s.expired  BY Zenon DEF Session
  <2> QED  BY <2>1, <2>2
<1>3. ASSUME NEW pkt  PROVE Heard(s, pkt).expired = FALSE
  BY Zenon DEF Heard, Session
<1>4. ASSUME NEW ok  PROVE receive_fin(s, ok).expired = s.expired
  <2> DEFINE a == Add(s.remote_seq, 1)
             b == s.hist.fin + 1
             t == [s EXCEPT !.remote_seq = a, !.hist.fin = b]
  <2>1. CountFin(s) = t  BY Zenon DEF CountFin
  <2>2. ASSUME NEW v  PROVE [s EXCEPT !.state = v].expired = s.expired
    BY Zenon DEF Session
  <2>3. ASSUME NEW v  PROVE [CountFin(s) EXCEPT !.state = v].expired = s.expired
    <3>1. [CountFin(s) EXCEPT !.state = v] = [t EXCEPT !.state = v]  BY <2>1
    <3> HIDE DEF a, b
    <3>2. [t EXCEPT !.state = v].expired = s.expired  BY Zenon DEF Session
    <3> QED  BY <3>1, <3>2
  <2>4. CASE s.state = "ESTABLISHED" /\ s.forward = <<>>
    <3>1. receive_fin(s, ok) =
            [CountFin(s) EXCEPT !.state = IF ok THEN "CLOSE_WAIT" ELSE "CLOSING"]
      BY <2>4, SMT DEF receive_fin
    <3> QED  BY <2>3, <3>1, Zenon
  <2>5. CASE s.state = "ESTABLISHED" /\ s.forward # <<>>
    <3>1. receive_fin(s, ok) = [s EXCEPT !.state = "CLOSE_WAIT"]
      BY <2>5, SMT DEF receive_fin
    <3> QED  BY <2>2, <3>1, Zenon
  <2>6. CASE s.state = "FIN_WAIT1"
    <3>1. receive_fin(s, ok) =
            [CountFin(s) EXCEPT !.state = IF ok THEN "CLOSE" ELSE "CLOSING"]
      BY <2>6, SMT DEF receive_fin
    <3> QED  BY <2>3, <3>1, Zenon
  <2>7. CASE s.state \notin {"ESTABLISHED", "FIN_WAIT1"}
    <3>1. receive_fin(s, ok) = s  BY <2>7, SMT DEF receive_fin
    <3> QED  BY <3>1
  <2> QED  BY <2>4, <2>5, <2>6, <2>7
<1>5. s.state = "CLOSING" => close_closing(s).expired = FALSE
  BY Zenon DEF close_closing, Session
<1> QED  BY <1>1, <1>3, <1>4, <1>5

\* Such a step keeps the invariant.
LEMMA QuietFin ==
  ASSUME TypeOK, Lives, Quiet
  PROVE  Lives' /\ Moves
<1>1. SocketLifetime'
  <2>1. ksock' = "none" <=> ksock = "none"  BY KeptOpen, Zenon DEF Quiet
  <2> QED  BY <2>1, SMT DEF Quiet, Lives, SocketLifetime
<1>2. FinCountedOnce'
  BY SMT DEF Quiet, Lives, FinCountedOnce
<1>3. EarlyConnect'
  BY SMT DEF Quiet, Lives, EarlyConnect, Connecting
<1>4. Moves
  <2>1. tcp.state \in States /\ tcp.open \in BOOLEAN  BY SessionFields, Zenon DEF TypeOK
  <2> QED  BY <2>1, SMT DEF Quiet, Moves, ActiveStates, States, Connecting
<1> QED  BY <1>1, <1>2, <1>3, <1>4, SMT DEF Quiet, Lives

\* Monitoring may close the session, but not its socket.
LEMMA MonitorFin ==
  ASSUME TypeOK, Lives, Monitor
  PROVE  Lives' /\ Moves
<1>1. /\ ksock' = ksock /\ registered' = registered
      /\ batch' = batch /\ phase = "monitor" /\ phase' = "check"
  BY Zenon DEF Monitor, kernel
<1>2. CASE tcp.open /\ MonitorTcpSession
  <2>1. PICK ok \in TunWrites, written \in BOOLEAN, room \in BOOLEAN :
          LET events == Events(tcp, room)
              probe == /\ tcp.state \in {"ESTABLISHED", "CLOSE_WAIT"}
                       /\ get_send_window(tcp) = 0
                       /\ written
              t == IF probe THEN write_ack(tcp, ok) ELSE tcp
          IN  tcp' = [t EXCEPT !.mask = events,
                               !.state = IF events # tcp.mask /\ ~registered
                                         THEN "CLOSING" ELSE @]
    BY <1>2, Zenon DEF MonitorTcpSession
  <2> DEFINE events == Events(tcp, room)
             probe == /\ tcp.state \in {"ESTABLISHED", "CLOSE_WAIT"}
                      /\ get_send_window(tcp) = 0
                      /\ written
             t == IF probe THEN write_ack(tcp, ok) ELSE tcp
             v == IF events # tcp.mask /\ ~registered THEN "CLOSING" ELSE t.state
  <2>2. tcp \in Session /\ ok \in BOOLEAN  BY OutcomeTypes, Zenon DEF TypeOK
  <2>3. events \in SUBSET {"IN", "OUT"}  BY <2>2, EventsType
  <2>4. t \in Session /\ Same(t, tcp) /\ t.state \in {tcp.state, "CLOSING"}
    <3>1. Same(tcp, tcp)  BY Zenon DEF Same
    <3> QED  BY <2>2, <3>1, WriteType, WriteEffect, Zenon
  <2>5. tcp' = [t EXCEPT !.mask = events, !.state = v]  BY <2>1, Zenon
  <2> HIDE DEF t, events
  <2>6. v \in {t.state, "CLOSING"} /\ v \in States
    BY <2>4, SessionFields, SMT DEF States
  <2> HIDE DEF v
  <2> DEFINE u == [t EXCEPT !.mask = events, !.state = v]
  <2>7. Same(u, t) /\ u.state = v
    <3>1. t \in Session /\ v \in States  BY <2>4, <2>6
    <3> QED  BY <2>3, <3>1, MaskEffect
  <2>8. Same(tcp', tcp) /\ tcp'.state \in {tcp.state, "CLOSING"}
    <3> HIDE DEF u
    <3>1. tcp' = u  BY <2>5, Zenon DEF u
    <3> QED  BY <2>4, <2>6, <2>7, <3>1, SMT DEF Same
  <2> QED
    BY <1>1, <1>2, <2>8, SMT
    DEF Moves, ActiveStates, Lives, SocketLifetime, FinCountedOnce, EarlyConnect,
                                 Connecting, Same
<1>3. CASE tcp' = tcp
  BY <1>1, <1>3, SMT
  DEF Moves, ActiveStates, Lives, SocketLifetime, FinCountedOnce, EarlyConnect,
      Connecting
<1> QED  BY <1>2, <1>3, Zenon DEF Monitor

\* The check closes the socket of a closing session and frees closed ones.
LEMMA CheckFin ==
  ASSUME TypeOK, Lives, Check
  PROVE  Lives' /\ Moves
<1> DEFINE s == time_out(tcp)
           t == close_closing(s)
<1>1. tcp \in Session /\ s \in Session  BY CheckType DEF TypeOK
<1>2. /\ batch' = batch /\ phase = "check" /\ phase' = "wait"
      /\ ksock' = IF t.open = tcp.open THEN ksock ELSE "none"
      /\ tcp' = IF tcp.state = "CLOSE" /\ tcp.expired THEN NoSession ELSE t
  BY Zenon DEF Check, CheckTcpSession, CloseSocket, kernel
<1>3. Same(s, tcp) /\ s.state \in {tcp.state, "CLOSING"}  BY <1>1, CheckEffect
<1>4. s.state # "CLOSING" => t = s  BY <1>1, CheckEffect
<1>5. s.state = "CLOSING" =>
        /\ t.open = FALSE /\ t.state = "CLOSE"
        /\ t.forward = s.forward /\ t.dest = s.dest
        /\ t.connect_sent = s.connect_sent /\ t.hist = s.hist
        /\ t.expired = FALSE
  BY <1>1, CheckEffect, TimeKept, Zenon
<1> HIDE DEF s, t
<1>6. CASE tcp.state = "CLOSE" /\ tcp.expired
  <2>1. tcp' = NoSession  BY <1>2, <1>6
  <2>2. batch = {} /\ tcp.open = FALSE
    BY <1>1, <1>2, <1>6, SessionFields, SMT DEF Lives, SocketLifetime
  <2>3. s = tcp  BY <1>6, Zenon DEF s, time_out
  <2>4. ksock' = "none"  BY <1>2, <1>4, <1>6, <2>2, <2>3, SMT DEF Lives, SocketLifetime
  <2> QED
    BY <1>2, <1>6, <2>1, <2>2, <2>4, NoSessionType, SMT
    DEF Moves, Lives, SocketLifetime, FinCountedOnce, EarlyConnect, Connecting
<1>7. CASE ~(tcp.state = "CLOSE" /\ tcp.expired) /\ s.state # "CLOSING"
  <2>1. tcp' = s /\ t = s  BY <1>2, <1>4, <1>7, Zenon
  <2>2. s.state = tcp.state  BY <1>3, <1>7, SMT
  <2>3. ksock' = ksock
    BY <1>2, <1>3, <2>1, SMT DEF Lives, SocketLifetime, Same
  <2>4. Moves  BY <1>3, <2>1, <2>2, Zenon DEF Moves, Connecting, Same
  <2>5. tcp.state = "NONE" => s = tcp
    BY NoSessionType, Zenon DEF Lives, s, time_out
  <2> QED
    BY <1>2, <1>3, <2>1, <2>2, <2>3, <2>4, <2>5, SMT
    DEF Lives, SocketLifetime, FinCountedOnce, EarlyConnect, Connecting, Same
<1>8. CASE ~(tcp.state = "CLOSE" /\ tcp.expired) /\ s.state = "CLOSING"
  <2>1. tcp' = t /\ ksock' = "none"
    BY <1>2, <1>5, <1>8, Zenon DEF Lives, SocketLifetime
  <2>2. batch = {}  BY <1>2, Zenon DEF Lives
  <2>3. Moves
    <3>1. tcp.state \in ActiveStates \cup {"CLOSING"}
      <4>1. tcp.state \in States /\ tcp.expired \in BOOLEAN
        BY <1>1, SessionFields, Zenon
      <4>2. tcp.state \notin {"NONE", "CLOSE"}
        <5>1. ~tcp.expired => s = tcp  BY Zenon DEF s, time_out
        <5>2. tcp.state = "NONE" => ~tcp.expired  BY NoSessionType, Zenon DEF Lives
        <5> QED  BY <1>8, <5>1, <5>2, SMT
      <4> QED  BY <4>1, <4>2, SMT DEF States, ActiveStates
    <3>2. tcp'.state = "CLOSE" /\ tcp'.open = FALSE /\ tcp'.dest = tcp.dest
          /\ tcp'.connect_sent = tcp.connect_sent /\ tcp'.expired = FALSE
      BY <1>3, <1>5, <1>8, <2>1, Zenon DEF Same
    <3> QED  BY <3>1, <3>2, Zenon DEF Moves, Connecting
  <2> QED
    BY <1>2, <1>3, <1>5, <1>8, <2>1, <2>2, <2>3, SMT
    DEF Lives, SocketLifetime, FinCountedOnce, EarlyConnect, Connecting, Same
<1> QED  BY <1>6, <1>7, <1>8

\* The steps that leave the session alone.
LEMMA IdleFin ==
  ASSUME TypeOK, Lives, Linked,
         SkipCheck \/ EpollWait \/ EndDispatch \/ Connects \/ Fails \/ ResolverExits
  PROVE  Lives' /\ Moves
<1>m. ASSUME tcp' = tcp  PROVE Moves
  BY <1>m, Zenon DEF Moves
<1>1. CASE SkipCheck
  BY <1>1, <1>m, SMT
  DEF SkipCheck, kernel, Lives, SocketLifetime, FinCountedOnce, EarlyConnect, Connecting
<1>2. CASE EpollWait
  <2>1. batch' # {} => registered  BY <1>2, Zenon DEF EpollWait
  <2>2. batch' # {} => tcp.state # "NONE"  BY <2>1, Zenon DEF Linked
  <2>3. /\ tcp' = tcp /\ ksock' = ksock /\ registered' = registered /\ phase' = "dispatch"
    BY <1>2, Zenon DEF EpollWait, kernel
  <2>4. SocketLifetime'  BY <2>1, <2>2, <2>3, Zenon DEF Lives, SocketLifetime
  <2> QED
    BY <1>m, <2>3, <2>4, SMT DEF Lives, FinCountedOnce, EarlyConnect, Connecting
<1>3. CASE EndDispatch
  BY <1>3, <1>m, SMT
  DEF EndDispatch, kernel, Lives, SocketLifetime, FinCountedOnce, EarlyConnect, Connecting
<1>4. CASE Connects
  BY <1>4, <1>m, SMT
  DEF Connects, Lives, SocketLifetime, FinCountedOnce, EarlyConnect, Connecting
<1>5. CASE Fails
  BY <1>5, <1>m, SMT
  DEF Fails, Lives, SocketLifetime, FinCountedOnce, EarlyConnect, Connecting
<1>6. CASE ResolverExits
  BY <1>6, <1>m, SMT
  DEF ResolverExits, Lives, SocketLifetime, FinCountedOnce, EarlyConnect, Connecting
<1> QED  BY <1>1, <1>2, <1>3, <1>4, <1>5, <1>6

\* Time.
LEMMA ExpiresFin ==
  ASSUME TypeOK, Lives, Expires
  PROVE  Lives' /\ Moves
<1>1. tcp \in Session  BY DEF TypeOK
<1>2. /\ Same(tcp', tcp) /\ tcp'.state = tcp.state
      /\ ksock' = ksock /\ registered' = registered /\ phase' = phase /\ batch' = batch
  BY <1>1, ExpiredEffect, Zenon DEF Expires, kernel
<1>3. tcp.state # "NONE"  BY Zenon DEF Expires
<1> QED
  BY <1>2, <1>3, SMT
  DEF Moves, Lives, SocketLifetime, FinCountedOnce, EarlyConnect, Connecting, Same

\* A packet: a FIN counts once; only a live socket brings a session to LISTEN.
LEMMA PacketFin ==
  ASSUME TypeOK, Lives, HandlePacket
  PROVE  Lives' /\ Moves
<1>1. PICK pkt \in Packets, i \in 1 .. Len(tcp.forward) + 1 : HandlesPacket(pkt, i)
  BY Zenon DEF HandlePacket
<1>2. /\ tcp \in Session /\ pkt \in Packet /\ tcp.state # "NONE"
      /\ Kept(ksock') /\ (ksock' = "none" <=> ksock = "none")
      /\ registered' = registered /\ phase' = phase /\ batch' = batch
  <2>1. Kept(ksock')  BY <1>1, Zenon DEF HandlesPacket, Kept
  <2> QED
    BY <1>1, <2>1, KeptOpen, PacketsType, Zenon DEF TypeOK, HandlePacket, HandlesPacket
<1>3. /\ tcp.hist.fin \in Nat /\ tcp.hist.finack \in Nat /\ tcp.open \in BOOLEAN
      /\ pkt.len \in Nat
  BY <1>2, SessionFields, Zenon DEF Packet
<1> DEFINE s == Taken(tcp, pkt, i)
<1>4. /\ s \in Session
      /\ s.state = tcp.state /\ s.open = tcp.open
      /\ s.dest = tcp.dest /\ s.connect_sent = tcp.connect_sent
      /\ s.hist.fin = tcp.hist.fin /\ s.hist.finack = tcp.hist.finack
      /\ pkt.len = 0 => s.forward = tcp.forward
      /\ s.expired = FALSE
  <2>1. tcp \in Session /\ pkt \in Packet  BY <1>2
  <2>2. s \in Session  BY <2>1, QueueType, Zenon
  <2>3. /\ s.state = tcp.state /\ s.open = tcp.open
        /\ s.dest = tcp.dest /\ s.connect_sent = tcp.connect_sent
        /\ s.hist.fin = tcp.hist.fin /\ s.hist.finack = tcp.hist.finack
        /\ pkt.len = 0 => s.forward = tcp.forward
    BY <2>1, TakenEffect, Zenon
  <2>4. s.expired = FALSE
    <3> DEFINE h == Heard(tcp, pkt)
    <3>1. h \in Session /\ h.expired = FALSE  BY <2>1, HeardType, TimeKept, Zenon
    <3>2. s \in {h, queue_tcp(h, pkt, i)}  BY Zenon DEF Taken
    <3> HIDE DEF s, h
    <3>3. queue_tcp(h, pkt, i).expired = h.expired  BY <3>1, QueueTime
    <3>4. s = h \/ s = queue_tcp(h, pkt, i)  BY <3>2, Zenon
    <3> QED  BY <3>1, <3>3, <3>4, Zenon
  <2> QED  BY <2>2, <2>3, <2>4
<1> HIDE DEF s
<1>5. ASSUME Accepts(pkt), tcp.state \in {"CLOSE_WAIT", "FIN_WAIT1", "LAST_ACK"}
      PROVE  s.forward = tcp.forward
  BY <1>2, <1>3, <1>4, <1>5, SMT DEF Accepts, Unwanted, Lives, SocketLifetime
<1>q. ASSUME Accepts(pkt), Same(tcp', s), tcp'.state \in {tcp.state, "CLOSING"}
      PROVE  Lives' /\ Moves
  <2>1. /\ tcp'.open = tcp.open /\ tcp'.dest = tcp.dest
        /\ tcp'.connect_sent = tcp.connect_sent
        /\ tcp'.hist.fin = tcp.hist.fin /\ tcp'.hist.finack = tcp.hist.finack
        /\ tcp'.forward = s.forward
    BY <1>4, <1>q, Zenon DEF Same
  <2>2. tcp.state \in {"CLOSE_WAIT", "FIN_WAIT1", "LAST_ACK"}
          => tcp'.forward = tcp.forward
    BY <1>5, <1>q, <2>1, Zenon
  <2>3. Quiet  BY <1>2, <1>q, <2>1, <2>2, Zenon DEF Quiet, Accepts, Closed
  <2> QED  BY <2>3, QuietFin
<1>6. CASE HandleConnecting(pkt, i)
  <2> DEFINE c == IF tcp.connect_sent = "SENT" THEN tcp
                  ELSE send_connect(tcp, ksock = "connected")
  <2>1. tcp' = queue_tcp(c, pkt, i) /\ Connecting(tcp)
    BY <1>6, Zenon DEF HandleConnecting
  <2>2. CASE tcp.connect_sent = "SENT"
    <3>1. tcp' = queue_tcp(tcp, pkt, i)  BY <2>1, <2>2, Zenon
    <3>2. LET t == queue_tcp(tcp, pkt, i)
          IN  /\ t.state = tcp.state /\ t.open = tcp.open
              /\ t.dest = tcp.dest /\ t.connect_sent = tcp.connect_sent
              /\ t.hist = tcp.hist
      BY <1>2, QueueEffect
    <3> QED
      BY <1>2, <2>1, <2>2, <3>1, <3>2, SMT
      DEF Moves, ActiveStates, Lives, SocketLifetime, FinCountedOnce, EarlyConnect,
          Connecting
  <2>3. CASE tcp.connect_sent # "SENT"
    <3> DEFINE u == send_connect(tcp, ksock = "connected")
    <3>1. (ksock = "connected") \in BOOLEAN  BY Zenon
    <3>2. /\ u \in Session /\ u.open = tcp.open /\ u.dest = tcp.dest
          /\ u.hist.fin = tcp.hist.fin /\ u.hist.finack = tcp.hist.finack
          /\ \/ u.connect_sent = "SENT" /\ u.state = "LISTEN"
             \/ /\ u.connect_sent = tcp.connect_sent
                /\ u.state = IF tcp.state = "CLOSE" THEN "CLOSE" ELSE "CLOSING"
      BY <1>2, <3>1, WriteType, SendConnectEffect, Zenon
    <3>3. ksock # "connected" =>
            u.state = IF tcp.state = "CLOSE" THEN "CLOSE" ELSE "CLOSING"
      BY <1>2, WriteEffect, Zenon DEF send_connect
    <3> HIDE DEF u
    <3>4. tcp' = queue_tcp(u, pkt, i)  BY <2>1, <2>3, Zenon DEF u
    <3>5. LET t == queue_tcp(u, pkt, i)
          IN  /\ t.state = u.state /\ t.open = u.open
              /\ t.dest = u.dest /\ t.connect_sent = u.connect_sent
              /\ t.hist = u.hist
      BY <3>2, QueueEffect
    <3> QED
      BY <1>2, <2>1, <3>2, <3>3, <3>4, <3>5, SMT
      DEF Moves, ActiveStates, Lives, SocketLifetime, FinCountedOnce, EarlyConnect,
          Connecting
  <2> QED  BY <2>2, <2>3
<1>7. CASE HandleClosed
  <2>1. tcp' = write_rst(tcp)  BY <1>7, Zenon DEF HandleClosed
  <2>2. Quiet  BY <1>2, <2>1, WriteEffect, Zenon DEF Quiet, Same
  <2> QED  BY <2>2, QuietFin
<1>8. CASE HandleUnwanted(pkt)
  <2> DEFINE h == Heard(tcp, pkt)
  <2>1. h \in Session /\ Same(h, tcp) /\ h.state = tcp.state
    BY <1>2, HeardType, HeardEffect
  <2> HIDE DEF h
  <2>2. tcp' = write_rst(h)  BY <1>8, Zenon DEF HandleUnwanted, h
  <2>3. tcp.state # "CLOSE"  BY <1>8, Zenon DEF HandleUnwanted, Closed
  <2>4. Quiet  BY <1>2, <2>1, <2>2, <2>3, WriteEffect, Zenon DEF Quiet, Same
  <2> QED  BY <2>4, QuietFin
<1>9. CASE HandleRst(pkt, i)
  <2> DEFINE t == [s EXCEPT !.state = "CLOSING"]
  <2>1. tcp' = t  BY <1>9, Zenon DEF HandleRst, s
  <2>2. Same(t, s) /\ t.state = "CLOSING"  BY <1>4, Zenon DEF Same, Session, History
  <2> HIDE DEF t
  <2>3. Accepts(pkt) /\ tcp.state # "CLOSE"  BY <1>9, Zenon DEF HandleRst, Accepts, Closed
  <2>4. Quiet  BY <1>2, <1>4, <1>5, <2>1, <2>2, <2>3, Zenon DEF Quiet, Same
  <2> QED  BY <2>4, QuietFin
<1>10. CASE HandleRepeatedSyn(pkt, i)
  <2>1. tcp' = s /\ Accepts(pkt)  BY <1>10, Zenon DEF HandleRepeatedSyn, s
  <2>2. Quiet  BY <1>2, <1>4, <1>5, <2>1, Zenon DEF Quiet
  <2> QED  BY <2>2, QuietFin
<1>11. CASE HandleFin(pkt, i)
  <2>1. PICK ok \in BOOLEAN : tcp' = receive_fin(s, ok)
    BY <1>11, OutcomeTypes, Zenon DEF HandleFin, s
  <2>2. Accepts(pkt)  BY <1>11, Zenon DEF HandleFin
  <2> DEFINE t == receive_fin(s, ok)
  <2>e. /\ t.open = s.open /\ t.forward = s.forward
        /\ t.dest = s.dest /\ t.connect_sent = s.connect_sent
        /\ t.hist.finack = s.hist.finack
        /\ s.state = "ESTABLISHED" /\ s.forward = <<>> =>
             /\ t.hist.fin = s.hist.fin + 1
             /\ t.state \in {"CLOSE_WAIT", "CLOSING"}
        /\ s.state = "ESTABLISHED" /\ s.forward # <<>> =>
             t.hist.fin = s.hist.fin /\ t.state = "CLOSE_WAIT"
        /\ s.state = "FIN_WAIT1" =>
             /\ t.hist.fin = s.hist.fin + 1
             /\ t.state \in {"CLOSE", "CLOSING"}
        /\ s.state \notin {"ESTABLISHED", "FIN_WAIT1"} => t = s
    <3>1. s \in Session  BY <1>4
    <3> QED  BY <3>1, ReceiveFinEffect
  <2> HIDE DEF t
  <2>3. /\ t.open = tcp.open /\ t.dest = tcp.dest /\ t.connect_sent = tcp.connect_sent
        /\ t.hist.finack = tcp.hist.finack /\ t.forward = s.forward
    BY <1>4, <2>e
  <2>t. tcp' = t /\ t.expired = FALSE  BY <1>4, <2>1, TimeKept, Zenon DEF t
  <2>4. CASE tcp.state = "ESTABLISHED" /\ s.forward = <<>>
    <3>1. t.hist.fin = tcp.hist.fin + 1 /\ t.state \in {"CLOSE_WAIT", "CLOSING"}
      BY <1>4, <2>e, <2>4, SMT
    <3> QED
      BY <1>2, <1>3, <2>2, <2>3, <2>t, <2>4, <3>1, SMT
      DEF Moves, ActiveStates, Lives, SocketLifetime, FinCountedOnce, EarlyConnect,
          Connecting, Accepts
  <2>5. CASE tcp.state = "ESTABLISHED" /\ s.forward # <<>>
    <3>1. t.hist.fin = tcp.hist.fin /\ t.state = "CLOSE_WAIT"
      BY <1>4, <2>e, <2>5, SMT
    <3> QED
      BY <1>2, <1>3, <2>2, <2>3, <2>t, <2>5, <3>1, SMT
      DEF Moves, ActiveStates, Lives, SocketLifetime, FinCountedOnce, EarlyConnect,
          Connecting, Accepts
  <2>6. CASE tcp.state = "FIN_WAIT1"
    <3>1. t.hist.fin = tcp.hist.fin + 1 /\ t.state \in {"CLOSE", "CLOSING"}
      BY <1>4, <2>e, <2>6, SMT
    <3> QED
      BY <1>2, <1>3, <2>2, <2>3, <2>t, <2>6, <3>1, SMT
      DEF Moves, ActiveStates, Lives, SocketLifetime, FinCountedOnce, EarlyConnect,
          Connecting, Accepts
  <2>7. CASE tcp.state \notin {"ESTABLISHED", "FIN_WAIT1"}
    <3>1. t = s  BY <1>4, <2>e, <2>7, SMT
    <3>2. Quiet  BY <1>2, <1>4, <1>5, <2>2, <2>t, <3>1, Zenon DEF Quiet
    <3> QED  BY <3>2, QuietFin
  <2> QED  BY <2>4, <2>5, <2>6, <2>7, Zenon
<1>12. CASE HandleAck(pkt, i)
  <2>1. tcp' = receive_ack(s, pkt) /\ Accepts(pkt)  BY <1>12, Zenon DEF HandleAck, s
  <2>2. CASE tcp.state = "SYN_RECV"
    <3>1. /\ tcp'.state = "ESTABLISHED" /\ tcp'.open = tcp.open
          /\ tcp'.hist.fin = tcp.hist.fin /\ tcp'.hist.finack = tcp.hist.finack
      BY <1>4, <2>1, <2>2, ReceiveAckEffect, Zenon DEF Same
    <3>2. ~Connecting(tcp')
      BY <1>4, <2>1, ReceiveAckEffect, Zenon DEF Same, Accepts, Connecting
    <3> QED
      BY <1>2, <2>2, <3>1, <3>2, SMT
      DEF Moves, ActiveStates, Lives, SocketLifetime, FinCountedOnce, EarlyConnect
  <2>3. CASE tcp.state # "SYN_RECV"
    <3>1. Same(tcp', s)  BY <1>4, <2>1, ReceiveAckEffect, Zenon
    <3>2. tcp'.state \in {tcp.state, "CLOSING"}
      <4>1. receive_ack(s, pkt).state =
              IF s.state = "SYN_RECV" THEN "ESTABLISHED"
              ELSE IF s.state = "LAST_ACK" THEN "CLOSING" ELSE s.state
        BY <1>4, ReceiveAckEffect, Zenon
      <4> QED  BY <1>4, <2>1, <2>3, <4>1, SMT
    <3> QED  BY <1>q, <2>1, <3>1, <3>2
  <2> QED  BY <2>2, <2>3
<1>13. CASE HandleOtherAck(pkt, i)
  <2>1. tcp' = receive_other_ack(s, pkt) /\ Accepts(pkt)
    BY <1>13, Zenon DEF HandleOtherAck, s
  <2>2. Same(tcp', s)  BY <1>4, <2>1, ReceiveAckEffect, Zenon
  <2>3. tcp'.state \in {tcp.state, "CLOSING"}
    <3>1. receive_other_ack(s, pkt).state \in
            {s.state, IF s.state = "CLOSE" THEN "CLOSE" ELSE "CLOSING"}
      BY <1>4, ReceiveAckEffect, Zenon
    <3> QED  BY <1>4, <2>1, <3>1, SMT
  <2> QED  BY <1>q, <2>1, <2>2, <2>3
<1> QED
  BY <1>1, <1>6, <1>7, <1>8, <1>9, <1>10, <1>11, <1>12, <1>13 DEF HandlesPacket

\* A SYN opens a session, and its socket, in an empty slot.
LEMMA NewSynFin ==
  ASSUME TypeOK, Lives, NewSyn
  PROVE  Lives' /\ Moves
<1>1. PICK seq \in RemoteISNs, len \in 0 .. MaxUp, window \in Windows,
           dest \in Ports, isn \in LocalISNs, room \in BOOLEAN :
        tcp' = NewSession([flags |-> {"SYN"}, seq |-> seq, ack_seq |-> 0,
                           len |-> len, window |-> window], dest, isn, room)
  BY Zenon DEF NewSyn
<1> DEFINE pkt == [flags |-> {"SYN"}, seq |-> seq, ack_seq |-> 0,
                   len |-> len, window |-> window]
<1>2. {"SYN"} \in SUBSET Flags  BY SMT DEF Flags
<1>3. seq \in SeqNums /\ 0 \in SeqNums /\ len \in Nat /\ window \in Windows
  BY ConstantsAssumption, ModulusAssumption, SMT DEF SeqNums
<1>4. pkt \in Packet  BY <1>2, <1>3, Zenon DEF Packet
<1>5. tcp' = NewSession(pkt, dest, isn, room)  BY <1>1
<1> HIDE DEF pkt
<1>6. dest \in Dests /\ isn \in SeqNums  BY ConstantsAssumption, Zenon
<1>7. /\ tcp'.state = "LISTEN" /\ tcp'.open = TRUE
      /\ tcp'.hist.fin = 0 /\ tcp'.hist.finack = 0
  BY <1>4, <1>5, <1>6, NewSessionType, Zenon
<1>8. /\ ksock' = "connecting" /\ phase' = phase /\ batch' = batch
      /\ tcp.state = "NONE" /\ phase = "dispatch"
  BY Zenon DEF NewSyn
<1> QED
  BY <1>7, <1>8, SMT
  DEF Moves, ActiveStates, Lives, SocketLifetime, FinCountedOnce, EarlyConnect,
      Connecting

\* The session r after the forwarding loop and the acknowledgement: a FIN is
\* confirmed in CLOSE_WAIT when the queue has just run empty, and only then.
RelayedFin(r) ==
  /\ r.open = tcp.open /\ r.dest = tcp.dest /\ r.connect_sent = tcp.connect_sent
  /\ r.hist.finack = tcp.hist.finack
  /\ r.state \in {tcp.state, "CLOSING"}
  /\ r.hist.fin \in {0, 1}
  /\ tcp.state = "CLOSE_WAIT" => (r.hist.fin = 1 <=> r.forward = <<>>)
  /\ tcp.state # "CLOSE_WAIT" => r.hist.fin = tcp.hist.fin

\* That is what the relay makes of a session.
LEMMA RelayFin ==
  ASSUME TypeOK, Lives, tcp.open,
         NEW o \in Sends, NEW room \in BOOLEAN, NEW ok \in TunWrites,
         NEW refused \in Refusals(o)
  PROVE  RelayedFin(acknowledge(Forwarded(tcp, o, refused),
                                o.k > 0 \/ o.part > 0, room, ok))
<1> DEFINE t == Forwarded(tcp, o, refused)
           fwd == o.k > 0 \/ o.part > 0
           r == acknowledge(t, fwd, room, ok)
<1>1. /\ tcp \in Session /\ OutcomeOf(o, tcp) /\ refused \in BOOLEAN /\ ok \in BOOLEAN
      /\ t \in Session /\ fwd \in BOOLEAN
  BY SendsType, RelayedType, OutcomeTypes DEF TypeOK
<1>2. /\ t.state = tcp.state /\ t.open = tcp.open
      /\ t.dest = tcp.dest /\ t.connect_sent = tcp.connect_sent
      /\ t.hist.fin = tcp.hist.fin /\ t.hist.finack = tcp.hist.finack
      /\ tcp.forward = <<>> => ~fwd /\ t.forward = <<>>
      /\ tcp.forward # <<>> /\ ~fwd => t.forward # <<>>
  BY <1>1, ForwardedEffect
<1> HIDE DEF t, fwd
<1> DEFINE counts == fwd /\ t.forward = <<>> /\ t.state = "CLOSE_WAIT"
<1>3. /\ r.open = t.open /\ r.forward = t.forward
      /\ r.dest = t.dest /\ r.connect_sent = t.connect_sent
      /\ r.hist.fin = IF counts THEN t.hist.fin + 1 ELSE t.hist.fin
      /\ r.hist.finack = t.hist.finack
      /\ r.state \in {t.state, "CLOSING"}
  BY <1>1, AcknowledgeEffect
<1> HIDE DEF r
<1>4. tcp.hist.fin \in {0, 1}
  <2>1. tcp.hist.fin \in Nat  BY <1>1, SessionFields
  <2> QED  BY <2>1, SMT DEF Lives, FinCountedOnce
<1>5. tcp.state = "CLOSE_WAIT" => (tcp.hist.fin = 1 <=> tcp.forward = <<>>)
  BY Zenon DEF Lives, FinCountedOnce
<1>6. RelayedFin(r)
  BY <1>2, <1>3, <1>4, <1>5, SMT DEF RelayedFin
<1> QED  BY <1>6 DEF r, t, fwd

\* An event of the socket: its end of file closes it and takes the one FIN.
LEMMA SocketFin ==
  ASSUME TypeOK, Lives, CheckTcpSocket
  PROVE  Lives' /\ Moves
<1>1. /\ batch # {} /\ batch' = {} /\ phase = "dispatch" /\ phase' = "dispatch"
  BY Zenon DEF CheckTcpSocket, SocketError, SocketConnected, SocketReply, SocketRelay,
               SocketGone, SocketEvent
<1>c. CASE ~tcp.open
  <2>1. tcp \in Session /\ tcp.state # "NONE" /\ tcp.state # "LISTEN"
    BY <1>1, <1>c, SMT DEF TypeOK, Lives, SocketLifetime
  <2>2. CASE SocketError
    <3> DEFINE w == write_rst(tcp)
               u == [w EXCEPT !.expired = FALSE]
    <3>1. w \in Session /\ Same(w, tcp)
          /\ w.state = IF tcp.state = "CLOSE" THEN "CLOSE" ELSE "CLOSING"
      BY <2>1, WriteType, WriteEffect
    <3>2. tcp' = u /\ Kept(ksock') /\ registered' = registered
      BY <2>2, Zenon DEF SocketError, Kept
    <3> HIDE DEF w
    <3>3. Same(u, w) /\ u.state = w.state  BY <3>1, ExpiredEffect
    <3> HIDE DEF u
    <3>4. Quiet  BY <1>1, <2>1, <3>1, <3>2, <3>3, Zenon DEF Quiet, Same
    <3> QED  BY <3>4, QuietFin
  <2>3. CASE SocketGone
    <3>1. Quiet  BY <2>1, <2>3, GoneEffect, Zenon DEF Quiet, Same, Kept
    <3> QED  BY <3>1, QuietFin
  <2> QED
    BY <1>c, <2>1, <2>2, <2>3, Zenon
    DEF CheckTcpSocket, SocketConnected, SocketReply, SocketRelay
<1> SUFFICES ASSUME tcp.open  PROVE Lives' /\ Moves
  BY <1>c, Zenon
<1>2. tcp \in Session /\ tcp.open /\ tcp.state # "NONE"
  BY <1>1, SMT DEF TypeOK, Lives, SocketLifetime
<1>3. tcp.hist.fin \in Nat /\ tcp.hist.finack \in Nat  BY <1>2, SessionFields
<1>s. ASSUME tcp'.open = tcp.open, Kept(ksock'),
             tcp'.state \in {"LISTEN", "SYN_RECV", "ESTABLISHED", "CLOSE_WAIT", "CLOSING"}
      PROVE  SocketLifetime'
  <2>1. ksock # "none"  BY <1>2, Zenon DEF Lives, SocketLifetime
  <2>2. ksock' # "none"  BY <1>s, <2>1, KeptOpen, Zenon
  <2> QED  BY <1>1, <1>2, <1>s, <2>2, Zenon DEF SocketLifetime
<1>4. CASE SocketError
  <2> DEFINE w == write_rst(tcp)
  <2>1. w \in Session /\ Same(w, tcp)
        /\ w.state = IF tcp.state = "CLOSE" THEN "CLOSE" ELSE "CLOSING"
    BY <1>2, WriteType, WriteEffect
  <2> HIDE DEF w
  <2> DEFINE u == [w EXCEPT !.expired = FALSE]
  <2>2. Same(u, w) /\ u.state = w.state  BY <2>1, ExpiredEffect
  <2> HIDE DEF u
  <2>3. tcp' = u /\ Kept(ksock') /\ registered' = registered
    BY <1>4, Zenon DEF SocketError, Kept, u, w
  <2>4. Quiet  BY <1>1, <1>2, <2>1, <2>2, <2>3, Zenon DEF Quiet, Same
  <2> QED  BY <2>4, QuietFin
<1>5. CASE SocketConnected
  <2>1. PICK ok \in BOOLEAN : tcp' = connected(tcp, ok)
    BY <1>5, OutcomeTypes, Zenon DEF SocketConnected
  <2> DEFINE t == connected(tcp, ok)
  <2>2. Same(t, tcp) /\ t.state \in {"SYN_RECV", "CLOSING"}  BY <1>2, ConnectedEffect
  <2> HIDE DEF t
  <2>3. tcp' = t /\ Kept(ksock') /\ tcp.state = "LISTEN"
    BY <1>5, <2>1, Zenon DEF SocketConnected, Kept, kernel, t
  <2>m. Moves
    <3>1. tcp'.state \in ActiveStates \cup {"CLOSING"} /\ tcp.state \in ActiveStates
      BY <2>2, <2>3, SMT DEF ActiveStates
    <3> QED  BY <2>2, <2>3, <3>1, Zenon DEF Moves, Connecting, Same
  <2>i1. SocketLifetime'
    BY <1>s, <2>2, <2>3, Zenon DEF Same
  <2>i2. FinCountedOnce'
    BY <1>1, <1>2, <2>2, <2>3, SMT DEF Lives, FinCountedOnce, Same
  <2>i3. EarlyConnect'
    BY <1>1, <1>2, <2>2, <2>3, SMT DEF Lives, EarlyConnect, Connecting, Same
  <2> QED
    BY <1>1, <1>2, <2>2, <2>3, <2>i1, <2>i2, <2>i3, <2>m, SMT
    DEF Lives, Same
<1>6. CASE SocketReply
  <2>1. Kept(ksock') /\ tcp.state = "LISTEN" /\ registered' = registered
    BY <1>6, Zenon DEF SocketReply, Kept
  <2>2. CASE tcp' = write_rst(tcp)
    <3>1. Quiet  BY <1>1, <1>2, <2>1, <2>2, WriteEffect, Zenon DEF Quiet, Same
    <3> QED  BY <3>1, QuietFin
  <2>3. CASE tcp' = connect_reply(tcp)
    <3> DEFINE t == connect_reply(tcp)
    <3>1. /\ t.open = tcp.open /\ t.dest = tcp.dest
          /\ t.hist.fin = tcp.hist.fin /\ t.hist.finack = tcp.hist.finack
          /\ \/ t.connect_sent = "ESTABLISHED" /\ t.state = "SYN_RECV"
             \/ /\ t.connect_sent = tcp.connect_sent
                /\ t.state = IF tcp.state = "CLOSE" THEN "CLOSE" ELSE "CLOSING"
      BY <1>2, ConnectReplyEffect
    <3> HIDE DEF t
    <3>2. tcp' = t  BY <2>3 DEF t
    <3>m. Moves
      <4>1. tcp'.state \in ActiveStates \cup {"CLOSING"} /\ tcp.state \in ActiveStates
        BY <2>1, <3>1, <3>2, SMT DEF ActiveStates
      <4>2. ~Connecting(tcp) => ~Connecting(tcp')
        BY <3>1, <3>2, Zenon DEF Connecting
      <4> QED  BY <1>2, <4>1, <4>2, Zenon DEF Moves
    <3>i1. SocketLifetime'
      BY <1>s, <2>1, <3>1, <3>2, SMT
    <3>i2. FinCountedOnce'
      BY <1>1, <1>2, <2>1, <3>1, <3>2, SMT DEF Lives, FinCountedOnce
    <3>i3. EarlyConnect'
      BY <1>1, <1>2, <2>1, <3>1, <3>2, SMT DEF Lives, EarlyConnect, Connecting
    <3> QED
      BY <1>1, <1>2, <2>1, <3>1, <3>2, <3>m, <3>i1, <3>i2, <3>i3, SMT DEF Lives
  <2> QED  BY <1>6, <2>2, <2>3, Zenon DEF SocketReply
<1>7. CASE SocketRelay
  <2>o. PICK o \in Sends, room \in BOOLEAN, ok \in TunWrites :
        \E refused \in Refusals(o) :
          LET s == acknowledge(Forwarded(tcp, o, refused),
                               o.k > 0 \/ o.part > 0, room, ok)
              k == IF o.k > 0 THEN ErrorRead ELSE ksock
          IN  /\ o.part > 0 => ksock = "connected"
              /\ IF Reads(s) THEN Receive(s, k)
                 ELSE tcp' = s /\ ksock' = k /\ UNCHANGED registered
    BY <1>7, Zenon DEF SocketRelay
  <2>1. PICK refused \in Refusals(o) :
          LET s == acknowledge(Forwarded(tcp, o, refused),
                               o.k > 0 \/ o.part > 0, room, ok)
              k == IF o.k > 0 THEN ErrorRead ELSE ksock
          IN  /\ o.part > 0 => ksock = "connected"
              /\ IF Reads(s) THEN Receive(s, k)
                 ELSE tcp' = s /\ ksock' = k /\ UNCHANGED registered
    BY <2>o, Zenon
  <2> DEFINE r == acknowledge(Forwarded(tcp, o, refused),
                              o.k > 0 \/ o.part > 0, room, ok)
             rest == IF o.k > 0 THEN ErrorRead ELSE ksock
  <2>2. r \in Session /\ RelayedFin(r)
    BY <1>2, RelayedType, RelayFin
  <2>k. Kept(rest) /\ Kept(ErrorRead)  BY Zenon DEF Kept
  <2>3. IF Reads(r) THEN Receive(r, rest)
        ELSE tcp' = r /\ ksock' = rest /\ UNCHANGED registered
    BY <2>1
  <2> HIDE DEF r, rest
  <2>4. tcp.state # "LISTEN"  BY <1>7, Zenon DEF SocketRelay
  <2>5. ASSUME NEW u, u.open = r.open, u.dest = r.dest, u.connect_sent = r.connect_sent,
               u.hist.fin = r.hist.fin, u.hist.finack = r.hist.finack,
               u.state \in {r.state, "CLOSING"}, u.forward = r.forward,
               tcp' = u, Kept(ksock')
        PROVE  Lives' /\ Moves
    <3>i1. SocketLifetime'
      <4>1. tcp.state \in {"LISTEN", "SYN_RECV", "ESTABLISHED", "CLOSE_WAIT", "CLOSING"}
        BY <1>2, Zenon DEF Lives, SocketLifetime
      <4>2. tcp'.open = tcp.open /\ tcp'.state \in {tcp.state, "CLOSING"}
        BY <2>2, <2>5, Zenon DEF RelayedFin
      <4> QED  BY <1>s, <2>5, <4>1, <4>2, SMT
    <3>i2. FinCountedOnce'
      <4>1. tcp.state \in {"SYN_RECV", "ESTABLISHED", "CLOSE_WAIT", "CLOSING"}
        BY <1>2, <2>4, SMT DEF Lives, SocketLifetime
      <4>2. /\ tcp'.state \in {tcp.state, "CLOSING"}
            /\ tcp'.hist.fin = r.hist.fin /\ tcp'.hist.finack = tcp.hist.finack
            /\ tcp'.forward = r.forward
        BY <2>2, <2>5, Zenon DEF RelayedFin
      <4>3. /\ r.hist.fin \in {0, 1}
            /\ tcp.state = "CLOSE_WAIT" => (r.hist.fin = 1 <=> r.forward = <<>>)
            /\ tcp.state # "CLOSE_WAIT" => r.hist.fin = tcp.hist.fin
        BY <2>2, Zenon DEF RelayedFin
      <4> QED  BY <4>1, <4>2, <4>3, SMT DEF Lives, FinCountedOnce
    <3>i3. EarlyConnect'
      BY <1>1, <1>2, <2>2, <2>4, <2>5, SMT
      DEF Lives, EarlyConnect, Connecting, RelayedFin
    <3>m. Moves
      <4>1. tcp.state \in ActiveStates \cup {"CLOSING"}
        BY <1>2, <2>4, SMT DEF Lives, SocketLifetime, ActiveStates
      <4>2. /\ tcp'.open = tcp.open /\ tcp'.state \in {tcp.state, "CLOSING"}
            /\ tcp'.dest = tcp.dest /\ tcp'.connect_sent = tcp.connect_sent
        BY <2>2, <2>5, Zenon DEF RelayedFin
      <4> QED  BY <4>1, <4>2, SMT DEF Moves, Connecting
    <3> QED
      BY <1>1, <1>2, <2>2, <2>4, <2>5, <3>m, <3>i1, <3>i2, <3>i3, SMT
      DEF Lives, RelayedFin
  <2>6. CASE ~Reads(r)
    <3>1. tcp' = r /\ Kept(ksock')  BY <2>3, <2>6, <2>k, Zenon
    <3> QED  BY <2>5, <3>1, SMT
  <2>7. CASE Reads(r)
    <3>1. Receive(r, rest)  BY <2>3, <2>7, Zenon
    <3>2. r.state = tcp.state /\ tcp.state \in {"ESTABLISHED", "CLOSE_WAIT"}
      BY <2>2, <2>7, SMT DEF Reads, RelayedFin
    <3>3. CASE ksock' = ErrorRead /\ tcp' = [write_rst(r) EXCEPT !.expired = FALSE]
      <4> DEFINE w == write_rst(r)
      <4>1. w \in Session /\ Same(w, r)
            /\ w.state = IF r.state = "CLOSE" THEN "CLOSE" ELSE "CLOSING"
        BY <2>2, WriteType, WriteEffect
      <4> HIDE DEF w
      <4> DEFINE u == [w EXCEPT !.expired = FALSE]
      <4>2. Same(u, w) /\ u.state = w.state  BY <4>1, ExpiredEffect
      <4>3. tcp' = u  BY <3>3 DEF w
      <4> HIDE DEF u
      <4>4. Same(u, r) /\ u.state \in {r.state, "CLOSING"}
        BY <4>1, <4>2, SMT DEF Same
      <4> QED  BY <2>5, <2>k, <3>3, <4>3, <4>4, Zenon DEF Same
    <3>4. CASE ksock' = rest /\ tcp' = [r EXCEPT !.expired = FALSE]
      <4> DEFINE u == [r EXCEPT !.expired = FALSE]
      <4>1. Same(u, r) /\ u.state = r.state  BY <2>2, ExpiredEffect
      <4>2. tcp' = u  BY <3>4
      <4> HIDE DEF u
      <4> QED  BY <2>5, <2>k, <3>4, <4>1, <4>2, Zenon DEF Same
    <3>5. CASE ksock' = "none" /\ \E k \in TunWrites : tcp' = receive_eof(r, k)
      <4>1. PICK k \in BOOLEAN : tcp' = receive_eof(r, k)
        BY <3>5, OutcomeTypes, Zenon
      <4> DEFINE t == receive_eof(r, k)
      <4>2. /\ t.open = FALSE /\ t.forward = r.forward
            /\ t.dest = r.dest /\ t.connect_sent = r.connect_sent
            /\ t.hist.fin = r.hist.fin
            /\ \/ t.state = "CLOSING" /\ t.hist.finack = r.hist.finack
               \/ /\ t.forward = <<>>
                  /\ t.state = IF r.state = "ESTABLISHED" THEN "FIN_WAIT1" ELSE "LAST_ACK"
                  /\ t.hist.finack = r.hist.finack + 1
        BY <2>2, <3>2, ReceiveEofEffect
      <4> HIDE DEF t
      <4>3. tcp' = t  BY <4>1 DEF t
      <4>4. Moves
        <5>1. tcp'.state \in {"CLOSING", "FIN_WAIT1", "LAST_ACK"} /\ tcp'.open = FALSE
          BY <3>2, <4>2, <4>3, SMT
        <5>2. tcp'.dest = tcp.dest /\ tcp'.connect_sent = tcp.connect_sent
          BY <2>2, <4>2, <4>3, Zenon DEF RelayedFin
        <5>3. /\ tcp.state \in ActiveStates
              /\ tcp'.state \in ActiveStates \cup {"CLOSING"}
          BY <3>2, <5>1, SMT DEF ActiveStates
        <5> QED  BY <5>1, <5>2, <5>3, Zenon DEF Moves, Connecting
      <4> QED
        BY <1>1, <1>2, <1>3, <2>2, <3>2, <3>5, <4>2, <4>3, <4>4, SMT
        DEF Lives, SocketLifetime, FinCountedOnce, EarlyConnect, Connecting,
            RelayedFin
    <3>6. CASE ksock' = rest /\ \E n \in 1 .. MaxDown, k \in TunWrites :
                                   tcp' = receive_data(r, n, k)
      <4>1. PICK n \in 1 .. MaxDown, k \in TunWrites : tcp' = receive_data(r, n, k)
        BY <3>6
      <4>2. n \in Nat /\ k \in BOOLEAN
        <5>1. n \in Nat  BY ConstantsAssumption, SMT
        <5> QED  BY <5>1, OutcomeTypes, Zenon
      <4> DEFINE u == receive_data(r, n, k)
      <4>3. Same(u, r) /\ u.state \in {r.state, "CLOSING"}
        BY <2>2, <4>2, ReceiveEffect
      <4>4. tcp' = u  BY <4>1
      <4> HIDE DEF u
      <4> QED  BY <2>5, <2>k, <3>6, <4>3, <4>4, Zenon DEF Same
    <3> QED  BY <3>1, <3>3, <3>4, <3>5, <3>6, Zenon DEF Receive, CloseSocket
  <2> QED  BY <2>6, <2>7
<1> QED  BY <1>2, <1>4, <1>5, <1>6, <1>7, Zenon DEF CheckTcpSocket, SocketGone

\* A closed session ages only as time passes.
LEMMA ClosedAges ==
  ASSUME TypeOK, Lives, Next, ~Expires, tcp.state = "CLOSE", tcp'.state = "CLOSE",
         tcp'.expired
  PROVE  tcp.expired
<1>1. tcp \in Session /\ ~tcp.open /\ ksock = "none"
  BY SMT DEF TypeOK, Lives, SocketLifetime
<1>2. write_rst(tcp) \in Session /\ write_rst(tcp).expired = tcp.expired
  BY <1>1, WriteType, TimeKept, Zenon
<1>3. CASE Monitor \/ SkipCheck \/ EpollWait \/ EndDispatch \/ Connects \/ Fails
           \/ ResolverExits
  BY <1>1, <1>3, Zenon
  DEF Monitor, SkipCheck, EpollWait, EndDispatch, Connects, Fails, ResolverExits
<1>4. CASE Check
  <2>1. time_out(tcp) = tcp  BY SMT DEF time_out
  <2>2. close_closing(tcp) = tcp  BY SMT DEF close_closing
  <2>3. tcp' \in {tcp, NoSession}  BY <1>4, <2>1, <2>2, Zenon DEF Check, CheckTcpSession
  <2> QED  BY <2>3, NoSessionType, Zenon
<1>5. CASE CheckTcpSocket
  <2>1. CASE SocketError
    <3>1. tcp' = [write_rst(tcp) EXCEPT !.expired = FALSE]  BY <2>1, Zenon DEF SocketError
    <3>2. tcp'.expired = FALSE  BY <1>2, <3>1, Zenon DEF Session
    <3> QED  BY <3>2
  <2>2. CASE SocketGone  BY <2>2, GoneEffect
  <2>3. tcp.state # "LISTEN"  BY SMT
  <2> QED
    BY <1>1, <1>5, <2>1, <2>2, <2>3, Zenon
    DEF CheckTcpSocket, SocketConnected, SocketReply, SocketRelay
<1>6. CASE HandlePacket
  <2>1. PICK pkt \in Packets, i \in 1 .. Len(tcp.forward) + 1 : HandlesPacket(pkt, i)
    BY <1>6, Zenon DEF HandlePacket
  <2>2. CASE HandleConnecting(pkt, i)
    <3>1. ksock # "connected"  BY <1>1, SMT
    <3>2. send_connect(tcp, ksock = "connected") = write_rst(tcp)
      BY <3>1, Zenon DEF send_connect
    <3>3. CASE tcp.connect_sent = "SENT"
      <4>1. tcp' = queue_tcp(tcp, pkt, i)  BY <2>2, <3>3, Zenon DEF HandleConnecting
      <4>2. queue_tcp(tcp, pkt, i).expired = tcp.expired  BY <1>1, QueueTime
      <4> QED  BY <4>1, <4>2
    <3>4. CASE tcp.connect_sent # "SENT"
      <4> DEFINE w == write_rst(tcp)
      <4>1. tcp' = queue_tcp(w, pkt, i)  BY <2>2, <3>2, <3>4, Zenon DEF HandleConnecting
      <4>2. w \in Session /\ w.expired = tcp.expired  BY <1>2
      <4> HIDE DEF w
      <4>3. queue_tcp(w, pkt, i).expired = w.expired  BY <4>2, QueueTime
      <4> QED  BY <4>1, <4>2, <4>3
    <3> QED  BY <3>3, <3>4
  <2>3. CASE HandleClosed  BY <1>2, <2>3, Zenon DEF HandleClosed
  <2>4. Closed  BY Zenon DEF Closed
  <2> QED
    BY <2>1, <2>2, <2>3, <2>4, Zenon
    DEF HandlesPacket, HandleUnwanted, HandleRst, HandleRepeatedSyn, HandleFin,
        HandleAck, HandleOtherAck, Accepts
<1>7. CASE NewSyn  BY <1>7, SMT DEF NewSyn
<1> QED
  BY <1>3, <1>4, <1>5, <1>6, <1>7, Zenon DEF Next, Loop, HandleTcp, Environment

\* Nothing registers a socket again.
LEMMA Unlinks ==
  ASSUME CloseSocket, registered'
  PROVE  registered
<1>1. registered' # FALSE  BY SMT
<1>2. registered' \in {FALSE, registered}  BY Zenon DEF CloseSocket
<1> QED  BY <1>1, <1>2, Zenon

\* While epoll reports a closed socket its session is not removed.
LEMMA LinkedStep ==
  ASSUME TypeOK, FinInv, Next, Moves
  PROVE  Linked'
<1> SUFFICES ASSUME registered'
             PROVE  tcp'.state # "NONE" /\ ~(tcp'.state = "CLOSE" /\ tcp'.expired)
  BY Zenon DEF Linked
<1>1. CASE NewSyn
  <2>1. PICK seq \in RemoteISNs, len \in 0 .. MaxUp, window \in Windows,
             dest \in Ports, isn \in LocalISNs, room \in BOOLEAN :
          tcp' = NewSession([flags |-> {"SYN"}, seq |-> seq, ack_seq |-> 0,
                             len |-> len, window |-> window], dest, isn, room)
    BY <1>1, Zenon DEF NewSyn
  <2>2. tcp'.state = "LISTEN"  BY <2>1, Zenon DEF NewSession
  <2> QED  BY <2>2, SMT
<1>2. CASE ~NewSyn
  <2>1. registered
    <3>1. CASE Loop
      <4>1. CASE Monitor  BY <4>1, Zenon DEF Monitor, kernel
      <4>2. CASE Check
        BY <4>2, Unlinks, Zenon DEF Check, CheckTcpSession, kernel
      <4>3. CASE SkipCheck \/ EpollWait \/ EndDispatch
        BY <4>3, Zenon DEF SkipCheck, EpollWait, EndDispatch, kernel
      <4>4. CASE CheckTcpSocket
        <5>1. CASE SocketRelay
          <6>1. \A s, k : Receive(s, k) => CloseSocket \/ UNCHANGED registered
            BY Zenon DEF Receive
          <6>2. CloseSocket \/ UNCHANGED registered
            BY <5>1, <6>1, Zenon DEF SocketRelay
          <6> QED  BY <6>2, Unlinks, Zenon
        <5> QED
          BY <4>4, <5>1, Zenon
          DEF CheckTcpSocket, SocketError, SocketConnected, SocketReply, SocketGone, kernel
      <4> QED  BY <3>1, <4>1, <4>2, <4>3, <4>4, Zenon DEF Loop
    <3>2. CASE HandlePacket  BY <3>2, Zenon DEF HandlePacket, HandlesPacket
    <3>3. CASE Environment
      BY <3>3, Zenon DEF Environment, Connects, Fails, Expires, ResolverExits, kernel
    <3> QED  BY <1>2, <3>1, <3>2, <3>3, Zenon DEF Next, HandleTcp
  <2>2. tcp.state # "NONE" /\ ~(tcp.state = "CLOSE" /\ tcp.expired)
    BY <2>1, Zenon DEF FinInv, Linked
  <2>3. CASE Expires
    <3>1. tcp.state # "CLOSE" /\ tcp \in Session
      BY <2>1, <2>3, Zenon DEF Expires, TypeOK
    <3>2. tcp'.state = tcp.state  BY <2>3, <3>1, ExpiredEffect, Zenon DEF Expires
    <3> QED  BY <2>2, <3>1, <3>2, Zenon
  <2>4. CASE ~Expires
    <3>1. tcp.state = "CLOSE" /\ tcp'.state = "CLOSE" => ~tcp'.expired
      BY <2>2, <2>4, ClosedAges, Zenon DEF FinInv
    <3> QED  BY <2>2, <3>1, SMT DEF Moves, ActiveStates
  <2> QED  BY <2>3, <2>4
<1> QED  BY <1>1, <1>2

\* Every step keeps the invariant and moves the session as Moves says.
LEMMA FinStep ==
  ASSUME TypeOK, FinInv, [Next]_vars
  PROVE  FinInv' /\ Moves
<1>0. Lives /\ Linked  BY DEF FinInv
<1>1. Monitor => Lives' /\ Moves  BY <1>0, MonitorFin
<1>2. Check => Lives' /\ Moves  BY <1>0, CheckFin
<1>3. CheckTcpSocket => Lives' /\ Moves  BY <1>0, SocketFin
<1>4. HandleTcp => Lives' /\ Moves  BY <1>0, NewSynFin, PacketFin DEF HandleTcp
<1>5. Expires => Lives' /\ Moves  BY <1>0, ExpiresFin
<1>6. SkipCheck \/ EpollWait \/ EndDispatch \/ Connects \/ Fails \/ ResolverExits
        => Lives' /\ Moves
  BY <1>0, IdleFin
<1>7. CASE UNCHANGED vars
  <2>1. Moves  BY <1>7, Zenon DEF vars, Moves
  <2>2. Lives'
    BY <1>0, <1>7, SMT
    DEF vars, kernel, Lives, SocketLifetime, FinCountedOnce, EarlyConnect, Connecting
  <2>3. Linked'  BY <1>0, <1>7, Zenon DEF vars, kernel, Linked
  <2> QED  BY <2>1, <2>2, <2>3, Zenon DEF FinInv
<1>8. CASE Next
  <2>1. Lives' /\ Moves
    BY <1>1, <1>2, <1>3, <1>4, <1>5, <1>6, <1>8, Zenon DEF Next, Loop, Environment
  <2>2. Linked'  BY <1>8, <2>1, LinkedStep
  <2> QED  BY <2>1, <2>2, Zenon DEF FinInv
<1> QED  BY <1>7, <1>8

\* The invariant the theorems rest on.
LEMMA FinInvariant == Spec => [](TypeOK /\ FinInv)
<1>1. Init => FinInv
  BY NoSessionType, SMT
  DEF Init, FinInv, Lives, Linked, SocketLifetime, FinCountedOnce, EarlyConnect,
      Connecting
<1>2. TypeOK /\ FinInv /\ [Next]_vars => FinInv'
  BY FinStep
<1> QED  BY <1>1, <1>2, TypeCorrect, PTL DEF Spec

(***************************************************************************)
(* The engine never leaks a session's descriptor, closes it once, and      *)
(* handles no event of a session that was freed; that of a closed socket   *)
(* only where a resolver process keeps it registered: in any order of      *)
(* packets, events, timeouts and failures.                                 *)
(***************************************************************************)
THEOREM SocketLifetimeCorrect == Spec => []SocketLifetime
<1>1. FinInv => SocketLifetime  BY DEF FinInv, Lives
<1> QED  BY <1>1, FinInvariant, PTL

(***************************************************************************)
(* Neither side's FIN is ever counted twice or too early, however often    *)
(* the packets that carry it are repeated.                                 *)
(***************************************************************************)
THEOREM FinCountedOnceCorrect == Spec => []FinCountedOnce
<1>1. FinInv => FinCountedOnce  BY DEF FinInv, Lives
<1> QED  BY <1>1, FinInvariant, PTL

-----------------------------------------------------------------------------
\* The life of a session.

\* What ClosedIsFinal says of one step.
ClosedStep ==
  /\ tcp.state = "CLOSE" => tcp'.state \in {"CLOSE", "NONE"}
  /\ tcp.state = "CLOSING" /\ tcp.dest # "https" => tcp'.state \in {"CLOSING", "CLOSE"}

(***************************************************************************)
(* No packet, event or failure brings a closed session back, and outside   *)
(* port 443 none brings back a closing one.                                *)
(***************************************************************************)
THEOREM ClosedIsFinalCorrect == Spec => ClosedIsFinal
<1>1. TypeOK /\ FinInv /\ [Next]_vars => [ClosedStep]_vars
  <2>1. Moves => ClosedStep  BY SMT DEF Moves, ActiveStates, Connecting, ClosedStep
  <2> QED  BY <2>1, FinStep
<1> QED  BY <1>1, FinInvariant, PTL DEF Spec, ClosedIsFinal, ClosedStep

\* LifeState by sets of states.
LifeAt(v) ==
  IF v \in ActiveStates THEN "ACTIVE" ELSE IF v = "CLOSING" THEN "FINISHING"
  ELSE IF v = "CLOSE" THEN "CLOSED" ELSE "NONE"

\* What Moves allows is a step of a session's life, or none.
LEMMA MovesLife ==
  ASSUME TypeOK, TypeOK', FinInv, Moves
  PROVE  [Life!Next]_<<LifeState, tcp.open>>
<1>1. LifeState = LifeAt(tcp.state)
  <2>1. tcp.state \in States  BY SessionFields DEF TypeOK
  <2> QED  BY <2>1, SMT DEF LifeState, LifeAt, States, ActiveStates
<1>2. LifeState' = LifeAt(tcp'.state)
  <2>1. tcp'.state \in States  BY SessionFields DEF TypeOK
  <2> QED  BY <2>1, SMT DEF LifeState, LifeAt, States, ActiveStates
<1>t. tcp.open \in BOOLEAN /\ tcp'.open \in BOOLEAN  BY SessionFields DEF TypeOK
<1>3. CASE tcp'.state = tcp.state /\ tcp'.open = tcp.open
  BY <1>1, <1>2, <1>3, Zenon
<1>4. CASE tcp.state = "NONE" /\ tcp'.state = "LISTEN" /\ tcp'.open
  BY <1>1, <1>2, <1>4, SMT DEF LifeAt, ActiveStates, Life!Next, Life!Open
<1>5. CASE /\ tcp.state \in ActiveStates /\ tcp'.state \in ActiveStates \cup {"CLOSING"}
           /\ tcp'.open => tcp.open
  <2>1. LifeState = "ACTIVE"  BY <1>1, <1>5, Zenon DEF LifeAt
  <2>2. CASE tcp'.state \in ActiveStates
    <3>1. LifeState' = "ACTIVE"  BY <1>2, <2>2, Zenon DEF LifeAt
    <3>2. CASE tcp'.open = tcp.open  BY <2>1, <3>1, <3>2, Zenon
    <3>3. CASE tcp'.open # tcp.open
      <4>1. tcp.open /\ ~tcp'.open  BY <1>t, <1>5, <3>3, Zenon
      <4> QED  BY <2>1, <3>1, <4>1, Zenon DEF Life!Next, Life!EndOfFile
    <3> QED  BY <3>2, <3>3
  <2>3. CASE tcp'.state = "CLOSING"
    <3>1. LifeState' = "FINISHING"
      BY <1>2, <2>3, SMT DEF LifeAt, ActiveStates
    <3> QED  BY <1>5, <2>1, <3>1, Zenon DEF Life!Next, Life!Finish
  <2> QED  BY <1>5, <2>2, <2>3
<1>6. CASE /\ tcp.state = "CLOSING" /\ Connecting(tcp) /\ tcp.open
           /\ tcp'.state = "LISTEN" /\ tcp'.open
  <2>1. LifeState = "FINISHING" /\ LifeState' = "ACTIVE" /\ tcp'.open = tcp.open
    BY <1>1, <1>2, <1>t, <1>6, SMT DEF LifeAt, ActiveStates
  <2> QED  BY <1>6, <2>1, Zenon DEF Life!Next, Life!Resume
<1>7. CASE tcp.state \in ActiveStates \cup {"CLOSING"} /\ tcp'.state = "CLOSE" /\ ~tcp'.open
  <2>1. LifeState \in {"ACTIVE", "FINISHING"} /\ LifeState' = "CLOSED"
    BY <1>1, <1>2, <1>7, SMT DEF LifeAt, ActiveStates
  <2> QED  BY <1>7, <2>1, Zenon DEF Life!Next, Life!Close
<1>8. CASE tcp.state = "CLOSE" /\ tcp'.state = "NONE" /\ ~tcp'.open
  <2>1. LifeState = "CLOSED" /\ LifeState' = "NONE"
    BY <1>1, <1>2, <1>8, SMT DEF LifeAt, ActiveStates
  <2>2. LifeState # "NONE"  BY <2>1, SMT
  <2> QED  BY <1>8, <2>1, <2>2, Zenon DEF Life!Next, Life!Remove
<1> QED  BY <1>3, <1>4, <1>5, <1>6, <1>7, <1>8, Zenon DEF Moves

(***************************************************************************)
(* One TCP session, through all its states, lives as SessionLife says: it  *)
(* opens its socket once, closes it once and is then removed.              *)
(***************************************************************************)
THEOREM LifeCorrect == Spec => LifeSpec
<1>1. Init => Life!Init
  BY NoSessionType, SMT DEF Init, Life!Init, LifeState
<1>2. TypeOK /\ FinInv /\ TypeOK' /\ [Next]_vars => [Life!Next]_<<LifeState, tcp.open>>
  BY FinStep, MovesLife
<1> QED  BY <1>1, <1>2, FinInvariant, PTL DEF Spec, LifeSpec, Life!Spec

-----------------------------------------------------------------------------
\* The tunnel of port 443.

\* What the events of a session with an unanswered CONNECT can be.  In LISTEN
\* the forwarding loop is not reached.  From SYN_RECV and CLOSING it is, but
\* nobody waits for EPOLLOUT there; what is left of a batch raised in LISTEN is
\* handled in CLOSING only when the CONNECT could not be sent, because the
\* socket had failed, which then refuses the data too.
WaitsRight ==
  /\ batch # {} => ksock # "connecting"
  /\ Connecting(tcp) /\ tcp.state = "LISTEN" /\ tcp.connect_sent = "NOT_SENT"
       => tcp.mask = {"OUT"}
  /\ Connecting(tcp) /\ tcp.state \in {"SYN_RECV", "CLOSING"} /\ tcp.open
       => /\ phase \in {"check", "wait"} => "OUT" \notin tcp.mask
          /\ phase = "dispatch" /\ "OUT" \in batch
               => tcp.state = "CLOSING" /\ ksock \in {"failed", "reset"}

TunnelInv == TunnelFirst /\ WaitsRight

\* No event is pending for a socket that is connecting.
LEMMA BatchSocket ==
  ASSUME TypeOK, FinInv, WaitsRight, Next
  PROVE  batch' # {} => ksock' # "connecting"
<1>k. ASSUME Kept(ksock'), batch' \in {batch, {}}
      PROVE  batch' # {} => ksock' # "connecting"
  BY <1>k, SMT DEF Kept, ErrorRead, WaitsRight
<1>1. CASE Monitor \/ SkipCheck
  BY <1>1, <1>k, Zenon DEF Monitor, SkipCheck, Kept, kernel
<1>2. CASE Check
  BY <1>2, SMT DEF Check, FinInv, Lives
<1>3. CASE EpollWait
  <2>1. ksock' = ksock  BY <1>3, Zenon DEF EpollWait, kernel
  <2>2. CASE ksock = "connecting"
    <3>1. batch' \in {{}}  BY <1>3, <2>2, ReportedIs, Zenon DEF EpollWait
    <3> QED  BY <3>1, Zenon
  <2> QED  BY <2>1, <2>2
<1>4. CASE CheckTcpSocket
  BY <1>4, Zenon DEF CheckTcpSocket, SocketError, SocketConnected, SocketReply,
                     SocketRelay, SocketGone, SocketEvent
<1>5. CASE EndDispatch  BY <1>5, Zenon DEF EndDispatch
<1>6. CASE NewSyn
  <2>1. batch = {}  BY <1>6, Zenon DEF NewSyn, FinInv, Lives, SocketLifetime
  <2> QED  BY <1>6, <2>1, Zenon DEF NewSyn
<1>7. CASE HandlePacket
  BY <1>7, <1>k, Zenon DEF HandlePacket, HandlesPacket, Kept
<1>8. CASE Connects  BY <1>8, SMT DEF Connects, WaitsRight
<1>9. CASE Fails  BY <1>9, SMT DEF Fails
<1>10. CASE Expires  BY <1>10, SMT DEF Expires, kernel, WaitsRight
<1>11. CASE ResolverExits  BY <1>11, SMT DEF ResolverExits, WaitsRight
<1> QED
  BY <1>1, <1>2, <1>3, <1>4, <1>5, <1>6, <1>7, <1>8, <1>9, <1>10, <1>11, Zenon
  DEF Next, Loop, HandleTcp, Environment

\* An empty slot stays empty but for a SYN.
LEMMA EmptyStays ==
  ASSUME TypeOK, FinInv, Next, ~NewSyn, tcp.state = "NONE"
  PROVE  tcp' = NoSession
<1>1. tcp = NoSession /\ ~tcp.open /\ ~tcp.expired /\ batch = {}
  BY NoSessionType, SMT DEF FinInv, Lives, SocketLifetime
<1>2. ~CheckTcpSocket /\ ~HandlePacket /\ ~Expires
  BY <1>1, Zenon DEF CheckTcpSocket, SocketError, SocketConnected, SocketReply,
                     SocketRelay, SocketGone, SocketEvent, HandlePacket, Expires
<1>3. Check => tcp' = tcp
  <2>1. time_out(tcp) = tcp  BY <1>1, Zenon DEF time_out
  <2>2. close_closing(tcp) = tcp  BY SMT DEF close_closing
  <2> QED  BY <1>1, <2>1, <2>2, Zenon DEF Check, CheckTcpSession
<1> QED
  BY <1>1, <1>2, <1>3, Zenon
  DEF Next, Loop, HandleTcp, Environment, Monitor, SkipCheck, EpollWait, EndDispatch,
      Connects, Fails, ResolverExits, kernel

\* A session whose CONNECT is answered, or that needs none, keeps the invariant.
LEMMA AnsweredTunnel ==
  ASSUME TypeOK, FinInv, WaitsRight, Next, ~Connecting(tcp')
  PROVE  TunnelInv'
BY BatchSocket, Zenon DEF TunnelInv, TunnelFirst, WaitsRight, Connecting

\* So does a step that relays nothing, leaves the phase and the events as they
\* are or takes the events, and does not bring the session to a state of its own.
LEMMA SilentTunnel ==
  ASSUME TypeOK, FinInv, TunnelInv, Next, Connecting(tcp), SameFlow(tcp', tcp),
         tcp'.open = tcp.open, tcp'.dest = tcp.dest, tcp'.connect_sent = tcp.connect_sent,
         \/ phase = "dispatch" /\ phase' = "dispatch" /\ batch' = {} /\ tcp'.state # "LISTEN"
         \/ tcp'.state = tcp.state /\ phase' = phase /\ batch' = batch /\ ksock' = ksock
  PROVE  TunnelInv'
<1>1. TunnelFirst'
  BY Zenon DEF TunnelInv, TunnelFirst, SameFlow
<1>2. CASE phase = "dispatch" /\ phase' = "dispatch" /\ batch' = {} /\ tcp'.state # "LISTEN"
  <2>1. WaitsRight'  BY <1>2, BatchSocket, SMT DEF TunnelInv, WaitsRight
  <2> QED  BY <1>1, <2>1, Zenon DEF TunnelInv
<1>3. CASE tcp'.state = tcp.state /\ phase' = phase /\ batch' = batch /\ ksock' = ksock
  <2>1. WaitsRight'
    BY <1>3, Zenon DEF TunnelInv, WaitsRight, SameFlow, Connecting
  <2> QED  BY <1>1, <2>1, Zenon DEF TunnelInv
<1> QED  BY <1>2, <1>3

\* Monitoring sets the mask.
LEMMA MonitorTunnel ==
  ASSUME TypeOK, FinInv, TunnelInv, Next, Monitor, Connecting(tcp)
  PROVE  TunnelInv'
<1>1. /\ ksock' = ksock /\ batch' = batch /\ phase' = "check"
      /\ tcp \in Session
  BY Zenon DEF Monitor, TypeOK, kernel
<1>b. batch' # {} => ksock' # "connecting"
  BY BatchSocket DEF TunnelInv
<1>2. CASE tcp.open /\ MonitorTcpSession
  <2>1. PICK ok \in TunWrites, written \in BOOLEAN, room \in BOOLEAN :
          LET events == Events(tcp, room)
              probe == /\ tcp.state \in {"ESTABLISHED", "CLOSE_WAIT"}
                       /\ get_send_window(tcp) = 0
                       /\ written
              t == IF probe THEN write_ack(tcp, ok) ELSE tcp
          IN  tcp' = [t EXCEPT !.mask = events,
                               !.state = IF events # tcp.mask /\ ~registered
                                         THEN "CLOSING" ELSE @]
    BY <1>2, Zenon DEF MonitorTcpSession
  <2> DEFINE events == Events(tcp, room)
             v == IF events # tcp.mask /\ ~registered THEN "CLOSING" ELSE tcp.state
             u == [tcp EXCEPT !.mask = events, !.state = v]
  <2>2. tcp.state \in {"LISTEN", "SYN_RECV", "CLOSING", "CLOSE"}
    BY Zenon DEF FinInv, Lives, EarlyConnect
  <2>3. tcp.state \notin {"ESTABLISHED", "CLOSE_WAIT"}  BY <2>2, SMT
  <2>4. tcp' = u  BY <2>1, <2>3, Zenon
  <2>5. events = CASE tcp.state = "LISTEN" ->
                        IF tcp.connect_sent = "SENT" THEN {"IN"} ELSE {"OUT"}
                   [] OTHER -> {}
    BY <2>2, SMT DEF Events, Connecting
  <2>m. /\ tcp.state = "LISTEN" => events \in {{"IN"}, {"OUT"}}
        /\ tcp.state = "LISTEN" /\ tcp.connect_sent = "NOT_SENT"
             => events = {"OUT"} /\ v = "LISTEN"
        /\ tcp.state = "LISTEN" /\ tcp.connect_sent # "NOT_SENT" => events = {"IN"}
        /\ tcp.state # "LISTEN" => events = {}
    <3>1. tcp.connect_sent \in {"NOT_SENT", "SENT"}
      BY <1>1, SessionFields, SMT DEF Connecting
    <3>2. tcp.state = "LISTEN" /\ tcp.connect_sent = "NOT_SENT" => tcp.mask = {"OUT"}
      BY Zenon DEF TunnelInv, WaitsRight
    <3> HIDE DEF events
    <3> QED  BY <2>2, <2>5, <3>1, <3>2, SMT
  <2>6. v \in {tcp.state, "CLOSING"}  BY Zenon
  <2> HIDE DEF events, v
  <2>7. /\ u.mask = events /\ u.state = v /\ u.open = tcp.open /\ u.dest = tcp.dest
        /\ u.connect_sent = tcp.connect_sent /\ u.hist = tcp.hist
    BY <1>1, Zenon DEF Session
  <2> HIDE DEF u
  <2>8. TunnelFirst'  BY <2>4, <2>7, Zenon DEF TunnelInv, TunnelFirst
  <2>9. "OUT" \notin {"IN"} /\ "OUT" \notin {}  BY SMT
  <2>10. WaitsRight'
    <3>1. Connecting(tcp') /\ tcp'.state = "LISTEN" /\ tcp'.connect_sent = "NOT_SENT"
            => tcp'.mask = {"OUT"}
      BY <2>m, <2>4, <2>6, <2>7, SMT
    <3>2. tcp'.state \in {"SYN_RECV", "CLOSING"} => "OUT" \notin tcp'.mask
      BY <2>m, <2>4, <2>6, <2>7, <2>9, SMT
    <3>3. phase' # "dispatch"  BY <1>1, SMT
    <3> QED  BY <1>b, <3>1, <3>2, <3>3, Zenon DEF WaitsRight
  <2> QED  BY <2>8, <2>10, Zenon DEF TunnelInv
<1>3. CASE ~tcp.open /\ tcp' = tcp
  <2>1. TunnelFirst'  BY <1>3, Zenon DEF TunnelInv, TunnelFirst
  <2>2. WaitsRight'  BY <1>b, <1>3, Zenon DEF TunnelInv, WaitsRight
  <2> QED  BY <2>1, <2>2, Zenon DEF TunnelInv
<1> QED  BY <1>2, <1>3, Zenon DEF Monitor

\* The check drops a session, closes it, or changes nothing that matters here.
LEMMA CheckTunnel ==
  ASSUME TypeOK, FinInv, TunnelInv, Next, Check, Connecting(tcp)
  PROVE  TunnelInv'
<1> DEFINE s == time_out(tcp)
           t == close_closing(s)
<1>1. tcp \in Session /\ s \in Session  BY CheckType DEF TypeOK
<1>2. Same(s, tcp) /\ SameFlow(s, tcp) /\ s.state \in {tcp.state, "CLOSING"}
  BY <1>1, CheckEffect, FlowKept
<1>3. SameFlow(t, s)  BY <1>1, FlowKept
<1>4. /\ s.state # "CLOSING" => t = s
      /\ s.state = "CLOSING" => t.open = FALSE /\ t.state = "CLOSE" /\ t.dest = s.dest
                                /\ t.connect_sent = s.connect_sent
  BY <1>1, CheckEffect, Zenon
<1>5. /\ tcp' = NoSession \/ tcp' = t
      /\ batch' = batch /\ phase = "check" /\ phase' = "wait"
  BY Zenon DEF Check, CheckTcpSession
<1> HIDE DEF s, t
<1>6. CASE tcp' = NoSession
  <2>1. ~Connecting(tcp')  BY <1>6, NoSessionType, SMT DEF Connecting
  <2> QED  BY <2>1, AnsweredTunnel DEF TunnelInv
<1>7. CASE tcp' = t
  <2>1. SameFlow(tcp', tcp) /\ tcp'.dest = tcp.dest /\ tcp'.connect_sent = tcp.connect_sent
    BY <1>2, <1>3, <1>4, <1>7, Zenon DEF Same, SameFlow
  <2>2. TunnelFirst'  BY <2>1, Zenon DEF TunnelInv, TunnelFirst, SameFlow
  <2>b. batch' # {} => ksock' # "connecting"  BY BatchSocket DEF TunnelInv
  <2>3. CASE s.state = "CLOSING"
    <3>1. tcp'.state = "CLOSE"  BY <1>4, <1>7, <2>3
    <3>2. WaitsRight'  BY <2>b, <3>1, SMT DEF WaitsRight
    <3> QED  BY <2>2, <3>2, Zenon DEF TunnelInv
  <2>4. CASE s.state # "CLOSING"
    <3>1. tcp'.state = tcp.state /\ tcp'.open = tcp.open /\ tcp'.mask = tcp.mask
      BY <1>2, <1>4, <1>7, <2>4, SMT DEF Same, SameFlow
    <3>2. batch' = {}  BY <1>5, SMT DEF FinInv, Lives
    <3>3. WaitsRight'
      BY <1>5, <2>1, <2>b, <3>1, <3>2, SMT DEF TunnelInv, WaitsRight, Connecting
    <3> QED  BY <2>2, <3>3, Zenon DEF TunnelInv
  <2> QED  BY <2>3, <2>4
<1> QED  BY <1>5, <1>6, <1>7

\* epoll_wait reports EPOLLOUT only to those who wait for it.
LEMMA IdleTunnel ==
  ASSUME TypeOK, FinInv, TunnelInv, Next, Connecting(tcp),
         SkipCheck \/ EpollWait \/ EndDispatch \/ Connects \/ Fails \/ ResolverExits
  PROVE  TunnelInv'
<1>1. tcp' = tcp
  BY Zenon DEF SkipCheck, EpollWait, EndDispatch, Connects, Fails, ResolverExits
<1>2. TunnelFirst'  BY <1>1, Zenon DEF TunnelInv, TunnelFirst
<1>b. batch' # {} => ksock' # "connecting"  BY BatchSocket DEF TunnelInv
<1>3. CASE SkipCheck
  <2>1. batch' = batch /\ phase = "check" /\ phase' = "wait"  BY <1>3, Zenon DEF SkipCheck
  <2>2. WaitsRight'  BY <1>1, <1>b, <2>1, SMT DEF TunnelInv, WaitsRight, Connecting
  <2> QED  BY <1>2, <2>2, Zenon DEF TunnelInv
<1>4. CASE EpollWait
  <2>1. phase = "wait" /\ phase' = "dispatch"  BY <1>4, Zenon DEF EpollWait
  <2>2. "OUT" \in batch' => "OUT" \in tcp.mask
    <3>1. batch' \in Reported \/ batch' = {}  BY <1>4, Zenon DEF EpollWait
    <3>2. "OUT" \in batch' => batch' # {}  BY SMT
    <3> QED  BY <3>1, <3>2, ReportedType, Zenon
  <2>3. WaitsRight'  BY <1>1, <1>b, <2>1, <2>2, SMT DEF TunnelInv, WaitsRight, Connecting
  <2> QED  BY <1>2, <2>3, Zenon DEF TunnelInv
<1>5. CASE EndDispatch
  <2>1. phase' = "monitor"  BY <1>5, Zenon DEF EndDispatch
  <2>2. WaitsRight'  BY <1>1, <1>b, <2>1, SMT DEF TunnelInv, WaitsRight, Connecting
  <2> QED  BY <1>2, <2>2, Zenon DEF TunnelInv
<1>6. CASE Connects \/ Fails \/ ResolverExits
  <2>1. phase' = phase /\ batch' = batch
        /\ (ksock = "connecting" \/ ksock' = "failed" \/ ksock' = ksock)
    BY <1>6, Zenon DEF Connects, Fails, ResolverExits
  <2>2. batch # {} => ksock # "connecting"  BY SMT DEF TunnelInv, WaitsRight
  <2>3. "OUT" \in batch => batch # {}  BY SMT
  <2>4. WaitsRight'
    BY <1>1, <1>b, <2>1, <2>2, <2>3, SMT DEF TunnelInv, WaitsRight, Connecting
  <2> QED  BY <1>2, <2>4, Zenon DEF TunnelInv
<1> QED  BY <1>3, <1>4, <1>5, <1>6

\* Nor does the timeout's passing.
LEMMA ExpiresTunnel ==
  ASSUME TypeOK, FinInv, TunnelInv, Next, Connecting(tcp), Expires
  PROVE  TunnelInv'
<1>1. tcp \in Session  BY DEF TypeOK
<1>2. /\ Same(tcp', tcp) /\ SameFlow(tcp', tcp) /\ tcp'.state = tcp.state
      /\ ksock' = ksock /\ phase' = phase /\ batch' = batch
  BY <1>1, ExpiredEffect, FlowKept, Zenon DEF Expires, kernel
<1> QED  BY <1>2, SilentTunnel, Zenon DEF Same

\* A packet is only queued; one that cannot send the CONNECT found the socket
\* failed, and the events that wait with it.
LEMMA PacketTunnel ==
  ASSUME TypeOK, FinInv, TunnelInv, Next, Connecting(tcp), HandlePacket
  PROVE  TunnelInv'
<1>1. PICK pkt \in Packets, i \in 1 .. Len(tcp.forward) + 1 : HandlesPacket(pkt, i)
  BY Zenon DEF HandlePacket
<1>2. HandleConnecting(pkt, i)
  BY <1>1, Zenon
  DEF HandlesPacket, HandleClosed, HandleUnwanted, HandleRst, HandleRepeatedSyn,
      HandleFin, HandleAck, HandleOtherAck, Accepts
<1>3. /\ tcp \in Session /\ phase = "dispatch" /\ phase' = phase /\ batch' = batch
      /\ ksock' = IF tcp.connect_sent = "NOT_SENT" THEN ErrorRead ELSE ksock
  BY <1>1, Zenon DEF TypeOK, HandlePacket, HandlesPacket
<1> DEFINE c == IF tcp.connect_sent = "SENT" THEN tcp
                ELSE send_connect(tcp, ksock = "connected")
<1>4. tcp' = queue_tcp(c, pkt, i)  BY <1>2, Zenon DEF HandleConnecting
<1>5. tcp.connect_sent \in {"NOT_SENT", "SENT"}
  BY <1>3, SessionFields, SMT DEF Connecting
<1>6. CASE tcp.connect_sent = "SENT"
  <2>1. tcp' = queue_tcp(tcp, pkt, i)  BY <1>4, <1>6, Zenon
  <2>2. LET t == queue_tcp(tcp, pkt, i)
        IN  /\ SameFlow(t, tcp) /\ t.state = tcp.state /\ t.open = tcp.open
            /\ t.dest = tcp.dest /\ t.connect_sent = tcp.connect_sent
    BY <1>3, QueueEffect, FlowKept
  <2>3. ksock' = ksock  BY <1>3, <1>6, SMT
  <2> QED  BY <1>3, <2>1, <2>2, <2>3, SilentTunnel, Zenon
<1>7. CASE tcp.connect_sent = "NOT_SENT"
  <2> DEFINE u == send_connect(tcp, ksock = "connected")
  <2>1. (ksock = "connected") \in BOOLEAN  BY Zenon
  <2>2. /\ u \in Session /\ u.open = tcp.open /\ u.dest = tcp.dest
        /\ SameFlow(u, tcp)
        /\ \/ u.connect_sent = "SENT" /\ u.state = "LISTEN"
           \/ /\ u.connect_sent = tcp.connect_sent
              /\ u.state = IF tcp.state = "CLOSE" THEN "CLOSE" ELSE "CLOSING"
    BY <1>3, <2>1, WriteType, SendConnectEffect, FlowKept, Zenon
  <2>3. ksock = "connected" => u.connect_sent = "SENT"
    <3>1. [tcp EXCEPT !.connect_sent = "SENT", !.state = "LISTEN"].connect_sent = "SENT"
      BY <1>3, Zenon DEF Session
    <3> QED  BY <3>1, Zenon DEF send_connect
  <2> HIDE DEF u
  <2>4. tcp' = queue_tcp(u, pkt, i)
    <3>1. tcp.connect_sent # "SENT"  BY <1>7, SMT
    <3> QED  BY <1>4, <3>1, Zenon DEF u
  <2>5. LET t == queue_tcp(u, pkt, i)
        IN  /\ SameFlow(t, u) /\ t.state = u.state /\ t.open = u.open
            /\ t.dest = u.dest /\ t.connect_sent = u.connect_sent
    BY <2>2, QueueEffect, FlowKept
  <2>6. /\ SameFlow(tcp', tcp) /\ tcp'.dest = tcp.dest /\ tcp'.open = tcp.open
        /\ tcp'.state = u.state /\ tcp'.connect_sent = u.connect_sent
    BY <2>2, <2>4, <2>5, Zenon DEF SameFlow
  <2>7. TunnelFirst'
    BY <1>7, <2>6, SMT DEF TunnelInv, TunnelFirst, SameFlow, Connecting
  <2>b. batch' # {} => ksock' # "connecting"  BY BatchSocket DEF TunnelInv
  <2>8. CASE u.connect_sent = "SENT" /\ u.state = "LISTEN"
    <3>1. WaitsRight'  BY <2>6, <2>8, <2>b, SMT DEF WaitsRight
    <3> QED  BY <2>7, <3>1, Zenon DEF TunnelInv
  <2>9. CASE u.connect_sent # "SENT"
    <3>1. ksock # "connected" /\ tcp'.state \in {"CLOSE", "CLOSING"}
      BY <2>2, <2>3, <2>6, <2>9, SMT
    <3>2. batch # {} /\ tcp.open => ksock \in {"failed", "reset"}
      BY <3>1, SMT DEF TypeOK, TunnelInv, WaitsRight, FinInv, Lives, SocketLifetime
    <3>3. "OUT" \in batch' /\ tcp'.open => ksock' \in {"failed", "reset"}
      <4>1. "OUT" \in batch' => batch # {}  BY <1>3, SMT
      <4> QED  BY <1>3, <2>6, <3>2, <4>1, SMT DEF ErrorRead
    <3>4. phase' = "dispatch"  BY <1>3
    <3>5. WaitsRight'  BY <2>b, <3>1, <3>3, <3>4, SMT DEF WaitsRight
    <3> QED  BY <2>7, <3>5, Zenon DEF TunnelInv
  <2>10. u.connect_sent = "SENT" => u.state = "LISTEN"  BY <1>7, <2>2, SMT
  <2> QED  BY <2>8, <2>9, <2>10
<1> QED  BY <1>5, <1>6, <1>7

\* A new session waits to be connected.
LEMMA NewSynTunnel ==
  ASSUME TypeOK, FinInv, TunnelInv, Next, NewSyn
  PROVE  TunnelInv'
<1>1. PICK seq \in RemoteISNs, len \in 0 .. MaxUp, window \in Windows,
           dest \in Ports, isn \in LocalISNs, room \in BOOLEAN :
        tcp' = NewSession([flags |-> {"SYN"}, seq |-> seq, ack_seq |-> 0,
                           len |-> len, window |-> window], dest, isn, room)
  BY Zenon DEF NewSyn
<1> DEFINE pkt == [flags |-> {"SYN"}, seq |-> seq, ack_seq |-> 0,
                   len |-> len, window |-> window]
<1>2. /\ tcp'.state = "LISTEN" /\ tcp'.mask = {"OUT"}
      /\ tcp'.hist.up = 0 /\ tcp'.hist.down = 0
  <2> DEFINE t == NewSession(pkt, dest, isn, room)
  <2>1. t.state = "LISTEN" /\ t.mask = {"OUT"} /\ t.hist = NoHistory
    BY Zenon DEF NewSession
  <2>2. NoHistory.up = 0 /\ NoHistory.down = 0  BY SMT DEF NoHistory
  <2>3. tcp' = t  BY <1>1, Zenon
  <2> HIDE DEF t
  <2> QED  BY <2>1, <2>2, <2>3, Zenon
<1>3. TunnelFirst'  BY <1>2, Zenon DEF TunnelFirst
<1>4. WaitsRight'  BY <1>2, BatchSocket, SMT DEF TunnelInv, WaitsRight
<1> QED  BY <1>3, <1>4, Zenon DEF TunnelInv

\* The relay of a session with an unanswered CONNECT reads nothing, and sends
\* something only to a socket that refuses it.
LEMMA RelayTunnel ==
  ASSUME TypeOK, FinInv, TunnelInv, Next, Connecting(tcp), SocketRelay
  PROVE  TunnelInv'
<1>1. PICK o \in Sends, room \in BOOLEAN, ok \in TunWrites :
      \E refused \in Refusals(o) :
        LET s == acknowledge(Forwarded(tcp, o, refused),
                             o.k > 0 \/ o.part > 0, room, ok)
            k == IF o.k > 0 THEN ErrorRead ELSE ksock
        IN  /\ o.part > 0 => ksock = "connected"
            /\ IF Reads(s) THEN Receive(s, k)
               ELSE tcp' = s /\ ksock' = k /\ UNCHANGED registered
  BY Zenon DEF SocketRelay
<1>2. PICK refused \in Refusals(o) :
        LET s == acknowledge(Forwarded(tcp, o, refused),
                             o.k > 0 \/ o.part > 0, room, ok)
            k == IF o.k > 0 THEN ErrorRead ELSE ksock
        IN  /\ o.part > 0 => ksock = "connected"
            /\ IF Reads(s) THEN Receive(s, k)
               ELSE tcp' = s /\ ksock' = k /\ UNCHANGED registered
  BY <1>1, Zenon
<1> DEFINE t == Forwarded(tcp, o, refused)
           fwd == o.k > 0 \/ o.part > 0
           r == acknowledge(t, fwd, room, ok)
<1>3. /\ batch # {} /\ batch' = {} /\ phase' = "dispatch" /\ tcp.state # "LISTEN"
  BY Zenon DEF SocketRelay, SocketEvent
<1>4. tcp \in Session /\ tcp.open /\ tcp.state \in {"SYN_RECV", "CLOSING"}
  <2>1. tcp.open  BY Zenon DEF SocketRelay
  <2> QED  BY <1>3, <2>1, SMT DEF TypeOK, FinInv, Lives, SocketLifetime, EarlyConnect
<1>5. /\ OutcomeOf(o, tcp) /\ refused \in BOOLEAN /\ ok \in BOOLEAN
      /\ t \in Session /\ fwd \in BOOLEAN
  BY SendsType, RelayedType, OutcomeTypes
<1>6. RelayedFin(r)  BY <1>4, RelayFin DEF FinInv
<1>7. /\ t.mask = tcp.mask /\ t.hist.down = tcp.hist.down
      /\ t.hist.lost = (tcp.hist.lost \/ refused)
      /\ o.k = 0 /\ o.part = 0 => t.hist.up = tcp.hist.up
  BY <1>4, <1>5, ForwardedFlow
<1> HIDE DEF t, fwd
<1>8. SameFlow(r, t)  BY <1>5, AcknowledgeFlow
<1>9. /\ o.part > 0 => ksock = "connected"
      /\ ~Reads(r) => tcp' = r
  BY <1>2, Zenon DEF r, t, fwd
<1> HIDE DEF r
<1>10. tcp' = r /\ tcp'.state \in {"SYN_RECV", "CLOSING"}
       /\ tcp'.dest = tcp.dest /\ tcp'.connect_sent = tcp.connect_sent
  <2>1. r.state \in {"SYN_RECV", "CLOSING"}  BY <1>4, <1>6, SMT DEF RelayedFin
  <2>2. ~Reads(r)  BY <2>1, SMT DEF Reads
  <2> QED  BY <1>6, <1>9, <2>1, <2>2, Zenon DEF RelayedFin
<1>11. o.k \in Nat /\ o.part \in Nat
  <2>1. Len(tcp.forward) \in Nat  BY <1>4, SessionFields, SMT
  <2> QED  BY <1>5, <2>1, SMT DEF OutcomeOf
<1>12. (o.k = 0 /\ o.part = 0) \/ refused
  <2>1. CASE "OUT" \notin batch
    <3>1. o = [k |-> 0, part |-> 0]  BY <2>1, Zenon DEF Sends
    <3> QED  BY <3>1, SMT
  <2>2. CASE "OUT" \in batch
    <3>1. ksock \in {"failed", "reset"}
      <4>1. phase = "dispatch"  BY Zenon DEF SocketRelay, SocketEvent
      <4> QED  BY <1>4, <2>2, <4>1, Zenon DEF TunnelInv, WaitsRight
    <3>2. o.part = 0  BY <1>9, <1>11, <3>1, SMT
    <3>3. o.k # 0 => refused \in {TRUE}  BY <3>1, Zenon DEF Refusals
    <3> QED  BY <3>2, <3>3, Zenon
  <2> QED  BY <2>1, <2>2
<1>13. TunnelFirst'
  <2>1. tcp'.hist.down = tcp.hist.down /\ tcp'.hist.up = t.hist.up
        /\ tcp'.hist.lost = (tcp.hist.lost \/ refused)
    BY <1>7, <1>8, <1>10, Zenon DEF SameFlow
  <2>2. ~tcp'.hist.lost => ~tcp.hist.lost /\ tcp'.hist.up = tcp.hist.up
    BY <1>7, <1>12, <2>1, Zenon
  <2> QED  BY <1>10, <2>1, <2>2, Zenon DEF TunnelInv, TunnelFirst
<1>14. WaitsRight'
  <2>b. batch' # {} => ksock' # "connecting"  BY BatchSocket DEF TunnelInv
  <2>1. "OUT" \notin batch'  BY <1>3, SMT
  <2> QED  BY <1>3, <1>10, <2>b, <2>1, SMT DEF WaitsRight
<1> QED  BY <1>13, <1>14, Zenon DEF TunnelInv

\* No event of the socket relays anything before the answer.
LEMMA SocketTunnel ==
  ASSUME TypeOK, FinInv, TunnelInv, Next, Connecting(tcp), CheckTcpSocket
  PROVE  TunnelInv'
<1>1. /\ batch' = {} /\ phase = "dispatch" /\ phase' = "dispatch" /\ tcp \in Session
  BY Zenon DEF CheckTcpSocket, SocketError, SocketConnected, SocketReply, SocketRelay,
               SocketGone, SocketEvent, TypeOK
<1>q. ASSUME SameFlow(tcp', tcp), Same(tcp', tcp), tcp'.state # "LISTEN"
      PROVE  TunnelInv'
  BY <1>1, <1>q, SilentTunnel, Zenon DEF Same
<1> DEFINE w == write_rst(tcp)
<1>w. w \in Session /\ Same(w, tcp) /\ SameFlow(w, tcp)
      /\ w.state \in {"CLOSE", "CLOSING"}
  BY <1>1, WriteType, WriteEffect, FlowKept
<1> HIDE DEF w
<1>2. CASE SocketError
  <2> DEFINE u == [w EXCEPT !.expired = FALSE]
  <2>1. Same(u, w) /\ SameFlow(u, w) /\ u.state = w.state
    BY <1>w, ExpiredEffect, FlowKept
  <2>2. tcp' = u  BY <1>2, Zenon DEF SocketError, w
  <2> HIDE DEF u
  <2>3. SameFlow(tcp', tcp) /\ Same(tcp', tcp)
    BY <1>w, <2>1, <2>2, Zenon DEF Same, SameFlow
  <2>4. tcp'.state # "LISTEN"  BY <1>w, <2>1, <2>2, SMT
  <2> QED  BY <1>q, <2>3, <2>4
<1>3. CASE SocketConnected
  <2>1. PICK ok \in BOOLEAN : tcp' = connected(tcp, ok)
    BY <1>3, OutcomeTypes, Zenon DEF SocketConnected
  <2> DEFINE t == connected(tcp, ok)
  <2>2. Same(t, tcp) /\ SameFlow(t, tcp) /\ t.state \in {"SYN_RECV", "CLOSING"}
    BY <1>1, ConnectedEffect, ConnectedFlow
  <2>3. tcp' = t  BY <2>1
  <2> HIDE DEF t
  <2>4. tcp'.state # "LISTEN"  BY <2>2, <2>3, SMT
  <2> QED  BY <1>q, <2>2, <2>3, <2>4
<1>4. CASE SocketReply
  <2>1. CASE tcp' = w
    <3>1. tcp'.state # "LISTEN"  BY <1>w, <2>1, SMT
    <3> QED  BY <1>q, <1>w, <2>1, <3>1
  <2>2. CASE tcp' = connect_reply(tcp)
    <3> DEFINE t == connect_reply(tcp)
    <3>1. /\ SameFlow(t, tcp) /\ t.open = tcp.open /\ t.dest = tcp.dest
          /\ \/ t.connect_sent = "ESTABLISHED"
             \/ /\ t.connect_sent = tcp.connect_sent
                /\ t.state \in {"CLOSE", "CLOSING"}
      BY <1>1, ConnectReplyEffect, FlowKept, Zenon
    <3>2. tcp' = t  BY <2>2
    <3> HIDE DEF t
    <3>3. CASE t.connect_sent = "ESTABLISHED"
      BY <3>2, <3>3, AnsweredTunnel, Zenon DEF TunnelInv, Connecting
    <3>4. CASE t.connect_sent = tcp.connect_sent /\ t.state \in {"CLOSE", "CLOSING"}
      <4>1. tcp'.state # "LISTEN"  BY <3>2, <3>4, SMT
      <4> QED  BY <1>1, <3>1, <3>2, <3>4, <4>1, SilentTunnel, Zenon
    <3> QED  BY <3>1, <3>3, <3>4, Zenon
  <2> QED  BY <1>4, <2>1, <2>2, Zenon DEF SocketReply, w
<1>5. CASE SocketRelay  BY <1>5, RelayTunnel
<1>6. CASE SocketGone  BY <1>6, <1>q, GoneEffect, Zenon
<1> QED  BY <1>2, <1>3, <1>4, <1>5, <1>6 DEF CheckTcpSocket

\* Every step keeps the invariant.
LEMMA TunnelStep ==
  ASSUME TypeOK, FinInv, TunnelInv, [Next]_vars
  PROVE  TunnelInv'
<1>1. CASE UNCHANGED vars
  <2>1. TunnelFirst'  BY <1>1, Zenon DEF vars, TunnelInv, TunnelFirst
  <2>2. WaitsRight'  BY <1>1, Zenon DEF vars, kernel, TunnelInv, WaitsRight, Connecting
  <2> QED  BY <2>1, <2>2, Zenon DEF TunnelInv
<1>2. CASE Next
  <2>1. CASE NewSyn  BY <1>2, <2>1, NewSynTunnel
  <2>2. CASE ~NewSyn /\ tcp.state = "NONE"
    <3>1. tcp' = NoSession  BY <1>2, <2>2, EmptyStays
    <3>2. ~Connecting(tcp')  BY <3>1, NoSessionType, SMT DEF Connecting
    <3> QED  BY <1>2, <3>2, AnsweredTunnel DEF TunnelInv
  <2>3. CASE tcp.state # "NONE" /\ ~Connecting(tcp)
    <3>1. Moves  BY FinStep
    <3>2. ~Connecting(tcp')  BY <2>3, <3>1, Zenon DEF Moves
    <3> QED  BY <1>2, <3>2, AnsweredTunnel DEF TunnelInv
  <2>4. CASE ~NewSyn /\ tcp.state # "NONE" /\ Connecting(tcp)
    <3>1. CASE Monitor  BY <1>2, <2>4, <3>1, MonitorTunnel
    <3>2. CASE Check  BY <1>2, <2>4, <3>2, CheckTunnel
    <3>3. CASE CheckTcpSocket  BY <1>2, <2>4, <3>3, SocketTunnel
    <3>4. CASE HandlePacket  BY <1>2, <2>4, <3>4, PacketTunnel
    <3>5. CASE Expires  BY <1>2, <2>4, <3>5, ExpiresTunnel
    <3>6. CASE SkipCheck \/ EpollWait \/ EndDispatch \/ Connects \/ Fails \/ ResolverExits
      BY <1>2, <2>4, <3>6, IdleTunnel
    <3> QED
      BY <1>2, <2>4, <3>1, <3>2, <3>3, <3>4, <3>5, <3>6
      DEF Next, Loop, HandleTcp, Environment
  <2> QED  BY <2>1, <2>2, <2>3, <2>4
<1> QED  BY <1>1, <1>2

LEMMA TunnelInvariant == Spec => []TunnelInv
<1>1. Init => TunnelInv
  <2>1. NoHistory.up = 0 /\ NoHistory.down = 0 /\ NoSession.hist = NoHistory
    BY SMT DEF NoHistory, NoSession
  <2>2. Init => TunnelFirst  BY <2>1, Zenon DEF Init, TunnelFirst
  <2>3. Init => WaitsRight
    BY NoSessionType, SMT DEF Init, WaitsRight, Connecting
  <2> QED  BY <2>2, <2>3, Zenon DEF TunnelInv
<1>2. TypeOK /\ FinInv /\ TunnelInv /\ [Next]_vars => TunnelInv'
  BY TunnelStep
<1> QED  BY <1>1, <1>2, FinInvariant, PTL DEF Spec

(***************************************************************************)
(* Nothing is relayed through a proxy before it answered the CONNECT, in   *)
(* any order of packets, events, timeouts and failures; only bytes that a  *)
(* failed socket refused can be counted as sent before.                    *)
(***************************************************************************)
THEOREM TunnelFirstCorrect == Spec => []TunnelFirst
<1>1. TunnelInv => TunnelFirst  BY DEF TunnelInv
<1> QED  BY <1>1, TunnelInvariant, PTL

-----------------------------------------------------------------------------
\* What a step does to the sequence numbers and to what they count.

\* The app has confirmed the engine's SYN and the session is not closing.
EstablishedStates == {"ESTABLISHED", "CLOSE_WAIT", "FIN_WAIT1", "LAST_ACK"}

\* The engine's side stays as it is, and the session does not begin anew.
Steady ==
  /\ Counted(tcp', tcp) /\ tcp'.acked = tcp.acked
  /\ tcp'.connect_sent = tcp.connect_sent
  /\ \/ tcp'.state \in {"CLOSING", "CLOSE"}
     \/ /\ tcp'.hist.syn = tcp.hist.syn
        /\ \/ tcp'.state = tcp.state
           \/ tcp.state \in EstablishedStates /\ tcp'.state \in EstablishedStates

\* The CONNECT is sent, and brings the session to LISTEN.
Resumes ==
  /\ Counted(tcp', tcp) /\ Connecting(tcp) /\ tcp.connect_sent = "NOT_SENT"
  /\ tcp'.state = "LISTEN" /\ tcp'.connect_sent = "SENT"
  /\ ksock = "connected" /\ phase = "dispatch" /\ phase' = phase /\ batch' = batch

\* The CONNECT is answered.
Replies ==
  /\ Counted(tcp', tcp)
  /\ tcp.state = "LISTEN" /\ tcp.connect_sent = "SENT"
  /\ tcp'.state = "SYN_RECV" /\ tcp'.connect_sent = "ESTABLISHED"

\* The app acknowledges everything it was sent, or something older.
Acks ==
  /\ Counted(tcp', tcp) /\ tcp'.connect_sent = tcp.connect_sent
  /\ tcp'.hist.syn = tcp.hist.syn
  /\ \/ /\ tcp'.acked = tcp.local_seq
        /\ \/ tcp'.state \in {tcp.state, "CLOSING"}
           \/ tcp.state = "SYN_RECV" /\ tcp'.state = "ESTABLISHED"
     \/ /\ \E d \in 0 .. MaxDown + 3 : tcp'.acked = Add(tcp.local_start, d)
        /\ compare_u32(tcp'.acked, tcp.local_seq) < 0
        /\ compare_u32(tcp'.acked, tcp.acked) > 0
        /\ tcp'.state = tcp.state

\* Both sides are counted on, from the same starts.
CountedOn ==
  /\ tcp'.dest = tcp.dest /\ tcp'.connect_sent = tcp.connect_sent
  /\ tcp'.acked = tcp.acked
  /\ tcp'.remote_start = tcp.remote_start /\ tcp'.local_start = tcp.local_start
  /\ RemoteCounts(tcp) => RemoteCounts(tcp')

\* The engine answers the app's SYN.
Answers ==
  /\ CountedOn /\ (LocalCounts(tcp) => LocalCounts(tcp'))
  /\ tcp.state = "LISTEN" /\ tcp'.state \in {"SYN_RECV", "CLOSING"}
  /\ batch # {} /\ batch \cap {"IN", "ERR"} = {}
  /\ tcp'.hist.down = tcp.hist.down /\ tcp'.hist.syn = tcp.hist.syn + 1
  /\ tcp'.hist.synack \in {tcp.hist.synack, tcp.hist.synack + 1}
  /\ tcp'.state # "CLOSING" => tcp'.hist.synack = tcp.hist.synack + 1

\* The server ends its stream.
Ends ==
  /\ CountedOn /\ (LocalCounts(tcp) => LocalCounts(tcp'))
  /\ tcp.state \in {"ESTABLISHED", "CLOSE_WAIT"}
  /\ tcp'.state \in {"CLOSING", "FIN_WAIT1", "LAST_ACK"}
  /\ tcp'.hist.down = tcp.hist.down /\ tcp'.hist.synack = tcp.hist.synack
  /\ tcp'.state # "CLOSING" => tcp'.hist.syn = tcp.hist.syn

\* n bytes of the server are relayed, within the window.
Gets(n) ==
  LET behind == IF compare_u32(tcp.acked, tcp.local_seq) <= 0
                THEN Sub(tcp.local_seq, tcp.acked) ELSE tcp.acked
  IN  /\ CountedOn /\ (LocalCounts(tcp) /\ tcp'.state # "CLOSING" => LocalCounts(tcp'))
      /\ tcp.state \in {"ESTABLISHED", "CLOSE_WAIT"}
      /\ tcp'.state \in {tcp.state, "CLOSING"}
      /\ tcp'.hist.down = tcp.hist.down + n /\ tcp'.hist.down <= MaxDown
      /\ tcp'.hist.synack = tcp.hist.synack /\ tcp'.hist.syn = tcp.hist.syn
      /\ tcp'.state = "CLOSING" \/ tcp'.local_seq = Add(tcp.local_seq, n)
      /\ n <= IF behind < tcp'.send_window THEN tcp'.send_window - behind ELSE 0

\* A session is opened: nothing is counted yet.
Opens ==
  /\ tcp.state = "NONE" /\ tcp'.state = "LISTEN" /\ tcp'.hist = NoHistory
  /\ tcp'.remote_seq = tcp'.remote_start /\ tcp'.local_seq = tcp'.local_start
  /\ tcp'.connect_sent \in {"NOT_SENT", "ESTABLISHED"}

CountStep ==
  \/ Steady \/ Resumes \/ Replies \/ Acks \/ Answers \/ Ends
  \/ (\E n \in 1 .. MaxDown : Gets(n))
  \/ Opens \/ tcp' = NoSession

\* Monitoring counts nothing.
LEMMA MonitorCounts ==
  ASSUME TypeOK, Monitor
  PROVE  Steady
<1>0. tcp \in Session  BY DEF TypeOK
<1>1. CASE tcp.open /\ MonitorTcpSession
  <2>1. PICK ok \in TunWrites, written \in BOOLEAN, room \in BOOLEAN :
          LET events == Events(tcp, room)
              probe == /\ tcp.state \in {"ESTABLISHED", "CLOSE_WAIT"}
                       /\ get_send_window(tcp) = 0
                       /\ written
              t == IF probe THEN write_ack(tcp, ok) ELSE tcp
          IN  tcp' = [t EXCEPT !.mask = events,
                               !.state = IF events # tcp.mask /\ ~registered
                                         THEN "CLOSING" ELSE @]
    BY <1>1, Zenon DEF MonitorTcpSession
  <2> DEFINE events == Events(tcp, room)
             probe == /\ tcp.state \in {"ESTABLISHED", "CLOSE_WAIT"}
                      /\ get_send_window(tcp) = 0
                      /\ written
             t == IF probe THEN write_ack(tcp, ok) ELSE tcp
             v == IF events # tcp.mask /\ ~registered THEN "CLOSING" ELSE t.state
             u == [t EXCEPT !.mask = events, !.state = v]
  <2>2. ok \in BOOLEAN  BY OutcomeTypes, Zenon
  <2>3. events \in SUBSET {"IN", "OUT"}  BY <1>0, EventsType
  <2>4. t \in Session /\ Same(t, tcp) /\ t.state \in {tcp.state, "CLOSING"}
        /\ SameSeqs(t, tcp)
    <3>1. Same(tcp, tcp)  BY Zenon DEF Same
    <3> QED  BY <1>0, <2>2, <3>1, WriteType, WriteEffect, SeqsKept, Zenon
  <2>5. tcp' = u  BY <2>1, Zenon
  <2> HIDE DEF t, events
  <2>6. v \in {t.state, "CLOSING"} /\ v \in States
    BY <2>4, SessionFields, SMT DEF States
  <2> HIDE DEF v
  <2>7. Same(u, t) /\ u.state = v /\ SameSeqs(u, t)
    <3>1. t \in Session /\ v \in States  BY <2>4, <2>6
    <3> QED  BY <2>3, <3>1, MaskEffect, SeqsKept
  <2> HIDE DEF u
  <2>8. SameSeqs(tcp', tcp) /\ tcp'.connect_sent = tcp.connect_sent
    BY <2>4, <2>5, <2>7, Zenon DEF SameSeqs, Same
  <2>9. tcp'.state \in {tcp.state, "CLOSING"}  BY <2>4, <2>5, <2>6, <2>7, Zenon
  <2>10. Counted(tcp', tcp) /\ tcp'.hist.syn = tcp.hist.syn /\ tcp'.acked = tcp.acked
    BY <2>8, SameCounted
  <2> QED  BY <2>8, <2>9, <2>10, Zenon DEF Steady
<1>2. CASE tcp' = tcp
  BY <1>2, Zenon DEF Steady, Counted
<1> QED  BY <1>1, <1>2, Zenon DEF Monitor

\* Of a session that times out only the app's SYN may be counted, by the reset.
LEMMA CheckCounts ==
  ASSUME TypeOK, Check
  PROVE  Steady \/ tcp' = NoSession
<1> DEFINE s == time_out(tcp)
           t == close_closing(s)
<1>1. tcp \in Session /\ s \in Session  BY CheckType DEF TypeOK
<1>2. Counted(s, tcp) /\ s.acked = tcp.acked /\ Same(s, tcp)
      /\ (s = tcp \/ s.state \in {"CLOSING", "CLOSE"})
  <2>1. Counted(s, tcp) /\ s.acked = tcp.acked /\ Same(s, tcp)
    BY <1>1, PiecesCounted, CheckEffect, Zenon
  <2>2. [tcp EXCEPT !.state = "CLOSING"].state = "CLOSING"  BY <1>1, Zenon DEF Session
  <2>3. write_rst(tcp).state \in {"CLOSING", "CLOSE"}  BY <1>1, WriteEffect, Zenon
  <2>4. s = tcp \/ s.state \in {"CLOSING", "CLOSE"}
    BY <2>2, <2>3, Zenon DEF time_out
  <2> QED  BY <2>1, <2>4
<1>3. SameSeqs(t, s) /\ t.connect_sent = s.connect_sent
      /\ (t = s \/ t.state = "CLOSE")
  BY <1>1, SeqsKept, CheckEffect, Zenon
<1>4. tcp' = NoSession \/ tcp' = t  BY Zenon DEF Check, CheckTcpSession
<1> HIDE DEF s, t
<1>5. Counted(t, s) /\ t.acked = s.acked  BY <1>3, SameCounted
<1>6. Counted(t, tcp) /\ t.acked = tcp.acked /\ t.connect_sent = tcp.connect_sent
  BY <1>2, <1>3, <1>5, CountedChain, Zenon DEF Same
<1>7. t = tcp \/ t.state \in {"CLOSING", "CLOSE"}  BY <1>2, <1>3, Zenon
<1> QED  BY <1>4, <1>6, <1>7, Zenon DEF Steady

\* The steps that leave the session alone but for time.
LEMMA IdleCounts ==
  ASSUME TypeOK, \/ SkipCheck \/ EpollWait \/ EndDispatch \/ Environment
                 \/ UNCHANGED vars
  PROVE  Steady
<1>1. CASE tcp' = tcp
  BY <1>1, Zenon DEF Steady, Counted
<1>2. CASE Expires
  <2> DEFINE u == [tcp EXCEPT !.expired = TRUE]
  <2>1. Same(u, tcp) /\ u.state = tcp.state /\ SameSeqs(u, tcp)
    BY ExpiredEffect, SeqsKept, Zenon DEF TypeOK
  <2>2. tcp' = u  BY <1>2, Zenon DEF Expires
  <2> HIDE DEF u
  <2>3. Counted(u, tcp) /\ u.hist.syn = tcp.hist.syn /\ u.acked = tcp.acked
    BY <2>1, SameCounted
  <2> QED  BY <2>1, <2>2, <2>3, Zenon DEF Steady, Same
<1> QED
  BY <1>1, <1>2, Zenon
  DEF SkipCheck, EpollWait, EndDispatch, Environment, Connects, Fails, ResolverExits, vars

\* A new session has counted nothing.
LEMMA NewSynCounts ==
  ASSUME TypeOK, NewSyn
  PROVE  Opens
<1>1. PICK seq \in RemoteISNs, len \in 0 .. MaxUp, window \in Windows,
           dest \in Ports, isn \in LocalISNs, room \in BOOLEAN :
        tcp' = NewSession([flags |-> {"SYN"}, seq |-> seq, ack_seq |-> 0,
                           len |-> len, window |-> window], dest, isn, room)
  BY Zenon DEF NewSyn
<1> DEFINE pkt == [flags |-> {"SYN"}, seq |-> seq, ack_seq |-> 0,
                   len |-> len, window |-> window]
           t == NewSession(pkt, dest, isn, room)
<1>2. /\ t.state = "LISTEN" /\ t.hist = NoHistory
      /\ t.remote_seq = t.remote_start /\ t.local_seq = t.local_start
      /\ t.local_start = isn
      /\ t.connect_sent = IF dest = "http" THEN "ESTABLISHED" ELSE "NOT_SENT"
  BY Zenon DEF NewSession
<1>3. tcp' = t  BY <1>1, Zenon
<1> HIDE DEF t
<1>4. tcp'.connect_sent \in {"NOT_SENT", "ESTABLISHED"}  BY <1>2, <1>3, Zenon
<1> QED  BY <1>2, <1>3, <1>4, Zenon DEF Opens, NewSyn

\* A packet: its acknowledgement is recorded, and on port 443 it may be the
\* one that sends the CONNECT.
LEMMA PacketCounts ==
  ASSUME TypeOK, FinInv, HandlePacket
  PROVE  Steady \/ Resumes \/ Acks
<1>1. PICK pkt \in Packets, i \in 1 .. Len(tcp.forward) + 1 : HandlesPacket(pkt, i)
  BY Zenon DEF HandlePacket
<1>2. tcp \in Session /\ pkt \in Packet
      /\ phase = "dispatch" /\ phase' = phase /\ batch' = batch
  BY <1>1, PacketsType, Zenon DEF TypeOK, HandlePacket, HandlesPacket
<1> DEFINE s == Taken(tcp, pkt, i)
<1>3. /\ s \in Session /\ s.state = tcp.state /\ s.connect_sent = tcp.connect_sent
      /\ Counted(s, tcp) /\ s.acked = tcp.acked /\ s.hist.syn = tcp.hist.syn
      /\ s.local_seq = tcp.local_seq
  <2>1. s \in Session  BY <1>2, QueueType
  <2>2. s.state = tcp.state /\ s.connect_sent = tcp.connect_sent
    BY <1>2, TakenEffect
  <2>3. Counted(s, tcp) /\ s.acked = tcp.acked /\ s.hist.syn = tcp.hist.syn
    BY <1>2, PiecesCounted
  <2> QED  BY <2>1, <2>2, <2>3, Zenon DEF Counted
<1> HIDE DEF s
<1>r. ASSUME NEW u \in Session, Counted(u, tcp), u.acked = tcp.acked,
             u.connect_sent = tcp.connect_sent, tcp' = write_rst(u)
      PROVE  Steady
  <2> DEFINE w == write_rst(u)
  <2>1. Counted(w, u) /\ w.acked = u.acked /\ w.connect_sent = u.connect_sent
        /\ w.state \in {"CLOSING", "CLOSE"}
    BY WriteCounted, WriteEffect, Zenon DEF Same
  <2>2. tcp' = w  BY <1>r
  <2> HIDE DEF w
  <2>3. Counted(w, tcp)  BY <1>r, <2>1, CountedChain
  <2> QED  BY <1>r, <2>1, <2>2, <2>3, Zenon DEF Steady
<1>t. Counted(tcp, tcp)  BY Zenon DEF Counted
<1>4. CASE HandleConnecting(pkt, i)
  <2> DEFINE c == IF tcp.connect_sent = "SENT" THEN tcp
                  ELSE send_connect(tcp, ksock = "connected")
             t == queue_tcp(c, pkt, i)
  <2>1. tcp' = t /\ Connecting(tcp)
    BY <1>4, Zenon DEF HandleConnecting
  <2>2. (ksock = "connected") \in BOOLEAN  BY Zenon
  <2>3. /\ c \in Session /\ Counted(c, tcp)
        /\ \/ c.acked = tcp.acked /\ c.connect_sent = tcp.connect_sent
              /\ (c = tcp \/ c.state \in {"CLOSING", "CLOSE"})
           \/ /\ c.connect_sent = "SENT" /\ c.state = "LISTEN" /\ ksock = "connected"
              /\ tcp.connect_sent # "SENT"
    <3>1. CASE tcp.connect_sent = "SENT"
      <4>1. c = tcp  BY <3>1, Zenon
      <4> QED  BY <1>2, <1>t, <4>1, Zenon
    <3>2. CASE tcp.connect_sent # "SENT"
      <4> DEFINE o == ksock = "connected"
                 d == send_connect(tcp, o)
      <4>1. o \in BOOLEAN  BY Zenon
      <4> HIDE DEF o
      <4>2. d \in Session /\ Counted(d, tcp) /\ d.acked = tcp.acked
        BY <1>2, <4>1, WriteType, PiecesCounted
      <4>3. /\ o => d.connect_sent = "SENT" /\ d.state = "LISTEN"
            /\ ~o => d.connect_sent = tcp.connect_sent /\ d.state \in {"CLOSING", "CLOSE"}
        <5>1. LET u == [tcp EXCEPT !.connect_sent = "SENT", !.state = "LISTEN"]
              IN  u.connect_sent = "SENT" /\ u.state = "LISTEN"
          BY <1>2, Zenon DEF Session
        <5>2. write_rst(tcp).connect_sent = tcp.connect_sent
              /\ write_rst(tcp).state \in {"CLOSING", "CLOSE"}
          BY <1>2, WriteEffect, Zenon DEF Same
        <5> QED  BY <5>1, <5>2, Zenon DEF send_connect
      <4>4. c = d  BY <3>2, Zenon DEF o
      <4> HIDE DEF c, d
      <4> QED  BY <3>2, <4>2, <4>3, <4>4, Zenon DEF o
    <3> QED  BY <3>1, <3>2
  <2> HIDE DEF c
  <2>4. SameSeqs(t, c) /\ t.state = c.state /\ t.connect_sent = c.connect_sent
    <3>1. c \in Session  BY <2>3
    <3>2. SameSeqs(t, c)  BY <3>1, SeqsKept, Zenon
    <3>3. t.state = c.state /\ t.connect_sent = c.connect_sent  BY <3>1, QueueEffect
    <3> QED  BY <3>2, <3>3
  <2> HIDE DEF t
  <2>5. Counted(t, c) /\ t.acked = c.acked /\ t.hist.syn = c.hist.syn
    BY <2>4, SameCounted
  <2>6. Counted(t, tcp)  BY <2>3, <2>5, CountedChain
  <2>7. CASE /\ c.acked = tcp.acked /\ c.connect_sent = tcp.connect_sent
             /\ (c = tcp \/ c.state \in {"CLOSING", "CLOSE"})
    BY <2>1, <2>4, <2>5, <2>6, <2>7, Zenon DEF Steady
  <2>8. CASE /\ c.connect_sent = "SENT" /\ c.state = "LISTEN" /\ ksock = "connected"
             /\ tcp.connect_sent # "SENT"
    <3>1. tcp.connect_sent = "NOT_SENT"
      BY <1>2, <2>1, <2>8, SessionFields, SMT DEF Connecting
    <3> QED  BY <1>2, <2>1, <2>4, <2>6, <2>8, <3>1, Zenon DEF Resumes
  <2> QED  BY <2>3, <2>7, <2>8, Zenon
<1>5. CASE HandleClosed
  BY <1>2, <1>5, <1>r, <1>t, Zenon DEF HandleClosed
<1>6. CASE HandleUnwanted(pkt)
  <2> DEFINE h == Heard(tcp, pkt)
  <2>1. h \in Session /\ Same(h, tcp) /\ SameSeqs(h, tcp)
    BY <1>2, HeardType, HeardEffect, SeqsKept
  <2>2. tcp' = write_rst(h)  BY <1>6, Zenon DEF HandleUnwanted
  <2> HIDE DEF h
  <2>3. Counted(h, tcp) /\ h.acked = tcp.acked  BY <2>1, SameCounted
  <2> QED  BY <1>r, <2>1, <2>2, <2>3, Zenon DEF Same
<1>7. CASE HandleRst(pkt, i)
  <2> DEFINE t == [s EXCEPT !.state = "CLOSING"]
  <2>1. SameSeqs(t, s) /\ t.state = "CLOSING" /\ t.connect_sent = s.connect_sent
    BY <1>3, SeqsKept, Zenon DEF Session
  <2>2. tcp' = t  BY <1>7, Zenon DEF HandleRst, s
  <2> HIDE DEF t
  <2>3. Counted(t, s) /\ t.acked = s.acked  BY <2>1, SameCounted
  <2>4. Counted(t, tcp)  BY <1>3, <2>3, CountedChain
  <2> QED  BY <1>3, <2>1, <2>2, <2>3, <2>4, Zenon DEF Steady
<1>8. CASE HandleRepeatedSyn(pkt, i)
  <2>1. tcp' = s  BY <1>8, Zenon DEF HandleRepeatedSyn, s
  <2> QED  BY <1>3, <2>1, Zenon DEF Steady
<1>9. CASE HandleFin(pkt, i)
  <2>1. PICK ok \in BOOLEAN : tcp' = receive_fin(s, ok)
    BY <1>9, OutcomeTypes, Zenon DEF HandleFin, s
  <2> DEFINE t == receive_fin(s, ok)
  <2>2. Counted(t, s) /\ t.acked = s.acked /\ t.hist.syn = s.hist.syn
    BY <1>3, ReceiveFinCounted
  <2>3. /\ t.connect_sent = s.connect_sent
        /\ s.state \in {"ESTABLISHED", "FIN_WAIT1"} =>
             t.state \in {"CLOSE_WAIT", "CLOSING", "CLOSE"}
        /\ s.state \notin {"ESTABLISHED", "FIN_WAIT1"} => t = s
    BY <1>3, ReceiveFinEffect, SMT
  <2>4. tcp' = t  BY <2>1
  <2> HIDE DEF t
  <2>5. Counted(t, tcp)  BY <1>3, <2>2, CountedChain
  <2>6. \/ t.state \in {"CLOSING", "CLOSE"} \/ t.state = tcp.state
        \/ tcp.state \in EstablishedStates /\ t.state \in EstablishedStates
    BY <1>3, <2>3, SMT DEF EstablishedStates
  <2> QED  BY <1>3, <2>2, <2>3, <2>4, <2>5, <2>6, Zenon DEF Steady
<1>10. CASE HandleAck(pkt, i)
  <2> DEFINE t == receive_ack(s, pkt)
  <2>1. /\ Counted(t, s) /\ t.hist.syn = s.hist.syn /\ t.acked = pkt.ack_seq
        /\ t.connect_sent = s.connect_sent
        /\ t.state = IF s.state = "SYN_RECV" THEN "ESTABLISHED"
                     ELSE IF s.state = "LAST_ACK" THEN "CLOSING" ELSE s.state
    <3>1. Counted(t, s) /\ t.hist.syn = s.hist.syn /\ t.acked = pkt.ack_seq
      BY <1>2, <1>3, AckCounted
    <3>2. /\ Same(t, s)
          /\ t.state = IF s.state = "SYN_RECV" THEN "ESTABLISHED"
                       ELSE IF s.state = "LAST_ACK" THEN "CLOSING" ELSE s.state
      BY <1>3, ReceiveAckEffect
    <3> QED  BY <3>1, <3>2, Zenon DEF Same
  <2>2. tcp' = t  BY <1>10, Zenon DEF HandleAck, s
  <2> HIDE DEF t
  <2>3. pkt.ack_seq = tcp.local_seq  BY <1>10, Zenon DEF HandleAck, AcksAll
  <2>4. Counted(t, tcp)  BY <1>3, <2>1, CountedChain
  <2>5. \/ t.state \in {tcp.state, "CLOSING"}
        \/ tcp.state = "SYN_RECV" /\ t.state = "ESTABLISHED"
    BY <1>3, <2>1, Zenon
  <2> QED  BY <1>3, <2>1, <2>2, <2>3, <2>4, <2>5, Zenon DEF Acks
<1>11. CASE HandleOtherAck(pkt, i)
  <2> DEFINE t == receive_other_ack(s, pkt)
  <2>1. /\ Counted(t, s) /\ t.connect_sent = s.connect_sent
        /\ t.hist.syn = s.hist.syn \/ t.state \in {"CLOSING", "CLOSE"}
        /\ t.state = s.state \/ t.state \in {"CLOSING", "CLOSE"}
        /\ \/ t.acked = s.acked
           \/ /\ t.acked = pkt.ack_seq
              /\ compare_u32(pkt.ack_seq, s.local_seq) < 0
              /\ compare_u32(pkt.ack_seq, s.acked) > 0
    <3>1. s \in Session /\ pkt \in Packet  BY <1>2, <1>3
    <3>2. /\ Same(t, s)
          /\ t.state \in {s.state, IF s.state = "CLOSE" THEN "CLOSE" ELSE "CLOSING"}
      BY <3>1, ReceiveAckEffect, Zenon
    <3>3. /\ t.connect_sent = s.connect_sent
          /\ t.state = s.state \/ t.state \in {"CLOSING", "CLOSE"}
      BY <3>2, Zenon DEF Same
    <3>4. /\ Counted(t, s)
          /\ t.hist.syn = s.hist.syn \/ t.state \in {"CLOSING", "CLOSE"}
          /\ \/ t.acked = s.acked
             \/ /\ t.acked = pkt.ack_seq
                /\ compare_u32(pkt.ack_seq, s.local_seq) < 0
                /\ compare_u32(pkt.ack_seq, s.acked) > 0
      BY <3>1, AckCounted, Zenon
    <3> QED  BY <3>3, <3>4
  <2>a. t.acked = s.acked \/ (t.hist.syn = s.hist.syn /\ t.state = s.state)
    <3>1. write_rst(s).acked = s.acked  BY <1>3, WriteCounted
    <3>2. LET u == [s EXCEPT !.acked = pkt.ack_seq]
          IN  u.hist.syn = s.hist.syn /\ u.state = s.state
      BY <1>3, Zenon DEF Session
    <3> QED  BY <3>1, <3>2, Zenon DEF receive_other_ack
  <2>2. tcp' = t  BY <1>11, Zenon DEF HandleOtherAck, s
  <2> HIDE DEF t
  <2>3. Counted(t, tcp)  BY <1>3, <2>1, CountedChain
  <2>4. CASE t.acked = s.acked
    BY <1>3, <2>1, <2>2, <2>3, <2>4, Zenon DEF Steady
  <2>5. CASE t.acked # s.acked
    <3>1. "ACK" \in pkt.flags  BY <1>11, Zenon DEF HandleOtherAck, AcksAll
    <3>2. \E d \in 0 .. MaxDown + 3 : pkt.ack_seq = Add(tcp.local_start, d)
      <4>1. "ACK" \notin {"SYN"} /\ "ACK" \notin {"RST"}  BY SMT
      <4> QED  BY <3>1, <4>1, Zenon DEF Packets
    <3> QED
      BY <1>3, <2>1, <2>2, <2>3, <2>5, <2>a, <3>2, Zenon DEF Acks
  <2> QED  BY <2>4, <2>5
<1> QED
  BY <1>1, <1>4, <1>5, <1>6, <1>7, <1>8, <1>9, <1>10, <1>11 DEF HandlesPacket

\* An event of the socket.
LEMMA SocketCounts ==
  ASSUME TypeOK, FinInv, CheckTcpSocket
  PROVE  \/ Steady \/ Replies \/ Answers \/ Ends
         \/ \E n \in 1 .. MaxDown : Gets(n)
<1>1. tcp \in Session /\ batch # {}
  BY Zenon DEF CheckTcpSocket, SocketError, SocketConnected, SocketReply, SocketRelay,
               SocketGone, SocketEvent, TypeOK
<1>t. Counted(tcp, tcp)  BY Zenon DEF Counted
<1>r. ASSUME NEW u \in Session, Counted(u, tcp), u.acked = tcp.acked,
             u.connect_sent = tcp.connect_sent
      PROVE  LET w == write_rst(u)
             IN  /\ w \in Session /\ Counted(w, tcp) /\ w.acked = tcp.acked
                 /\ w.connect_sent = tcp.connect_sent /\ w.state \in {"CLOSING", "CLOSE"}
  <2> DEFINE w == write_rst(u)
  <2>1. /\ w \in Session /\ Counted(w, u) /\ w.acked = u.acked
        /\ w.connect_sent = u.connect_sent /\ w.state \in {"CLOSING", "CLOSE"}
    BY WriteType, WriteCounted, WriteEffect, Zenon DEF Same
  <2> HIDE DEF w
  <2>2. Counted(w, tcp)  BY <1>r, <2>1, CountedChain
  <2> QED  BY <1>r, <2>1, <2>2, Zenon DEF w
<1>e. ASSUME NEW u \in Session, Counted(u, tcp), u.acked = tcp.acked,
             u.connect_sent = tcp.connect_sent,
             tcp' = [write_rst(u) EXCEPT !.expired = FALSE]
      PROVE  Steady
  <2> DEFINE w == write_rst(u)
             x == [w EXCEPT !.expired = FALSE]
  <2>1. /\ w \in Session /\ Counted(w, tcp) /\ w.acked = tcp.acked
        /\ w.connect_sent = tcp.connect_sent /\ w.state \in {"CLOSING", "CLOSE"}
    BY <1>e, <1>r
  <2>2. tcp' = x  BY <1>e
  <2> HIDE DEF w
  <2>3. SameSeqs(x, w) /\ x.connect_sent = w.connect_sent /\ x.state = w.state
    BY <2>1, SeqsKept, Zenon DEF Session
  <2> HIDE DEF x
  <2>4. Counted(x, w) /\ x.acked = w.acked  BY <2>3, SameCounted
  <2>5. Counted(x, tcp)  BY <2>1, <2>4, CountedChain
  <2> QED  BY <2>1, <2>2, <2>3, <2>4, <2>5, Zenon DEF Steady
<1>2. CASE SocketError
  BY <1>1, <1>2, <1>e, <1>t, Zenon DEF SocketError
<1>3. CASE SocketConnected
  <2>1. PICK ok \in BOOLEAN : tcp' = connected(tcp, ok)
    BY <1>3, OutcomeTypes, Zenon DEF SocketConnected
  <2> DEFINE t == connected(tcp, ok)
  <2>2. /\ t.dest = tcp.dest /\ t.acked = tcp.acked
        /\ t.remote_start = tcp.remote_start /\ t.local_start = tcp.local_start
        /\ RemoteCounts(tcp) => RemoteCounts(t)
        /\ LocalCounts(tcp) => LocalCounts(t)
        /\ t.hist.down = tcp.hist.down /\ t.hist.syn = tcp.hist.syn + 1
        /\ t.hist.synack \in {tcp.hist.synack, tcp.hist.synack + 1}
        /\ t.state # "CLOSING" => t.hist.synack = tcp.hist.synack + 1
    BY <1>1, ConnectedCounted
  <2>3. t.connect_sent = tcp.connect_sent /\ t.state \in {"SYN_RECV", "CLOSING"}
    BY <1>1, ConnectedEffect, Zenon DEF Same
  <2>4. tcp' = t  BY <2>1
  <2> HIDE DEF t
  <2>5. batch \cap {"IN", "ERR"} = {} /\ tcp.state = "LISTEN"
    BY <1>3, Zenon DEF SocketConnected
  <2>6. Answers
    BY <1>1, <2>2, <2>3, <2>4, <2>5, Zenon DEF Answers, CountedOn
  <2> QED  BY <2>6
<1>4. CASE SocketReply
  <2>1. tcp.state = "LISTEN"  BY <1>4, Zenon DEF SocketReply
  <2>2. CASE tcp' = write_rst(tcp)
    BY <1>1, <1>r, <1>t, <2>2, Zenon DEF Steady
  <2>3. CASE tcp' = connect_reply(tcp) /\ tcp.connect_sent = "SENT"
    <3> DEFINE t == connect_reply(tcp)
    <3>1. t.connect_sent = "ESTABLISHED" /\ t.state = "SYN_RECV" /\ Counted(t, tcp)
      <4>1. Counted(t, tcp)  BY <1>1, PiecesCounted
      <4>2. LET u == [tcp EXCEPT !.connect_sent = "ESTABLISHED", !.state = "SYN_RECV"]
            IN  u.connect_sent = "ESTABLISHED" /\ u.state = "SYN_RECV"
        BY <1>1, Zenon DEF Session
      <4> QED  BY <2>3, <4>1, <4>2, Zenon DEF connect_reply
    <3>2. tcp' = t  BY <2>3
    <3> HIDE DEF t
    <3> QED  BY <2>1, <2>3, <3>1, <3>2, Zenon DEF Replies
  <2> QED  BY <1>4, <2>2, <2>3, Zenon DEF SocketReply, connect_reply
<1>5. CASE SocketRelay
  <2>o. PICK o \in Sends, room \in BOOLEAN, ok \in TunWrites :
        \E refused \in Refusals(o) :
          LET s == acknowledge(Forwarded(tcp, o, refused),
                               o.k > 0 \/ o.part > 0, room, ok)
              k == IF o.k > 0 THEN ErrorRead ELSE ksock
          IN  /\ o.part > 0 => ksock = "connected"
              /\ IF Reads(s) THEN Receive(s, k)
                 ELSE tcp' = s /\ ksock' = k /\ UNCHANGED registered
    BY <1>5, Zenon DEF SocketRelay
  <2>1. PICK refused \in Refusals(o) :
          LET s == acknowledge(Forwarded(tcp, o, refused),
                               o.k > 0 \/ o.part > 0, room, ok)
              k == IF o.k > 0 THEN ErrorRead ELSE ksock
          IN  /\ o.part > 0 => ksock = "connected"
              /\ IF Reads(s) THEN Receive(s, k)
                 ELSE tcp' = s /\ ksock' = k /\ UNCHANGED registered
    BY <2>o, Zenon
  <2> DEFINE t == Forwarded(tcp, o, refused)
             fwd == o.k > 0 \/ o.part > 0
             r == acknowledge(t, fwd, room, ok)
             rest == IF o.k > 0 THEN ErrorRead ELSE ksock
  <2>2. /\ OutcomeOf(o, tcp) /\ refused \in BOOLEAN /\ ok \in BOOLEAN
        /\ t \in Session /\ fwd \in BOOLEAN /\ r \in Session
    BY SendsType, RelayedType, OutcomeTypes
  <2>3. RelayedFin(r)
    <3>1. tcp.open  BY <1>5, Zenon DEF SocketRelay
    <3> QED  BY <3>1, RelayFin DEF FinInv
  <2>4. IF Reads(r) THEN Receive(r, rest)
        ELSE tcp' = r /\ ksock' = rest /\ UNCHANGED registered
    BY <2>1
  <2>5. Counted(t, tcp) /\ t.acked = tcp.acked /\ t.hist.syn = tcp.hist.syn
    BY <1>1, <2>2, ForwardedCounted
  <2> HIDE DEF t, fwd
  <2>6. Counted(r, t) /\ r.acked = t.acked /\ r.hist.syn = t.hist.syn
    BY <2>2, AcknowledgeCounted
  <2> HIDE DEF r, rest
  <2>7. /\ Counted(r, tcp) /\ r.acked = tcp.acked /\ r.hist.syn = tcp.hist.syn
        /\ r.connect_sent = tcp.connect_sent /\ r.state \in {tcp.state, "CLOSING"}
    BY <2>3, <2>5, <2>6, CountedChain, Zenon DEF RelayedFin
  <2>8. CASE ~Reads(r)
    <3>1. tcp' = r  BY <2>4, <2>8, Zenon
    <3> QED  BY <2>7, <3>1, Zenon DEF Steady
  <2>9. CASE Reads(r)
    <3>1. Receive(r, rest)  BY <2>4, <2>9, Zenon
    <3>2. r.state = tcp.state /\ tcp.state \in {"ESTABLISHED", "CLOSE_WAIT"}
      BY <2>7, <2>9, SMT DEF Reads
    <3>3. CASE tcp' = [write_rst(r) EXCEPT !.expired = FALSE]
      BY <1>e, <2>2, <2>7, <3>3
    <3>4. CASE tcp' = [r EXCEPT !.expired = FALSE]
      <4> DEFINE u == [r EXCEPT !.expired = FALSE]
      <4>1. SameSeqs(u, r) /\ u.state = r.state /\ u.connect_sent = r.connect_sent
        BY <2>2, SeqsKept, ExpiredEffect, Zenon DEF Same
      <4>2. tcp' = u  BY <3>4
      <4> HIDE DEF u
      <4>3. Counted(u, r) /\ u.acked = r.acked /\ u.hist.syn = r.hist.syn
        BY <4>1, SameCounted
      <4>4. Counted(u, tcp)  BY <2>7, <4>3, CountedChain
      <4> QED  BY <2>7, <3>2, <4>1, <4>2, <4>3, <4>4, Zenon DEF Steady
    <3>5. CASE \E k \in TunWrites : tcp' = receive_eof(r, k)
      <4>1. PICK k \in BOOLEAN : tcp' = receive_eof(r, k)
        BY <3>5, OutcomeTypes, Zenon
      <4> DEFINE u == receive_eof(r, k)
      <4>2. /\ u.dest = r.dest /\ u.acked = r.acked
            /\ u.remote_start = r.remote_start /\ u.local_start = r.local_start
            /\ RemoteCounts(r) => RemoteCounts(u)
            /\ LocalCounts(r) => LocalCounts(u)
            /\ u.hist.down = r.hist.down /\ u.hist.synack = r.hist.synack
            /\ u.state # "CLOSING" => u.hist.syn = r.hist.syn
        BY <2>2, <3>2, ReceiveEofCounted
      <4>3. /\ u.connect_sent = r.connect_sent
            /\ u.state \in {"CLOSING", "FIN_WAIT1", "LAST_ACK"}
        BY <2>2, <3>2, ReceiveEofEffect, Zenon
      <4>4. tcp' = u  BY <4>1
      <4> HIDE DEF u
      <4>5. LocalCounts(tcp) => LocalCounts(r)  BY <2>7, Zenon DEF Counted, LocalCounts
      <4>6. Ends
        BY <2>7, <3>2, <4>2, <4>3, <4>4, <4>5, Zenon DEF Ends, CountedOn, Counted
      <4> QED  BY <4>6
    <3>6. CASE \E n \in 1 .. MaxDown, k \in TunWrites :
                 /\ n <= get_send_window(r)
                 /\ r.hist.down + n <= DownBound(r)
                 /\ tcp' = receive_data(r, n, k)
      <4>1. PICK n \in 1 .. MaxDown, k \in TunWrites :
                 /\ n <= get_send_window(r)
                 /\ r.hist.down + n <= DownBound(r)
                 /\ tcp' = receive_data(r, n, k)
        BY <3>6
      <4>2. n \in Nat /\ k \in BOOLEAN
        <5>1. n \in Nat  BY ConstantsAssumption, SMT
        <5> QED  BY <5>1, OutcomeTypes, Zenon
      <4> DEFINE u == receive_data(r, n, k)
      <4>3. /\ u.dest = r.dest /\ u.acked = r.acked /\ u.send_window = r.send_window
            /\ u.remote_start = r.remote_start /\ u.local_start = r.local_start
            /\ RemoteCounts(r) => RemoteCounts(u)
            /\ LocalCounts(r) /\ u.state # "CLOSING" => LocalCounts(u)
            /\ u.hist.down = r.hist.down + n /\ u.hist.synack = r.hist.synack
            /\ u.hist.syn = r.hist.syn
            /\ u.state = "CLOSING" \/ u.local_seq = Add(r.local_seq, n)
        BY <2>2, <4>2, ReceiveCounted
      <4>4. u.connect_sent = r.connect_sent /\ u.state \in {r.state, "CLOSING"}
        BY <2>2, <4>2, ReceiveEffect, Zenon DEF Same
      <4>5. tcp' = u  BY <4>1
      <4> HIDE DEF u
      <4>6. LocalCounts(tcp) => LocalCounts(r)  BY <2>7, Zenon DEF Counted, LocalCounts
      <4>7. r.hist.down = tcp.hist.down /\ r.hist.synack = tcp.hist.synack
            /\ r.local_seq = tcp.local_seq /\ r.local_start = tcp.local_start
            /\ r.remote_start = tcp.remote_start /\ r.dest = tcp.dest
            /\ (RemoteCounts(tcp) => RemoteCounts(r))
        BY <2>7, Zenon DEF Counted
      <4>8. u.hist.down <= MaxDown
        <5>1. DownBound(r) \in {MaxDown, MaxTunnelled}  BY Zenon DEF DownBound
        <5>2. r.hist.down \in Nat  BY <2>2, SessionFields
        <5> QED  BY <4>1, <4>2, <4>3, <5>1, <5>2, ConstantsAssumption, SMT
      <4>9. n <= LET behind == IF compare_u32(tcp.acked, tcp.local_seq) <= 0
                               THEN Sub(tcp.local_seq, tcp.acked) ELSE tcp.acked
                 IN  IF behind < u.send_window THEN u.send_window - behind ELSE 0
        <5>1. n <= get_send_window(r)  BY <4>1
        <5> QED  BY <2>7, <4>3, <4>7, <5>1, Zenon DEF get_send_window
      <4>10. CountedOn
        BY <2>7, <4>3, <4>4, <4>5, <4>7, Zenon DEF CountedOn
      <4>11. Gets(n)
        BY <2>7, <3>2, <4>3, <4>4, <4>5, <4>6, <4>7, <4>8, <4>9, <4>10, Zenon DEF Gets
      <4> QED  BY <4>11
    <3> QED  BY <3>1, <3>3, <3>4, <3>5, <3>6, Zenon DEF Receive
  <2> QED  BY <2>8, <2>9
<1>6. CASE SocketGone
  <2>1. SameSeqs(tcp', tcp) /\ tcp'.hist.syn = tcp.hist.syn
        /\ tcp'.connect_sent = tcp.connect_sent /\ tcp'.state = tcp.state
    BY <1>6, GoneEffect, Zenon DEF Same, SameSeqs
  <2>2. Counted(tcp', tcp) /\ tcp'.acked = tcp.acked  BY <2>1, SameCounted
  <2> QED  BY <2>1, <2>2, Zenon DEF Steady
<1> QED  BY <1>2, <1>3, <1>4, <1>5, <1>6, Zenon DEF CheckTcpSocket

\* Every step is one of these.
LEMMA CountSteps ==
  ASSUME TypeOK, FinInv, [Next]_vars
  PROVE  CountStep
BY MonitorCounts, CheckCounts, IdleCounts, NewSynCounts, PacketCounts, SocketCounts
   DEF CountStep, Next, Loop, HandleTcp

-----------------------------------------------------------------------------
\* The accounts.

\* The app's side is counted in every state, the engine's as long as the
\* session is not closing.  A CONNECT can bring a closing session back, so its
\* account must hold until the CONNECT is answered.
AccountInv ==
  /\ RemoteCounts(tcp)
  /\ tcp.state \in ActiveStates \/ Connecting(tcp) => LocalCounts(tcp)
  /\ tcp.connect_sent = "SENT" => tcp.dest = "https"
  /\ tcp.dest # "https" =>
       /\ tcp.state = "LISTEN" => tcp.hist.syn = 0 /\ tcp.hist.synack = 0
       /\ Answered => tcp.hist.syn = 1 /\ tcp.hist.synack = 1

\* Of nothing the account is nothing.
LEMMA NothingCounted ==
  ASSUME NEW s, s.remote_seq \in SeqNums, s.local_seq \in SeqNums,
         s.remote_seq = s.remote_start, s.local_seq = s.local_start, s.hist = NoHistory
  PROVE  RemoteCounts(s) /\ LocalCounts(s)
<1>1. /\ s.hist.syn = 0 /\ s.hist.up = 0 /\ s.hist.fin = 0
      /\ s.hist.synack = 0 /\ s.hist.down = 0 /\ s.hist.finack = 0
  <2>1. /\ NoHistory.syn = 0 /\ NoHistory.up = 0 /\ NoHistory.fin = 0
        /\ NoHistory.synack = 0 /\ NoHistory.down = 0 /\ NoHistory.finack = 0
    BY SMT DEF NoHistory
  <2> QED  BY <2>1
<1>2. \A x \in SeqNums : Sub(x, x) = 0
  BY ModulusAssumption, SubIs, SMT DEF SeqNums
<1>3. (0 + 0 + 0) % Modulus = 0
  BY ModulusAssumption, ModFacts, SMT DEF SeqNums
<1> QED  BY <1>1, <1>2, <1>3, SMT DEF RemoteCounts, LocalCounts

\* Every step keeps the accounts.
LEMMA AccountStep ==
  ASSUME TypeOK, TypeOK', FinInv, AccountInv, [Next]_vars
  PROVE  AccountInv'
<1>0. /\ tcp \in Session /\ tcp' \in Session
      /\ tcp.hist.syn \in Nat /\ tcp.hist.synack \in Nat
  BY SessionFields DEF TypeOK
<1>1. CASE Steady
  BY <1>1, SMT DEF Steady, Counted, AccountInv, LocalCounts, ActiveStates, Answered,
                   EstablishedStates, Connecting
<1>2. CASE Resumes
  BY <1>2, SMT DEF Resumes, Counted, AccountInv, LocalCounts, Answered, Connecting
<1>3. CASE Replies
  BY <1>3, SMT DEF Replies, Counted, AccountInv, LocalCounts, ActiveStates, Connecting
<1>4. CASE Acks
  BY <1>4, SMT DEF Acks, Counted, AccountInv, LocalCounts, ActiveStates, Answered,
                   EstablishedStates, Connecting
<1>5. CASE Answers
  BY <1>0, <1>5, SMT
  DEF Answers, CountedOn, AccountInv, ActiveStates, Answered, Connecting
<1>6. CASE Ends
  BY <1>6, SMT DEF Ends, CountedOn, AccountInv, ActiveStates, Answered, Connecting
<1>7. CASE \E n \in 1 .. MaxDown : Gets(n)
  <2>1. PICK n \in 1 .. MaxDown : Gets(n)  BY <1>7
  <2>2. ~Connecting(tcp)
    <3>1. tcp.state \in {"ESTABLISHED", "CLOSE_WAIT"}  BY <2>1, Zenon DEF Gets
    <3> QED  BY <3>1, SMT DEF FinInv, Lives, EarlyConnect
  <2> QED
    BY <2>1, <2>2, SMT DEF Gets, CountedOn, AccountInv, ActiveStates, Answered, Connecting
<1>8. CASE Opens
  <2>1. tcp'.remote_seq \in SeqNums /\ tcp'.local_seq \in SeqNums
    BY <1>0, SessionFields
  <2>2. RemoteCounts(tcp') /\ LocalCounts(tcp')
    BY <1>8, <2>1, NothingCounted, Zenon DEF Opens
  <2>3. NoHistory.syn = 0 /\ NoHistory.synack = 0  BY SMT DEF NoHistory
  <2>4. tcp'.state = "LISTEN" /\ tcp'.connect_sent # "SENT" /\ tcp'.hist = NoHistory
    BY <1>8, SMT DEF Opens
  <2> QED  BY <2>2, <2>3, <2>4, SMT DEF AccountInv, Answered
<1>9. CASE tcp' = NoSession
  <2>1. /\ NoSession.remote_seq = 0 /\ NoSession.remote_start = 0
        /\ NoSession.local_seq = 0 /\ NoSession.local_start = 0
        /\ NoSession.hist = NoHistory /\ NoSession.connect_sent = "NOT_SENT"
        /\ NoSession.state = "NONE" /\ NoSession.dest = "other"
    BY Zenon DEF NoSession
  <2>2. NoSession.remote_seq \in SeqNums /\ NoSession.local_seq \in SeqNums
    BY <1>9, <1>0, SessionFields
  <2>3. RemoteCounts(NoSession)  BY <2>1, <2>2, NothingCounted
  <2>4. ~Connecting(NoSession)  BY <2>1, SMT DEF Connecting
  <2> QED
    BY <1>9, <2>1, <2>3, <2>4, SMT DEF AccountInv, Answered, ActiveStates
<1> QED
  BY <1>1, <1>2, <1>3, <1>4, <1>5, <1>6, <1>7, <1>8, <1>9, CountSteps DEF CountStep

LEMMA AccountInvariant == Spec => []AccountInv
<1>1. Init => AccountInv
  <2>1. /\ NoSession.remote_seq = 0 /\ NoSession.remote_start = 0
        /\ NoSession.local_seq = 0 /\ NoSession.local_start = 0
        /\ NoSession.hist = NoHistory /\ NoSession.connect_sent = "NOT_SENT"
        /\ NoSession.state = "NONE" /\ NoSession.dest = "other"
    BY Zenon DEF NoSession
  <2>2. 0 \in SeqNums  BY ModulusAssumption, SMT DEF SeqNums
  <2>3. RemoteCounts(NoSession)  BY <2>1, <2>2, NothingCounted
  <2>4. ~Connecting(NoSession)  BY <2>1, SMT DEF Connecting
  <2> QED
    BY <2>1, <2>3, <2>4, SMT DEF Init, AccountInv, Answered, ActiveStates
<1>2. TypeOK /\ TypeOK' /\ FinInv /\ AccountInv /\ [Next]_vars => AccountInv'
  BY AccountStep
<1> QED  BY <1>1, <1>2, FinInvariant, PTL DEF Spec

(***************************************************************************)
(* In every state that relays, remote_seq and local_seq are the start of   *)
(* their stream and what was counted since, modulo the width of a sequence *)
(* number, however the packets, events, timeouts and failures interleave.  *)
(***************************************************************************)
THEOREM AccountingCorrect == Spec => []Accounting
<1>1. AccountInv => Accounting
  <2>1. Answered => tcp.state \in ActiveStates  BY SMT DEF Answered, ActiveStates
  <2> QED
    BY <2>1, Zenon DEF AccountInv, Accounting, RemoteCounts, LocalCounts,
                       RemoteOffset, LocalOffset
<1> QED  BY <1>1, AccountInvariant, PTL

-----------------------------------------------------------------------------
\* The acknowledgements and the window.

(***************************************************************************)
(* The server's streams are shorter than half of the sequence space        *)
(* (2 GB): beyond, a position modulo 2^32 no longer tells old from new.    *)
(***************************************************************************)
HalfStreams == 2 * (MaxDown + 5) <= Modulus

\* What this session was sent is less than a quarter of it (1 GB), as far as
\* acked, taken for a distance, is never too small.
ShortSoFar == 4 * (tcp.hist.down + 2) <= Modulus

\* All that any session is ever sent.
ShortStreams == Modulus > 8 /\ 4 * (MaxDown + 2) <= Modulus

\* A session in LISTEN waits for the answer to its CONNECT only.
Awaits ==
  /\ batch # {} => batch \cap {"IN", "ERR"} # {}
  /\ phase \in {"check", "wait"} => tcp.mask = {"IN"}

\* The engine's SYN is counted once: a session that comes back to LISTEN after
\* its SYN-ACK does so to wait for the answer to its CONNECT.
OnceInv ==
  /\ tcp.hist.synack <= 1
  /\ tcp.hist.down <= MaxDown
  /\ "HUP" \in batch => ksock \in {"reset", "none"}
  /\ tcp.state = "LISTEN" /\ tcp.hist.synack # 0 => tcp.connect_sent = "SENT" /\ Awaits

\* A hang-up is reported of a socket whose error was read, or that was closed.
LEMMA HangUpStep ==
  ASSUME TypeOK, FinInv, "HUP" \in batch => ksock \in {"reset", "none"}, [Next]_vars
  PROVE  "HUP" \in batch' => ksock' \in {"reset", "none"}
<1>k. ASSUME Kept(ksock'), batch' = batch
      PROVE  "HUP" \in batch' => ksock' \in {"reset", "none"}
  BY <1>k, SMT DEF Kept, ErrorRead
<1>b. ASSUME batch' = {}  PROVE "HUP" \in batch' => ksock' \in {"reset", "none"}
  BY <1>b, SMT
<1>1. CASE Monitor \/ SkipCheck \/ Expires \/ ResolverExits \/ UNCHANGED vars
  BY <1>1, <1>k, Zenon DEF Monitor, SkipCheck, Expires, ResolverExits, vars, kernel, Kept
<1>2. CASE Check
  BY <1>2, <1>b, SMT DEF Check, FinInv, Lives
<1>3. CASE EpollWait
  <2>1. tcp.mask \subseteq {"IN", "OUT"}  BY SessionFields DEF TypeOK
  <2>2. ksock' = ksock /\ batch' \in IF registered THEN Reported ELSE {{}}
    BY <1>3, Zenon DEF EpollWait, kernel
  <2>3. ksock \in {"reset", "none"} => ksock' \in {"reset", "none"}  BY <2>2
  <2>4. ASSUME batch' \subseteq tcp.mask  PROVE "HUP" \notin batch'
    BY <2>1, <2>4, SMT
  <2>5. CASE ksock = "failed"
    <3>1. batch' \in {{"ERR"}, {}}  BY <2>2, <2>5, ReportedIs, Zenon
    <3> QED  BY <3>1, SMT
  <2>6. CASE ksock = "connected"
    <3>1. batch' \in SUBSET tcp.mask \/ batch' \in {{}}  BY <2>2, <2>6, ReportedIs, Zenon
    <3> QED  BY <2>4, <3>1, Zenon
  <2>7. CASE ksock = "connecting"
    <3>1. batch' \in {{}}  BY <2>2, <2>7, ReportedIs, Zenon
    <3> QED  BY <2>4, <3>1, Zenon
  <2>8. CASE ksock \in {"reset", "none"}  BY <2>3, <2>8
  <2> QED  BY <2>5, <2>6, <2>7, <2>8, Zenon DEF TypeOK
<1>4. CASE CheckTcpSocket
  BY <1>4, <1>b, Zenon DEF CheckTcpSocket, SocketError, SocketConnected, SocketReply,
                           SocketRelay, SocketGone, SocketEvent
<1>5. CASE EndDispatch  BY <1>5, <1>b, Zenon DEF EndDispatch
<1>6. CASE NewSyn
  <2>1. batch = {}  BY <1>6, Zenon DEF NewSyn, FinInv, Lives, SocketLifetime
  <2> QED  BY <1>6, <1>b, <2>1, Zenon DEF NewSyn
<1>7. CASE HandlePacket
  BY <1>7, <1>k, Zenon DEF HandlePacket, HandlesPacket, Kept
<1>8. CASE Connects  BY <1>8, SMT DEF Connects
<1>9. CASE Fails  BY <1>9, SMT DEF Fails
<1> QED
  BY <1>1, <1>2, <1>3, <1>4, <1>5, <1>6, <1>7, <1>8, <1>9
  DEF Next, Loop, HandleTcp, Environment

\* As long as the session waits for the answer, it waits for nothing else.
LEMMA AwaitsStep ==
  ASSUME TypeOK, FinInv, [Next]_vars, Awaits,
         tcp.state = "LISTEN", tcp'.state = "LISTEN",
         tcp.connect_sent = "SENT", tcp.dest = "https"
  PROVE  Awaits'
<1>0. tcp \in Session  BY DEF TypeOK
<1>d. ASSUME phase' = "dispatch", batch' = {} \/ batch' = batch
      PROVE  Awaits'
  BY <1>d, SMT DEF Awaits
<1>s. ASSUME tcp'.mask = tcp.mask, batch' = batch,
             phase' = phase \/ phase \in {"check", "wait"}
      PROVE  Awaits'
  BY <1>s, Zenon DEF Awaits
<1>1. CASE Monitor
  <2>1. tcp.open
    <3>1. tcp.state \notin {"NONE", "FIN_WAIT1", "LAST_ACK", "CLOSING", "CLOSE"}  BY SMT
    <3> QED  BY <3>1, Zenon DEF FinInv, Lives, SocketLifetime
  <2>2. MonitorTcpSession /\ batch' = batch /\ phase = "monitor"
    BY <1>1, <2>1, Zenon DEF Monitor
  <2>3. PICK ok \in TunWrites, written \in BOOLEAN, room \in BOOLEAN :
          LET events == Events(tcp, room)
              probe == /\ tcp.state \in {"ESTABLISHED", "CLOSE_WAIT"}
                       /\ get_send_window(tcp) = 0
                       /\ written
              t == IF probe THEN write_ack(tcp, ok) ELSE tcp
          IN  tcp' = [t EXCEPT !.mask = events,
                               !.state = IF events # tcp.mask /\ ~registered
                                         THEN "CLOSING" ELSE @]
    BY <2>2, Zenon DEF MonitorTcpSession
  <2> DEFINE events == Events(tcp, room)
             v == IF events # tcp.mask /\ ~registered THEN "CLOSING" ELSE tcp.state
             u == [tcp EXCEPT !.mask = events, !.state = v]
  <2>4. tcp.state \notin {"ESTABLISHED", "CLOSE_WAIT"}  BY SMT
  <2>5. tcp' = u  BY <2>3, <2>4, Zenon
  <2>6. events = {"IN"}  BY SMT DEF Events
  <2> HIDE DEF events, v
  <2>7. u.mask = events  BY <1>0, Zenon DEF Session
  <2> HIDE DEF u
  <2>8. batch' = {}  BY <2>2, SMT DEF FinInv, Lives
  <2> QED  BY <2>5, <2>6, <2>7, <2>8, Zenon DEF Awaits
<1>2. CASE Check
  <2> DEFINE s == time_out(tcp)
             t == close_closing(s)
  <2>1. s \in Session  BY <1>0, CheckType
  <2>2. SameFlow(s, tcp) /\ SameFlow(t, s)  BY <1>0, <2>1, FlowKept
  <2>3. tcp' = NoSession \/ tcp' = t  BY <1>2, Zenon DEF Check, CheckTcpSession
  <2> HIDE DEF s, t
  <2>4. tcp' # NoSession  BY NoSessionType, SMT
  <2>5. tcp'.mask = tcp.mask  BY <2>2, <2>3, <2>4, Zenon DEF SameFlow
  <2> QED  BY <1>2, <1>s, <2>5, Zenon DEF Check
<1>3. CASE SkipCheck
  BY <1>3, <1>s, Zenon DEF SkipCheck
<1>4. CASE EpollWait
  <2>1. tcp.mask = {"IN"} /\ phase' = "dispatch" /\ ksock # "none"
    BY <1>4, SMT DEF EpollWait, Awaits, FinInv, Lives, SocketLifetime
  <2>2. batch' \in IF registered THEN Reported ELSE {{}}  BY <1>4, Zenon DEF EpollWait
  <2>3. batch' \in {{"ERR"}, {"IN"} \cup {"HUP"}, {}} \/ batch' \subseteq {"IN"}
    BY <2>1, <2>2, ReportedIs, Zenon DEF TypeOK
  <2>4. batch' # {} => batch' \cap {"IN", "ERR"} # {}  BY <2>3, SMT
  <2>5. phase' \notin {"check", "wait"}  BY <2>1, SMT
  <2> QED  BY <2>4, <2>5, Zenon DEF Awaits
<1>5. CASE EndDispatch
  BY <1>5, SMT DEF EndDispatch, kernel, Awaits
<1>6. CASE CheckTcpSocket
  <2>1. phase = "dispatch" /\ phase' = phase /\ batch' = {}
    BY <1>6, Zenon DEF CheckTcpSocket, SocketError, SocketConnected, SocketReply,
                       SocketRelay, SocketGone, SocketEvent
  <2> QED  BY <1>d, <2>1
<1>7. CASE HandleTcp
  <2>1. phase = "dispatch" /\ phase' = phase /\ batch' = batch
    BY <1>7, Zenon DEF HandleTcp, NewSyn, HandlePacket, HandlesPacket
  <2> QED  BY <1>d, <2>1
<1>8. CASE Connects \/ Fails \/ ResolverExits \/ UNCHANGED vars
  BY <1>8, <1>s, Zenon DEF Connects, Fails, ResolverExits, vars
<1>9. CASE Expires
  <2> DEFINE u == [tcp EXCEPT !.expired = TRUE]
  <2>1. SameFlow(u, tcp)  BY <1>0, FlowKept
  <2>2. tcp' = u /\ batch' = batch /\ phase' = phase  BY <1>9, Zenon DEF Expires
  <2> HIDE DEF u
  <2> QED  BY <1>s, <2>1, <2>2, Zenon DEF SameFlow
<1> QED
  BY <1>1, <1>2, <1>3, <1>4, <1>5, <1>6, <1>7, <1>8, <1>9 DEF Next, Loop, Environment

\* Every step keeps the invariant.
LEMMA OnceStep ==
  ASSUME TypeOK, TypeOK', FinInv, TunnelInv, AccountInv, OnceInv, [Next]_vars
  PROVE  OnceInv'
<1>0. /\ tcp \in Session /\ tcp' \in Session
      /\ tcp.hist.synack \in Nat /\ tcp.hist.down \in Nat
      /\ MaxDown \in Nat
  BY SessionFields, ConstantsAssumption DEF TypeOK
<1>1. CountStep /\ Moves  BY CountSteps, FinStep
<1>2. "HUP" \in batch' => ksock' \in {"reset", "none"}  BY HangUpStep DEF OnceInv
<1>n. NoHistory.synack = 0 /\ NoHistory.down = 0 /\ NoSession.hist = NoHistory
      /\ NoSession.state = "NONE"
  BY SMT DEF NoHistory, NoSession
<1>3. tcp.state = "NONE" => tcp'.state \in {"NONE", "LISTEN"}
  BY <1>1, SMT DEF Moves, ActiveStates
<1>l. ASSUME tcp.state = "LISTEN", tcp'.state = "LISTEN", tcp'.hist.synack # 0,
             tcp'.hist.synack = tcp.hist.synack, tcp'.connect_sent = tcp.connect_sent
      PROVE  tcp'.connect_sent = "SENT" /\ Awaits'
  <2>1. tcp.connect_sent = "SENT" /\ Awaits  BY <1>l, Zenon DEF OnceInv
  <2>2. tcp.dest = "https"  BY <2>1 DEF AccountInv
  <2> QED  BY <1>l, <2>1, <2>2, AwaitsStep
<1>4. CASE Steady
  BY <1>1, <1>2, <1>3, <1>4, <1>l, SMT DEF Steady, Counted, OnceInv, EstablishedStates
<1>5. CASE Resumes
  <2>1. /\ tcp'.hist.synack = tcp.hist.synack /\ tcp'.hist.down = tcp.hist.down
        /\ tcp'.local_start = tcp.local_start
        /\ Connecting(tcp) /\ tcp.connect_sent = "NOT_SENT" /\ tcp'.connect_sent = "SENT"
        /\ ksock = "connected" /\ phase = "dispatch" /\ phase' = phase /\ batch' = batch
    BY <1>5, Zenon DEF Resumes, Counted
  <2>2. tcp.open /\ tcp.state \in {"LISTEN", "SYN_RECV", "CLOSING"}
    BY <2>1, SMT DEF FinInv, Lives, SocketLifetime, EarlyConnect
  <2>3. tcp'.hist.synack # 0 => Awaits'
    <3> SUFFICES ASSUME tcp'.hist.synack # 0  PROVE Awaits'
      OBVIOUS
    <3>1. tcp.state # "LISTEN"
      BY <2>1, SMT DEF OnceInv
    <3>2. "OUT" \notin batch
      BY <2>1, <2>2, <3>1, SMT DEF TunnelInv, WaitsRight
    <3>3. "HUP" \notin batch  BY <2>1, SMT DEF OnceInv
    <3>4. batch \subseteq {"IN", "OUT", "ERR", "HUP"}  BY DEF TypeOK
    <3>5. batch # {} => batch \cap {"IN", "ERR"} # {}
      <4> SUFFICES ASSUME batch # {}  PROVE batch \cap {"IN", "ERR"} # {}
        OBVIOUS
      <4>1. PICK x \in batch : TRUE  OBVIOUS
      <4>2. x \in {"IN", "ERR"}  BY <3>2, <3>3, <3>4, <4>1
      <4> QED  BY <4>2
    <3>6. phase' \notin {"check", "wait"}  BY <2>1, SMT
    <3> QED  BY <2>1, <3>5, <3>6, Zenon DEF Awaits
  <2>4. tcp.state # "NONE"  BY <2>2, SMT
  <2> QED  BY <1>2, <2>1, <2>3, <2>4, Zenon DEF OnceInv
<1>6. CASE Replies
  BY <1>2, <1>6, SMT DEF Replies, Counted, OnceInv
<1>7. CASE Acks
  BY <1>1, <1>2, <1>3, <1>7, <1>l, SMT DEF Acks, Counted, OnceInv
<1>8. CASE Answers
  <2>1. tcp.hist.synack = 0
    <3>1. tcp.state = "LISTEN" /\ batch # {} /\ batch \cap {"IN", "ERR"} = {}
      BY <1>8, Zenon DEF Answers
    <3> QED  BY <3>1, Zenon DEF OnceInv, Awaits
  <2>2. tcp'.hist.synack <= 1  BY <1>8, <2>1, SMT DEF Answers
  <2> QED  BY <1>2, <1>8, <2>2, SMT DEF Answers, CountedOn, OnceInv
<1>9. CASE Ends
  BY <1>2, <1>9, SMT DEF Ends, CountedOn, OnceInv
<1>10. CASE \E n \in 1 .. MaxDown : Gets(n)
  BY <1>2, <1>10, SMT DEF Gets, CountedOn, OnceInv
<1>11. CASE Opens
  BY <1>0, <1>2, <1>11, <1>n, SMT DEF Opens, OnceInv
<1>12. CASE tcp' = NoSession
  BY <1>0, <1>2, <1>12, <1>n, SMT DEF OnceInv
<1> QED
  BY <1>1, <1>4, <1>5, <1>6, <1>7, <1>8, <1>9, <1>10, <1>11, <1>12 DEF CountStep

LEMMA OnceInvariant == Spec => [](AccountInv /\ OnceInv)
<1>1. Init => OnceInv
  <2>1. NoHistory.synack = 0 /\ NoHistory.down = 0 /\ NoSession.hist = NoHistory
        /\ NoSession.state = "NONE"
    BY SMT DEF NoHistory, NoSession
  <2>2. MaxDown \in Nat  BY ConstantsAssumption
  <2> QED  BY <2>1, <2>2, SMT DEF Init, OnceInv
<1>2. /\ TypeOK /\ TypeOK' /\ FinInv /\ TunnelInv /\ AccountInv /\ OnceInv /\ [Next]_vars
      => OnceInv'
  BY OnceStep
<1> QED
  BY <1>1, <1>2, FinInvariant, TunnelInvariant, AccountInvariant, PTL DEF Spec

LEMMA HalfStreamFacts ==
  ASSUME HalfStreams
  PROVE  /\ MaxDown \in Nat /\ Modulus \in Nat /\ Half \in Nat /\ IntMax = Half - 1
         /\ MaxDown + 3 < IntMax /\ MaxDown + 3 < Modulus
BY ConstantsAssumption, HalfFacts, SMT DEF HalfStreams, IntMax

LEMMA ShortIsHalf ==
  ASSUME ShortStreams
  PROVE  HalfStreams
BY ConstantsAssumption, HalfFacts, SMT DEF ShortStreams, HalfStreams

\* As long as its account holds, a session has counted less of the engine's
\* side than compare_u32 can overlook.
LEMMA LocalAt ==
  ASSUME NEW s \in Session, LocalCounts(s), HalfStreams,
         s.hist.synack <= 1, s.hist.down <= MaxDown, s.hist.finack <= 1
  PROVE  /\ Sub(s.local_seq, s.local_start)
              = s.hist.synack + s.hist.down + s.hist.finack
         /\ Sub(s.local_seq, s.local_start) \in 0 .. MaxDown + 2
<1> DEFINE m == s.hist.synack + s.hist.down + s.hist.finack
<1>1. s.hist.synack \in Nat /\ s.hist.down \in Nat /\ s.hist.finack \in Nat
      /\ MaxDown \in Nat
  BY SessionFields, ConstantsAssumption
<1>2. m \in 0 .. MaxDown + 2  BY <1>1, SMT
<1>3. MaxDown + 3 < Modulus  BY <1>1, HalfStreamFacts
<1>4. m \in Int /\ m \in SeqNums
  <2> HIDE DEF m
  <2> QED  BY <1>1, <1>2, <1>3, ModulusAssumption, SMT DEF SeqNums
<1>5. Sub(s.local_seq, s.local_start) = m % Modulus  BY Zenon DEF LocalCounts
<1> HIDE DEF m
<1>6. m % Modulus = m  BY <1>4, ModFacts
<1> QED  BY <1>2, <1>5, <1>6, Zenon DEF m

\* The distance of isn + d from isn.
LEMMA OffsetOf ==
  ASSUME NEW isn \in SeqNums, NEW d \in SeqNums
  PROVE  Sub(Add(isn, d), isn) = d
<1>1. Modulus \in Nat /\ isn \in Int /\ d \in Int /\ 0 \in SeqNums
  BY ModulusAssumption, SMT DEF SeqNums
<1>2. 0 % Modulus = 0 /\ d % Modulus = d  BY <1>1, ModFacts
<1>3. Sub(isn, isn) = 0 % Modulus  BY <1>1, <1>2, SubIs, SMT
<1>4. Sub(Add(isn, d), isn) = (0 + d) % Modulus  BY <1>1, <1>3, CountOn
<1> QED  BY <1>1, <1>2, <1>4, SMT

\* What get_send_window takes for the bytes in flight is at least what they
\* are, also when it is the raw number because compare_u32 errs.
LEMMA BehindIs ==
  ASSUME NEW s \in SeqNums, NEW a \in SeqNums, NEW l \in SeqNums,
         Sub(a, s) <= Sub(l, s), Sub(l, s) < IntMax, 2 * Sub(l, a) <= Half
  PROVE  LET behind == IF compare_u32(a, l) <= 0 THEN Sub(l, a) ELSE a
         IN  behind \in SeqNums /\ Sub(l, a) <= behind
<1>1. /\ Half \in Nat /\ IntMax = Half - 1
      /\ \A x \in SeqNums : x \in Int /\ 0 <= x
  BY HalfFacts, ModulusAssumption, SMT DEF IntMax, SeqNums
<1>2. Sub(a, s) \in SeqNums /\ Sub(l, s) \in SeqNums /\ Sub(l, a) \in SeqNums
  BY <1>1, AddSubType
<1>3. Sub(a, s) \in Int /\ Sub(l, s) \in Int /\ Sub(l, a) \in Int /\ 0 <= Sub(a, s)
      /\ a \in Int /\ l \in Int
  BY <1>1, <1>2
<1>4. CASE compare_u32(a, l) <= 0
  BY <1>2, <1>3, <1>4, SMT
<1>5. CASE ~(compare_u32(a, l) <= 0)
  <2>1. Sub(a, s) < Sub(l, s)
    <3>1. a # l  BY <1>5, SMT DEF compare_u32
    <3>2. Sub(a, s) # Sub(l, s)
      <4>1. Add(s, Sub(a, s)) = a /\ Add(s, Sub(l, s)) = l  BY AddOfSub
      <4> QED  BY <3>1, <4>1
    <3> QED  BY <1>3, <3>2, SMT
  <2>2. /\ Sub(l, a) = Sub(l, s) - Sub(a, s)
        /\ Sub(l, a) \in 1 .. IntMax - 1
        /\ CrossesIntBoundary(a, l) => a < Half /\ l >= Half /\ l - a = Sub(l, a)
    BY <2>1, SubInOrder
  <2>3. CrossesIntBoundary(a, l)
    <3> SUFFICES ASSUME ~CrossesIntBoundary(a, l)  PROVE FALSE
      OBVIOUS
    <3>1. compare_u32(a, l) = -1  BY <2>2, CompareAwayFromIntBoundary
    <3> QED  BY <1>5, <3>1, SMT
  <2>4. Sub(l, a) <= a  BY <1>1, <1>3, <2>2, <2>3, SMT
  <2> QED  BY <1>5, <2>4, Zenon
<1> QED  BY <1>4, <1>5

\* An ACK that is taken lies between the last one and what was sent.
LEMMA AckBetween ==
  ASSUME HalfStreams, TypeOK, TypeOK', FinInv, AccountInv, OnceInv, AckedIsSent,
         Acks, tcp.state \in EstablishedStates
  PROVE  /\ Sub(tcp.acked, tcp.local_start) <= Sub(tcp'.acked, tcp.local_start)
         /\ Sub(tcp'.acked, tcp.local_start) <= Sub(tcp.local_seq, tcp.local_start)
<1> DEFINE isn == tcp.local_start
           at == Sub(tcp.local_seq, isn)
<1>0. /\ tcp \in Session
      /\ tcp.local_seq \in SeqNums /\ tcp.acked \in SeqNums /\ isn \in SeqNums
      /\ tcp'.acked \in SeqNums
      /\ MaxDown \in Nat /\ MaxDown + 3 < IntMax /\ MaxDown + 3 < Modulus
      /\ Modulus \in Nat /\ IntMax \in Int
  <2>1. IntMax \in Int  BY HalfStreamFacts, SMT
  <2> QED  BY <2>1, HalfStreamFacts, SessionFields DEF TypeOK
<1>1. Sub(tcp.acked, isn) <= at
  BY Zenon DEF AckedIsSent, EstablishedStates, LocalOffset
<1>2. at \in 0 .. MaxDown + 2
  <2>1. tcp.hist.synack <= 1 /\ tcp.hist.down <= MaxDown /\ tcp.hist.finack <= 1
    BY DEF OnceInv, FinInv, Lives, FinCountedOnce
  <2>2. tcp.state \in ActiveStates  BY SMT DEF EstablishedStates, ActiveStates
  <2>3. LocalCounts(tcp)  BY <2>2 DEF AccountInv
  <2> QED  BY <1>0, <2>1, <2>3, LocalAt
<1>3. CASE tcp'.acked = tcp.local_seq
  <2>1. at <= at
    <3> HIDE DEF at
    <3> QED  BY <1>0, <1>2, SMT
  <2>2. Sub(tcp'.acked, isn) = at  BY <1>3
  <2> QED  BY <1>1, <2>1, <2>2
<1>4. CASE tcp'.acked # tcp.local_seq
  <2>1. PICK d \in 0 .. MaxDown + 3 : tcp'.acked = Add(isn, d)
    BY <1>4, Zenon DEF Acks
  <2>2. compare_u32(tcp'.acked, tcp.local_seq) < 0 /\ compare_u32(tcp'.acked, tcp.acked) > 0
    BY <1>4, Zenon DEF Acks
  <2>3. d \in SeqNums /\ d < IntMax  BY <1>0, <2>1, SMT DEF SeqNums
  <2>4. Sub(tcp'.acked, isn) = d
    <3>1. isn \in SeqNums /\ tcp'.acked = Add(isn, d)  BY <1>0, <2>1
    <3> HIDE DEF isn
    <3>2. Sub(Add(isn, d), isn) = d  BY <2>3, <3>1, OffsetOf, Zenon
    <3> QED  BY <3>1, <3>2
  <2>5. at < IntMax /\ Sub(tcp'.acked, isn) < IntMax
    <3> HIDE DEF at
    <3> QED  BY <1>0, <1>2, <2>3, <2>4, SMT
  <2> QED  BY <1>0, <1>1, <2>2, <2>5, BothComparisons, BothComparisonsOnward
<1> QED  BY <1>3, <1>4

\* Every step keeps the acknowledgements within what was sent.
LEMMA AckedStep ==
  ASSUME HalfStreams, TypeOK, TypeOK', FinInv, FinInv', AccountInv, OnceInv, OnceInv',
         AccountInv', AckedIsSent, [Next]_vars
  PROVE  AckedIsSent'
<1> DEFINE isn == tcp.local_start
           at == Sub(tcp.local_seq, isn)
<1>0. /\ tcp \in Session /\ tcp' \in Session
      /\ tcp.local_seq \in SeqNums /\ tcp.acked \in SeqNums /\ isn \in SeqNums
      /\ tcp'.local_seq \in SeqNums /\ tcp'.acked \in SeqNums
      /\ MaxDown \in Nat /\ MaxDown + 3 < IntMax /\ MaxDown + 3 < Modulus
      /\ Modulus \in Nat /\ IntMax \in Int
  <2>1. IntMax \in Int  BY HalfStreamFacts, SMT
  <2> QED  BY <2>1, HalfStreamFacts, SessionFields DEF TypeOK
<1> SUFFICES ASSUME tcp'.state \in EstablishedStates
             PROVE  Sub(tcp'.acked, tcp'.local_start) <= Sub(tcp'.local_seq, tcp'.local_start)
  BY Zenon DEF AckedIsSent, EstablishedStates, LocalOffset
<1>a. tcp.state \in EstablishedStates => Sub(tcp.acked, isn) <= at
  BY Zenon DEF AckedIsSent, EstablishedStates, LocalOffset
<1>c. CountStep  BY CountSteps
<1>m. tcp.hist.synack <= 1 /\ tcp.hist.down <= MaxDown /\ tcp.hist.finack <= 1
  BY DEF OnceInv, FinInv, Lives, FinCountedOnce
<1>s. tcp.state \in ActiveStates =>
        /\ at = tcp.hist.synack + tcp.hist.down + tcp.hist.finack
        /\ at \in 0 .. MaxDown + 2
  <2> SUFFICES ASSUME tcp.state \in ActiveStates
               PROVE  /\ at = tcp.hist.synack + tcp.hist.down + tcp.hist.finack
                      /\ at \in 0 .. MaxDown + 2
    OBVIOUS
  <2>1. LocalCounts(tcp)  BY DEF AccountInv
  <2> QED  BY <1>0, <1>m, <2>1, LocalAt
<1>q. tcp.hist.synack \in Nat /\ tcp.hist.down \in Nat /\ tcp.hist.finack \in Nat
      /\ tcp'.hist.synack \in Nat /\ tcp'.hist.down \in Nat /\ tcp'.hist.finack \in Nat
  BY <1>0, SessionFields
<1>i. Sub(tcp.acked, isn) \in Int /\ at \in Int /\ Sub(tcp'.local_seq, isn) \in Int
  <2>1. \A x \in SeqNums : x \in Int  BY <1>0, SMT DEF SeqNums
  <2>2. Sub(tcp.acked, isn) \in SeqNums /\ at \in SeqNums /\ Sub(tcp'.local_seq, isn) \in SeqNums
    BY <1>0, <2>1, AddSubType
  <2> QED  BY <2>1, <2>2
<1>1. CASE Steady
  <2>1. tcp.state \in EstablishedStates
        /\ tcp'.acked = tcp.acked /\ tcp'.local_seq = tcp.local_seq /\ tcp'.local_start = isn
    BY <1>1, SMT DEF Steady, Counted, EstablishedStates
  <2> QED  BY <1>a, <2>1
<1>2. CASE Acks
  <2>1. tcp'.local_seq = tcp.local_seq /\ tcp'.local_start = isn
    BY <1>2, Zenon DEF Acks, Counted
  <2>2. CASE tcp'.acked = tcp.local_seq
    BY <1>i, <2>1, <2>2, SMT
  <2>3. CASE tcp'.acked # tcp.local_seq
    <3>1. tcp'.state = tcp.state  BY <1>2, <2>3, Zenon DEF Acks
    <3>2. Sub(tcp'.acked, isn) <= at  BY <1>2, <3>1, AckBetween
    <3> QED  BY <2>1, <3>2
  <2> QED  BY <2>2, <2>3
<1>3. CASE Ends
  <2>1. /\ tcp.state \in EstablishedStates /\ tcp.state \in ActiveStates
        /\ tcp'.state \in {"FIN_WAIT1", "LAST_ACK"} /\ tcp'.state \in ActiveStates
    BY <1>3, SMT DEF Ends, EstablishedStates, ActiveStates
  <2>2. /\ tcp'.acked = tcp.acked /\ tcp'.local_start = isn
        /\ tcp'.hist.down = tcp.hist.down /\ tcp'.hist.synack = tcp.hist.synack
    BY <1>3, Zenon DEF Ends, CountedOn
  <2>3. tcp'.hist.finack = 1  BY <2>1 DEF FinInv, Lives, FinCountedOnce
  <2>4. LocalCounts(tcp')  BY <2>1 DEF AccountInv
  <2>5. Sub(tcp'.local_seq, tcp'.local_start)
          = tcp'.hist.synack + tcp'.hist.down + tcp'.hist.finack
    <3>1. tcp'.hist.synack <= 1 /\ tcp'.hist.down <= MaxDown /\ tcp'.hist.finack <= 1
      BY DEF OnceInv, FinInv, Lives, FinCountedOnce
    <3> QED  BY <1>0, <2>4, <3>1, LocalAt
  <2>6. at <= Sub(tcp'.local_seq, tcp'.local_start)
    BY <1>m, <1>q, <1>s, <2>1, <2>2, <2>3, <2>5, SMT
  <2>7. Sub(tcp'.acked, tcp'.local_start) <= at  BY <1>a, <2>1, <2>2
  <2> QED  BY <1>i, <2>2, <2>6, <2>7, SMT
<1>4. CASE \E n \in 1 .. MaxDown : Gets(n)
  <2>1. PICK n \in 1 .. MaxDown : Gets(n)  BY <1>4
  <2>2. /\ tcp.state \in EstablishedStates /\ tcp.state \in ActiveStates
        /\ tcp'.acked = tcp.acked /\ tcp'.local_start = isn
        /\ tcp'.local_seq = Add(tcp.local_seq, n)
        /\ tcp'.hist.down = tcp.hist.down + n /\ tcp'.hist.down <= MaxDown
    BY <2>1, SMT DEF Gets, CountedOn, EstablishedStates, ActiveStates
  <2>3. at = tcp.hist.synack + tcp.hist.down + tcp.hist.finack  BY <1>s, <2>2
  <2>4. at \in SeqNums /\ at + n \in SeqNums
    BY <1>0, <1>m, <1>q, <2>1, <2>2, <2>3, SMT DEF SeqNums
  <2>5. at % Modulus = at /\ (at + n) % Modulus = at + n
    BY <1>i, <2>4, ModFacts
  <2>6. Sub(tcp'.local_seq, isn) = (at + n) % Modulus
    BY <1>0, <1>i, <2>2, <2>5, CountOn
  <2>7. at <= Sub(tcp'.local_seq, isn)  BY <1>i, <2>5, <2>6, SMT
  <2>8. Sub(tcp'.acked, isn) <= at  BY <1>a, <2>2
  <2>9. Sub(tcp'.acked, isn) \in Int  BY <1>i, <2>2
  <2> QED  BY <1>i, <2>2, <2>7, <2>8, <2>9, SMT
<1>5. ~Resumes /\ ~Replies /\ ~Answers /\ ~Opens
  BY SMT DEF Resumes, Replies, Answers, Opens, EstablishedStates
<1>6. tcp' # NoSession  BY NoSessionType, SMT DEF EstablishedStates
<1> QED  BY <1>c, <1>1, <1>2, <1>3, <1>4, <1>5, <1>6 DEF CountStep

\* What a session that relays has in flight is at most a quarter of the space.
Relaying == tcp.state \in {"ESTABLISHED", "CLOSE_WAIT"}

QuarterInFlight == Relaying => 4 * Sub(tcp.local_seq, tcp.acked) <= Modulus

\* Only Gets relays data to the app.
LEMMA GetsRelay ==
  ASSUME TypeOK, FinInv, [Next]_vars, tcp'.hist.down > tcp.hist.down
  PROVE  Relaying /\ \E n \in 1 .. MaxDown : Gets(n)
<1>1. CountStep  BY CountSteps
<1>2. tcp.hist.down \in Nat  BY SessionFields DEF TypeOK
<1>3. \E n \in 1 .. MaxDown : Gets(n)
  <2>1. ~(tcp'.hist.down = tcp.hist.down)  BY <1>2, SMT
  <2>2. ~Steady /\ ~Resumes /\ ~Replies /\ ~Acks /\ ~Answers /\ ~Ends
    BY <2>1, Zenon DEF Steady, Resumes, Replies, Acks, Answers, Ends, Counted
  <2>3. NoHistory.down = 0 /\ NoSession.hist = NoHistory
    BY SMT DEF NoHistory, NoSession
  <2>4. ~Opens /\ tcp' # NoSession  BY <1>2, <2>3, SMT DEF Opens
  <2> QED  BY <1>1, <2>2, <2>4 DEF CountStep
<1> QED  BY <1>3, Zenon DEF Gets, Relaying

\* It does so within the window.
LEMMA WindowStep ==
  ASSUME HalfStreams, TypeOK, TypeOK', FinInv, AccountInv, OnceInv, AckedIsSent,
         [Next]_vars, tcp'.hist.down > tcp.hist.down, tcp'.state # "CLOSING",
         4 * Sub(tcp.local_seq, tcp.acked) <= Modulus
  PROVE  Sub(tcp'.local_seq, tcp'.acked) <= tcp'.send_window
<1> DEFINE isn == tcp.local_start
<1>0. /\ tcp \in Session /\ tcp' \in Session
      /\ tcp.local_seq \in SeqNums /\ tcp.acked \in SeqNums /\ isn \in SeqNums
      /\ tcp.hist.down \in Nat /\ tcp'.send_window \in Nat
      /\ MaxDown \in Nat /\ Modulus \in Nat /\ Modulus > 3
  BY SessionFields, ConstantsAssumption, ModulusAssumption DEF TypeOK
<1>z. \A x \in SeqNums : x \in Int  BY <1>0, SMT DEF SeqNums
<1>2. PICK n \in 1 .. MaxDown : Gets(n)  BY GetsRelay
<1>3. /\ tcp.state \in EstablishedStates /\ tcp.state \in ActiveStates
      /\ tcp'.acked = tcp.acked /\ tcp'.local_seq = Add(tcp.local_seq, n)
  BY <1>2, SMT DEF Gets, CountedOn, EstablishedStates, ActiveStates
<1>4. Sub(tcp.local_seq, isn) < IntMax
  <2>1. LocalCounts(tcp)  BY <1>3 DEF AccountInv
  <2>2. tcp.hist.synack <= 1 /\ tcp.hist.down <= MaxDown /\ tcp.hist.finack <= 1
    BY DEF OnceInv, FinInv, Lives, FinCountedOnce
  <2>3. Sub(tcp.local_seq, isn) \in 0 .. MaxDown + 2
    BY <1>0, <2>1, <2>2, LocalAt
  <2> HIDE DEF isn
  <2> QED  BY <2>3, HalfStreamFacts, SMT
<1>5. Sub(tcp.acked, isn) <= Sub(tcp.local_seq, isn)
  BY <1>3, Zenon DEF AckedIsSent, EstablishedStates, LocalOffset
<1> DEFINE inflight == Sub(tcp.local_seq, tcp.acked)
           behind == IF compare_u32(tcp.acked, tcp.local_seq) <= 0
                     THEN inflight ELSE tcp.acked
<1>6. behind \in SeqNums /\ inflight <= behind
  <2>1. Modulus = 2 * Half /\ Half \in Int /\ inflight \in Int
    <3>1. Modulus = 2 * Half /\ Half \in Int  BY HalfFacts, SMT
    <3>2. inflight \in SeqNums  BY <1>0, <1>z, AddSubType
    <3> QED  BY <1>z, <3>1, <3>2
  <2>2. 2 * inflight <= Half
    <3> HIDE DEF inflight
    <3>1. 4 * inflight <= Modulus  BY DEF inflight
    <3> QED  BY <2>1, <3>1, SMT
  <2> QED  BY <1>0, <1>4, <1>5, <2>2, BehindIs
<1>7. n <= IF behind < tcp'.send_window THEN tcp'.send_window - behind ELSE 0
  BY <1>2, Zenon DEF Gets
<1>8. inflight \in SeqNums /\ inflight \in Int /\ 0 <= inflight /\ behind \in Int
  <2>1. \A x \in SeqNums : x \in Int /\ 0 <= x  BY <1>0, SMT DEF SeqNums
  <2>2. inflight \in SeqNums  BY <1>0, <2>1, AddSubType
  <2> HIDE DEF inflight, behind
  <2> QED  BY <1>6, <2>1, <2>2
<1>9. inflight % Modulus = inflight  BY <1>8, ModFacts
<1>10. Sub(tcp'.local_seq, tcp'.acked) = (inflight + n) % Modulus
  BY <1>0, <1>3, <1>8, <1>9, CountOn
<1> DEFINE x == inflight + n
<1>11. x \in Nat /\ x <= tcp'.send_window
  <2> HIDE DEF inflight, behind
  <2> QED  BY <1>0, <1>2, <1>6, <1>7, <1>8, SMT
<1> HIDE DEF x
<1>12. x % Modulus <= x
  <2>1. CASE x < Modulus
    <3>1. x \in SeqNums /\ x \in Int  BY <1>0, <1>11, <2>1, SMT DEF SeqNums
    <3>2. x % Modulus = x  BY <3>1, ModFacts
    <3> QED  BY <1>11, <3>2, SMT
  <2>2. CASE x >= Modulus
    <3>1. x % Modulus \in SeqNums  BY <1>11, ModFacts
    <3> QED  BY <1>0, <1>11, <2>2, <3>1, SMT DEF SeqNums
  <2> QED  BY <1>0, <1>11, <2>1, <2>2, SMT
<1>13. x % Modulus \in SeqNums  BY <1>11, ModFacts
<1>14. x % Modulus <= tcp'.send_window
  BY <1>0, <1>11, <1>12, <1>13, SMT DEF SeqNums
<1> QED  BY <1>10, <1>14 DEF x

(***************************************************************************)
(* In an established session the acknowledgement recorded never passes the *)
(* bytes sent, however the app repeats, delays or invents its ACKs, also   *)
(* where compare_u32 takes their order for its opposite.                   *)
(***************************************************************************)
THEOREM AckedIsSentCorrect ==
  ASSUME HalfStreams
  PROVE  Spec => []AckedIsSent
<1>1. Init => AckedIsSent
  BY NoSessionType, SMT DEF Init, AckedIsSent
<1>2. /\ TypeOK /\ TypeOK' /\ FinInv /\ FinInv' /\ AccountInv /\ AccountInv'
      /\ OnceInv /\ OnceInv' /\ AckedIsSent /\ [Next]_vars
      => AckedIsSent'
  BY AckedStep
<1> QED  BY <1>1, <1>2, FinInvariant, OnceInvariant, PTL DEF Spec

(***************************************************************************)
(* Nor does it ever go back, however the ACKs are reordered, as long as    *)
(* the session stays established.                                          *)
(***************************************************************************)
THEOREM AckedNeverGoesBack ==
  ASSUME HalfStreams
  PROVE  Spec => [][ tcp.state \in EstablishedStates /\ tcp'.state \in EstablishedStates
                       => Sub(tcp.acked, tcp.local_start)
                            <= Sub(tcp'.acked, tcp.local_start) ]_vars
<1> DEFINE Onward == tcp.state \in EstablishedStates /\ tcp'.state \in EstablishedStates
                       => Sub(tcp.acked, tcp.local_start)
                            <= Sub(tcp'.acked, tcp.local_start)
<1>1. /\ TypeOK /\ TypeOK' /\ FinInv /\ AccountInv /\ OnceInv /\ AckedIsSent /\ [Next]_vars
      => Onward
  <2> SUFFICES ASSUME TypeOK, TypeOK', FinInv, AccountInv, OnceInv, AckedIsSent, [Next]_vars,
                      tcp.state \in EstablishedStates, tcp'.state \in EstablishedStates
               PROVE  Sub(tcp.acked, tcp.local_start) <= Sub(tcp'.acked, tcp.local_start)
    OBVIOUS
  <2>1. CountStep  BY CountSteps
  <2>2. CASE Acks  BY <2>2, AckBetween
  <2>3. CASE tcp'.acked = tcp.acked
    <3>1. /\ tcp.acked \in SeqNums /\ tcp.local_start \in SeqNums
          /\ \A x \in SeqNums : x \in Int
      BY SessionFields, ModulusAssumption, SMT DEF TypeOK, SeqNums
    <3>2. Sub(tcp.acked, tcp.local_start) \in Int  BY <3>1, AddSubType
    <3> QED  BY <2>3, <3>2, SMT
  <2>4. ~Resumes /\ ~Replies /\ ~Answers /\ ~Opens /\ tcp' # NoSession
    BY NoSessionType, SMT DEF Resumes, Replies, Answers, Opens, EstablishedStates
  <2> QED
    BY <2>1, <2>2, <2>3, <2>4, Zenon
    DEF CountStep, Steady, Ends, Gets, CountedOn
<1> QED  BY <1>1, AckedIsSentCorrect, FinInvariant, OnceInvariant, PTL DEF Spec

\* No window the app advertises is more than a quarter of the space: TCP scales
\* 65535 by 2^14 at most.
QuarterWindows == \A w \in Windows : 4 * w <= Modulus

LEMMA ShortInFlight ==
  ASSUME HalfStreams, TypeOK, FinInv, AccountInv, OnceInv, AckedIsSent, ShortSoFar
  PROVE  QuarterInFlight
<1> DEFINE isn == tcp.local_start
           at == Sub(tcp.local_seq, isn)
           back == Sub(tcp.acked, isn)
           inflight == Sub(tcp.local_seq, tcp.acked)
<1> SUFFICES ASSUME Relaying  PROVE 4 * inflight <= Modulus
  BY Zenon DEF QuarterInFlight
<1>0. /\ tcp \in Session /\ Modulus \in Nat
      /\ tcp.local_seq \in SeqNums /\ tcp.acked \in SeqNums /\ isn \in SeqNums
      /\ \A x \in SeqNums : x \in Int /\ 0 <= x
      /\ tcp.hist.synack \in Nat /\ tcp.hist.down \in Nat /\ tcp.hist.finack \in Nat
      /\ 4 * (tcp.hist.down + 2) <= Modulus
  <2>1. Modulus \in Nat /\ \A x \in SeqNums : x \in Int /\ 0 <= x
    BY ModulusAssumption, SMT DEF SeqNums
  <2> QED  BY <2>1, SessionFields DEF TypeOK, ShortSoFar
<1>1. tcp.state \in ActiveStates /\ tcp.state \in EstablishedStates
  BY SMT DEF Relaying, ActiveStates, EstablishedStates
<1>2. back <= at
  BY <1>1, Zenon DEF AckedIsSent, EstablishedStates, LocalOffset
<1>3. at = tcp.hist.synack + tcp.hist.down + tcp.hist.finack
      /\ tcp.hist.synack <= 1 /\ tcp.hist.finack <= 1
  <2>1. LocalCounts(tcp)  BY <1>1 DEF AccountInv
  <2>2. tcp.hist.synack <= 1 /\ tcp.hist.down <= MaxDown /\ tcp.hist.finack <= 1
    BY DEF OnceInv, FinInv, Lives, FinCountedOnce
  <2> QED  BY <1>0, <2>1, <2>2, LocalAt
<1>4. inflight = at - back  BY <1>0, <1>2, SubOfSubs
<1>5. back \in Int /\ 0 <= back /\ at \in Int
  <2>1. back \in SeqNums /\ at \in SeqNums  BY <1>0, AddSubType
  <2> QED  BY <1>0, <2>1
<1> HIDE DEF inflight, at, back
<1> QED  BY <1>0, <1>3, <1>4, <1>5, SMT

\* Windows of a quarter keep it so.
LEMMA InFlightStep ==
  ASSUME HalfStreams, QuarterWindows, TypeOK, TypeOK', FinInv, FinInv', AccountInv, OnceInv,
         AckedIsSent, QuarterInFlight, [Next]_vars
  PROVE  QuarterInFlight'
<1> SUFFICES ASSUME Relaying'
             PROVE  4 * Sub(tcp'.local_seq, tcp'.acked) <= Modulus
  BY Zenon DEF QuarterInFlight
<1> DEFINE isn == tcp.local_start
<1>0. /\ tcp \in Session /\ tcp' \in Session /\ Modulus \in Nat /\ Modulus > 3
      /\ tcp.local_seq \in SeqNums /\ tcp.acked \in SeqNums /\ isn \in SeqNums
      /\ tcp'.local_seq \in SeqNums /\ tcp'.acked \in SeqNums
      /\ \A x \in SeqNums : x \in Int /\ 0 <= x
  <2>1. Modulus \in Nat /\ Modulus > 3 /\ \A x \in SeqNums : x \in Int /\ 0 <= x
    BY ModulusAssumption, SMT DEF SeqNums
  <2> QED  BY <2>1, SessionFields DEF TypeOK
<1>1. CountStep  BY CountSteps
<1>2. /\ tcp'.state \in {"ESTABLISHED", "CLOSE_WAIT"} /\ tcp'.state \in EstablishedStates
      /\ tcp'.state # "CLOSING" /\ tcp'.hist.finack = 0
  <2>1. /\ tcp'.state \in {"ESTABLISHED", "CLOSE_WAIT"} /\ tcp'.state \in EstablishedStates
        /\ tcp'.state # "CLOSING"
    BY SMT DEF Relaying, EstablishedStates
  <2> QED  BY <2>1, SMT DEF FinInv, Lives
<1>3. CASE Steady
  <2>1. /\ tcp'.acked = tcp.acked /\ tcp'.local_seq = tcp.local_seq
        /\ tcp.hist.finack = 0
    BY <1>2, <1>3, Zenon DEF Steady, Counted
  <2>2. tcp.state \in EstablishedStates
    BY <1>2, <1>3, SMT DEF Steady, EstablishedStates
  <2>3. Relaying
    BY <2>1, <2>2, SMT DEF Relaying, EstablishedStates, FinInv, Lives, FinCountedOnce
  <2> QED  BY <2>1, <2>3, Zenon DEF QuarterInFlight
<1>4. CASE Acks
  <2>1. tcp'.local_seq = tcp.local_seq  BY <1>4, Zenon DEF Acks, Counted
  <2>2. CASE tcp'.acked = tcp.local_seq
    <3>1. Sub(tcp'.local_seq, tcp'.acked) = tcp.local_seq - tcp.local_seq
      BY <1>0, <2>1, <2>2, SubIs, SMT
    <3> QED  BY <1>0, <3>1, SMT
  <2>3. CASE tcp'.acked # tcp.local_seq
    <3>1. tcp'.state = tcp.state  BY <1>4, <2>3, Zenon DEF Acks
    <3>2. Relaying /\ tcp.state \in EstablishedStates  BY <1>2, <3>1 DEF Relaying
    <3>3. /\ Sub(tcp.acked, isn) <= Sub(tcp'.acked, isn)
          /\ Sub(tcp'.acked, isn) <= Sub(tcp.local_seq, isn)
      BY <1>4, <3>2, AckBetween
    <3> DEFINE at == Sub(tcp.local_seq, isn)
               old == Sub(tcp.acked, isn)
               new == Sub(tcp'.acked, isn)
    <3>4. at \in Int /\ old \in Int /\ new \in Int
      <4>1. at \in SeqNums /\ old \in SeqNums /\ new \in SeqNums  BY <1>0, AddSubType
      <4> QED  BY <1>0, <4>1
    <3>5. old <= new /\ new <= at  BY <3>3
    <3>6. old <= at
      <4> HIDE DEF old, new, at
      <4> QED  BY <3>4, <3>5, SMT
    <3>7. Sub(tcp.local_seq, tcp.acked) = at - old  BY <1>0, <3>6, SubOfSubs
    <3>8. Sub(tcp.local_seq, tcp'.acked) = at - new  BY <1>0, <3>5, SubOfSubs
    <3>9. 4 * (at - old) <= Modulus  BY <3>2, <3>7 DEF QuarterInFlight
    <3>10. 4 * (at - new) <= Modulus
      <4> HIDE DEF old, new, at
      <4> QED  BY <1>0, <3>4, <3>5, <3>9, SMT
    <3> QED  BY <2>1, <3>8, <3>10
  <2> QED  BY <2>2, <2>3
<1>5. CASE \E n \in 1 .. MaxDown : Gets(n)
  <2>1. PICK n \in 1 .. MaxDown : Gets(n)  BY <1>5
  <2>2. Relaying /\ tcp'.hist.down = tcp.hist.down + n
    BY <2>1, Zenon DEF Gets, Relaying
  <2>3. tcp.hist.down \in Nat /\ MaxDown \in Nat
    BY <1>0, SessionFields, ConstantsAssumption
  <2>4. tcp'.hist.down > tcp.hist.down  BY <2>1, <2>2, <2>3, SMT
  <2>5. 4 * Sub(tcp.local_seq, tcp.acked) <= Modulus  BY <2>2 DEF QuarterInFlight
  <2>6. Sub(tcp'.local_seq, tcp'.acked) <= tcp'.send_window
    BY <1>2, <2>4, <2>5, WindowStep
  <2>7. tcp'.send_window \in Nat /\ 4 * tcp'.send_window <= Modulus
    <3>1. tcp'.send_window \in SendWindows /\ tcp'.send_window \in Nat
      BY <1>0, SessionFields
    <3>2. CASE tcp'.send_window = 0  BY <1>0, <3>2, SMT
    <3>3. CASE tcp'.send_window \in Windows  BY <3>1, <3>3, Zenon DEF QuarterWindows
    <3> QED  BY <3>1, <3>2, <3>3, Zenon DEF SendWindows
  <2> DEFINE inflight == Sub(tcp'.local_seq, tcp'.acked)
  <2>8. inflight \in Int
    <3>1. inflight \in SeqNums  BY <1>0, AddSubType
    <3> QED  BY <1>0, <3>1
  <2>9. inflight <= tcp'.send_window  BY <2>6
  <2> HIDE DEF inflight
  <2>10. 4 * inflight <= Modulus  BY <1>0, <2>7, <2>8, <2>9, SMT
  <2> QED  BY <2>10 DEF inflight
<1>6. ~Resumes /\ ~Replies /\ ~Answers /\ ~Opens /\ ~Ends /\ tcp' # NoSession
  BY <1>2, NoSessionType, SMT DEF Resumes, Replies, Answers, Opens, Ends
<1> QED  BY <1>1, <1>3, <1>4, <1>5, <1>6 DEF CountStep

(***************************************************************************)
(* Data relayed to the app fits in the window the app last advertised,     *)
(* counted from its last acknowledgement, over the first quarter of the    *)
(* numbers of every session.  Where compare_u32 errs, get_send_window      *)
(* takes acked itself for the bytes in flight, which is more up to there:  *)
(* the relay stalls, but does not overrun the window.                      *)
(***************************************************************************)
THEOREM WindowOfShortStream ==
  ASSUME HalfStreams
  PROVE  Spec => [][ ShortSoFar /\ tcp'.hist.down > tcp.hist.down /\ tcp'.state # "CLOSING"
                       => Sub(tcp'.local_seq, tcp'.acked) <= tcp'.send_window ]_vars
<1>1. /\ TypeOK /\ TypeOK' /\ FinInv /\ AccountInv /\ OnceInv /\ AckedIsSent /\ [Next]_vars
      => [ ShortSoFar /\ tcp'.hist.down > tcp.hist.down /\ tcp'.state # "CLOSING"
             => Sub(tcp'.local_seq, tcp'.acked) <= tcp'.send_window ]_vars
  <2> SUFFICES ASSUME TypeOK, TypeOK', FinInv, AccountInv, OnceInv, AckedIsSent, [Next]_vars,
                      ShortSoFar, tcp'.hist.down > tcp.hist.down, tcp'.state # "CLOSING"
               PROVE  Sub(tcp'.local_seq, tcp'.acked) <= tcp'.send_window
    OBVIOUS
  <2>1. QuarterInFlight /\ Relaying  BY ShortInFlight, GetsRelay
  <2> QED  BY <2>1, WindowStep DEF QuarterInFlight
<1> QED
  BY <1>1, AckedIsSentCorrect, FinInvariant, OnceInvariant, PTL DEF Spec

(***************************************************************************)
(* It fits in every session, up to half of the numbers, if the windows are *)
(* those TCP can advertise; and whatever is advertised, if no stream is    *)
(* longer than a quarter.                                                  *)
(***************************************************************************)
THEOREM WindowRespectedCorrect ==
  ASSUME (HalfStreams /\ QuarterWindows) \/ ShortStreams
  PROVE  Spec => WindowRespected
<1>1. ASSUME HalfStreams, QuarterWindows  PROVE Spec => WindowRespected
  <2>1. Init => QuarterInFlight
    BY NoSessionType, SMT DEF Init, QuarterInFlight, Relaying
  <2>2. /\ TypeOK /\ TypeOK' /\ FinInv /\ FinInv' /\ AccountInv /\ OnceInv /\ AckedIsSent
        /\ QuarterInFlight /\ [Next]_vars
        => QuarterInFlight'
    BY <1>1, InFlightStep
  <2>3. /\ TypeOK /\ TypeOK' /\ FinInv /\ AccountInv /\ OnceInv /\ AckedIsSent
        /\ QuarterInFlight /\ [Next]_vars
        => [ tcp'.hist.down > tcp.hist.down /\ tcp'.state # "CLOSING"
               => Sub(tcp'.local_seq, tcp'.acked) <= tcp'.send_window ]_vars
    <3> SUFFICES ASSUME TypeOK, TypeOK', FinInv, AccountInv, OnceInv, AckedIsSent,
                        QuarterInFlight, [Next]_vars,
                        tcp'.hist.down > tcp.hist.down, tcp'.state # "CLOSING"
                 PROVE  Sub(tcp'.local_seq, tcp'.acked) <= tcp'.send_window
      OBVIOUS
    <3>1. Relaying  BY GetsRelay
    <3> QED  BY <1>1, <3>1, WindowStep DEF QuarterInFlight
  <2> QED
    BY <1>1, <2>1, <2>2, <2>3, AckedIsSentCorrect, FinInvariant, OnceInvariant, PTL
    DEF Spec, WindowRespected
<1>2. ASSUME ShortStreams  PROVE Spec => WindowRespected
  <2>1. TypeOK /\ OnceInv => ShortSoFar
    <3> SUFFICES ASSUME TypeOK, OnceInv  PROVE ShortSoFar
      OBVIOUS
    <3>1. tcp.hist.down \in Nat /\ tcp.hist.down <= MaxDown
      BY SessionFields DEF TypeOK, OnceInv
    <3> QED
      BY <1>2, <3>1, ConstantsAssumption, ModulusAssumption, SMT DEF ShortStreams, ShortSoFar
  <2>2. HalfStreams  BY <1>2, ShortIsHalf
  <2> QED
    BY <2>1, <2>2, WindowOfShortStream, FinInvariant, OnceInvariant, PTL DEF WindowRespected
<1> QED  BY <1>1, <1>2

-----------------------------------------------------------------------------
\* The order of the queue.

\* The app's stream in this session does not straddle the int boundary.
StraightStream == Straight(tcp.remote_start, MaxUp + 1)

\* Nothing is partly sent before the SYN-ACK or the answer to the CONNECT, so
\* what moves remote_seq over the app's SYN meets no partly sent segment.
Waiting == tcp.state = "LISTEN" \/ Connecting(tcp)

Ordered ==
  /\ InOrder(tcp, MaxUp + 1)
  /\ Waiting => Unsent(tcp)

\* Each session answers for its own stream.
QueueInv == StraightStream => Ordered

\* What a step must make of the session for that.
Queued(t) ==
  /\ InOrder(t, MaxUp + 1) /\ t.remote_start = tcp.remote_start
  /\ Waiting => Unsent(t)

LEMMA QueuedOn ==
  ASSUME NEW u \in Session, Queued(u), NEW t, QueueKept(t, u)
  PROVE  Queued(t)
<1>1. InOrder(t, MaxUp + 1) /\ (Unsent(u) => Unsent(t))
  BY KeptInOrder, Zenon DEF Queued
<1> QED  BY <1>1, Zenon DEF Queued, QueueKept

LEMMA QueuedNow ==
  ASSUME Ordered
  PROVE  Queued(tcp)
BY Zenon DEF Ordered, Queued

\* The data of the app's packets lies in its stream.
LEMMA PacketsPlace ==
  ASSUME TypeOK, NEW pkt \in Packets
  PROVE  Sub(pkt.seq, tcp.remote_start) + pkt.len <= MaxUp + 1
<1>1. CASE pkt \in [flags : {{"SYN"}, {"RST"}}, seq : {tcp.remote_start}, ack_seq : {0},
                    len : {0}, window : Windows]
  <2>1. pkt.seq = tcp.remote_start /\ pkt.len = 0  BY <1>1, SMT
  <2>2. tcp.remote_start \in SeqNums /\ tcp.remote_start \in Int
    BY SessionFields, ModulusAssumption, SMT DEF TypeOK, SeqNums
  <2>3. Sub(tcp.remote_start, tcp.remote_start) = 0
    <3>1. Sub(tcp.remote_start, tcp.remote_start) = tcp.remote_start - tcp.remote_start
      BY <2>2, SubIs, SMT
    <3> QED  BY <2>2, <3>1, SMT
  <2> QED  BY <2>1, <2>3, ConstantsAssumption, SMT
<1> QED  BY <1>1, Zenon DEF Packets

\* A packet is queued in its place.
LEMMA PacketQueue ==
  ASSUME TypeOK, FinInv, Ordered, StraightStream, HandlePacket
  PROVE  Queued(tcp')
<1>1. PICK pkt \in Packets, i \in 1 .. Len(tcp.forward) + 1 : HandlesPacket(pkt, i)
  BY Zenon DEF HandlePacket
<1>2. /\ tcp \in Session /\ pkt \in Packet /\ tcp.state # "NONE"
      /\ IsPlace(tcp.forward, pkt.seq, i)
      /\ Straight(tcp.remote_start, MaxUp + 1) /\ MaxUp + 1 \in Nat
      /\ Sub(pkt.seq, tcp.remote_start) + pkt.len <= MaxUp + 1
      /\ pkt.len \in Nat /\ tcp.open \in BOOLEAN
  <2>1. tcp \in Session /\ pkt \in Packet /\ tcp.state # "NONE"
    BY PacketsType, Zenon DEF TypeOK, HandlePacket
  <2>2. MaxUp + 1 \in Nat  BY ConstantsAssumption, SMT
  <2>3. pkt.len \in Nat  BY <2>1, Zenon DEF Packet
  <2> QED
    BY <1>1, <2>1, <2>2, <2>3, PacketsPlace, SessionFields, Zenon
    DEF HandlesPacket, StraightStream
<1>3. Queued(tcp)  BY QueuedNow
<1>4. tcp.state = "LISTEN" => Unsent(tcp)  BY Zenon DEF Ordered, Waiting
<1>q. ASSUME NEW c \in Session, Queued(c), c.forward = tcp.forward
      PROVE  Queued(queue_tcp(c, pkt, i))
  <2> DEFINE t == queue_tcp(c, pkt, i)
  <2>1. /\ InOrder(c, MaxUp + 1) /\ c.remote_start = tcp.remote_start
        /\ Waiting => Unsent(c)
    BY <1>q DEF Queued
  <2>2. /\ i \in 1 .. Len(c.forward) + 1 /\ IsPlace(c.forward, pkt.seq, i)
        /\ Straight(c.remote_start, MaxUp + 1)
        /\ Sub(pkt.seq, c.remote_start) + pkt.len <= MaxUp + 1
    BY <1>2, <1>q, <2>1
  <2>3. InOrder(t, MaxUp + 1) /\ (Unsent(c) => Unsent(t))
    BY <1>2, <2>1, <2>2, EnqueueInOrder
  <2>4. t.remote_start = c.remote_start
    <3>1. SameSeqs(t, c)  BY SeqsKept
    <3> QED  BY <3>1, Zenon DEF SameSeqs
  <2> QED  BY <2>1, <2>3, <2>4 DEF Queued
<1> DEFINE h == Heard(tcp, pkt)
           s == Taken(tcp, pkt, i)
<1>5. h \in Session /\ Same(h, tcp) /\ h.state = tcp.state /\ Queued(h)
  <2>1. h \in Session /\ Same(h, tcp) /\ h.state = tcp.state
    BY <1>2, HeardType, HeardEffect
  <2>2. QueueKept(h, tcp)  BY <1>2, QueueUntouched
  <2> QED  BY <1>2, <1>3, <2>1, <2>2, QueuedOn
<1>6. /\ s \in Session /\ s.state = tcp.state /\ Queued(s)
      /\ pkt.len = 0 => s.forward = tcp.forward
  <2>1. s \in Session /\ s.state = tcp.state /\ (pkt.len = 0 => s.forward = tcp.forward)
    BY <1>2, QueueType, TakenEffect
  <2>2. Queued(queue_tcp(h, pkt, i))
    <3>1. h.forward = tcp.forward  BY <1>5, Zenon DEF Same
    <3> HIDE DEF h
    <3> QED  BY <1>5, <1>q, <3>1
  <2>3. s = queue_tcp(h, pkt, i) \/ s = h  BY Zenon DEF Taken
  <2> HIDE DEF s, h
  <2> QED  BY <1>5, <2>1, <2>2, <2>3, Zenon
<1>7. s.state = "LISTEN" => Unsent(s)
  BY <1>6, Zenon DEF Queued, Waiting
<1>8. s.state = "FIN_WAIT1" /\ Accepts(pkt) => s.forward = <<>>
  BY <1>2, <1>6, SMT DEF Accepts, Unwanted, FinInv, Lives, SocketLifetime, FinCountedOnce
<1> HIDE DEF s
<1>9. CASE HandleConnecting(pkt, i)
  <2> DEFINE o == ksock = "connected"
             c == IF tcp.connect_sent = "SENT" THEN tcp ELSE send_connect(tcp, o)
  <2>1. tcp' = queue_tcp(c, pkt, i)  BY <1>9, Zenon DEF HandleConnecting
  <2>2. o \in BOOLEAN  BY Zenon
  <2> HIDE DEF o
  <2>3. c \in Session /\ QueueKept(c, tcp)
    BY <1>2, <1>4, <2>2, WriteType, ResetKeepsQueue, QueueUntouched, Zenon
  <2> HIDE DEF c
  <2>4. c.forward = tcp.forward /\ Queued(c)
    BY <1>2, <1>3, <2>3, QueuedOn, Zenon DEF QueueKept
  <2> QED  BY <1>q, <2>1, <2>3, <2>4
<1>10. CASE HandleClosed
  <2>1. tcp' = write_rst(tcp)  BY <1>10, Zenon DEF HandleClosed
  <2>2. QueueKept(write_rst(tcp), tcp)  BY <1>2, <1>4, ResetKeepsQueue
  <2> QED  BY <1>2, <1>3, <2>1, <2>2, QueuedOn
<1>11. CASE HandleUnwanted(pkt)
  <2>1. tcp' = write_rst(h)  BY <1>11, Zenon DEF HandleUnwanted
  <2> HIDE DEF h
  <2>2. h.state = "LISTEN" => Unsent(h)  BY <1>5, Zenon DEF Queued, Waiting
  <2>3. QueueKept(write_rst(h), h)  BY <1>5, <2>2, ResetKeepsQueue
  <2> QED  BY <1>5, <2>1, <2>3, QueuedOn
<1>12. CASE HandleRst(pkt, i)
  <2>1. tcp' = [s EXCEPT !.state = "CLOSING"]  BY <1>12, Zenon DEF HandleRst, s
  <2>2. QueueKept([s EXCEPT !.state = "CLOSING"], s)  BY <1>6, QueueUntouched, Zenon
  <2> QED  BY <1>6, <2>1, <2>2, QueuedOn
<1>13. CASE HandleRepeatedSyn(pkt, i)
  BY <1>6, <1>13, Zenon DEF HandleRepeatedSyn, s
<1>14. CASE HandleFin(pkt, i)
  <2>1. PICK ok \in BOOLEAN : tcp' = receive_fin(s, ok)
    BY <1>14, OutcomeTypes, Zenon DEF HandleFin, s
  <2>2. Accepts(pkt)  BY <1>14, Zenon DEF HandleFin
  <2>3. QueueKept(receive_fin(s, ok), s)  BY <1>6, <1>8, <2>2, FinKeepsQueue
  <2> QED  BY <1>6, <2>1, <2>3, QueuedOn
<1>15. CASE HandleAck(pkt, i)
  <2>1. tcp' = receive_ack(s, pkt)  BY <1>15, Zenon DEF HandleAck, s
  <2>2. QueueKept(receive_ack(s, pkt), s)  BY <1>6, QueueUntouched
  <2> QED  BY <1>6, <2>1, <2>2, QueuedOn
<1>16. CASE HandleOtherAck(pkt, i)
  <2>1. tcp' = receive_other_ack(s, pkt)  BY <1>16, Zenon DEF HandleOtherAck, s
  <2>2. QueueKept(receive_other_ack(s, pkt), s)  BY <1>6, <1>7, ResetKeepsQueue
  <2> QED  BY <1>6, <2>1, <2>2, QueuedOn
<1> QED
  BY <1>1, <1>9, <1>10, <1>11, <1>12, <1>13, <1>14, <1>15, <1>16 DEF HandlesPacket

\* An event of the socket: what is sent leaves the queue from its head.
LEMMA RelayQueue ==
  ASSUME TypeOK, FinInv, TunnelInv, Ordered, SocketRelay
  PROVE  Queued(tcp')
<1>1. PICK o \in Sends, room \in BOOLEAN, ok \in TunWrites :
      \E refused \in Refusals(o) :
        LET s == acknowledge(Forwarded(tcp, o, refused),
                             o.k > 0 \/ o.part > 0, room, ok)
            k == IF o.k > 0 THEN ErrorRead ELSE ksock
        IN  /\ o.part > 0 => ksock = "connected"
            /\ IF Reads(s) THEN Receive(s, k)
               ELSE tcp' = s /\ ksock' = k /\ UNCHANGED registered
  BY Zenon DEF SocketRelay
<1>2. PICK refused \in Refusals(o) :
        LET s == acknowledge(Forwarded(tcp, o, refused),
                             o.k > 0 \/ o.part > 0, room, ok)
            k == IF o.k > 0 THEN ErrorRead ELSE ksock
        IN  /\ o.part > 0 => ksock = "connected"
            /\ IF Reads(s) THEN Receive(s, k)
               ELSE tcp' = s /\ ksock' = k /\ UNCHANGED registered
  BY <1>1, Zenon
<1> DEFINE t == Forwarded(tcp, o, refused)
           fwd == o.k > 0 \/ o.part > 0
           r == acknowledge(t, fwd, room, ok)
           rest == IF o.k > 0 THEN ErrorRead ELSE ksock
<1>3. batch # {} /\ phase = "dispatch" /\ tcp.state # "LISTEN"
  BY Zenon DEF SocketRelay, SocketEvent
<1>4. tcp \in Session /\ tcp.open
  BY Zenon DEF TypeOK, SocketRelay
<1>5. /\ OutcomeOf(o, tcp) /\ refused \in BOOLEAN /\ ok \in BOOLEAN
      /\ t \in Session /\ fwd \in BOOLEAN /\ r \in Session
  BY SendsType, RelayedType, OutcomeTypes
<1>6. RelayedFin(r)  BY <1>4, RelayFin DEF FinInv
<1>7. o.part # 0 => o.part < Left(tcp.forward[o.k + 1])
  <2>1. CASE "OUT" \notin batch
    <3>1. o = [k |-> 0, part |-> 0]  BY <2>1, Zenon DEF Sends
    <3> QED  BY <3>1, SMT
  <2>2. CASE "OUT" \in batch
    <3>1. PICK size \in 0 .. MaxBuffer : o \in ForwardOutcomes(tcp, size)
      BY <2>2, Zenon DEF Sends
    <3> QED  BY <3>1, Zenon DEF ForwardOutcomes
  <2> QED  BY <2>1, <2>2
<1>8. o.part > 0 => ksock = "connected"  BY <1>2
<1>9. Waiting => o.part = 0
  <2> SUFFICES ASSUME Waiting  PROVE o.part = 0
    OBVIOUS
  <2>1. CASE "OUT" \notin batch
    <3>1. o = [k |-> 0, part |-> 0]  BY <2>1, Zenon DEF Sends
    <3> QED  BY <3>1, SMT
  <2>2. CASE "OUT" \in batch
    <3>1. Connecting(tcp)  BY <1>3, Zenon DEF Waiting
    <3>2. tcp.state \in {"SYN_RECV", "CLOSING"}
      BY <1>3, <1>4, <3>1, SMT DEF FinInv, Lives, SocketLifetime, EarlyConnect
    <3>3. ksock \in {"failed", "reset"}
      BY <1>3, <1>4, <2>2, <3>1, <3>2, Zenon DEF TunnelInv, WaitsRight
    <3>4. o.part \in Nat  BY <1>5, Zenon DEF OutcomeOf
    <3> QED  BY <1>8, <3>3, <3>4, SMT
  <2> QED  BY <2>1, <2>2
<1>10. Queued(t)
  <2>1. /\ InOrder(t, MaxUp + 1) /\ t.remote_start = tcp.remote_start
        /\ o.part = 0 /\ Unsent(tcp) => Unsent(t)
    BY <1>4, <1>5, <1>7, ForwardInOrder DEF Ordered
  <2> QED  BY <1>9, <2>1, Zenon DEF Ordered, Queued
<1>11. IF Reads(r) THEN Receive(r, rest)
       ELSE tcp' = r /\ ksock' = rest /\ UNCHANGED registered
  BY <1>2
<1> HIDE DEF t, fwd
<1>12. QueueKept(r, t)  BY <1>5, AcknowledgeKeepsQueue
<1>13. Queued(r)  BY <1>5, <1>10, <1>12, QueuedOn
<1> HIDE DEF r, rest
<1>14. CASE ~Reads(r)
  BY <1>11, <1>13, <1>14, Zenon
<1>15. CASE Reads(r)
  <2>1. Receive(r, rest)  BY <1>11, <1>15, Zenon
  <2>2. r.state \in {"ESTABLISHED", "CLOSE_WAIT"} /\ r.state # "LISTEN"
    BY <1>15, SMT DEF Reads
  <2>3. CASE tcp' = [write_rst(r) EXCEPT !.expired = FALSE]
    <3> DEFINE w == write_rst(r)
    <3>1. w \in Session /\ QueueKept(w, r)  BY <1>5, <2>2, WriteType, ResetKeepsQueue
    <3>2. tcp' = [w EXCEPT !.expired = FALSE]  BY <2>3
    <3> HIDE DEF w
    <3>3. Queued(w)  BY <1>5, <1>13, <3>1, QueuedOn
    <3>4. QueueKept([w EXCEPT !.expired = FALSE], w)  BY <3>1, QueueUntouched, Zenon
    <3> QED  BY <3>1, <3>2, <3>3, <3>4, QueuedOn
  <2>4. CASE tcp' = [r EXCEPT !.expired = FALSE]
    <3>1. QueueKept([r EXCEPT !.expired = FALSE], r)  BY <1>5, QueueUntouched, Zenon
    <3> QED  BY <1>5, <1>13, <2>4, <3>1, QueuedOn
  <2>5. CASE \E k \in TunWrites : tcp' = receive_eof(r, k)
    <3>1. PICK k \in BOOLEAN : tcp' = receive_eof(r, k)
      BY <2>5, OutcomeTypes, Zenon
    <3>2. QueueKept(receive_eof(r, k), r)  BY <1>5, <2>2, EofKeepsQueue
    <3> QED  BY <1>5, <1>13, <3>1, <3>2, QueuedOn
  <2>6. CASE \E n \in 1 .. MaxDown, k \in TunWrites :
               /\ n <= get_send_window(r)
               /\ r.hist.down + n <= DownBound(r)
               /\ tcp' = receive_data(r, n, k)
    <3>1. PICK n, k : tcp' = receive_data(r, n, k)  BY <2>6, Zenon
    <3>2. QueueKept(receive_data(r, n, k), r)  BY <1>5, QueueUntouched
    <3> QED  BY <1>5, <1>13, <3>1, <3>2, QueuedOn
  <2> QED  BY <2>1, <2>3, <2>4, <2>5, <2>6, Zenon DEF Receive
<1> QED  BY <1>14, <1>15

LEMMA SocketQueue ==
  ASSUME TypeOK, FinInv, TunnelInv, Ordered, CheckTcpSocket
  PROVE  Queued(tcp')
<1>1. tcp \in Session /\ Queued(tcp)  BY QueuedNow DEF TypeOK
<1>2. tcp.state = "LISTEN" => Unsent(tcp)  BY Zenon DEF Ordered, Waiting
<1> DEFINE w == write_rst(tcp)
<1>3. w \in Session /\ QueueKept(w, tcp) /\ QueueKept(connect_reply(tcp), tcp)
  BY <1>1, <1>2, WriteType, ResetKeepsQueue
<1>4. CASE SocketError
  <2>1. tcp' = [w EXCEPT !.expired = FALSE]  BY <1>4, Zenon DEF SocketError
  <2> HIDE DEF w
  <2>2. Queued(w)  BY <1>1, <1>3, QueuedOn
  <2>3. QueueKept([w EXCEPT !.expired = FALSE], w)  BY <1>3, QueueUntouched, Zenon
  <2> QED  BY <1>3, <2>1, <2>2, <2>3, QueuedOn
<1>5. CASE SocketConnected
  <2>1. PICK ok \in BOOLEAN : tcp' = connected(tcp, ok)
    BY <1>5, OutcomeTypes, Zenon DEF SocketConnected
  <2>2. Unsent(tcp)  BY <1>2, <1>5, Zenon DEF SocketConnected
  <2>3. QueueKept(connected(tcp, ok), tcp)  BY <1>1, <2>2, ConnectedKeepsQueue
  <2> QED  BY <1>1, <2>1, <2>3, QueuedOn
<1>6. CASE SocketReply
  <2>1. tcp' = w \/ tcp' = connect_reply(tcp)  BY <1>6, Zenon DEF SocketReply
  <2>2. QueueKept(tcp', tcp)  BY <1>3, <2>1
  <2> QED  BY <1>1, <2>2, QueuedOn
<1>7. CASE SocketRelay  BY <1>7, RelayQueue
<1>8. CASE SocketGone
  <2>1. tcp' \in Session /\ tcp' = [tcp EXCEPT !.recv_open = FALSE]
    BY <1>8, GoneEffect, Zenon DEF SocketGone
  <2>2. QueueKept(tcp', tcp)  BY <1>1, <2>1, Zenon DEF QueueKept, Session
  <2> QED  BY <1>1, <2>2, QueuedOn
<1> QED  BY <1>4, <1>5, <1>6, <1>7, <1>8 DEF CheckTcpSocket

\* The steps that neither queue nor send.
LEMMA IdleQueue ==
  ASSUME TypeOK, Ordered,
         \/ Monitor \/ Check \/ SkipCheck \/ EpollWait \/ EndDispatch \/ Environment
         \/ UNCHANGED vars
  PROVE  Queued(tcp') \/ tcp' = NoSession
<1>1. tcp \in Session /\ Queued(tcp)  BY QueuedNow DEF TypeOK
<1>2. CASE Monitor
  <2>1. CASE tcp' = tcp  BY <1>1, <2>1
  <2>2. CASE MonitorTcpSession
    <3>1. PICK ok \in TunWrites, written \in BOOLEAN, room \in BOOLEAN :
            LET events == Events(tcp, room)
                probe == /\ tcp.state \in {"ESTABLISHED", "CLOSE_WAIT"}
                         /\ get_send_window(tcp) = 0
                         /\ written
                t == IF probe THEN write_ack(tcp, ok) ELSE tcp
            IN  tcp' = [t EXCEPT !.mask = events,
                                 !.state = IF events # tcp.mask /\ ~registered
                                           THEN "CLOSING" ELSE @]
      BY <2>2, Zenon DEF MonitorTcpSession
    <3> DEFINE events == Events(tcp, room)
               probe == /\ tcp.state \in {"ESTABLISHED", "CLOSE_WAIT"}
                        /\ get_send_window(tcp) = 0
                        /\ written
               t == IF probe THEN write_ack(tcp, ok) ELSE tcp
               v == IF events # tcp.mask /\ ~registered THEN "CLOSING" ELSE t.state
    <3>2. ok \in BOOLEAN  BY OutcomeTypes, Zenon
    <3>3. t \in Session /\ QueueKept(t, tcp)
      BY <1>1, <3>2, WriteType, QueueUntouched, Zenon
    <3>4. tcp' = [t EXCEPT !.mask = events, !.state = v]  BY <3>1, Zenon
    <3> HIDE DEF t, events, v
    <3>5. Queued(t)  BY <1>1, <3>3, QueuedOn
    <3>6. QueueKept(tcp', t)  BY <3>3, <3>4, QueueUntouched, Zenon
    <3> QED  BY <3>3, <3>5, <3>6, QueuedOn
  <2> QED  BY <1>2, <2>1, <2>2, Zenon DEF Monitor
<1>3. CASE Check
  <2> DEFINE s == time_out(tcp)
             t == close_closing(s)
  <2>1. tcp.state = "LISTEN" => Unsent(tcp)  BY Zenon DEF Ordered, Waiting
  <2>2. s \in Session /\ QueueKept(s, tcp)  BY <1>1, <2>1, CheckType, ResetKeepsQueue
  <2>3. tcp' = NoSession \/ tcp' = t  BY <1>3, Zenon DEF Check, CheckTcpSession
  <2> HIDE DEF s
  <2>4. Queued(s)  BY <1>1, <2>2, QueuedOn
  <2>5. QueueKept(t, s)  BY <2>2, QueueUntouched
  <2>6. Queued(t)  BY <2>2, <2>4, <2>5, QueuedOn
  <2> QED  BY <2>3, <2>6
<1>4. CASE Expires
  <2>1. tcp' = [tcp EXCEPT !.expired = TRUE]  BY <1>4, Zenon DEF Expires
  <2>2. QueueKept(tcp', tcp)  BY <1>1, <2>1, QueueUntouched, Zenon
  <2> QED  BY <1>1, <2>2, QueuedOn
<1>5. CASE tcp' = tcp  BY <1>1, <1>5
<1> QED
  BY <1>2, <1>3, <1>4, <1>5, Zenon
  DEF SkipCheck, EpollWait, EndDispatch, Environment, Connects, Fails, ResolverExits, vars

\* A SYN queues its data at the start of the stream.
LEMMA NewSynQueue ==
  ASSUME TypeOK, NewSyn
  PROVE  Ordered'
<1>1. PICK seq \in RemoteISNs, len \in 0 .. MaxUp, window \in Windows,
           dest \in Ports, isn \in LocalISNs, room \in BOOLEAN :
        tcp' = NewSession([flags |-> {"SYN"}, seq |-> seq, ack_seq |-> 0,
                           len |-> len, window |-> window], dest, isn, room)
  BY Zenon DEF NewSyn
<1> DEFINE pkt == [flags |-> {"SYN"}, seq |-> seq, ack_seq |-> 0,
                   len |-> len, window |-> window]
           t == NewSession(pkt, dest, isn, room)
           seg == [seq |-> seq, len |-> len, sent |-> 0]
<1>2. t.remote_start = seq /\ t.forward = IF len = 0 THEN <<>> ELSE <<seg>>
  <2>1. pkt.seq = seq /\ pkt.len = len  BY SMT
  <2> HIDE DEF pkt
  <2> QED  BY <2>1, Zenon DEF NewSession
<1>3. tcp' = t  BY <1>1, Zenon
<1> HIDE DEF t
<1>4. Sub(seq, seq) = 0 /\ seq \in RemoteISNs /\ len \in Nat /\ len <= MaxUp
      /\ MaxUp \in Nat
  <2>1. seq \in SeqNums /\ seq \in Int
    BY ConstantsAssumption, ModulusAssumption, SMT DEF SeqNums
  <2>2. Sub(seq, seq) = seq - seq  BY <2>1, SubIs, SMT
  <2>3. Sub(seq, seq) = 0  BY <2>1, <2>2, SMT
  <2> QED  BY <2>3, ConstantsAssumption, SMT
<1>5. InOrder(t, MaxUp + 1) /\ Unsent(t)
  <2>1. CASE len = 0
    <3>1. t.forward = <<>>  BY <1>2, <2>1
    <3> QED  BY <3>1, EmptyInOrder
  <2>2. CASE len # 0
    <3>1. /\ t.forward = <<seg>> /\ Len(<<seg>>) = 1
          /\ \A j \in 1 .. 1 : j = 1 /\ <<seg>>[j] = seg
      BY <1>2, <2>2, SMT
    <3>2. seg.seq = seq /\ seg.len = len /\ seg.sent = 0  BY SMT
    <3>3. Sub(seq, seq) + len <= MaxUp + 1  BY <1>4, SMT
    <3>4. ~(0 > 0) /\ ~(1 < 1)  BY SMT
    <3> HIDE DEF seg
    <3> DEFINE q == <<seg>>
    <3>5. \A j \in 1 .. Len(q) : j = 1 /\ q[j] = seg  BY <3>1
    <3> HIDE DEF q
    <3>6. t.forward = q  BY <3>1 DEF q
    <3> QED  BY <1>2, <3>2, <3>3, <3>4, <3>5, <3>6, Zenon DEF InOrder, Unsent
  <2> QED  BY <2>1, <2>2
<1> QED  BY <1>2, <1>3, <1>4, <1>5, Zenon DEF Ordered, Waiting

\* Every step keeps the queue in order.
LEMMA QueueStep ==
  ASSUME TypeOK, FinInv, TunnelInv, QueueInv, [Next]_vars
  PROVE  QueueInv'
<1> SUFFICES ASSUME StraightStream'  PROVE Ordered'
  BY Zenon DEF QueueInv
<1>1. CASE NewSyn  BY <1>1, NewSynQueue
<1>2. CASE tcp' = NoSession
  <2>1. NoSession.forward = <<>>  BY NoSessionType, SMT DEF NoSession
  <2>2. InOrder(NoSession, MaxUp + 1) /\ Unsent(NoSession)  BY <2>1, EmptyInOrder
  <2> QED  BY <1>2, <2>2, Zenon DEF Ordered
<1>3. CASE tcp.state = "NONE" /\ ~NewSyn /\ tcp' # NoSession
  <2>1. CASE Next  BY <1>3, <2>1, EmptyStays
  <2>2. CASE UNCHANGED vars  BY <1>3, <2>2, Zenon DEF FinInv, Lives, vars
  <2> QED  BY <2>1, <2>2
<1>4. CASE tcp.state # "NONE" /\ ~NewSyn /\ tcp' # NoSession
  <2>1. Moves /\ CountStep  BY FinStep, CountSteps
  <2>2. tcp'.remote_start = tcp.remote_start
    BY <1>4, <2>1, Zenon
    DEF CountStep, Steady, Resumes, Replies, Acks, Answers, Ends, Gets, Opens,
        Counted, CountedOn
  <2>3. StraightStream /\ Ordered
    BY <2>2, Zenon DEF StraightStream, QueueInv
  <2>4. Queued(tcp')
    BY <1>4, <2>3, PacketQueue, SocketQueue, IdleQueue DEF Next, Loop, HandleTcp
  <2>5. Waiting' => Waiting
    <3>1. Connecting(tcp)' => Connecting(tcp)  BY <1>4, <2>1, Zenon DEF Moves, Connecting
    <3>2. tcp'.state = "LISTEN" => Waiting
      BY <1>4, <2>1, SMT
      DEF CountStep, Steady, Resumes, Replies, Acks, Answers, Ends, Gets, Opens,
          EstablishedStates, Waiting
    <3> QED  BY <3>1, <3>2, Zenon DEF Waiting
  <2> QED  BY <2>4, <2>5, Zenon DEF Ordered, Queued, Waiting
<1> QED  BY <1>1, <1>2, <1>3, <1>4

(***************************************************************************)
(* The app's segments wait in the order of its stream, however they        *)
(* arrive, and only the head of the queue is ever partly sent, up to       *)
(* remote_seq, in every session whose stream does not straddle the int     *)
(* boundary, whatever the streams of the others do.  Across the boundary   *)
(* compare_u32 takes a repeated segment for new data, and queue_tcp puts   *)
(* it before the rest of one that is partly sent.                          *)
(***************************************************************************)
THEOREM QueueOfStraightStream == Spec => [](StraightStream => QueueInOrder)
<1>1. Init => QueueInv
  <2>1. NoSession.forward = <<>>  BY NoSessionType, SMT DEF NoSession
  <2>2. InOrder(NoSession, MaxUp + 1) /\ Unsent(NoSession)  BY <2>1, EmptyInOrder
  <2> QED  BY <2>2, Zenon DEF Init, QueueInv, Ordered
<1>2. TypeOK /\ FinInv /\ TunnelInv /\ QueueInv /\ [Next]_vars => QueueInv'
  BY QueueStep
<1>3. QueueInv => (StraightStream => QueueInOrder)
  BY Zenon DEF QueueInv, Ordered, InOrder, QueueInOrder, RemoteOffset
<1> QED  BY <1>1, <1>2, <1>3, FinInvariant, TunnelInvariant, PTL DEF Spec
=============================================================================
