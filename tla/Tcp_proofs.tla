----------------------------- MODULE Tcp_proofs -----------------------------
(***************************************************************************)
(* Lemmas about the pieces of the TCP handlers in Tcp.tla: that each maps  *)
(* sessions to sessions, and what it does to the fields that the           *)
(* invariants of the event loop are about: the state and the FINs, the     *)
(* CONNECT and what flows before its answer, the sequence numbers and the  *)
(* counts of what they stand for.  TcpLoop_proofs uses them.               *)
(***************************************************************************)
EXTENDS Tcp, SeqNum_proofs, SequenceTheorems

-----------------------------------------------------------------------------
\* Types.

\* The types of a session's fields.
LEMMA SessionFields ==
  ASSUME NEW s \in Session
  PROVE  /\ s.state \in States /\ s.connect_sent \in {"NOT_SENT", "SENT", "ESTABLISHED"}
         /\ s.open \in BOOLEAN /\ s.mask \in SUBSET {"IN", "OUT"}
         /\ s.remote_seq \in SeqNums /\ s.local_seq \in SeqNums
         /\ s.remote_start \in SeqNums /\ s.local_start \in SeqNums
         /\ s.acked \in SeqNums /\ s.send_window \in SendWindows /\ s.send_window \in Nat
         /\ s.forward \in Seq(Segment) /\ s.expired \in BOOLEAN /\ s.recv_open \in BOOLEAN
         /\ s.hist \in History
         /\ s.hist.syn \in Nat /\ s.hist.fin \in Nat /\ s.hist.up \in Nat
         /\ s.hist.lost \in BOOLEAN /\ s.hist.synack \in Nat
         /\ s.hist.finack \in Nat /\ s.hist.down \in Nat
<1>1. SendWindows \subseteq Nat  BY WindowsAssumption, SMT DEF SendWindows
<1> QED  BY <1>1, Zenon DEF Session, History

\* Writing an ACK, an RST or the CONNECT keeps a session a session.
LEMMA WriteType ==
  ASSUME NEW s \in Session, NEW ok \in BOOLEAN
  PROVE  /\ write_ack(s, ok) \in Session
         /\ write_rst(s) \in Session
         /\ send_connect(s, ok) \in Session
<1> DEFINE syn == IF s.state = "LISTEN" THEN 1 ELSE 0
           next == IF s.state = "CLOSE" THEN s.state ELSE "CLOSING"
<1>1. /\ Add(s.remote_seq, syn) \in SeqNums /\ s.hist.syn + syn \in Nat
      /\ next \in States
  BY SessionFields, AddSubType, SMT DEF States
<1> HIDE DEF next, syn
<1>2. [s EXCEPT !.remote_seq = Add(s.remote_seq, syn),
                !.hist.syn = s.hist.syn + syn, !.state = next] \in Session
  BY <1>1, ZenonT(60) DEF Session, History
<1>3. write_rst(s) \in Session
  BY <1>2, Zenon DEF write_rst, syn, next
<1>4. write_ack(s, ok) \in Session
  BY Zenon DEF write_ack, Session, States
<1>5. send_connect(s, ok) \in Session
  BY <1>3, Zenon DEF send_connect, Session, States
<1> QED  BY <1>3, <1>4, <1>5

\* So does refreshing the timeout and the send window.
LEMMA HeardType ==
  ASSUME NEW s \in Session, NEW pkt \in Packet
  PROVE  Heard(s, pkt) \in Session
<1>1. pkt.window \in SendWindows  BY Zenon DEF Packet, SendWindows
<1> QED  BY <1>1, Zenon DEF Heard, Session

\* Moving remote_seq over a FIN, and then setting the state.
LEMMA CountFinType ==
  ASSUME NEW s \in Session, NEW v \in States
  PROVE  /\ CountFin(s) \in Session
         /\ [CountFin(s) EXCEPT !.state = v] \in Session
<1>1. Add(s.remote_seq, 1) \in SeqNums /\ s.hist.fin + 1 \in Nat
  BY SessionFields, AddSubType, SMT
<1>2. CountFin(s) \in Session
  BY <1>1, Zenon DEF CountFin, Session, History
<1> QED  BY <1>2, Zenon DEF Session

\* The FIN branch of handle_tcp.
LEMMA ReceiveFinType ==
  ASSUME NEW s \in Session, NEW ok \in BOOLEAN
  PROVE  receive_fin(s, ok) \in Session
<1>1. /\ (IF ok THEN "CLOSE_WAIT" ELSE "CLOSING") \in States
      /\ (IF ok THEN "CLOSE" ELSE "CLOSING") \in States
  BY SMT DEF States
<1>2. /\ [CountFin(s) EXCEPT !.state = IF ok THEN "CLOSE_WAIT" ELSE "CLOSING"] \in Session
      /\ [CountFin(s) EXCEPT !.state = IF ok THEN "CLOSE" ELSE "CLOSING"] \in Session
  BY <1>1, CountFinType, Zenon
<1>3. [s EXCEPT !.state = "CLOSE_WAIT"] \in Session
  BY Zenon DEF Session, States
<1> QED  BY <1>2, <1>3, Zenon DEF receive_fin

\* The two ACK branches of handle_tcp.
LEMMA ReceiveAckType ==
  ASSUME NEW s \in Session, NEW pkt \in Packet
  PROVE  /\ receive_ack(s, pkt) \in Session
         /\ receive_other_ack(s, pkt) \in Session
<1>1. pkt.ack_seq \in SeqNums  BY Zenon DEF Packet
<1> DEFINE next == IF s.state = "SYN_RECV" THEN "ESTABLISHED"
                   ELSE IF s.state = "LAST_ACK" THEN "CLOSING" ELSE s.state
<1>2. next \in States  BY SessionFields, SMT DEF States
<1> HIDE DEF next
<1>3. [s EXCEPT !.acked = pkt.ack_seq, !.state = next] \in Session
  BY <1>1, <1>2, Zenon DEF Session
<1>4. receive_ack(s, pkt) \in Session
  BY <1>3, Zenon DEF receive_ack, next
<1>5. [s EXCEPT !.acked = pkt.ack_seq] \in Session
  BY <1>1, Zenon DEF Session
<1>6. receive_other_ack(s, pkt) \in Session
  BY <1>5, WriteType, Zenon DEF receive_other_ack
<1> QED  BY <1>4, <1>6

\* The two LISTEN branches of check_tcp_socket.
LEMMA ConnectedType ==
  ASSUME NEW s \in Session, NEW ok \in BOOLEAN
  PROVE  /\ connected(s, ok) \in Session
         /\ connect_reply(s) \in Session
<1> DEFINE t == [s EXCEPT !.remote_seq = Add(@, 1), !.hist.syn = @ + 1]
<1>1. Add(s.remote_seq, 1) \in SeqNums /\ s.hist.syn + 1 \in Nat
  BY SessionFields, AddSubType, SMT
<1>2. t \in Session  BY <1>1, Zenon DEF Session, History
<1> HIDE DEF t
<1>3. Add(t.local_seq, 1) \in SeqNums /\ t.hist.synack + 1 \in Nat
  BY <1>2, SessionFields, AddSubType, SMT
<1>4. [t EXCEPT !.expired = FALSE, !.local_seq = Add(@, 1),
                !.hist.synack = @ + 1, !.state = "SYN_RECV"] \in Session
  BY <1>2, <1>3, ZenonT(60) DEF Session, History, States
<1>5. [t EXCEPT !.state = "CLOSING"] \in Session
  BY <1>2, Zenon DEF Session, States
<1>6. connected(s, ok) \in Session
  BY <1>4, <1>5, Zenon DEF connected, t
<1>7. [s EXCEPT !.connect_sent = "ESTABLISHED", !.state = "SYN_RECV"] \in Session
  BY Zenon DEF Session, States
<1>8. connect_reply(s) \in Session
  BY <1>7, WriteType, Zenon DEF connect_reply
<1> QED  BY <1>6, <1>8

\* The acknowledgement after the forwarding loop.
LEMMA AcknowledgeType ==
  ASSUME NEW s \in Session, NEW fwd \in BOOLEAN, NEW room \in BOOLEAN, NEW ok \in BOOLEAN
  PROVE  acknowledge(s, fwd, room, ok) \in Session
<1> DEFINE t == [s EXCEPT !.recv_open = room]
           u == IF fwd /\ s.forward = <<>> /\ s.state = "CLOSE_WAIT"
                THEN CountFin(t) ELSE t
           w == write_ack(u, ok)
<1>1. t \in Session  BY Zenon DEF Session
<1> HIDE DEF t
<1>2. u \in Session  BY <1>1, CountFinType, Zenon DEF States
<1> HIDE DEF u
<1>3. w \in Session  BY <1>2, WriteType, Zenon
<1> HIDE DEF w
<1>4. (w.expired /\ ~ok) \in BOOLEAN  BY Zenon
<1>5. [w EXCEPT !.expired = @ /\ ~ok] \in Session  BY <1>3, <1>4, Zenon DEF Session
<1> QED  BY <1>1, <1>5, Zenon DEF acknowledge, t, u, w

\* Data from the server.
LEMMA ReceiveType ==
  ASSUME NEW s \in Session, NEW n \in Nat, NEW ok \in BOOLEAN
  PROVE  receive_data(s, n, ok) \in Session
<1> DEFINE t == [s EXCEPT !.expired = FALSE, !.hist.down = @ + n]
<1>1. s.hist.down + n \in Nat  BY SessionFields, SMT
<1>2. t \in Session  BY <1>1, Zenon DEF Session, History
<1> HIDE DEF t
<1>3. Add(t.local_seq, n) \in SeqNums  BY <1>2, SessionFields, AddSubType, SMT
<1>4. [t EXCEPT !.local_seq = Add(@, n)] \in Session  BY <1>2, <1>3, Zenon DEF Session
<1>5. [t EXCEPT !.state = "CLOSING"] \in Session  BY <1>2, Zenon DEF Session, States
<1> QED  BY <1>4, <1>5, Zenon DEF receive_data, t

\* The timeout and the closing in check_tcp_session.
LEMMA CheckType ==
  ASSUME NEW s \in Session
  PROVE  /\ time_out(s) \in Session
         /\ close_closing(s) \in Session
<1>1. [s EXCEPT !.state = "CLOSING"] \in Session  BY Zenon DEF Session, States
<1>2. [s EXCEPT !.open = FALSE, !.expired = FALSE, !.state = "CLOSE"] \in Session
  BY Zenon DEF Session, States
<1> QED  BY <1>1, <1>2, WriteType, Zenon DEF time_out, close_closing

\* The server's end of file, in the states that read.
LEMMA ReceiveEofType ==
  ASSUME NEW s \in Session, NEW ok \in BOOLEAN,
         s.state \in {"ESTABLISHED", "CLOSE_WAIT"}
  PROVE  receive_eof(s, ok) \in Session
<1> DEFINE next == [ESTABLISHED |-> "FIN_WAIT1", CLOSE_WAIT |-> "LAST_ACK"]
           t == CASE s.forward # <<>> -> write_rst(s)
                  [] s.forward = <<>> /\ ok ->
                       [s EXCEPT !.local_seq = Add(@, 1), !.hist.finack = @ + 1,
                                 !.state = next[@]]
                  [] s.forward = <<>> /\ ~ok -> [s EXCEPT !.state = "CLOSING"]
<1>1. next[s.state] \in States
  BY SMT DEF States
<1> HIDE DEF next
<1>2. Add(s.local_seq, 1) \in SeqNums /\ s.hist.finack + 1 \in Nat
  BY SessionFields, AddSubType, SMT
<1>3. [s EXCEPT !.local_seq = Add(@, 1), !.hist.finack = @ + 1,
                !.state = next[@]] \in Session
  BY <1>1, <1>2, ZenonT(60) DEF Session, History
<1>4. [s EXCEPT !.state = "CLOSING"] \in Session  BY Zenon DEF Session, States
<1>5. t \in Session  BY <1>3, <1>4, WriteType, Zenon
<1> HIDE DEF t
<1>6. [t EXCEPT !.open = FALSE, !.expired = FALSE] \in Session
  BY <1>5, Zenon DEF Session
<1> QED  BY <1>6, Zenon DEF receive_eof, t, next

\* Inserting an element into a sequence: the type, the length, the elements.
LEMMA InsertAtType ==
  ASSUME NEW S, NEW q \in Seq(S), NEW i \in 1 .. Len(q) + 1, NEW e \in S
  PROVE  /\ InsertAt(q, i, e) \in Seq(S)
         /\ Len(InsertAt(q, i, e)) = Len(q) + 1
         /\ \A j \in 1 .. Len(q) + 1 :
              InsertAt(q, i, e)[j] = IF j < i THEN q[j] ELSE IF j = i THEN e ELSE q[j - 1]
<1> DEFINE a == SubSeq(q, 1, i - 1)
           b == SubSeq(q, i, Len(q))
<1>1. /\ a \in Seq(S) /\ Len(a) = i - 1
      /\ \A j \in 1 .. i - 1 : a[j] = q[j]
  BY SMT
<1>2. /\ b \in Seq(S) /\ Len(b) = Len(q) + 1 - i
      /\ \A j \in 1 .. Len(q) + 1 - i : b[j] = q[i + j - 1]
  BY SMT
<1>3. <<e>> \in Seq(S) /\ Len(<<e>>) = 1 /\ <<e>>[1] = e
  BY SMT
<1>4. InsertAt(q, i, e) = a \o <<e>> \o b
  BY Zenon DEF InsertAt
<1> HIDE DEF a, b
<1>5. /\ a \o <<e>> \in Seq(S) /\ Len(a \o <<e>>) = i
      /\ \A j \in 1 .. i : (a \o <<e>>)[j] = IF j < i THEN q[j] ELSE e
  BY <1>1, <1>3, SMT
<1> DEFINE c == a \o <<e>>
<1>6. /\ c \in Seq(S) /\ Len(c) = i
      /\ \A j \in 1 .. i : c[j] = IF j < i THEN q[j] ELSE e
  BY <1>5
<1> HIDE DEF c
<1>7. /\ c \o b \in Seq(S) /\ Len(c \o b) = Len(q) + 1
      /\ \A j \in 1 .. Len(q) + 1 :
           (c \o b)[j] = IF j <= i THEN c[j] ELSE b[j - i]
  BY <1>2, <1>6, ConcatProperties, SMT
<1>8. \A j \in 1 .. Len(q) + 1 :
        (c \o b)[j] = IF j < i THEN q[j] ELSE IF j = i THEN e ELSE q[j - 1]
  BY <1>2, <1>6, <1>7, SMT
<1> QED BY <1>4, <1>7, <1>8, Zenon DEF c

LEMMA InsertSegment ==
  ASSUME NEW q \in Seq(Segment), NEW e \in Segment, NEW i \in 1 .. Len(q) + 1
  PROVE  /\ Len(InsertAt(q, i, e)) = Len(q) + 1
         /\ \A j \in 1 .. Len(q) + 1 :
              InsertAt(q, i, e)[j] = IF j < i THEN q[j] ELSE IF j = i THEN e ELSE q[j - 1]
<1>1. q \in Seq(Segment) /\ e \in Segment /\ i \in 1 .. Len(q) + 1  OBVIOUS
<1> DEFINE S == Segment
<1>2. q \in Seq(S) /\ e \in S  BY <1>1
<1> HIDE DEF S
<1> QED  BY <1>1, <1>2, InsertAtType

\* Inserting or extending a segment keeps a queue of segments one.
LEMMA EnqueueType ==
  ASSUME NEW q \in Seq(Segment), NEW pkt \in Packet, NEW i \in 1 .. Len(q) + 1
  PROVE  Enqueue(q, pkt, i) \in Seq(Segment)
<1>1. pkt.seq \in SeqNums /\ pkt.len \in Nat  BY Zenon DEF Packet
<1>2. [seq |-> pkt.seq, len |-> pkt.len, sent |-> 0] \in Segment
  BY <1>1, SMT DEF Segment
<1>3. InsertAt(q, i, [seq |-> pkt.seq, len |-> pkt.len, sent |-> 0]) \in Seq(Segment)
  BY <1>2, InsertAtType, Zenon
<1>4. ASSUME i <= Len(q)
      PROVE  [q EXCEPT ![i].len = IF @ < pkt.len THEN pkt.len ELSE @] \in Seq(Segment)
  <2> DEFINE len == IF q[i].len < pkt.len THEN pkt.len ELSE q[i].len
  <2>1. q[i] \in Segment  BY <1>4, SMT
  <2>2. len \in Nat  BY <1>1, <2>1, SMT DEF Segment
  <2> HIDE DEF len
  <2>3. [q[i] EXCEPT !.len = len] \in Segment  BY <2>1, <2>2, Zenon DEF Segment
  <2>4. [q EXCEPT ![i] = [q[i] EXCEPT !.len = len]] \in Seq(Segment)
    BY <1>4, <2>3, SMT
  <2> QED  BY <2>4, Zenon DEF len
<1> QED  BY <1>3, <1>4, SMT DEF Enqueue

\* Queueing the data of a packet.
LEMMA QueueType ==
  ASSUME NEW s \in Session, NEW pkt \in Packet, NEW i \in 1 .. Len(s.forward) + 1
  PROVE  /\ queue_tcp(s, pkt, i) \in Session
         /\ Taken(s, pkt, i) \in Session
<1>1. ASSUME NEW t \in Session, t.forward = s.forward
      PROVE  queue_tcp(t, pkt, i) \in Session
  <2>1. Enqueue(t.forward, pkt, i) \in Seq(Segment)
    BY <1>1, SessionFields, EnqueueType
  <2>2. [t EXCEPT !.forward = Enqueue(@, pkt, i)] \in Session
    BY <1>1, <2>1, Zenon DEF Session
  <2> QED  BY <1>1, <2>2, Zenon DEF queue_tcp
<1>2. Heard(s, pkt) \in Session /\ Heard(s, pkt).forward = s.forward
  BY HeardType, Zenon DEF Heard, Session
<1> QED  BY <1>1, <1>2, Zenon DEF Taken

\* What a forwarding outcome o of s is, as far as the types go.
OutcomeOf(o, s) ==
  /\ o.k \in 0 .. Len(s.forward) /\ o.part \in Nat
  /\ o.part # 0 => o.k + 1 <= Len(s.forward)

\* Every outcome the forwarding loop can have is one.
LEMMA OutcomesType ==
  ASSUME NEW s \in Session, NEW size \in Nat, NEW o \in ForwardOutcomes(s, size)
  PROVE  OutcomeOf(o, s)
<1>1. Len(s.forward) \in Nat  BY SessionFields, SMT
<1>2. /\ o.k \in 0 .. Len(s.forward) /\ o.part \in Nat
      /\ o.part # 0 => CanForward(s, o.k + 1, size)
  BY <1>1, SMT DEF ForwardOutcomes
<1> QED  BY <1>2, Zenon DEF CanForward, OutcomeOf

\* Taking what was sent off the queue.
LEMMA ForwardedType ==
  ASSUME NEW s \in Session, NEW o, OutcomeOf(o, s), NEW refused \in BOOLEAN
  PROVE  Forwarded(s, o, refused) \in Session
<1> DEFINE q == s.forward
           part == IF o.part = 0 THEN 0 ELSE q[o.k + 1].sent + o.part
           upto == IF o.part > 0 THEN Add(q[o.k + 1].seq, part)
                   ELSE IF o.k > 0 THEN EndOf(q[o.k]) ELSE s.remote_seq
           rest == SubSeq(q, o.k + 1, Len(q))
           next == IF o.part = 0 THEN rest ELSE [rest EXCEPT ![1].sent = part]
<1>1. q \in Seq(Segment)  BY SessionFields
<1>2. /\ o.k \in 0 .. Len(q) /\ o.part \in Nat
      /\ o.part # 0 => o.k + 1 <= Len(q)
  BY Zenon DEF OutcomeOf
<1>3. \A i \in 1 .. Len(q) : /\ q[i] \in Segment /\ q[i].seq \in SeqNums
                             /\ q[i].len \in Nat /\ q[i].sent \in Nat
  <2> HIDE DEF q
  <2>1. \A i \in 1 .. Len(q) : q[i] \in Segment  BY <1>1, SMT
  <2> QED  BY <2>1, SMT DEF Segment
<1>4. part \in Nat
  <2>1. CASE o.part = 0
    BY <2>1
  <2>2. CASE o.part # 0
    <3>1. Len(q) \in Nat  BY <1>1, SMT
    <3>2. o.k + 1 \in 1 .. Len(q)  BY <1>2, <2>2, <3>1, SMT
    <3>3. q[o.k + 1].sent \in Nat  BY <1>3, <3>2, Zenon
    <3>4. part = q[o.k + 1].sent + o.part  BY <2>2, Zenon
    <3> HIDE DEF part, q
    <3> QED  BY <1>2, <3>3, <3>4, SMT
  <2> QED  BY <2>1, <2>2
<1>5. upto \in SeqNums
  <2>1. CASE o.part > 0
    BY <1>2, <1>3, <1>4, <2>1, AddSubType, SMT
  <2>2. CASE ~(o.part > 0) /\ o.k > 0
    BY <1>2, <1>3, <2>2, AddSubType, SMT DEF EndOf
  <2>3. CASE ~(o.part > 0) /\ ~(o.k > 0)
    BY <2>3, SessionFields, SMT
  <2> QED  BY <2>1, <2>2, <2>3
<1>6. next \in Seq(Segment)
  <2>1. rest \in Seq(Segment)  BY <1>1, <1>2, SMT
  <2>2. ASSUME o.part # 0  PROVE [rest EXCEPT ![1].sent = part] \in Seq(Segment)
    <3>1. Len(rest) >= 1  BY <1>1, <1>2, <2>2, SMT
    <3> HIDE DEF rest, part
    <3>2. rest[1] \in Segment  BY <2>1, <3>1, SMT
    <3>3. [rest[1] EXCEPT !.sent = part] \in Segment  BY <1>4, <3>2, Zenon DEF Segment
    <3>4. [rest EXCEPT ![1] = [rest[1] EXCEPT !.sent = part]] \in Seq(Segment)
      BY <2>1, <3>1, <3>3, SMT
    <3> QED  BY <3>4, Zenon
  <2> QED  BY <2>1, <2>2, Zenon
<1>7. s.hist.up + Sub(upto, s.remote_seq) \in Nat
  <2> HIDE DEF upto
  <2>1. s.remote_seq \in Int  BY SessionFields, ModulusAssumption, SMT DEF SeqNums
  <2>2. Sub(upto, s.remote_seq) \in Nat
    BY <1>5, <2>1, AddSubType, ModulusAssumption, SMT DEF SeqNums
  <2> QED  BY <2>2, SessionFields, SMT
<1> HIDE DEF next, upto
<1>8. (s.hist.lost \/ refused) \in BOOLEAN  BY Zenon
<1>9. [s EXCEPT !.forward = next, !.remote_seq = upto,
                !.hist.up = @ + Sub(upto, s.remote_seq),
                !.hist.lost = @ \/ refused] \in Session
  BY <1>5, <1>6, <1>7, <1>8, ZenonT(60) DEF Session, History
<1> QED  BY <1>9, Zenon DEF Forwarded, next, upto

-----------------------------------------------------------------------------
\* Effects.

\* What most pieces leave alone.
Same(t, s) ==
  /\ t.open = s.open /\ t.forward = s.forward
  /\ t.dest = s.dest /\ t.connect_sent = s.connect_sent
  /\ t.hist.fin = s.hist.fin /\ t.hist.finack = s.hist.finack

\* Writing an ACK or an RST changes the state only, and the RST never leaves
\* CLOSE.
LEMMA WriteEffect ==
  ASSUME NEW s \in Session, NEW ok \in BOOLEAN
  PROVE  /\ Same(write_ack(s, ok), s) /\ Same(write_rst(s), s)
         /\ write_ack(s, ok).state = IF ok THEN s.state ELSE "CLOSING"
         /\ write_rst(s).state = IF s.state = "CLOSE" THEN "CLOSE" ELSE "CLOSING"
<1>1. Same([s EXCEPT !.state = "CLOSING"], s) /\ [s EXCEPT !.state = "CLOSING"].state = "CLOSING"
  BY Zenon DEF Same, Session, History
<1>2. Same(s, s)  BY Zenon DEF Same
<1>3. Same(write_ack(s, ok), s) /\ write_ack(s, ok).state = IF ok THEN s.state ELSE "CLOSING"
  BY <1>1, <1>2, Zenon DEF write_ack
<1>4. /\ Same(write_rst(s), s)
      /\ write_rst(s).state = IF s.state = "CLOSE" THEN "CLOSE" ELSE "CLOSING"
  <2> DEFINE syn == IF s.state = "LISTEN" THEN 1 ELSE 0
             a == Add(s.remote_seq, syn)
             b == s.hist.syn + syn
             v == IF s.state = "CLOSE" THEN s.state ELSE "CLOSING"
             t == [s EXCEPT !.remote_seq = a, !.hist.syn = b, !.state = v]
  <2>1. write_rst(s) = t  BY Zenon DEF write_rst
  <2> HIDE DEF a, b, v
  <2>2. Same(t, s) /\ t.state = v  BY ZenonT(60) DEF Same, Session, History
  <2> HIDE DEF t
  <2> QED  BY <2>1, <2>2, Zenon DEF v
<1> QED  BY <1>3, <1>4

\* Refreshing the timeout and the window leaves the connection alone.
LEMMA HeardEffect ==
  ASSUME NEW s \in Session, NEW pkt
  PROVE  Same(Heard(s, pkt), s) /\ Heard(s, pkt).state = s.state
BY Zenon DEF Same, Heard, Session, History

\* Moving over a FIN counts it once and changes nothing else here.
LEMMA CountFinEffect ==
  ASSUME NEW s \in Session, NEW v
  PROVE  LET t == CountFin(s)
             u == [CountFin(s) EXCEPT !.state = v]
         IN  /\ t.state = s.state /\ t.open = s.open /\ t.forward = s.forward
             /\ t.dest = s.dest /\ t.connect_sent = s.connect_sent
             /\ t.hist.fin = s.hist.fin + 1 /\ t.hist.finack = s.hist.finack
             /\ Same(u, t) /\ u.state = v
<1>1. [s EXCEPT !.remote_seq = Add(@, 1), !.hist.fin = @ + 1] \in Session
  BY CountFinType, Zenon DEF CountFin, States
<1> QED  BY <1>1, ZenonT(60) DEF CountFin, Same, Session, History

\* The FIN branch counts the FIN unless data is queued, and moves the state on.
LEMMA ReceiveFinEffect ==
  ASSUME NEW s \in Session, NEW ok \in BOOLEAN
  PROVE  LET t == receive_fin(s, ok)
         IN  /\ t.open = s.open /\ t.forward = s.forward
             /\ t.dest = s.dest /\ t.connect_sent = s.connect_sent
             /\ t.hist.finack = s.hist.finack
             /\ s.state = "ESTABLISHED" /\ s.forward = <<>> =>
                  /\ t.hist.fin = s.hist.fin + 1
                  /\ t.state \in {"CLOSE_WAIT", "CLOSING"}
             /\ s.state = "ESTABLISHED" /\ s.forward # <<>> =>
                  t.hist.fin = s.hist.fin /\ t.state = "CLOSE_WAIT"
             /\ s.state = "FIN_WAIT1" =>
                  /\ t.hist.fin = s.hist.fin + 1
                  /\ t.state \in {"CLOSE", "CLOSING"}
             /\ s.state \notin {"ESTABLISHED", "FIN_WAIT1"} => t = s
<1>1. CASE s.state = "ESTABLISHED" /\ s.forward = <<>>
  <2>1. receive_fin(s, ok) =
          [CountFin(s) EXCEPT !.state = IF ok THEN "CLOSE_WAIT" ELSE "CLOSING"]
    BY <1>1, SMT DEF receive_fin
  <2> QED  BY <1>1, <2>1, CountFinEffect, SMT DEF Same
<1>2. CASE s.state = "ESTABLISHED" /\ s.forward # <<>>
  <2>1. receive_fin(s, ok) = [s EXCEPT !.state = "CLOSE_WAIT"]
    BY <1>2, SMT DEF receive_fin
  <2>2. Same([s EXCEPT !.state = "CLOSE_WAIT"], s)
        /\ [s EXCEPT !.state = "CLOSE_WAIT"].state = "CLOSE_WAIT"
    BY Zenon DEF Same, Session, History
  <2> QED  BY <1>2, <2>1, <2>2, SMT DEF Same
<1>3. CASE s.state = "FIN_WAIT1"
  <2>1. receive_fin(s, ok) =
          [CountFin(s) EXCEPT !.state = IF ok THEN "CLOSE" ELSE "CLOSING"]
    BY <1>3, SMT DEF receive_fin
  <2> QED  BY <1>3, <2>1, CountFinEffect, SMT DEF Same
<1>4. CASE s.state \notin {"ESTABLISHED", "FIN_WAIT1"}
  <2>1. receive_fin(s, ok) = s  BY <1>4, SMT DEF receive_fin
  <2> QED  BY <1>4, <2>1, SMT
<1> QED  BY <1>1, <1>2, <1>3, <1>4, Zenon

\* The ACK branches only move the state.
LEMMA ReceiveAckEffect ==
  ASSUME NEW s \in Session, NEW pkt
  PROVE  /\ Same(receive_ack(s, pkt), s)
         /\ receive_ack(s, pkt).state =
              IF s.state = "SYN_RECV" THEN "ESTABLISHED"
              ELSE IF s.state = "LAST_ACK" THEN "CLOSING" ELSE s.state
         /\ Same(receive_other_ack(s, pkt), s)
         /\ receive_other_ack(s, pkt).state \in
              {s.state, IF s.state = "CLOSE" THEN "CLOSE" ELSE "CLOSING"}
<1>1. ASSUME NEW a, NEW v
      PROVE  LET t == [s EXCEPT !.acked = a, !.state = v]
             IN  Same(t, s) /\ t.state = v
  BY Zenon DEF Same, Session, History
<1>2. ASSUME NEW a
      PROVE  LET t == [s EXCEPT !.acked = a]
             IN  Same(t, s) /\ t.state = s.state
  BY Zenon DEF Same, Session, History
<1>3. Same(s, s)  BY Zenon DEF Same
<1>4. Same(receive_ack(s, pkt), s) /\ receive_ack(s, pkt).state =
              IF s.state = "SYN_RECV" THEN "ESTABLISHED"
              ELSE IF s.state = "LAST_ACK" THEN "CLOSING" ELSE s.state
  <2> DEFINE v == IF s.state = "SYN_RECV" THEN "ESTABLISHED"
                  ELSE IF s.state = "LAST_ACK" THEN "CLOSING" ELSE s.state
             t == [s EXCEPT !.acked = pkt.ack_seq, !.state = v]
  <2>1. receive_ack(s, pkt) = t  BY Zenon DEF receive_ack
  <2> HIDE DEF v
  <2>2. Same(t, s) /\ t.state = v  BY <1>1, Zenon
  <2> HIDE DEF t
  <2> QED  BY <2>1, <2>2, Zenon DEF v
<1>5. Same(receive_other_ack(s, pkt), s) /\ receive_other_ack(s, pkt).state \in
              {s.state, IF s.state = "CLOSE" THEN "CLOSE" ELSE "CLOSING"}
  BY <1>2, <1>3, WriteEffect, Zenon DEF receive_other_ack
<1> QED  BY <1>4, <1>5

\* Answering the SYN.
LEMMA ConnectedEffect ==
  ASSUME NEW s \in Session, NEW ok \in BOOLEAN
  PROVE  /\ Same(connected(s, ok), s)
         /\ connected(s, ok).state \in {"SYN_RECV", "CLOSING"}
<1> DEFINE t == [s EXCEPT !.remote_seq = Add(@, 1), !.hist.syn = @ + 1]
<1>1. Add(s.remote_seq, 1) \in SeqNums /\ s.hist.syn + 1 \in Nat
  BY SessionFields, AddSubType, SMT
<1>2. t \in Session /\ Same(t, s)
  BY <1>1, ZenonT(60) DEF Same, Session, History
<1> HIDE DEF t
<1>3. ASSUME NEW a, NEW b
      PROVE  LET u == [t EXCEPT !.expired = FALSE, !.local_seq = a,
                                !.hist.synack = b, !.state = "SYN_RECV"]
             IN  Same(u, t) /\ u.state = "SYN_RECV"
  BY <1>2, ZenonT(60) DEF Same, Session, History
<1>4. LET u == [t EXCEPT !.state = "CLOSING"]
      IN  Same(u, t) /\ u.state = "CLOSING"
  BY <1>2, ZenonT(60) DEF Same, Session, History
<1>5. /\ Same(connected(s, ok), t)
      /\ connected(s, ok).state \in {"SYN_RECV", "CLOSING"}
  BY <1>3, <1>4, Zenon DEF connected, t
<1>6. Same(connected(s, ok), s)  BY <1>2, <1>5, Zenon DEF Same
<1> QED  BY <1>5, <1>6

\* The answer to the CONNECT.
LEMMA ConnectReplyEffect ==
  ASSUME NEW s \in Session
  PROVE  LET t == connect_reply(s)
         IN  /\ t.open = s.open /\ t.forward = s.forward /\ t.dest = s.dest
             /\ t.hist.fin = s.hist.fin /\ t.hist.finack = s.hist.finack
             /\ \/ t.connect_sent = "ESTABLISHED" /\ t.state = "SYN_RECV"
                \/ /\ t.connect_sent = s.connect_sent
                   /\ t.state = IF s.state = "CLOSE" THEN "CLOSE" ELSE "CLOSING"
<1>1. LET t == [s EXCEPT !.connect_sent = "ESTABLISHED", !.state = "SYN_RECV"]
      IN  /\ t.open = s.open /\ t.forward = s.forward /\ t.dest = s.dest
          /\ t.hist.fin = s.hist.fin /\ t.hist.finack = s.hist.finack
          /\ t.connect_sent = "ESTABLISHED" /\ t.state = "SYN_RECV"
  BY Zenon DEF Session, History
<1> QED  BY <1>1, WriteEffect, Zenon DEF connect_reply, Same

\* The CONNECT brings the session to LISTEN; if it cannot be sent, an RST.
LEMMA SendConnectEffect ==
  ASSUME NEW s \in Session, NEW sent \in BOOLEAN
  PROVE  LET t == send_connect(s, sent)
         IN  /\ t.open = s.open /\ t.forward = s.forward /\ t.dest = s.dest
             /\ t.hist.fin = s.hist.fin /\ t.hist.finack = s.hist.finack
             /\ \/ t.connect_sent = "SENT" /\ t.state = "LISTEN"
                \/ /\ t.connect_sent = s.connect_sent
                   /\ t.state = IF s.state = "CLOSE" THEN "CLOSE" ELSE "CLOSING"
<1>1. LET t == [s EXCEPT !.connect_sent = "SENT", !.state = "LISTEN"]
      IN  /\ t.open = s.open /\ t.forward = s.forward /\ t.dest = s.dest
          /\ t.hist.fin = s.hist.fin /\ t.hist.finack = s.hist.finack
          /\ t.connect_sent = "SENT" /\ t.state = "LISTEN"
  BY Zenon DEF Session, History
<1> QED  BY <1>1, WriteEffect, Zenon DEF send_connect, Same

\* The acknowledgement confirms a FIN when the last byte before it went out.
LEMMA AcknowledgeEffect ==
  ASSUME NEW s \in Session, NEW fwd \in BOOLEAN, NEW room \in BOOLEAN, NEW ok \in BOOLEAN
  PROVE  LET t == acknowledge(s, fwd, room, ok)
             counts == fwd /\ s.forward = <<>> /\ s.state = "CLOSE_WAIT"
         IN  /\ t.open = s.open /\ t.forward = s.forward
             /\ t.dest = s.dest /\ t.connect_sent = s.connect_sent
             /\ t.hist.fin = IF counts THEN s.hist.fin + 1 ELSE s.hist.fin
             /\ t.hist.finack = s.hist.finack
             /\ t.state \in {s.state, "CLOSING"}
<1> DEFINE t == [s EXCEPT !.recv_open = room]
           counts == fwd /\ s.forward = <<>> /\ s.state = "CLOSE_WAIT"
           u == IF counts THEN CountFin(t) ELSE t
           w == write_ack(u, ok)
           x == [w EXCEPT !.expired = @ /\ ~ok]
<1>1. t \in Session /\ Same(t, s) /\ t.state = s.state
  BY Zenon DEF Same, Session, History
<1> HIDE DEF t, counts
<1>2. CountFin(t) \in Session  BY <1>1, CountFinType, Zenon DEF States
<1>3. /\ u \in Session /\ u.state = s.state
      /\ u.open = s.open /\ u.forward = s.forward
      /\ u.dest = s.dest /\ u.connect_sent = s.connect_sent
      /\ u.hist.fin = IF counts THEN s.hist.fin + 1 ELSE s.hist.fin
      /\ u.hist.finack = s.hist.finack
  <2>1. CASE counts
    <3>1. u = CountFin(t)  BY <2>1, Zenon
    <3>2. LET v == CountFin(t)
          IN  /\ v.state = t.state /\ v.open = t.open /\ v.forward = t.forward
              /\ v.dest = t.dest /\ v.connect_sent = t.connect_sent
              /\ v.hist.fin = t.hist.fin + 1 /\ v.hist.finack = t.hist.finack
      BY <1>1, CountFinEffect, Zenon
    <3> QED  BY <1>1, <1>2, <2>1, <3>1, <3>2, Zenon DEF Same
  <2>2. CASE ~counts
    BY <1>1, <2>2, Zenon DEF Same
  <2> QED  BY <2>1, <2>2
<1> HIDE DEF u
<1>4. w \in Session /\ Same(w, u) /\ w.state \in {u.state, "CLOSING"}
  BY <1>3, WriteType, WriteEffect, Zenon
<1> HIDE DEF w
<1>5. Same(x, w) /\ x.state = w.state
  BY <1>4, Zenon DEF Same, Session, History
<1> HIDE DEF x
<1>6. acknowledge(s, fwd, room, ok) = IF fwd \/ (~s.recv_open /\ room) THEN x ELSE t
  BY Zenon DEF acknowledge, x, w, u, t, counts
<1>7. ~(fwd \/ (~s.recv_open /\ room)) => ~counts  BY Zenon DEF counts
<1>8. CASE fwd \/ (~s.recv_open /\ room)
  <2>1. acknowledge(s, fwd, room, ok) = x  BY <1>6, <1>8, Zenon
  <2>2. Same(x, u) /\ x.state \in {s.state, "CLOSING"}
    BY <1>3, <1>4, <1>5, Zenon DEF Same
  <2> QED  BY <1>3, <2>1, <2>2, Zenon DEF Same, counts
<1>9. CASE ~(fwd \/ (~s.recv_open /\ room))
  <2>1. acknowledge(s, fwd, room, ok) = t  BY <1>6, <1>9, Zenon
  <2> QED  BY <1>1, <1>7, <1>9, <2>1, Zenon DEF Same, counts
<1> QED  BY <1>8, <1>9

\* The server's end of file closes the socket, and is passed on once nothing
\* is left to forward.
LEMMA ReceiveEofEffect ==
  ASSUME NEW s \in Session, NEW ok \in BOOLEAN,
         s.state \in {"ESTABLISHED", "CLOSE_WAIT"}
  PROVE  LET t == receive_eof(s, ok)
         IN  /\ t.open = FALSE /\ t.forward = s.forward
             /\ t.dest = s.dest /\ t.connect_sent = s.connect_sent
             /\ t.hist.fin = s.hist.fin
             /\ \/ t.state = "CLOSING" /\ t.hist.finack = s.hist.finack
                \/ /\ t.forward = <<>>
                   /\ t.state = IF s.state = "ESTABLISHED" THEN "FIN_WAIT1" ELSE "LAST_ACK"
                   /\ t.hist.finack = s.hist.finack + 1
<1> DEFINE next == [ESTABLISHED |-> "FIN_WAIT1", CLOSE_WAIT |-> "LAST_ACK"]
           a == [s EXCEPT !.local_seq = Add(@, 1), !.hist.finack = @ + 1,
                          !.state = next[@]]
           b == [s EXCEPT !.state = "CLOSING"]
           t == CASE s.forward # <<>> -> write_rst(s)
                  [] s.forward = <<>> /\ ok -> a
                  [] s.forward = <<>> /\ ~ok -> b
<1>1. next[s.state] = IF s.state = "ESTABLISHED" THEN "FIN_WAIT1" ELSE "LAST_ACK"
  BY SMT
<1> HIDE DEF next
<1>2. next[s.state] \in States  BY <1>1, SMT DEF States
<1>3. Add(s.local_seq, 1) \in SeqNums /\ s.hist.finack + 1 \in Nat
  BY SessionFields, AddSubType, SMT
<1>4. /\ a \in Session /\ a.open = s.open /\ a.forward = s.forward
      /\ a.dest = s.dest /\ a.connect_sent = s.connect_sent
      /\ a.hist.fin = s.hist.fin /\ a.hist.finack = s.hist.finack + 1
      /\ a.state = next[s.state]
  BY <1>2, <1>3, ZenonT(60) DEF Session, History
<1>5. b \in Session /\ Same(b, s) /\ b.state = "CLOSING"
  BY Zenon DEF Same, Session, History, States
<1> HIDE DEF a, b
<1>6. /\ t \in Session /\ t.forward = s.forward
      /\ t.dest = s.dest /\ t.connect_sent = s.connect_sent
      /\ t.hist.fin = s.hist.fin
      /\ \/ t.state = "CLOSING" /\ t.hist.finack = s.hist.finack
         \/ /\ t.forward = <<>> /\ t.state = next[s.state]
            /\ t.hist.finack = s.hist.finack + 1
  <2>1. CASE s.forward # <<>>
    <3>1. t = write_rst(s)  BY <2>1, SMT
    <3> QED  BY <3>1, WriteType, WriteEffect, SMT DEF Same
  <2>2. CASE s.forward = <<>> /\ ok
    <3>1. t = a  BY <2>2, SMT
    <3> QED  BY <1>4, <2>2, <3>1, SMT
  <2>3. CASE s.forward = <<>> /\ ~ok
    <3>1. t = b  BY <2>3, SMT
    <3> QED  BY <1>5, <3>1, Zenon DEF Same
  <2> QED  BY <2>1, <2>2, <2>3
<1> HIDE DEF t
<1>7. LET u == [t EXCEPT !.open = FALSE, !.expired = FALSE]
      IN  /\ u.open = FALSE /\ u.forward = t.forward
          /\ u.dest = t.dest /\ u.connect_sent = t.connect_sent
          /\ u.hist = t.hist /\ u.state = t.state
  BY <1>6, Zenon DEF Session
<1>8. receive_eof(s, ok) = [t EXCEPT !.open = FALSE, !.expired = FALSE]
  BY Zenon DEF receive_eof, t, a, b, next
<1> QED  BY <1>1, <1>6, <1>7, <1>8, SMT

\* Data from the server, and a failed or empty read.
LEMMA ReceiveEffect ==
  ASSUME NEW s \in Session, NEW n \in Nat, NEW ok \in BOOLEAN
  PROVE  /\ Same(receive_data(s, n, ok), s)
         /\ receive_data(s, n, ok).state \in {s.state, "CLOSING"}
         /\ Same([s EXCEPT !.expired = FALSE], s)
         /\ [s EXCEPT !.expired = FALSE].state = s.state
<1> DEFINE t == [s EXCEPT !.expired = FALSE, !.hist.down = @ + n]
<1>1. s.hist.down + n \in Nat  BY SessionFields, SMT
<1>2. t \in Session /\ Same(t, s) /\ t.state = s.state
  BY <1>1, Zenon DEF Same, Session, History
<1> HIDE DEF t
<1>3. LET u == [t EXCEPT !.local_seq = Add(@, n)]
      IN  Same(u, t) /\ u.state = t.state
  BY <1>2, Zenon DEF Same, Session, History
<1>4. LET u == [t EXCEPT !.state = "CLOSING"]
      IN  Same(u, t) /\ u.state = "CLOSING"
  BY <1>2, Zenon DEF Same, Session, History
<1>5. /\ Same(receive_data(s, n, ok), t)
      /\ receive_data(s, n, ok).state \in {t.state, "CLOSING"}
  BY <1>3, <1>4, Zenon DEF receive_data, t
<1>6. Same([s EXCEPT !.expired = FALSE], s) /\ [s EXCEPT !.expired = FALSE].state = s.state
  BY Zenon DEF Same, Session, History
<1> QED  BY <1>2, <1>5, <1>6, Zenon DEF Same

\* The periodic check: a timeout closes nothing, closing closes the socket.
LEMMA CheckEffect ==
  ASSUME NEW s \in Session
  PROVE  /\ Same(time_out(s), s)
         /\ time_out(s).state \in {s.state, "CLOSING"}
         /\ s.state # "CLOSING" => close_closing(s) = s
         /\ s.state = "CLOSING" =>
              LET t == close_closing(s)
              IN  /\ t.open = FALSE /\ t.state = "CLOSE"
                  /\ t.forward = s.forward /\ t.dest = s.dest
                  /\ t.connect_sent = s.connect_sent /\ t.hist = s.hist
<1>1. Same(s, s)  BY Zenon DEF Same
<1>2. LET t == [s EXCEPT !.state = "CLOSING"] IN Same(t, s) /\ t.state = "CLOSING"
  BY Zenon DEF Same, Session, History
<1>3. Same(time_out(s), s) /\ time_out(s).state \in {s.state, "CLOSING"}
  BY <1>1, <1>2, WriteEffect, Zenon DEF time_out
<1>4. LET t == [s EXCEPT !.open = FALSE, !.expired = FALSE, !.state = "CLOSE"]
      IN  /\ t.open = FALSE /\ t.state = "CLOSE"
          /\ t.forward = s.forward /\ t.dest = s.dest
          /\ t.connect_sent = s.connect_sent /\ t.hist = s.hist
  BY Zenon DEF Session
<1> QED  BY <1>3, <1>4, Zenon DEF close_closing

\* Queueing changes the queue only.
LEMMA QueueEffect ==
  ASSUME NEW s \in Session, NEW pkt, NEW i
  PROVE  LET t == queue_tcp(s, pkt, i)
         IN  /\ t.state = s.state /\ t.open = s.open
             /\ t.dest = s.dest /\ t.connect_sent = s.connect_sent
             /\ t.hist = s.hist
<1>1. ASSUME NEW q
      PROVE  LET t == [s EXCEPT !.forward = q]
             IN  /\ t.state = s.state /\ t.open = s.open
                 /\ t.dest = s.dest /\ t.connect_sent = s.connect_sent
                 /\ t.hist = s.hist
  BY Zenon DEF Session
<1> QED  BY <1>1, Zenon DEF queue_tcp

\* A packet without data leaves the queue alone too.
LEMMA TakenEffect ==
  ASSUME NEW s \in Session, NEW pkt \in Packet, NEW i
  PROVE  LET t == Taken(s, pkt, i)
         IN  /\ t.state = s.state /\ t.open = s.open
             /\ t.dest = s.dest /\ t.connect_sent = s.connect_sent
             /\ t.hist.fin = s.hist.fin /\ t.hist.finack = s.hist.finack
             /\ pkt.len = 0 => t.forward = s.forward
<1>1. pkt.len > 0 => pkt.len # 0  BY SMT DEF Packet
<1>2. Heard(s, pkt) \in Session /\ Same(Heard(s, pkt), s) /\ Heard(s, pkt).state = s.state
  BY HeardType, HeardEffect
<1> DEFINE h == Heard(s, pkt)
<1> HIDE DEF h
<1>3. LET t == queue_tcp(h, pkt, i)
      IN  /\ t.state = s.state /\ t.open = s.open
          /\ t.dest = s.dest /\ t.connect_sent = s.connect_sent
          /\ t.hist.fin = s.hist.fin /\ t.hist.finack = s.hist.finack
  <2>1. h \in Session /\ Same(h, s) /\ h.state = s.state  BY <1>2, Zenon DEF h
  <2> QED  BY <2>1, QueueEffect, SMT DEF Same
<1> QED  BY <1>1, <1>2, <1>3, Zenon DEF Taken, Same, h

\* Forwarding changes the queue and counts the bytes; it empties the queue only
\* by sending something, and it sends nothing from an empty queue.
LEMMA ForwardedEffect ==
  ASSUME NEW s \in Session, NEW o, OutcomeOf(o, s), NEW refused \in BOOLEAN
  PROVE  LET t == Forwarded(s, o, refused)
         IN  /\ t.state = s.state /\ t.open = s.open
             /\ t.dest = s.dest /\ t.connect_sent = s.connect_sent
             /\ t.hist.fin = s.hist.fin /\ t.hist.finack = s.hist.finack
             /\ s.forward = <<>> => ~(o.k > 0 \/ o.part > 0) /\ t.forward = <<>>
             /\ s.forward # <<>> /\ ~(o.k > 0 \/ o.part > 0) => t.forward # <<>>
<1> DEFINE q == s.forward
           part == IF o.part = 0 THEN 0 ELSE q[o.k + 1].sent + o.part
           upto == IF o.part > 0 THEN Add(q[o.k + 1].seq, part)
                   ELSE IF o.k > 0 THEN EndOf(q[o.k]) ELSE s.remote_seq
           rest == SubSeq(q, o.k + 1, Len(q))
           next == IF o.part = 0 THEN rest ELSE [rest EXCEPT ![1].sent = part]
<1>1. q \in Seq(Segment)  BY SessionFields
<1>2. /\ o.k \in 0 .. Len(q) /\ o.part \in Nat
      /\ o.part # 0 => o.k + 1 <= Len(q)
  BY Zenon DEF OutcomeOf
<1>3. q = <<>> => ~(o.k > 0 \/ o.part > 0) /\ next = <<>>
  BY <1>1, <1>2, SMT
<1>4. ASSUME q # <<>>, ~(o.k > 0 \/ o.part > 0)  PROVE  next # <<>>
  <2>1. o.k = 0 /\ o.part = 0 /\ Len(q) > 0 /\ Len(q) \in Nat
    BY <1>1, <1>2, <1>4, SMT
  <2>2. Len(rest) = Len(q)  BY <1>1, <2>1, SMT
  <2> QED  BY <2>1, <2>2, SMT
<1> HIDE DEF upto, next
<1>6. Forwarded(s, o, refused) =
        [s EXCEPT !.forward = next, !.remote_seq = upto,
                  !.hist.up = @ + Sub(upto, s.remote_seq),
                  !.hist.lost = @ \/ refused]
  BY Zenon DEF Forwarded, next, upto
<1> DEFINE u == [s EXCEPT !.forward = next, !.remote_seq = upto,
                          !.hist.up = @ + Sub(upto, s.remote_seq),
                          !.hist.lost = @ \/ refused]
<1>7. /\ u.state = s.state /\ u.open = s.open
      /\ u.dest = s.dest /\ u.connect_sent = s.connect_sent
      /\ u.hist.fin = s.hist.fin /\ u.hist.finack = s.hist.finack
      /\ u.forward = next
  BY ZenonT(60) DEF Session, History
<1> HIDE DEF u
<1>8. Forwarded(s, o, refused) = u  BY <1>6, Zenon DEF u
<1> QED  BY <1>3, <1>4, <1>7, <1>8, Zenon

\* What monitor_tcp_session stores.
LEMMA MaskEffect ==
  ASSUME NEW s \in Session, NEW events \in SUBSET {"IN", "OUT"}, NEW v \in States
  PROVE  /\ [s EXCEPT !.mask = events, !.state = v] \in Session
         /\ Same([s EXCEPT !.mask = events, !.state = v], s)
         /\ [s EXCEPT !.mask = events, !.state = v].state = v
BY Zenon DEF Same, Session, History

\* Time that passes, or is heard of.
LEMMA ExpiredEffect ==
  ASSUME NEW s \in Session
  PROVE  /\ [s EXCEPT !.expired = TRUE] \in Session
         /\ Same([s EXCEPT !.expired = TRUE], s)
         /\ [s EXCEPT !.expired = TRUE].state = s.state
         /\ [s EXCEPT !.expired = FALSE] \in Session
         /\ Same([s EXCEPT !.expired = FALSE], s)
         /\ [s EXCEPT !.expired = FALSE].state = s.state
<1>1. [s EXCEPT !.expired = TRUE] \in Session /\ [s EXCEPT !.expired = FALSE] \in Session
  BY Zenon DEF Session
<1>2. /\ Same([s EXCEPT !.expired = TRUE], s)
      /\ [s EXCEPT !.expired = TRUE].state = s.state
  BY Zenon DEF Same, Session, History
<1>3. /\ Same([s EXCEPT !.expired = FALSE], s)
      /\ [s EXCEPT !.expired = FALSE].state = s.state
  BY Zenon DEF Same, Session, History
<1> QED  BY <1>1, <1>2, <1>3

\* The session a SYN opens.
LEMMA NewSessionType ==
  ASSUME NEW pkt \in Packet, NEW dest \in Dests, NEW isn \in SeqNums, NEW room \in BOOLEAN
  PROVE  LET t == NewSession(pkt, dest, isn, room)
         IN  /\ t \in Session /\ t.state = "LISTEN" /\ t.open = TRUE
             /\ t.hist.fin = 0 /\ t.hist.finack = 0
<1>1. /\ pkt.seq \in SeqNums /\ pkt.len \in Nat /\ pkt.window \in SendWindows
  BY Zenon DEF Packet, SendWindows
<1> DEFINE q == IF pkt.len = 0 THEN <<>>
                ELSE <<[seq |-> pkt.seq, len |-> pkt.len, sent |-> 0]>>
           c == IF dest = "http" THEN "ESTABLISHED" ELSE "NOT_SENT"
<1>2. [seq |-> pkt.seq, len |-> pkt.len, sent |-> 0] \in Segment
  BY <1>1, SMT DEF Segment
<1>3. q \in Seq(Segment)  BY <1>2, SMT
<1>4. c \in {"NOT_SENT", "SENT", "ESTABLISHED"}  BY Zenon
<1>5. 0 \in SeqNums /\ {"OUT"} \in SUBSET {"IN", "OUT"} /\ "LISTEN" \in States
  BY ModulusAssumption, SMT DEF SeqNums, States
<1>6. NoHistory \in History /\ NoHistory.fin = 0 /\ NoHistory.finack = 0
  BY SMT DEF NoHistory, History
<1> HIDE DEF q, c
<1>7. LET t == [state |-> "LISTEN", dest |-> dest, connect_sent |-> c,
                open |-> TRUE, mask |-> {"OUT"},
                remote_seq |-> pkt.seq, local_seq |-> isn,
                remote_start |-> pkt.seq, local_start |-> isn,
                acked |-> 0, send_window |-> pkt.window, recv_open |-> room,
                forward |-> q, expired |-> FALSE, hist |-> NoHistory]
      IN  t \in Session /\ t.state = "LISTEN" /\ t.open = TRUE /\ t.hist = NoHistory
  BY <1>1, <1>3, <1>4, <1>5, <1>6, SMT DEF Session
<1> QED  BY <1>6, <1>7, Zenon DEF NewSession, q, c

-----------------------------------------------------------------------------
\* What is relayed, and what the session waits for.

\* What the pieces that relay nothing leave alone.
SameFlow(t, s) ==
  /\ t.mask = s.mask
  /\ t.hist.up = s.hist.up /\ t.hist.down = s.hist.down /\ t.hist.lost = s.hist.lost

\* Writing, queueing and counting relay nothing.
LEMMA FlowKept ==
  ASSUME NEW s \in Session
  PROVE  /\ \A ok : SameFlow(write_ack(s, ok), s) /\ SameFlow(send_connect(s, ok), s)
         /\ SameFlow(write_rst(s), s)
         /\ \A pkt, i : SameFlow(queue_tcp(s, pkt, i), s)
         /\ SameFlow(CountFin(s), s)
         /\ SameFlow(connect_reply(s), s)
         /\ SameFlow(time_out(s), s) /\ SameFlow(close_closing(s), s)
         /\ \A e : SameFlow([s EXCEPT !.expired = e], s)
<1>0. SameFlow(s, s)  BY Zenon DEF SameFlow
<1>1. ASSUME NEW v  PROVE SameFlow([s EXCEPT !.state = v], s)
  BY Zenon DEF SameFlow, Session
<1>2. ASSUME NEW a, NEW b, NEW v
      PROVE  SameFlow([s EXCEPT !.remote_seq = a, !.hist.syn = b, !.state = v], s)
  BY ZenonT(60) DEF SameFlow, Session, History
<1>3. SameFlow(write_rst(s), s)  BY <1>2, Zenon DEF write_rst
<1>4. \A ok : SameFlow(write_ack(s, ok), s)  BY <1>0, <1>1, Zenon DEF write_ack
<1>5. \A ok : SameFlow(send_connect(s, ok), s)
  <2>1. SameFlow([s EXCEPT !.connect_sent = "SENT", !.state = "LISTEN"], s)
    BY Zenon DEF SameFlow, Session
  <2> QED  BY <1>3, <2>1, Zenon DEF send_connect
<1>6. \A pkt, i : SameFlow(queue_tcp(s, pkt, i), s)
  <2>1. \A q : SameFlow([s EXCEPT !.forward = q], s)  BY Zenon DEF SameFlow, Session
  <2> QED  BY <1>0, <2>1, Zenon DEF queue_tcp
<1>7. SameFlow(CountFin(s), s)
  <2>1. ASSUME NEW a, NEW b
        PROVE  SameFlow([s EXCEPT !.remote_seq = a, !.hist.fin = b], s)
    BY ZenonT(60) DEF SameFlow, Session, History
  <2> QED  BY <2>1, Zenon DEF CountFin
<1>8. SameFlow(connect_reply(s), s)
  <2>1. SameFlow([s EXCEPT !.connect_sent = "ESTABLISHED", !.state = "SYN_RECV"], s)
    BY Zenon DEF SameFlow, Session
  <2> QED  BY <1>3, <2>1, Zenon DEF connect_reply
<1>9. SameFlow(time_out(s), s)  BY <1>0, <1>1, <1>3, Zenon DEF time_out
<1>10. SameFlow(close_closing(s), s)
  <2>1. SameFlow([s EXCEPT !.open = FALSE, !.expired = FALSE, !.state = "CLOSE"], s)
    BY Zenon DEF SameFlow, Session
  <2> QED  BY <1>0, <2>1, Zenon DEF close_closing
<1>11. \A e : SameFlow([s EXCEPT !.expired = e], s)  BY Zenon DEF SameFlow, Session
<1> QED  BY <1>3, <1>4, <1>5, <1>6, <1>7, <1>8, <1>9, <1>10, <1>11, Zenon

\* Nor does answering the SYN.
LEMMA ConnectedFlow ==
  ASSUME NEW s \in Session, NEW ok \in BOOLEAN
  PROVE  SameFlow(connected(s, ok), s)
<1> DEFINE t == [s EXCEPT !.remote_seq = Add(@, 1), !.hist.syn = @ + 1]
<1>1. Add(s.remote_seq, 1) \in SeqNums /\ s.hist.syn + 1 \in Nat
  BY SessionFields, AddSubType, SMT
<1>2. t \in Session /\ SameFlow(t, s)
  BY <1>1, ZenonT(60) DEF SameFlow, Session, History
<1> HIDE DEF t
<1>3. ASSUME NEW a, NEW b
      PROVE  SameFlow([t EXCEPT !.expired = FALSE, !.local_seq = a,
                                !.hist.synack = b, !.state = "SYN_RECV"], t)
  BY <1>2, ZenonT(60) DEF SameFlow, Session, History
<1>4. SameFlow([t EXCEPT !.state = "CLOSING"], t)
  BY <1>2, Zenon DEF SameFlow, Session
<1>5. SameFlow(connected(s, ok), t)  BY <1>3, <1>4, Zenon DEF connected, t
<1> QED  BY <1>2, <1>5, Zenon DEF SameFlow

\* Nor does the acknowledgement after the forwarding loop.
LEMMA AcknowledgeFlow ==
  ASSUME NEW s \in Session, NEW fwd \in BOOLEAN, NEW room \in BOOLEAN, NEW ok \in BOOLEAN
  PROVE  SameFlow(acknowledge(s, fwd, room, ok), s)
<1> DEFINE t == [s EXCEPT !.recv_open = room]
           u == IF fwd /\ s.forward = <<>> /\ s.state = "CLOSE_WAIT"
                THEN CountFin(t) ELSE t
           w == write_ack(u, ok)
           x == [w EXCEPT !.expired = @ /\ ~ok]
<1>1. t \in Session /\ SameFlow(t, s)  BY Zenon DEF SameFlow, Session
<1> HIDE DEF t
<1>2. u \in Session /\ SameFlow(u, t)
  <2>1. CountFin(t) \in Session /\ SameFlow(CountFin(t), t)
    BY <1>1, CountFinType, FlowKept, Zenon DEF States
  <2>2. SameFlow(t, t)  BY Zenon DEF SameFlow
  <2> QED  BY <1>1, <2>1, <2>2, Zenon
<1> HIDE DEF u
<1>3. w \in Session /\ SameFlow(w, u)  BY <1>2, WriteType, FlowKept, Zenon
<1> HIDE DEF w
<1>4. SameFlow(x, w)  BY <1>3, FlowKept, Zenon
<1> HIDE DEF x
<1>5. acknowledge(s, fwd, room, ok) = IF fwd \/ (~s.recv_open /\ room) THEN x ELSE t
  BY Zenon DEF acknowledge, x, w, u, t
<1>6. SameFlow(x, s)  BY <1>1, <1>2, <1>3, <1>4, Zenon DEF SameFlow
<1> QED  BY <1>1, <1>5, <1>6, Zenon

\* Forwarding counts what it sends, and remembers when the socket refused some.
LEMMA ForwardedFlow ==
  ASSUME NEW s \in Session, NEW o, OutcomeOf(o, s), NEW refused \in BOOLEAN
  PROVE  LET t == Forwarded(s, o, refused)
         IN  /\ t.mask = s.mask /\ t.hist.down = s.hist.down
             /\ t.hist.lost = (s.hist.lost \/ refused)
             /\ o.k = 0 /\ o.part = 0 => t.hist.up = s.hist.up
<1> DEFINE q == s.forward
           part == IF o.part = 0 THEN 0 ELSE q[o.k + 1].sent + o.part
           upto == IF o.part > 0 THEN Add(q[o.k + 1].seq, part)
                   ELSE IF o.k > 0 THEN EndOf(q[o.k]) ELSE s.remote_seq
           rest == SubSeq(q, o.k + 1, Len(q))
           next == IF o.part = 0 THEN rest ELSE [rest EXCEPT ![1].sent = part]
           more == s.hist.up + Sub(upto, s.remote_seq)
           u == [s EXCEPT !.forward = next, !.remote_seq = upto, !.hist.up = more,
                          !.hist.lost = @ \/ refused]
<1>1. o.k = 0 /\ o.part = 0 => more = s.hist.up
  <2> SUFFICES ASSUME o.k = 0, o.part = 0  PROVE more = s.hist.up
    OBVIOUS
  <2>1. upto = s.remote_seq  BY SMT
  <2>2. s.remote_seq \in SeqNums /\ s.hist.up \in Nat  BY SessionFields
  <2>3. s.remote_seq - s.remote_seq = 0 /\ 0 \in SeqNums
    BY <2>2, ModulusAssumption, SMT DEF SeqNums
  <2>4. Sub(s.remote_seq, s.remote_seq) = 0  BY <2>3, ModFacts, SMT DEF Sub
  <2> HIDE DEF upto
  <2> QED  BY <2>1, <2>2, <2>4, SMT
<1> HIDE DEF upto, next, more
<1>2. /\ u.mask = s.mask /\ u.hist.down = s.hist.down
      /\ u.hist.lost = (s.hist.lost \/ refused) /\ u.hist.up = more
  BY ZenonT(60) DEF Session, History
<1> HIDE DEF u
<1>3. Forwarded(s, o, refused) = u
  BY Zenon DEF Forwarded, next, upto, more, u
<1> QED  BY <1>1, <1>2, <1>3, Zenon

-----------------------------------------------------------------------------
\* The sequence numbers and what they count.

\* The app's side: its SYN, the bytes forwarded and its FIN.
RemoteCounts(s) ==
  Sub(s.remote_seq, s.remote_start) = (s.hist.syn + s.hist.up + s.hist.fin) % Modulus

\* The engine's side: its SYN, the bytes of the server and its FIN.
LocalCounts(s) ==
  Sub(s.local_seq, s.local_start) = (s.hist.synack + s.hist.down + s.hist.finack) % Modulus

\* A piece that does not touch the engine's side, and counts what it does to
\* the app's.
Counted(t, s) ==
  /\ t.dest = s.dest
  /\ t.remote_start = s.remote_start /\ t.local_start = s.local_start
  /\ t.local_seq = s.local_seq /\ t.hist.synack = s.hist.synack
  /\ t.hist.down = s.hist.down /\ t.hist.finack = s.hist.finack
  /\ RemoteCounts(s) => RemoteCounts(t)

\* One that touches neither side, nor the acknowledgements.
SameSeqs(t, s) ==
  /\ t.dest = s.dest
  /\ t.remote_start = s.remote_start /\ t.local_start = s.local_start
  /\ t.remote_seq = s.remote_seq /\ t.hist.syn = s.hist.syn
  /\ t.hist.up = s.hist.up /\ t.hist.fin = s.hist.fin
  /\ t.local_seq = s.local_seq /\ t.hist.synack = s.hist.synack
  /\ t.hist.down = s.hist.down /\ t.hist.finack = s.hist.finack
  /\ t.acked = s.acked

LEMMA SameCounted ==
  ASSUME NEW t, NEW s, SameSeqs(t, s)
  PROVE  Counted(t, s) /\ t.hist.syn = s.hist.syn /\ t.acked = s.acked
BY Zenon DEF SameSeqs, Counted, RemoteCounts

\* Counts add up over the pieces of a handler.
LEMMA CountedChain ==
  ASSUME NEW t, NEW u, NEW s, Counted(t, u), Counted(u, s)
  PROVE  Counted(t, s)
BY Zenon DEF Counted

\* The pieces that touch nothing of this.
LEMMA SeqsKept ==
  ASSUME NEW s \in Session
  PROVE  /\ SameSeqs(s, s)
         /\ \A ok : SameSeqs(write_ack(s, ok), s)
         /\ \A pkt, i : SameSeqs(queue_tcp(s, pkt, i), s)
         /\ \A pkt : SameSeqs(Heard(s, pkt), s)
         /\ SameSeqs(close_closing(s), s)
         /\ \A v : SameSeqs([s EXCEPT !.state = v], s)
         /\ \A e : SameSeqs([s EXCEPT !.expired = e], s)
         /\ \A r : SameSeqs([s EXCEPT !.recv_open = r], s)
         /\ \A events, v : SameSeqs([s EXCEPT !.mask = events, !.state = v], s)
         /\ \A c, v : SameSeqs([s EXCEPT !.connect_sent = c, !.state = v], s)
<1>1. SameSeqs(s, s)  BY Zenon DEF SameSeqs
<1>2. \A v : SameSeqs([s EXCEPT !.state = v], s)  BY Zenon DEF SameSeqs, Session
<1>3. \A ok : SameSeqs(write_ack(s, ok), s)  BY <1>1, <1>2, Zenon DEF write_ack
<1>4. \A pkt, i : SameSeqs(queue_tcp(s, pkt, i), s)
  <2>1. \A q : SameSeqs([s EXCEPT !.forward = q], s)  BY Zenon DEF SameSeqs, Session
  <2> QED  BY <1>1, <2>1, Zenon DEF queue_tcp
<1>5. \A pkt : SameSeqs(Heard(s, pkt), s)
  BY Zenon DEF SameSeqs, Session, Heard
<1>6. SameSeqs(close_closing(s), s)
  <2>1. SameSeqs([s EXCEPT !.open = FALSE, !.expired = FALSE, !.state = "CLOSE"], s)
    BY Zenon DEF SameSeqs, Session
  <2> QED  BY <1>1, <2>1, Zenon DEF close_closing
<1>7. \A e : SameSeqs([s EXCEPT !.expired = e], s)  BY Zenon DEF SameSeqs, Session
<1>8. \A r : SameSeqs([s EXCEPT !.recv_open = r], s)  BY Zenon DEF SameSeqs, Session
<1>9. \A events, v : SameSeqs([s EXCEPT !.mask = events, !.state = v], s)
  BY Zenon DEF SameSeqs, Session
<1>10. \A c, v : SameSeqs([s EXCEPT !.connect_sent = c, !.state = v], s)
  BY Zenon DEF SameSeqs, Session
<1> QED  BY <1>1, <1>2, <1>3, <1>4, <1>5, <1>6, <1>7, <1>8, <1>9, <1>10, Zenon

\* The counts of the app's side when remote_seq moves on by n.
LEMMA RemoteOn ==
  ASSUME NEW s \in Session, NEW t \in Session, NEW n \in Nat,
         t.remote_start = s.remote_start, t.remote_seq = Add(s.remote_seq, n),
         t.hist.syn + t.hist.up + t.hist.fin = s.hist.syn + s.hist.up + s.hist.fin + n
  PROVE  RemoteCounts(s) => RemoteCounts(t)
<1> DEFINE m == s.hist.syn + s.hist.up + s.hist.fin
<1>1. m \in Int /\ n \in Int  BY SessionFields, SMT
<1>2. s.remote_seq \in SeqNums /\ s.remote_start \in SeqNums  BY SessionFields
<1>3. t.hist.syn + t.hist.up + t.hist.fin = m + n  OBVIOUS
<1>4. RemoteCounts(s) => Sub(s.remote_seq, s.remote_start) = m % Modulus
  BY DEF RemoteCounts
<1> HIDE DEF m
<1>5. RemoteCounts(s) => Sub(Add(s.remote_seq, n), s.remote_start) = (m + n) % Modulus
  BY <1>1, <1>2, <1>4, CountOn
<1> QED  BY <1>3, <1>5, Zenon DEF RemoteCounts

\* The same for the engine's side.
LEMMA LocalOn ==
  ASSUME NEW s \in Session, NEW t \in Session, NEW n \in Nat,
         t.local_start = s.local_start, t.local_seq = Add(s.local_seq, n),
         t.hist.synack + t.hist.down + t.hist.finack
           = s.hist.synack + s.hist.down + s.hist.finack + n
  PROVE  LocalCounts(s) => LocalCounts(t)
<1> DEFINE m == s.hist.synack + s.hist.down + s.hist.finack
<1>1. m \in Int /\ n \in Int  BY SessionFields, SMT
<1>2. s.local_seq \in SeqNums /\ s.local_start \in SeqNums  BY SessionFields
<1>3. t.hist.synack + t.hist.down + t.hist.finack = m + n  OBVIOUS
<1>4. LocalCounts(s) => Sub(s.local_seq, s.local_start) = m % Modulus
  BY DEF LocalCounts
<1> HIDE DEF m
<1>5. LocalCounts(s) => Sub(Add(s.local_seq, n), s.local_start) = (m + n) % Modulus
  BY <1>1, <1>2, <1>4, CountOn
<1> QED  BY <1>3, <1>5, Zenon DEF LocalCounts

\* A reset, and the FIN, take one number of the app's side.
LEMMA WriteCounted ==
  ASSUME NEW s \in Session
  PROVE  /\ Counted(write_rst(s), s) /\ write_rst(s).acked = s.acked
         /\ Counted(CountFin(s), s) /\ CountFin(s).acked = s.acked
         /\ CountFin(s).hist.syn = s.hist.syn
<1>1. ASSUME NEW n \in {0, 1}, NEW v \in States
      PROVE  LET t == [s EXCEPT !.remote_seq = Add(@, n), !.hist.syn = @ + n, !.state = v]
             IN  Counted(t, s) /\ t.acked = s.acked
  <2> DEFINE a == Add(s.remote_seq, n)
             b == s.hist.syn + n
             t == [s EXCEPT !.remote_seq = a, !.hist.syn = b, !.state = v]
  <2>1. n \in Nat /\ n \in Int /\ a \in SeqNums /\ b \in Nat
    BY SessionFields, AddSubType, SMT
  <2> HIDE DEF a, b
  <2>2. t \in Session  BY <2>1, ZenonT(60) DEF Session, History
  <2>3. /\ t.dest = s.dest /\ t.acked = s.acked
        /\ t.remote_start = s.remote_start /\ t.local_start = s.local_start
        /\ t.remote_seq = a /\ t.local_seq = s.local_seq
    BY Zenon DEF Session
  <2>4. /\ t.hist.syn = b /\ t.hist.up = s.hist.up /\ t.hist.fin = s.hist.fin
        /\ t.hist.synack = s.hist.synack /\ t.hist.down = s.hist.down
        /\ t.hist.finack = s.hist.finack
    BY Zenon DEF Session, History
  <2> HIDE DEF t
  <2>5. t.hist.syn + t.hist.up + t.hist.fin = s.hist.syn + s.hist.up + s.hist.fin + n
    <3>1. s.hist.syn \in Nat /\ s.hist.up \in Nat /\ s.hist.fin \in Nat
      BY SessionFields
    <3> QED  BY <2>1, <2>4, <3>1, SMT DEF b
  <2>6. t.remote_seq = Add(s.remote_seq, n)  BY <2>3 DEF a
  <2>7. RemoteCounts(s) => RemoteCounts(t)  BY <2>1, <2>2, <2>3, <2>5, <2>6, RemoteOn
  <2>8. Counted(t, s) /\ t.acked = s.acked  BY <2>3, <2>4, <2>7, Zenon DEF Counted
  <2> QED  BY <2>8 DEF t, a, b
<1>2. Counted(write_rst(s), s) /\ write_rst(s).acked = s.acked
  <2> DEFINE n == IF s.state = "LISTEN" THEN 1 ELSE 0
             v == IF s.state = "CLOSE" THEN s.state ELSE "CLOSING"
  <2>1. n \in {0, 1} /\ v \in States  BY SMT DEF States
  <2>2. write_rst(s) = [s EXCEPT !.remote_seq = Add(@, n), !.hist.syn = @ + n, !.state = v]
    BY Zenon DEF write_rst
  <2> HIDE DEF n, v
  <2> QED  BY <1>1, <2>1, <2>2, Zenon
<1>3. Counted(CountFin(s), s) /\ CountFin(s).acked = s.acked /\ CountFin(s).hist.syn = s.hist.syn
  <2> DEFINE a == Add(s.remote_seq, 1)
             b == s.hist.fin + 1
             t == [s EXCEPT !.remote_seq = a, !.hist.fin = b]
  <2>1. a \in SeqNums /\ b \in Nat
    BY SessionFields, AddSubType, SMT
  <2> HIDE DEF a, b
  <2>2. t \in Session  BY <2>1, ZenonT(60) DEF Session, History
  <2>3. /\ t.dest = s.dest /\ t.acked = s.acked
        /\ t.remote_start = s.remote_start /\ t.local_start = s.local_start
        /\ t.remote_seq = a /\ t.local_seq = s.local_seq
    BY Zenon DEF Session
  <2>4. /\ t.hist.syn = s.hist.syn /\ t.hist.up = s.hist.up /\ t.hist.fin = b
        /\ t.hist.synack = s.hist.synack /\ t.hist.down = s.hist.down
        /\ t.hist.finack = s.hist.finack
    BY Zenon DEF Session, History
  <2> HIDE DEF t
  <2>5. t.hist.syn + t.hist.up + t.hist.fin = s.hist.syn + s.hist.up + s.hist.fin + 1
    <3>1. s.hist.syn \in Nat /\ s.hist.up \in Nat /\ s.hist.fin \in Nat
      BY SessionFields
    <3> QED  BY <2>1, <2>4, <3>1, SMT DEF b
  <2>6. t.remote_seq = Add(s.remote_seq, 1) /\ 1 \in Nat  BY <2>3, SMT DEF a
  <2>7. RemoteCounts(s) => RemoteCounts(t)  BY <2>1, <2>2, <2>3, <2>5, <2>6, RemoteOn
  <2>8. Counted(t, s) /\ t.acked = s.acked /\ t.hist.syn = s.hist.syn
    BY <2>3, <2>4, <2>7, Zenon DEF Counted
  <2>9. t = CountFin(s)  BY Zenon DEF t, a, b, CountFin
  <2> QED  BY <2>8, <2>9
<1> QED  BY <1>2, <1>3

\* The pieces made of those.
LEMMA PiecesCounted ==
  ASSUME NEW s \in Session
  PROVE  /\ \A sent \in BOOLEAN :
              Counted(send_connect(s, sent), s) /\ send_connect(s, sent).acked = s.acked
         /\ Counted(connect_reply(s), s) /\ connect_reply(s).acked = s.acked
         /\ Counted(time_out(s), s) /\ time_out(s).acked = s.acked
         /\ \A pkt, i : LET t == Taken(s, pkt, i)
                        IN  Counted(t, s) /\ t.acked = s.acked /\ t.hist.syn = s.hist.syn
<1>1. ASSUME NEW t, SameSeqs(t, s)
      PROVE  Counted(t, s) /\ t.acked = s.acked /\ t.hist.syn = s.hist.syn
  BY <1>1, SameCounted
<1>2. SameSeqs(s, s) /\ SameSeqs([s EXCEPT !.state = "CLOSING"], s)
      /\ SameSeqs([s EXCEPT !.connect_sent = "SENT", !.state = "LISTEN"], s)
      /\ SameSeqs([s EXCEPT !.connect_sent = "ESTABLISHED", !.state = "SYN_RECV"], s)
  BY SeqsKept, Zenon
<1>3. \A sent \in BOOLEAN :
        Counted(send_connect(s, sent), s) /\ send_connect(s, sent).acked = s.acked
  BY <1>1, <1>2, WriteCounted, Zenon DEF send_connect
<1>4. Counted(connect_reply(s), s) /\ connect_reply(s).acked = s.acked
  BY <1>1, <1>2, WriteCounted, Zenon DEF connect_reply
<1>5. Counted(time_out(s), s) /\ time_out(s).acked = s.acked
  BY <1>1, <1>2, WriteCounted, Zenon DEF time_out
<1>6. ASSUME NEW pkt, NEW i
      PROVE  LET t == Taken(s, pkt, i)
             IN  Counted(t, s) /\ t.acked = s.acked /\ t.hist.syn = s.hist.syn
  <2> DEFINE h == Heard(s, pkt)
             q == queue_tcp(h, pkt, i)
  <2>1. SameSeqs(h, s)  BY SeqsKept, Zenon
  <2>2. SameSeqs(q, h)
    <3>1. \A x : SameSeqs([h EXCEPT !.forward = x], h)
      BY Zenon DEF SameSeqs, Session, Heard
    <3>2. SameSeqs(h, h)  BY Zenon DEF SameSeqs
    <3> HIDE DEF h
    <3> QED  BY <3>1, <3>2, Zenon DEF queue_tcp
  <2> HIDE DEF h, q
  <2>3. SameSeqs(q, s)  BY <2>1, <2>2, Zenon DEF SameSeqs
  <2>4. Taken(s, pkt, i) = q \/ Taken(s, pkt, i) = h
    BY Zenon DEF Taken, q, h
  <2> QED  BY <1>1, <2>1, <2>3, <2>4, Zenon
<1> QED  BY <1>3, <1>4, <1>5, <1>6, Zenon

\* The app's FIN.
LEMMA ReceiveFinCounted ==
  ASSUME NEW s \in Session, NEW ok \in BOOLEAN
  PROVE  LET t == receive_fin(s, ok)
         IN  Counted(t, s) /\ t.acked = s.acked /\ t.hist.syn = s.hist.syn
<1> DEFINE f == CountFin(s)
<1>1. Counted(f, s) /\ f.acked = s.acked /\ f.hist.syn = s.hist.syn  BY WriteCounted
<1>2. \A v : SameSeqs([f EXCEPT !.state = v], f)
  BY Zenon DEF SameSeqs, Session, History, CountFin
<1> HIDE DEF f
<1>3. ASSUME NEW v
      PROVE  LET t == [f EXCEPT !.state = v]
             IN  Counted(t, s) /\ t.acked = s.acked /\ t.hist.syn = s.hist.syn
  <2> DEFINE t == [f EXCEPT !.state = v]
  <2>1. SameSeqs(t, f)  BY <1>2
  <2> HIDE DEF t
  <2>2. Counted(t, s) /\ t.acked = s.acked /\ t.hist.syn = s.hist.syn
    BY <1>1, <2>1, SameCounted, CountedChain, Zenon
  <2> QED  BY <2>2 DEF t
<1>4. ASSUME NEW t, SameSeqs(t, s)
      PROVE  Counted(t, s) /\ t.acked = s.acked /\ t.hist.syn = s.hist.syn
  BY <1>4, SameCounted
<1>5. SameSeqs(s, s) /\ SameSeqs([s EXCEPT !.state = "CLOSE_WAIT"], s)
  BY SeqsKept, Zenon
<1>6. \/ \E v : receive_fin(s, ok) = [f EXCEPT !.state = v]
      \/ receive_fin(s, ok) = s
      \/ receive_fin(s, ok) = [s EXCEPT !.state = "CLOSE_WAIT"]
  <2>1. CASE s.state = "ESTABLISHED" /\ s.forward = <<>>
    <3>1. receive_fin(s, ok) = [f EXCEPT !.state = IF ok THEN "CLOSE_WAIT" ELSE "CLOSING"]
      BY <2>1, SMT DEF receive_fin, f
    <3> QED  BY <3>1, Zenon
  <2>2. CASE s.state = "ESTABLISHED" /\ s.forward # <<>>
    BY <2>2, SMT DEF receive_fin
  <2>3. CASE s.state = "FIN_WAIT1"
    <3>1. receive_fin(s, ok) = [f EXCEPT !.state = IF ok THEN "CLOSE" ELSE "CLOSING"]
      BY <2>3, SMT DEF receive_fin, f
    <3> QED  BY <3>1, Zenon
  <2>4. CASE s.state \notin {"ESTABLISHED", "FIN_WAIT1"}
    BY <2>4, SMT DEF receive_fin
  <2> QED  BY <2>1, <2>2, <2>3, <2>4, Zenon
<1> QED  BY <1>3, <1>4, <1>5, <1>6, Zenon

\* The relay.
LEMMA ForwardedCounted ==
  ASSUME NEW s \in Session, NEW o, OutcomeOf(o, s), NEW refused \in BOOLEAN
  PROVE  LET t == Forwarded(s, o, refused)
         IN  Counted(t, s) /\ t.acked = s.acked /\ t.hist.syn = s.hist.syn
<1> DEFINE t == Forwarded(s, o, refused)
           q == s.forward
           part == IF o.part = 0 THEN 0 ELSE q[o.k + 1].sent + o.part
           upto == IF o.part > 0 THEN Add(q[o.k + 1].seq, part)
                   ELSE IF o.k > 0 THEN EndOf(q[o.k]) ELSE s.remote_seq
           rest == SubSeq(q, o.k + 1, Len(q))
           next == IF o.part = 0 THEN rest ELSE [rest EXCEPT ![1].sent = part]
           n == Sub(upto, s.remote_seq)
           u == [s EXCEPT !.forward = next, !.remote_seq = upto,
                          !.hist.up = s.hist.up + n, !.hist.lost = @ \/ refused]
<1>1. t \in Session  BY ForwardedType
<1> HIDE DEF next, upto
<1>2. t = u  BY Zenon DEF Forwarded, next, upto
<1> HIDE DEF n
<1>3. /\ u.dest = s.dest /\ u.acked = s.acked
      /\ u.remote_start = s.remote_start /\ u.local_start = s.local_start
      /\ u.remote_seq = upto /\ u.local_seq = s.local_seq
  BY Zenon DEF Session
<1>4. /\ u.hist.syn = s.hist.syn /\ u.hist.up = s.hist.up + n /\ u.hist.fin = s.hist.fin
      /\ u.hist.synack = s.hist.synack /\ u.hist.down = s.hist.down
      /\ u.hist.finack = s.hist.finack
  BY ZenonT(60) DEF Session, History
<1> HIDE DEF t, u
<1>5. upto \in SeqNums /\ s.remote_seq \in SeqNums
  BY <1>1, <1>2, <1>3, SessionFields
<1>6. n \in Nat /\ Add(s.remote_seq, n) = upto
  <2>1. s.remote_seq \in Int  BY <1>5, ModulusAssumption, SMT DEF SeqNums
  <2>2. n \in SeqNums  BY <1>5, <2>1, AddSubType DEF n
  <2>3. n \in Nat  BY <2>2, ModulusAssumption, SMT DEF SeqNums
  <2> QED  BY <1>5, <2>3, AddOfSub DEF n
<1>7. u.hist.syn + u.hist.up + u.hist.fin = s.hist.syn + s.hist.up + s.hist.fin + n
  <2>1. s.hist.syn \in Nat /\ s.hist.up \in Nat /\ s.hist.fin \in Nat
    BY SessionFields
  <2> QED  BY <1>4, <1>6, <2>1, SMT
<1>8. RemoteCounts(s) => RemoteCounts(u)
  BY <1>1, <1>2, <1>3, <1>6, <1>7, RemoteOn
<1>9. Counted(u, s) /\ u.acked = s.acked /\ u.hist.syn = s.hist.syn
  BY <1>3, <1>4, <1>8, Zenon DEF Counted
<1> QED  BY <1>2, <1>9 DEF t

\* The acknowledgement after it.
LEMMA AcknowledgeCounted ==
  ASSUME NEW s \in Session, NEW fwd \in BOOLEAN, NEW room \in BOOLEAN, NEW ok \in BOOLEAN
  PROVE  LET t == acknowledge(s, fwd, room, ok)
         IN  Counted(t, s) /\ t.acked = s.acked /\ t.hist.syn = s.hist.syn
<1> DEFINE t == [s EXCEPT !.recv_open = room]
           u == IF fwd /\ s.forward = <<>> /\ s.state = "CLOSE_WAIT"
                THEN CountFin(t) ELSE t
           w == write_ack(u, ok)
           x == [w EXCEPT !.expired = @ /\ ~ok]
<1>1. t \in Session /\ SameSeqs(t, s)
  <2>1. t \in Session  BY Zenon DEF Session
  <2> QED  BY <2>1, SeqsKept
<1> HIDE DEF t
<1>2. u \in Session /\ Counted(u, t) /\ u.acked = t.acked /\ u.hist.syn = t.hist.syn
  <2>1. CountFin(t) \in Session /\ Counted(CountFin(t), t)
        /\ CountFin(t).acked = t.acked /\ CountFin(t).hist.syn = t.hist.syn
    BY <1>1, CountFinType, WriteCounted, Zenon DEF States
  <2>2. Counted(t, t)  BY Zenon DEF Counted
  <2> QED  BY <1>1, <2>1, <2>2, Zenon
<1> HIDE DEF u
<1>3. w \in Session /\ SameSeqs(w, u)  BY <1>2, WriteType, SeqsKept, Zenon
<1> HIDE DEF w
<1>4. SameSeqs(x, w)  BY <1>3, SeqsKept, Zenon
<1> HIDE DEF x
<1>5. acknowledge(s, fwd, room, ok) = IF fwd \/ (~s.recv_open /\ room) THEN x ELSE t
  BY Zenon DEF acknowledge, x, w, u, t
<1>6. SameSeqs(x, u)  BY <1>3, <1>4, Zenon DEF SameSeqs
<1>7. /\ Counted(x, u) /\ x.acked = u.acked /\ x.hist.syn = u.hist.syn
      /\ Counted(t, s) /\ t.acked = s.acked /\ t.hist.syn = s.hist.syn
  BY <1>1, <1>6, SameCounted
<1>8. Counted(u, s) /\ Counted(x, s)  BY <1>2, <1>7, CountedChain
<1> QED  BY <1>2, <1>5, <1>7, <1>8, Zenon

\* The SYN-ACK.
LEMMA ConnectedCounted ==
  ASSUME NEW s \in Session, NEW ok \in BOOLEAN
  PROVE  LET t == connected(s, ok)
         IN  /\ t.dest = s.dest /\ t.acked = s.acked
             /\ t.remote_start = s.remote_start /\ t.local_start = s.local_start
             /\ RemoteCounts(s) => RemoteCounts(t)
             /\ LocalCounts(s) => LocalCounts(t)
             /\ t.hist.down = s.hist.down /\ t.hist.syn = s.hist.syn + 1
             /\ t.hist.synack \in {s.hist.synack, s.hist.synack + 1}
             /\ t.state # "CLOSING" => t.hist.synack = s.hist.synack + 1
<1> DEFINE a == Add(s.remote_seq, 1)
           b == s.hist.syn + 1
           c == Add(s.local_seq, 1)
           d == s.hist.synack + 1
           t == [s EXCEPT !.remote_seq = a, !.hist.syn = b]
           u == [t EXCEPT !.expired = FALSE, !.local_seq = c,
                          !.hist.synack = d, !.state = "SYN_RECV"]
           v == [t EXCEPT !.state = "CLOSING"]
<1>0. /\ s.hist.syn \in Nat /\ s.hist.up \in Nat /\ s.hist.fin \in Nat
      /\ s.hist.synack \in Nat /\ s.hist.down \in Nat /\ s.hist.finack \in Nat
      /\ s.remote_seq \in SeqNums /\ s.local_seq \in SeqNums
  BY SessionFields
<1>1. /\ a \in SeqNums /\ b \in Nat /\ c \in SeqNums /\ d \in Nat /\ 1 \in Nat
      /\ s.hist.syn \in Nat /\ s.hist.up \in Nat /\ s.hist.fin \in Nat
      /\ s.hist.synack \in Nat /\ s.hist.down \in Nat /\ s.hist.finack \in Nat
  <2>1. 1 \in Int /\ 1 \in Nat /\ b \in Nat /\ d \in Nat  BY <1>0, SMT
  <2> QED  BY <1>0, <2>1, AddSubType, Zenon
<1> HIDE DEF a, b, c, d
<1>2. /\ t \in Session /\ t.dest = s.dest /\ t.acked = s.acked
      /\ t.remote_start = s.remote_start /\ t.local_start = s.local_start
      /\ t.remote_seq = a /\ t.local_seq = s.local_seq
  BY <1>1, ZenonT(60) DEF Session, History
<1>3. /\ t.hist.syn = b /\ t.hist.up = s.hist.up /\ t.hist.fin = s.hist.fin
      /\ t.hist.synack = s.hist.synack /\ t.hist.down = s.hist.down
      /\ t.hist.finack = s.hist.finack
  BY Zenon DEF Session, History
<1> HIDE DEF t
<1>4. RemoteCounts(s) => RemoteCounts(t)
  <2>1. t.hist.syn + t.hist.up + t.hist.fin = s.hist.syn + s.hist.up + s.hist.fin + 1
    BY <1>1, <1>3, SMT DEF b
  <2>2. t.remote_seq = Add(s.remote_seq, 1)  BY <1>2 DEF a
  <2> QED  BY <1>1, <1>2, <2>1, <2>2, RemoteOn
<1>5. LocalCounts(s) => LocalCounts(t)
  BY <1>2, <1>3, Zenon DEF LocalCounts
<1>6. SameSeqs(v, t) /\ v.state = "CLOSING"
  <2>1. SameSeqs(v, t)  BY <1>2, SeqsKept, Zenon
  <2>2. v.state = "CLOSING"  BY <1>2, Zenon DEF Session
  <2> QED  BY <2>1, <2>2
<1>7. /\ u \in Session /\ u.dest = t.dest /\ u.acked = t.acked
      /\ u.remote_start = t.remote_start /\ u.local_start = t.local_start
      /\ u.remote_seq = t.remote_seq /\ u.local_seq = c
  BY <1>1, <1>2, ZenonT(60) DEF Session, History, States
<1>8. /\ u.hist.syn = t.hist.syn /\ u.hist.up = t.hist.up /\ u.hist.fin = t.hist.fin
      /\ u.hist.synack = d /\ u.hist.down = t.hist.down
      /\ u.hist.finack = t.hist.finack
  BY <1>2, Zenon DEF Session, History
<1> HIDE DEF u, v
<1>9. RemoteCounts(t) => RemoteCounts(u)
  BY <1>7, <1>8, Zenon DEF RemoteCounts
<1>10. LocalCounts(t) => LocalCounts(u)
  <2>1. u.hist.synack + u.hist.down + u.hist.finack
          = t.hist.synack + t.hist.down + t.hist.finack + 1
    BY <1>1, <1>3, <1>8, SMT DEF d
  <2>2. u.local_seq = Add(t.local_seq, 1)  BY <1>2, <1>7 DEF c
  <2> QED  BY <1>1, <1>2, <1>7, <2>1, <2>2, LocalOn
<1>11. RemoteCounts(t) => RemoteCounts(v)
  BY <1>6, Zenon DEF SameSeqs, RemoteCounts
<1>12. LocalCounts(t) => LocalCounts(v)
  BY <1>6, Zenon DEF SameSeqs, LocalCounts
<1>13. connected(s, ok) = IF ok THEN u ELSE v
  <2>1. connected(s, ok) =
          IF ok THEN [t EXCEPT !.expired = FALSE, !.local_seq = Add(t.local_seq, 1),
                               !.hist.synack = t.hist.synack + 1, !.state = "SYN_RECV"]
          ELSE [t EXCEPT !.state = "CLOSING"]
    BY Zenon DEF connected, t, a, b
  <2>2. c = Add(t.local_seq, 1) /\ d = t.hist.synack + 1  BY <1>2, <1>3, Zenon DEF c, d
  <2> QED  BY <2>1, <2>2, Zenon DEF u, v
<1>14. CASE ok
  BY <1>2, <1>3, <1>4, <1>5, <1>7, <1>8, <1>9, <1>10, <1>13, <1>14, Zenon DEF b, d
<1>15. CASE ~ok
  BY <1>2, <1>3, <1>4, <1>5, <1>6, <1>11, <1>12, <1>13, <1>15, Zenon DEF b, SameSeqs
<1> QED  BY <1>14, <1>15

\* The FIN-ACK at the server's end of file.
LEMMA ReceiveEofCounted ==
  ASSUME NEW s \in Session, NEW ok \in BOOLEAN,
         s.state \in {"ESTABLISHED", "CLOSE_WAIT"}
  PROVE  LET t == receive_eof(s, ok)
         IN  /\ t.dest = s.dest /\ t.acked = s.acked
             /\ t.remote_start = s.remote_start /\ t.local_start = s.local_start
             /\ RemoteCounts(s) => RemoteCounts(t)
             /\ LocalCounts(s) => LocalCounts(t)
             /\ t.hist.down = s.hist.down /\ t.hist.synack = s.hist.synack
             /\ t.state # "CLOSING" => t.hist.syn = s.hist.syn
<1> DEFINE next == [ESTABLISHED |-> "FIN_WAIT1", CLOSE_WAIT |-> "LAST_ACK"]
           c == Add(s.local_seq, 1)
           d == s.hist.finack + 1
           v == next[s.state]
           a == [s EXCEPT !.local_seq = c, !.hist.finack = d, !.state = v]
           b == [s EXCEPT !.state = "CLOSING"]
           t == CASE s.forward # <<>> -> write_rst(s)
                  [] s.forward = <<>> /\ ok -> a
                  [] s.forward = <<>> /\ ~ok -> b
           Good(x) == /\ x \in Session
                      /\ x.dest = s.dest /\ x.acked = s.acked
                      /\ x.remote_start = s.remote_start /\ x.local_start = s.local_start
                      /\ RemoteCounts(s) => RemoteCounts(x)
                      /\ LocalCounts(s) => LocalCounts(x)
                      /\ x.hist.down = s.hist.down /\ x.hist.synack = s.hist.synack
                      /\ x.state # "CLOSING" => x.hist.syn = s.hist.syn
<1>1. next[s.state] = IF s.state = "ESTABLISHED" THEN "FIN_WAIT1" ELSE "LAST_ACK"
  BY SMT
<1> HIDE DEF next
<1>2. v \in States  BY <1>1, SMT DEF States
<1>0. /\ s.hist.synack \in Nat /\ s.hist.down \in Nat /\ s.hist.finack \in Nat
      /\ s.local_seq \in SeqNums
  BY SessionFields
<1>3. /\ c \in SeqNums /\ d \in Nat /\ 1 \in Nat /\ s.hist.finack \in Nat
      /\ s.hist.synack \in Nat /\ s.hist.down \in Nat
  <2>1. 1 \in Int /\ 1 \in Nat /\ d \in Nat  BY <1>0, SMT
  <2> QED  BY <1>0, <2>1, AddSubType, Zenon
<1> HIDE DEF c, d, v
<1>4. Good(a)
  <2>1. /\ a \in Session /\ a.dest = s.dest /\ a.acked = s.acked
        /\ a.remote_start = s.remote_start /\ a.local_start = s.local_start
        /\ a.remote_seq = s.remote_seq /\ a.local_seq = c
    BY <1>2, <1>3, ZenonT(60) DEF Session, History
  <2>2. /\ a.hist.syn = s.hist.syn /\ a.hist.up = s.hist.up /\ a.hist.fin = s.hist.fin
        /\ a.hist.synack = s.hist.synack /\ a.hist.down = s.hist.down
        /\ a.hist.finack = d
    BY Zenon DEF Session, History
  <2> HIDE DEF a
  <2>3. RemoteCounts(s) => RemoteCounts(a)
    BY <2>1, <2>2, Zenon DEF RemoteCounts
  <2>4. LocalCounts(s) => LocalCounts(a)
    <3>1. a.hist.synack + a.hist.down + a.hist.finack
            = s.hist.synack + s.hist.down + s.hist.finack + 1
      BY <1>3, <2>2, SMT DEF d
    <3>2. a.local_seq = Add(s.local_seq, 1)  BY <2>1 DEF c
    <3> QED  BY <1>3, <2>1, <3>1, <3>2, LocalOn
  <2> QED  BY <2>1, <2>2, <2>3, <2>4, Zenon
<1>5. Good(b)
  <2>1. SameSeqs(b, s)  BY SeqsKept
  <2>2. b \in Session  BY Zenon DEF Session, States
  <2> QED  BY <2>1, <2>2, Zenon DEF SameSeqs, RemoteCounts, LocalCounts
<1>6. Good(write_rst(s))
  <2> DEFINE w == write_rst(s)
  <2>1. w \in Session /\ Counted(w, s) /\ w.acked = s.acked  BY WriteType, WriteCounted
  <2>2. w.state = "CLOSING"  BY WriteEffect, SMT
  <2> HIDE DEF w
  <2>3. Good(w)  BY <2>1, <2>2, Zenon DEF Counted, LocalCounts
  <2> QED  BY <2>3 DEF w
<1> HIDE DEF a, b
<1>7. Good(t)
  <2>1. t = write_rst(s) \/ t = a \/ t = b  BY SMT
  <2> HIDE DEF t, Good
  <2> QED  BY <1>4, <1>5, <1>6, <2>1, Zenon
<1> HIDE DEF t
<1> DEFINE u == [t EXCEPT !.open = FALSE, !.expired = FALSE]
<1>8. SameSeqs(u, t) /\ u.state = t.state  BY <1>7, Zenon DEF SameSeqs, Session
<1>9. receive_eof(s, ok) = u
  BY Zenon DEF receive_eof, t, a, b, next, c, d, v
<1> HIDE DEF u
<1>10. /\ u.dest = s.dest /\ u.acked = s.acked
       /\ u.remote_start = s.remote_start /\ u.local_start = s.local_start
       /\ RemoteCounts(s) => RemoteCounts(u)
       /\ LocalCounts(s) => LocalCounts(u)
       /\ u.hist.down = s.hist.down /\ u.hist.synack = s.hist.synack
       /\ u.state # "CLOSING" => u.hist.syn = s.hist.syn
  BY <1>7, <1>8, Zenon DEF SameSeqs, RemoteCounts, LocalCounts
<1> QED  BY <1>9, <1>10, Zenon

\* Data of the server.
LEMMA ReceiveCounted ==
  ASSUME NEW s \in Session, NEW n \in Nat, NEW ok \in BOOLEAN
  PROVE  LET t == receive_data(s, n, ok)
         IN  /\ t.dest = s.dest /\ t.acked = s.acked /\ t.send_window = s.send_window
             /\ t.remote_start = s.remote_start /\ t.local_start = s.local_start
             /\ RemoteCounts(s) => RemoteCounts(t)
             /\ LocalCounts(s) /\ t.state # "CLOSING" => LocalCounts(t)
             /\ t.hist.down = s.hist.down + n /\ t.hist.synack = s.hist.synack
             /\ t.hist.syn = s.hist.syn
             /\ t.state = "CLOSING" \/ t.local_seq = Add(s.local_seq, n)
<1> DEFINE b == s.hist.down + n
           c == Add(s.local_seq, n)
           t == [s EXCEPT !.expired = FALSE, !.hist.down = b]
           u == [t EXCEPT !.local_seq = c]
           v == [t EXCEPT !.state = "CLOSING"]
<1>0. /\ s.hist.synack \in Nat /\ s.hist.down \in Nat /\ s.hist.finack \in Nat
      /\ s.local_seq \in SeqNums
  BY SessionFields
<1>1. /\ b \in Nat /\ c \in SeqNums
      /\ s.hist.synack \in Nat /\ s.hist.down \in Nat /\ s.hist.finack \in Nat
  <2>1. n \in Int /\ b \in Nat  BY <1>0, SMT
  <2> QED  BY <1>0, <2>1, AddSubType, Zenon
<1> HIDE DEF b, c
<1>2. /\ t \in Session /\ t.dest = s.dest /\ t.acked = s.acked
      /\ t.send_window = s.send_window
      /\ t.remote_start = s.remote_start /\ t.local_start = s.local_start
      /\ t.remote_seq = s.remote_seq /\ t.local_seq = s.local_seq
  BY <1>1, ZenonT(60) DEF Session, History
<1>3. /\ t.hist.syn = s.hist.syn /\ t.hist.up = s.hist.up /\ t.hist.fin = s.hist.fin
      /\ t.hist.synack = s.hist.synack /\ t.hist.down = b
      /\ t.hist.finack = s.hist.finack
  BY Zenon DEF Session, History
<1> HIDE DEF t
<1>4. RemoteCounts(s) => RemoteCounts(t)  BY <1>2, <1>3, Zenon DEF RemoteCounts
<1>5. /\ u \in Session /\ u.dest = t.dest /\ u.acked = t.acked
      /\ u.send_window = t.send_window
      /\ u.remote_start = t.remote_start /\ u.local_start = t.local_start
      /\ u.remote_seq = t.remote_seq /\ u.local_seq = c /\ u.hist = t.hist
  BY <1>1, <1>2, Zenon DEF Session
<1>6. /\ v.dest = t.dest /\ v.acked = t.acked /\ v.send_window = t.send_window
      /\ v.remote_start = t.remote_start /\ v.local_start = t.local_start
      /\ v.remote_seq = t.remote_seq /\ v.hist = t.hist /\ v.state = "CLOSING"
  BY <1>2, Zenon DEF Session
<1> HIDE DEF u, v
<1>7. LocalCounts(s) => LocalCounts(u)
  <2>1. u.hist.synack + u.hist.down + u.hist.finack
          = s.hist.synack + s.hist.down + s.hist.finack + n
    BY <1>1, <1>3, <1>5, SMT DEF b
  <2>2. u.local_seq = Add(s.local_seq, n)  BY <1>5 DEF c
  <2> QED  BY <1>2, <1>5, <2>1, <2>2, LocalOn
<1>8. RemoteCounts(s) => RemoteCounts(u) /\ RemoteCounts(v)
  BY <1>4, <1>5, <1>6, Zenon DEF RemoteCounts
<1>9. receive_data(s, n, ok) = IF ok THEN u ELSE v
  BY <1>2, Zenon DEF receive_data, u, v, t, b, c
<1>10. CASE ok
  BY <1>2, <1>3, <1>5, <1>7, <1>8, <1>9, <1>10, Zenon DEF b, c
<1>11. CASE ~ok
  BY <1>2, <1>3, <1>6, <1>8, <1>9, <1>11, Zenon DEF b
<1> QED  BY <1>10, <1>11

\* Acknowledgements.
LEMMA AckCounted ==
  ASSUME NEW s \in Session, NEW pkt \in Packet
  PROVE  /\ LET t == receive_ack(s, pkt)
            IN  /\ Counted(t, s) /\ t.hist.syn = s.hist.syn
                /\ t.acked = pkt.ack_seq /\ t.local_seq = s.local_seq
         /\ LET t == receive_other_ack(s, pkt)
            IN  /\ Counted(t, s)
                /\ t.hist.syn = s.hist.syn \/ t.state \in {"CLOSING", "CLOSE"}
                /\ \/ t.acked = s.acked
                   \/ /\ t.acked = pkt.ack_seq
                      /\ compare_u32(pkt.ack_seq, s.local_seq) < 0
                      /\ compare_u32(pkt.ack_seq, s.acked) > 0
<1>1. ASSUME NEW x, NEW y
      PROVE  LET t == [s EXCEPT !.acked = x, !.state = y]
             IN  Counted(t, s) /\ t.hist.syn = s.hist.syn /\ t.acked = x
  BY Zenon DEF Session, Counted, RemoteCounts
<1>2. LET t == [s EXCEPT !.acked = pkt.ack_seq]
      IN  Counted(t, s) /\ t.hist.syn = s.hist.syn /\ t.acked = pkt.ack_seq
  BY Zenon DEF Session, Counted, RemoteCounts
<1>3. LET t == receive_ack(s, pkt)
      IN  Counted(t, s) /\ t.hist.syn = s.hist.syn /\ t.acked = pkt.ack_seq
  <2> DEFINE v == IF s.state = "SYN_RECV" THEN "ESTABLISHED"
                  ELSE IF s.state = "LAST_ACK" THEN "CLOSING" ELSE s.state
  <2>1. receive_ack(s, pkt) = [s EXCEPT !.acked = pkt.ack_seq, !.state = v]
    BY Zenon DEF receive_ack
  <2> HIDE DEF v
  <2> DEFINE t == [s EXCEPT !.acked = pkt.ack_seq, !.state = v]
  <2>2. Counted(t, s) /\ t.hist.syn = s.hist.syn /\ t.acked = pkt.ack_seq  BY <1>1
  <2> QED  BY <2>1, <2>2, Zenon
<1>4. LET t == receive_ack(s, pkt) IN t.local_seq = s.local_seq
  BY <1>3, Zenon DEF Counted
<1>5. Counted(s, s)  BY Zenon DEF Counted
<1> DEFINE w == write_rst(s)
<1>6. Counted(w, s) /\ w.acked = s.acked /\ w.state \in {"CLOSING", "CLOSE"}
  <2>1. Counted(w, s) /\ w.acked = s.acked  BY WriteCounted
  <2>2. w.state = IF s.state = "CLOSE" THEN "CLOSE" ELSE "CLOSING"  BY WriteEffect
  <2> QED  BY <2>1, <2>2, Zenon
<1> HIDE DEF w
<1>7. \/ receive_other_ack(s, pkt) = s
      \/ receive_other_ack(s, pkt) = w
      \/ /\ receive_other_ack(s, pkt) = [s EXCEPT !.acked = pkt.ack_seq]
         /\ ~(compare_u32(pkt.ack_seq, s.local_seq) >= 0)
         /\ ~(compare_u32(pkt.ack_seq, s.acked) <= 0)
  BY Zenon DEF receive_other_ack, w
<1>8. \A x, y : (~(compare_u32(x, y) >= 0) => compare_u32(x, y) < 0)
               /\ (~(compare_u32(x, y) <= 0) => compare_u32(x, y) > 0)
  BY SMT DEF compare_u32
<1>9. LET t == receive_other_ack(s, pkt)
      IN  /\ Counted(t, s)
          /\ t.hist.syn = s.hist.syn \/ t.state \in {"CLOSING", "CLOSE"}
          /\ \/ t.acked = s.acked
             \/ /\ t.acked = pkt.ack_seq
                /\ compare_u32(pkt.ack_seq, s.local_seq) < 0
                /\ compare_u32(pkt.ack_seq, s.acked) > 0
  BY <1>2, <1>5, <1>6, <1>7, <1>8, Zenon
<1> QED  BY <1>3, <1>4, <1>9, Zenon

-----------------------------------------------------------------------------
\* The order of the queue.

\* No segment is partly sent.
Unsent(s) == \A i \in 1 .. Len(s.forward) : s.forward[i].sent = 0

\* The segments lie within the first top bytes of the app's stream, in its
\* order, and only the first may be partly sent: up to remote_seq.
InOrder(s, top) ==
  LET q == s.forward
      At(i) == Sub(q[i].seq, s.remote_start)
  IN  /\ \A i \in 1 .. Len(q) : At(i) + q[i].len <= top
      /\ \A i, j \in 1 .. Len(q) : i < j => At(i) < At(j)
      /\ \A i \in 1 .. Len(q) :
           q[i].sent > 0 => /\ i = 1 /\ q[i].sent < q[i].len
                            /\ Add(q[i].seq, q[i].sent) = s.remote_seq

\* The first top bytes after r do not straddle the int boundary.
Straight(r, top) ==
  /\ top < IntMax
  /\ \A d, e \in 0 .. top : ~CrossesIntBoundary(Add(r, d), Add(r, e))

\* A piece that leaves the queue alone, and remote_seq too if a segment is
\* partly sent.
QueueKept(t, s) ==
  /\ t.forward = s.forward /\ t.remote_start = s.remote_start
  /\ t.remote_seq = s.remote_seq \/ Unsent(s)

LEMMA QueueKeptChain ==
  ASSUME NEW t, NEW u, NEW s, QueueKept(t, u), QueueKept(u, s)
  PROVE  QueueKept(t, s)
BY Zenon DEF QueueKept, Unsent

LEMMA KeptInOrder ==
  ASSUME NEW s \in Session, NEW t, NEW top, QueueKept(t, s), InOrder(s, top)
  PROVE  InOrder(t, top) /\ (Unsent(s) => Unsent(t))
<1> DEFINE q == s.forward
           At(i) == Sub(q[i].seq, s.remote_start)
<1>1. /\ \A i \in 1 .. Len(q) : At(i) + q[i].len <= top
      /\ \A i, j \in 1 .. Len(q) : i < j => At(i) < At(j)
      /\ \A i \in 1 .. Len(q) :
           q[i].sent > 0 => /\ i = 1 /\ q[i].sent < q[i].len
                            /\ Add(q[i].seq, q[i].sent) = s.remote_seq
  BY Zenon DEF InOrder
<1>2. t.forward = q /\ t.remote_start = s.remote_start  BY Zenon DEF QueueKept
<1>3. \A i \in 1 .. Len(q) : q[i].sent > 0 => Add(q[i].seq, q[i].sent) = t.remote_seq
  <2>1. CASE t.remote_seq = s.remote_seq
    BY <1>1, <2>1, Zenon
  <2>2. CASE Unsent(s)
    <3>1. ~(0 > 0)  BY SMT
    <3> QED  BY <2>2, <3>1, Zenon DEF Unsent
  <2> QED  BY <2>1, <2>2, Zenon DEF QueueKept
<1>4. Unsent(s) => Unsent(t)  BY <1>2, Zenon DEF Unsent
<1> HIDE DEF q
<1> QED  BY <1>1, <1>2, <1>3, <1>4, Zenon DEF InOrder

\* An empty queue is in order.
LEMMA EmptyInOrder ==
  ASSUME NEW s, NEW top, s.forward = <<>>
  PROVE  InOrder(s, top) /\ Unsent(s)
<1>1. 1 .. Len(s.forward) = {}  BY SMT
<1> QED  BY <1>1, Zenon DEF InOrder, Unsent

\* compare_u32 orders the first bytes of a straight stream as the stream does.
LEMMA StreamOrder ==
  ASSUME NEW r \in SeqNums, NEW top \in Nat, Straight(r, top),
         NEW a \in SeqNums, NEW b \in SeqNums, Sub(a, r) <= top, Sub(b, r) <= top
  PROVE  /\ compare_u32(a, b) < 0 <=> Sub(a, r) < Sub(b, r)
         /\ a = b <=> Sub(a, r) = Sub(b, r)
         /\ compare_u32(a, b) \in Int
<1>1. /\ Sub(a, r) \in SeqNums /\ Sub(b, r) \in SeqNums
      /\ \A x \in SeqNums : x \in Int /\ 0 <= x
      /\ IntMax \in Int /\ top < IntMax
  <2>1. \A x \in SeqNums : x \in Int /\ 0 <= x  BY ModulusAssumption, SMT DEF SeqNums
  <2>2. IntMax \in Int  BY HalfFacts, SMT DEF IntMax
  <2> QED  BY <2>1, <2>2, AddSubType DEF Straight
<1>2. Sub(a, r) \in 0 .. top /\ Sub(b, r) \in 0 .. top  BY <1>1, SMT
<1>3. Add(r, Sub(a, r)) = a /\ Add(r, Sub(b, r)) = b  BY AddOfSub
<1>4. ~CrossesIntBoundary(a, b) /\ ~CrossesIntBoundary(b, a)
  BY <1>2, <1>3, Zenon DEF Straight
<1>5. Sub(a, r) < IntMax /\ Sub(b, r) < IntMax  BY <1>1, <1>2, SMT
<1>6. CASE Sub(a, r) < Sub(b, r)
  <2>1. Sub(b, a) \in 1 .. IntMax - 1  BY <1>5, <1>6, SubInOrder
  <2>2. compare_u32(a, b) = -1  BY <1>4, <2>1, CompareAwayFromIntBoundary
  <2> QED  BY <1>1, <1>6, <2>2, SMT
<1>7. CASE Sub(b, r) < Sub(a, r)
  <2>1. Sub(a, b) \in 1 .. IntMax - 1  BY <1>5, <1>7, SubInOrder
  <2>2. compare_u32(a, b) = 1  BY <1>4, <2>1, CompareAwayFromIntBoundary
  <2> QED  BY <1>1, <1>7, <2>2, SMT
<1>8. CASE Sub(a, r) = Sub(b, r)
  <2>1. a = b  BY <1>3, <1>8
  <2>2. compare_u32(a, b) = 0  BY <2>1, SMT DEF compare_u32
  <2> QED  BY <1>1, <1>8, <2>1, <2>2, SMT
<1> QED  BY <1>2, <1>6, <1>7, <1>8, SMT

\* The place in the stream of a byte n after a, when it is among the first top.
LEMMA PlaceOn ==
  ASSUME NEW r \in SeqNums, NEW top \in Nat, top < IntMax, NEW a \in SeqNums,
         NEW n \in Nat, Sub(a, r) + n <= top
  PROVE  Sub(Add(a, n), r) = Sub(a, r) + n /\ Add(a, n) \in SeqNums
<1>1. /\ Sub(a, r) \in Int /\ Sub(a, r) >= 0 /\ n \in Int
      /\ Sub(a, r) % Modulus = Sub(a, r) /\ Add(a, n) \in SeqNums
  <2>1. \A x \in SeqNums : x \in Int /\ 0 <= x  BY ModulusAssumption, SMT DEF SeqNums
  <2>2. Sub(a, r) \in SeqNums  BY <2>1, AddSubType
  <2> QED  BY <2>1, <2>2, ModFacts, AddSubType
<1>2. Sub(Add(a, n), r) = (Sub(a, r) + n) % Modulus  BY <1>1, CountOn
<1>3. Sub(a, r) + n \in SeqNums
  <2>1. IntMax < Modulus /\ Modulus \in Nat /\ IntMax \in Int
    BY HalfFacts, SMT DEF IntMax
  <2> DEFINE p == Sub(a, r)
  <2>2. p \in Int /\ p >= 0 /\ p + n <= top  BY <1>1
  <2> HIDE DEF p
  <2>3. p + n \in SeqNums  BY <2>1, <2>2, SMT DEF SeqNums
  <2> QED  BY <2>3 DEF p
<1>4. (Sub(a, r) + n) % Modulus = Sub(a, r) + n
  <2>1. Sub(a, r) + n \in Int  BY <1>1, SMT
  <2> QED  BY <1>3, <2>1, ModFacts
<1> QED  BY <1>1, <1>2, <1>4

\* The segments of a session's queue, and where they lie.
LEMMA QueueFields ==
  ASSUME NEW s \in Session
  PROVE  \A j \in 1 .. Len(s.forward) :
           LET g == s.forward[j]
           IN  /\ g \in Segment /\ g.seq \in SeqNums /\ g.len \in Nat /\ g.sent \in Nat
               /\ Sub(g.seq, s.remote_start) \in Nat
<1>1. s.forward \in Seq(Segment) /\ s.remote_start \in SeqNums  BY SessionFields
<1>2. \A j \in 1 .. Len(s.forward) : s.forward[j] \in Segment  BY <1>1, SMT
<1>3. \A x \in SeqNums : x \in Int /\ x \in Nat  BY ModulusAssumption, SMT DEF SeqNums
<1>4. \A a \in SeqNums : Sub(a, s.remote_start) \in Nat  BY <1>1, <1>3, AddSubType
<1> QED  BY <1>2, <1>4, Zenon DEF Segment

(***************************************************************************)
(* Queueing data that lies in a straight stream keeps the queue in order:  *)
(* what compare_u32 finds at or after remote_seq never comes before a      *)
(* segment that is partly sent.                                            *)
(***************************************************************************)
LEMMA EnqueueInOrder ==
  ASSUME NEW s \in Session, NEW top \in Nat, NEW pkt \in Packet,
         NEW i \in 1 .. Len(s.forward) + 1,
         Straight(s.remote_start, top), InOrder(s, top),
         IsPlace(s.forward, pkt.seq, i),
         Sub(pkt.seq, s.remote_start) + pkt.len <= top
  PROVE  /\ InOrder(queue_tcp(s, pkt, i), top)
         /\ Unsent(s) => Unsent(queue_tcp(s, pkt, i))
<1> DEFINE q == s.forward
           n == Len(q)
           r == s.remote_start
           At(j) == Sub(q[j].seq, r)
           p == Sub(pkt.seq, r)
           new == [seq |-> pkt.seq, len |-> pkt.len, sent |-> 0]
           t == queue_tcp(s, pkt, i)
<1>1. /\ q \in Seq(Segment) /\ n \in Nat /\ r \in SeqNums /\ s.remote_seq \in SeqNums
      /\ pkt.seq \in SeqNums /\ pkt.len \in Nat /\ p \in Nat /\ new \in Segment
      /\ i \in 1 .. n + 1
  <2>1. q \in Seq(Segment) /\ r \in SeqNums /\ s.remote_seq \in SeqNums  BY SessionFields
  <2>2. pkt.seq \in SeqNums /\ pkt.len \in Nat  BY Zenon DEF Packet
  <2>3. \A x \in SeqNums : x \in Int /\ x \in Nat  BY ModulusAssumption, SMT DEF SeqNums
  <2>4. p \in Nat  BY <2>1, <2>2, <2>3, AddSubType
  <2>5. n \in Nat  BY <2>1, SMT
  <2>6. new \in Segment  BY <2>2, SMT DEF Segment
  <2> QED  BY <2>1, <2>2, <2>4, <2>5, <2>6
<1>2. \A j \in 1 .. n : /\ q[j] \in Segment /\ q[j].seq \in SeqNums /\ q[j].len \in Nat
                        /\ q[j].sent \in Nat /\ At(j) \in Nat
  BY QueueFields
<1>3. /\ \A j \in 1 .. n : At(j) + q[j].len <= top
      /\ \A j, k \in 1 .. n : j < k => At(j) < At(k)
      /\ \A j \in 1 .. n :
           q[j].sent > 0 => /\ j = 1 /\ q[j].sent < q[j].len
                            /\ Add(q[j].seq, q[j].sent) = s.remote_seq
  BY Zenon DEF InOrder
<1>4. /\ \A j \in 1 .. n : j < i => At(j) < p
      /\ i <= n => p <= At(i)
      /\ i <= n => (q[i].seq = pkt.seq <=> At(i) = p)
  <2>1. p <= top /\ \A j \in 1 .. n : At(j) <= top
    <3>1. p + pkt.len <= top  OBVIOUS
    <3> HIDE DEF q, p, At, n
    <3>2. \A j \in 1 .. n : q[j].len \in Nat /\ At(j) \in Nat /\ At(j) + q[j].len <= top
      BY <1>2, <1>3
    <3>3. \A a, b \in Nat : a + b <= top => a <= top  BY SMT
    <3> QED  BY <1>1, <3>1, <3>2, <3>3, Zenon
  <2>2. \A j \in 1 .. n : /\ compare_u32(q[j].seq, pkt.seq) < 0 <=> At(j) < p
                          /\ q[j].seq = pkt.seq <=> At(j) = p
                          /\ compare_u32(q[j].seq, pkt.seq) \in Int
    <3>1. ASSUME NEW j \in 1 .. n
          PROVE  /\ compare_u32(q[j].seq, pkt.seq) < 0 <=> Sub(q[j].seq, r) < p
                 /\ q[j].seq = pkt.seq <=> Sub(q[j].seq, r) = p
                 /\ compare_u32(q[j].seq, pkt.seq) \in Int
      <4> DEFINE x == q[j].seq
                 y == pkt.seq
      <4>1. x \in SeqNums /\ y \in SeqNums /\ r \in SeqNums /\ Straight(r, top)
        BY <1>1, <1>2
      <4>2. Sub(x, r) <= top /\ Sub(y, r) <= top  BY <2>1
      <4> HIDE DEF x, y, q, r, n
      <4>3. /\ compare_u32(x, y) < 0 <=> Sub(x, r) < Sub(y, r)
            /\ x = y <=> Sub(x, r) = Sub(y, r)
            /\ compare_u32(x, y) \in Int
        BY <4>1, <4>2, StreamOrder, Zenon
      <4> QED  BY <4>3, Zenon DEF x, y, p
    <3> QED  BY <3>1, Zenon
  <2>3. \A j \in 1 .. n : j < i => compare_u32(q[j].seq, pkt.seq) < 0
    <3>1. \A j \in 1 .. n : j < i => j \in 1 .. i - 1
      <4> HIDE DEF q, n
      <4> QED  BY <1>1, SMT
    <3>2. \A j \in 1 .. i - 1 : compare_u32(q[j].seq, pkt.seq) < 0  BY Zenon DEF IsPlace
    <3> QED  BY <3>1, <3>2, Zenon
  <2>4. i <= n => i \in 1 .. n /\ ~(compare_u32(q[i].seq, pkt.seq) < 0)
    <3> SUFFICES ASSUME i <= n
                 PROVE  i \in 1 .. n /\ ~(compare_u32(q[i].seq, pkt.seq) < 0)
      OBVIOUS
    <3> DEFINE c == compare_u32(q[i].seq, pkt.seq)
    <3>1. i \in 1 .. n
      <4> HIDE DEF q, n
      <4> QED  BY <1>1, SMT
    <3>2. c >= 0  BY Zenon DEF IsPlace
    <3>3. c \in Int  BY <2>2, <3>1, Zenon
    <3> HIDE DEF c, q, n
    <3>4. ~(c < 0)  BY <3>2, <3>3, SMT
    <3> QED  BY <3>1, <3>4, Zenon DEF c
  <2>5. i <= n => ~(At(i) < p) /\ i \in 1 .. n  BY <2>2, <2>4
  <2>6. i <= n => p <= At(i)
    <3> HIDE DEF q, p, At, n
    <3> QED  BY <1>1, <1>2, <2>5, SMT
  <2> QED  BY <2>2, <2>3, <2>5, <2>6
<1>5. CASE compare_u32(pkt.seq, s.remote_seq) < 0
  <2>1. t = s  BY <1>5, Zenon DEF queue_tcp
  <2> QED  BY <2>1
<1>6. CASE ~(compare_u32(pkt.seq, s.remote_seq) < 0)
  <2>1. t = [s EXCEPT !.forward = Enqueue(@, pkt, i)]  BY <1>6, Zenon DEF queue_tcp
  <2>2. t.forward = Enqueue(q, pkt, i) /\ t.remote_start = r /\ t.remote_seq = s.remote_seq
    BY <2>1, Zenon DEF Session
  <2> HIDE DEF t
  <2>3. CASE i <= n /\ q[i].seq = pkt.seq
    <3> DEFINE len == IF q[i].len < pkt.len THEN pkt.len ELSE q[i].len
               u == [q EXCEPT ![i] = [q[i] EXCEPT !.len = len]]
    <3>1. t.forward = u  BY <2>2, <2>3, Zenon DEF Enqueue
    <3>2. At(i) = p  BY <1>4, <2>3
    <3>3. i \in 1 .. n /\ len \in Nat /\ len >= q[i].len /\ p + len <= top
      <4>1. i \in 1 .. n /\ p + pkt.len <= top  BY <1>1, <2>3, SMT
      <4>2. At(i) + q[i].len <= top /\ q[i].len \in Nat  BY <1>2, <1>3, <4>1
      <4> HIDE DEF q, p, At, n
      <4> QED  BY <1>1, <3>2, <4>1, <4>2, SMT
    <3> HIDE DEF len
    <3>4. [q[i] EXCEPT !.len = len] \in Segment  BY <1>2, <3>3, Zenon DEF Segment
    <3>5. /\ Len(u) = n
          /\ \A j \in 1 .. n : u[j] = IF j = i THEN [q[i] EXCEPT !.len = len] ELSE q[j]
      <4> HIDE DEF q
      <4> QED  BY <1>1, <3>3, <3>4, SMT
    <3>6. \A j \in 1 .. n : /\ u[j].seq = q[j].seq /\ u[j].sent = q[j].sent
                            /\ u[j].len = IF j = i THEN len ELSE q[j].len
      <4>1. /\ [q[i] EXCEPT !.len = len].seq = q[i].seq
            /\ [q[i] EXCEPT !.len = len].sent = q[i].sent
            /\ [q[i] EXCEPT !.len = len].len = len
        BY <1>2, <3>3, Zenon DEF Segment
      <4> HIDE DEF u
      <4> QED  BY <3>5, <4>1, Zenon
    <3> HIDE DEF u
    <3>7. \A j \in 1 .. n : At(j) + u[j].len <= top
      BY <1>3, <3>2, <3>3, <3>6, Zenon
    <3>8. \A j \in 1 .. n :
            u[j].sent > 0 => /\ j = 1 /\ u[j].sent < u[j].len
                             /\ Add(u[j].seq, u[j].sent) = s.remote_seq
      <4> SUFFICES ASSUME NEW j \in 1 .. n, u[j].sent > 0
                   PROVE  /\ j = 1 /\ u[j].sent < u[j].len
                          /\ Add(u[j].seq, u[j].sent) = s.remote_seq
        OBVIOUS
      <4>1. /\ j = 1 /\ q[j].sent < q[j].len
            /\ Add(q[j].seq, q[j].sent) = s.remote_seq
        BY <1>3, <3>6, Zenon
      <4>2. q[j].sent \in Nat /\ q[j].len \in Nat  BY <1>2
      <4>3. u[j].len >= q[j].len /\ u[j].len \in Nat
        <5>1. CASE j = i  BY <3>3, <3>6, <5>1, Zenon
        <5>2. CASE j # i
          <6>1. u[j].len = q[j].len  BY <3>6, <5>2, Zenon
          <6> QED  BY <4>2, <6>1, SMT
        <5> QED  BY <5>1, <5>2
      <4>4. u[j].seq = q[j].seq /\ u[j].sent = q[j].sent  BY <3>6
      <4>5. u[j].sent < u[j].len
        <5> HIDE DEF q
        <5> QED  BY <4>1, <4>2, <4>3, <4>4, SMT
      <4> QED  BY <4>1, <4>4, <4>5, Zenon
    <3>9. InOrder(t, top)
      <4>1. \A j, k \in 1 .. n : j < k => Sub(u[j].seq, r) < Sub(u[k].seq, r)
        BY <1>3, <3>6, Zenon
      <4>2. \A j \in 1 .. n : Sub(u[j].seq, r) + u[j].len <= top
        BY <3>6, <3>7, Zenon
      <4>3. /\ t.forward = u /\ t.remote_start = r /\ t.remote_seq = s.remote_seq
            /\ Len(u) = n
        BY <2>2, <3>1, <3>5
      <4> HIDE DEF q, r, n, p
      <4> QED  BY <3>8, <4>1, <4>2, <4>3, Zenon DEF InOrder
    <3>10. Unsent(s) => Unsent(t)
      <4> SUFFICES ASSUME Unsent(s)  PROVE Unsent(t)  OBVIOUS
      <4>1. \A j \in 1 .. n : u[j].sent = 0  BY <3>6, Zenon DEF Unsent
      <4>2. t.forward = u /\ Len(u) = n  BY <3>1, <3>5
      <4> HIDE DEF q, n
      <4> QED  BY <4>1, <4>2, Zenon DEF Unsent
    <3> QED  BY <3>9, <3>10 DEF t
  <2>4. CASE ~(i <= n /\ q[i].seq = pkt.seq)
    <3> DEFINE u == InsertAt(q, i, new)
    <3>1. t.forward = u  BY <2>2, <2>4, Zenon DEF Enqueue
    <3>2. /\ Len(u) = n + 1
          /\ \A j \in 1 .. n + 1 :
               u[j] = IF j < i THEN q[j] ELSE IF j = i THEN new ELSE q[j - 1]
      <4>1. i \in 1 .. Len(q) + 1 /\ q \in Seq(Segment) /\ new \in Segment  BY <1>1
      <4> HIDE DEF new, q
      <4> QED  BY <4>1, InsertSegment
    <3>3. new.seq = pkt.seq /\ new.len = pkt.len /\ new.sent = 0  BY SMT
    <3>4. i <= n => p < At(i)
      <4>1. i <= n => At(i) # p /\ p <= At(i) /\ i \in 1 .. n  BY <1>1, <1>4, <2>4, SMT
      <4>2. i <= n => At(i) \in Nat  BY <1>2, <4>1
      <4> HIDE DEF q, p, At, n
      <4> QED  BY <1>1, <4>1, <4>2, SMT
    <3>5. \A j \in 1 .. n : q[j].sent > 0 => j < i
      <4> SUFFICES ASSUME NEW j \in 1 .. n, q[j].sent > 0, i <= j  PROVE FALSE
        BY <1>1, SMT
      <4>1. /\ j = 1 /\ q[1].sent < q[1].len /\ At(1) + q[1].len <= top
            /\ Add(q[1].seq, q[1].sent) = s.remote_seq /\ 1 \in 1 .. n
        BY <1>3, Zenon
      <4>2. i = 1 /\ 1 <= n /\ p < At(1)  BY <1>1, <3>4, <4>1, SMT
      <4>3. q[1].sent \in Nat /\ q[1].len \in Nat /\ At(1) \in Nat /\ q[1].seq \in SeqNums
        BY <1>2, <4>1
      <4>4. At(1) + q[1].sent <= top
        <5> HIDE DEF q, At
        <5> QED  BY <4>1, <4>3, SMT
      <4>5. Sub(s.remote_seq, r) = At(1) + q[1].sent
        <5>1. top < IntMax  BY Zenon DEF Straight
        <5>2. Sub(Add(q[1].seq, q[1].sent), r) = At(1) + q[1].sent
          <6> DEFINE a == q[1].seq
                     m == q[1].sent
          <6>1. r \in SeqNums /\ a \in SeqNums /\ m \in Nat /\ Sub(a, r) + m <= top
            BY <1>1, <4>3, <4>4
          <6> HIDE DEF a, m, q, r
          <6>2. Sub(Add(a, m), r) = Sub(a, r) + m  BY <5>1, <6>1, PlaceOn, Zenon
          <6> QED  BY <6>2 DEF a, m
        <5> QED  BY <4>1, <5>2, Zenon
      <4>6. Sub(s.remote_seq, r) <= top /\ p <= top /\ p < Sub(s.remote_seq, r)
        <5> HIDE DEF q, At, p
        <5> QED  BY <1>1, <4>2, <4>3, <4>4, <4>5, SMT DEF p
      <4>7. compare_u32(pkt.seq, s.remote_seq) < 0  BY <1>1, <4>6, StreamOrder
      <4> QED  BY <1>6, <4>7
    <3> DEFINE new_at(j) == IF j < i THEN At(j) ELSE IF j = i THEN p ELSE At(j - 1)
    <3>6. \A j \in 1 .. n + 1 :
            /\ j < i => u[j] = q[j] /\ j \in 1 .. n
            /\ j = i => u[j] = new
            /\ j > i => u[j] = q[j - 1] /\ j - 1 \in 1 .. n
      <4> HIDE DEF new, q, u, n
      <4> QED  BY <1>1, <3>2, SMT
    <3> HIDE DEF u, new
    <3>7. \A j \in 1 .. n + 1 : Sub(u[j].seq, r) = new_at(j)
      <4> SUFFICES ASSUME NEW j \in 1 .. n + 1  PROVE Sub(u[j].seq, r) = new_at(j)
        OBVIOUS
      <4>1. CASE j < i  BY <3>6, <4>1, Zenon
      <4>2. CASE j = i
        <5>1. ~(j < i)  BY <1>1, <4>2, SMT
        <5> QED  BY <3>3, <3>6, <4>2, <5>1, Zenon
      <4>3. CASE j > i
        <5>1. ~(j < i) /\ j # i  BY <1>1, <4>3, SMT
        <5> QED  BY <3>6, <4>3, <5>1, Zenon
      <4> QED  BY <1>1, <4>1, <4>2, <4>3, SMT
    <3>8. \A j, k \in 1 .. n + 1 : j < k => new_at(j) < new_at(k)
      <4> HIDE DEF At, p, q, n
      <4> SUFFICES ASSUME NEW j \in 1 .. n + 1, NEW k \in 1 .. n + 1, j < k
                   PROVE  new_at(j) < new_at(k)
        OBVIOUS
      <4>1. \A a \in 1 .. n : At(a) \in Nat  BY <1>2
      <4>2. /\ \A a, b \in 1 .. n : a < b => At(a) < At(b)
            /\ \A a \in 1 .. n : a < i => At(a) < p
            /\ i <= n => p < At(i)
            /\ p \in Nat /\ n \in Nat
        BY <1>1, <1>3, <1>4, <3>4
      <4>3. CASE k < i
        <5>1. j \in 1 .. n /\ k \in 1 .. n /\ j < i  BY <1>1, <4>2, <4>3, SMT
        <5> QED  BY <4>2, <4>3, <5>1
      <4>4. CASE k = i  BY <4>1, <4>2, <4>4, SMT
      <4>5. CASE k > i /\ j > i  BY <4>1, <4>2, <4>5, SMT
      <4>6. CASE k > i /\ j = i
        <5>1. /\ k - 1 \in 1 .. n /\ i \in 1 .. n /\ i <= n /\ i <= k - 1
              /\ ~(k < i) /\ k # i /\ ~(j < i)
          BY <1>1, <4>2, <4>6, SMT
        <5>2. At(i) <= At(k - 1)
          <6>1. CASE i = k - 1  BY <4>1, <5>1, <6>1, SMT
          <6>2. CASE i < k - 1
            <7>1. At(i) < At(k - 1)  BY <4>2, <5>1, <6>2
            <7> QED  BY <4>1, <5>1, <7>1, SMT
          <6> QED  BY <5>1, <6>1, <6>2, SMT
        <5>3. p < At(k - 1)
          <6>1. p < At(i) /\ At(i) \in Nat /\ At(k - 1) \in Nat  BY <4>1, <4>2, <5>1
          <6> QED  BY <4>2, <5>2, <6>1, SMT
        <5> QED  BY <4>6, <5>1, <5>3, Zenon
      <4>7. CASE k > i /\ j < i  BY <4>1, <4>2, <4>7, SMT
      <4> QED  BY <4>2, <4>3, <4>4, <4>5, <4>6, <4>7, SMT
    <3>9. \A j \in 1 .. n + 1 : Sub(u[j].seq, r) + u[j].len <= top
      <4> SUFFICES ASSUME NEW j \in 1 .. n + 1
                   PROVE  Sub(u[j].seq, r) + u[j].len <= top
        OBVIOUS
      <4>1. CASE j < i  BY <1>3, <3>6, <4>1, Zenon
      <4>2. CASE j = i  BY <3>3, <3>6, <4>2, Zenon
      <4>3. CASE j > i  BY <1>3, <3>6, <4>3, Zenon
      <4> QED  BY <1>1, <4>1, <4>2, <4>3, SMT
    <3>10. \A j \in 1 .. n + 1 :
             u[j].sent > 0 => /\ j = 1 /\ u[j].sent < u[j].len
                              /\ Add(u[j].seq, u[j].sent) = s.remote_seq
      <4> SUFFICES ASSUME NEW j \in 1 .. n + 1, u[j].sent > 0
                   PROVE  /\ j = 1 /\ u[j].sent < u[j].len
                          /\ Add(u[j].seq, u[j].sent) = s.remote_seq
        OBVIOUS
      <4>1. CASE j < i  BY <1>3, <3>6, <4>1, Zenon
      <4>2. CASE j = i
        <5>1. ~(0 > 0)  BY SMT
        <5> QED  BY <3>3, <3>6, <4>2, <5>1, Zenon
      <4>3. CASE j > i
        <5>1. q[j - 1].sent > 0 /\ j - 1 \in 1 .. n  BY <3>6, <4>3, Zenon
        <5>2. j - 1 < i /\ j - 1 = 1  BY <1>3, <3>5, <5>1, Zenon
        <5> HIDE DEF n
        <5>3. FALSE  BY <1>1, <4>3, <5>2, SMT
        <5> QED  BY <5>3
      <4> QED  BY <1>1, <4>1, <4>2, <4>3, SMT
    <3>11. InOrder(t, top)
      <4>1. \A j, k \in 1 .. n + 1 : j < k => Sub(u[j].seq, r) < Sub(u[k].seq, r)
        <5> HIDE DEF new_at
        <5> QED  BY <3>7, <3>8, Zenon
      <4>2. /\ t.forward = u /\ t.remote_start = r /\ t.remote_seq = s.remote_seq
            /\ Len(u) = n + 1
        BY <2>2, <3>1, <3>2 DEF u
      <4> HIDE DEF q, r, n, p
      <4> QED  BY <3>9, <3>10, <4>1, <4>2, Zenon DEF InOrder
    <3>12. Unsent(s) => Unsent(t)
      <4> SUFFICES ASSUME Unsent(s)  PROVE Unsent(t)  OBVIOUS
      <4>1. \A j \in 1 .. n : q[j].sent = 0  BY Zenon DEF Unsent
      <4>2. \A j \in 1 .. n + 1 : j < i \/ j = i \/ j > i
        <5> HIDE DEF n
        <5> QED  BY <1>1, SMT
      <4>3. ASSUME NEW j \in 1 .. n + 1  PROVE u[j].sent = 0
        <5>1. CASE j < i  BY <3>6, <4>1, <5>1, Zenon
        <5>2. CASE j = i  BY <3>3, <3>6, <5>2, Zenon
        <5>3. CASE j > i  BY <3>6, <4>1, <5>3, Zenon
        <5> QED  BY <4>2, <5>1, <5>2, <5>3
      <4>4. t.forward = u /\ Len(u) = n + 1  BY <3>1, <3>2 DEF u
      <4> HIDE DEF q, n
      <4> QED  BY <4>3, <4>4, Zenon DEF Unsent
    <3> QED  BY <3>11, <3>12 DEF t
  <2> QED  BY <2>3, <2>4
<1> QED  BY <1>5, <1>6

\* Taking what was sent off the queue leaves the rest in order.
LEMMA ForwardInOrder ==
  ASSUME NEW s \in Session, NEW o, OutcomeOf(o, s), NEW top, InOrder(s, top),
         o.part # 0 => o.part < Left(s.forward[o.k + 1]), NEW refused \in BOOLEAN
  PROVE  LET t == Forwarded(s, o, refused)
         IN  /\ InOrder(t, top) /\ t.remote_start = s.remote_start
             /\ o.part = 0 /\ Unsent(s) => Unsent(t)
<1> DEFINE t == Forwarded(s, o, refused)
           q == s.forward
           n == Len(q)
           r == s.remote_start
           part == IF o.part = 0 THEN 0 ELSE q[o.k + 1].sent + o.part
           upto == IF o.part > 0 THEN Add(q[o.k + 1].seq, part)
                   ELSE IF o.k > 0 THEN EndOf(q[o.k]) ELSE s.remote_seq
           rest == SubSeq(q, o.k + 1, Len(q))
           next == IF o.part = 0 THEN rest ELSE [rest EXCEPT ![1].sent = part]
<1>1. /\ q \in Seq(Segment) /\ n \in Nat
      /\ o.k \in 0 .. n /\ o.part \in Nat /\ (o.part # 0 => o.k + 1 <= n)
  <2>1. q \in Seq(Segment)  BY SessionFields
  <2>2. n \in Nat  BY <2>1, SMT
  <2> QED  BY <2>1, <2>2, Zenon DEF OutcomeOf
<1>2. \A j \in 1 .. n : /\ q[j] \in Segment /\ q[j].len \in Nat /\ q[j].sent \in Nat
                        /\ Sub(q[j].seq, r) \in Nat
  BY QueueFields
<1>3. /\ \A j \in 1 .. n : Sub(q[j].seq, r) + q[j].len <= top
      /\ \A j, k \in 1 .. n : j < k => Sub(q[j].seq, r) < Sub(q[k].seq, r)
      /\ \A j \in 1 .. n :
           q[j].sent > 0 => /\ j = 1 /\ q[j].sent < q[j].len
                            /\ Add(q[j].seq, q[j].sent) = s.remote_seq
  BY Zenon DEF InOrder
<1>4. /\ rest \in Seq(Segment) /\ Len(rest) = n - o.k
      /\ \A j \in 1 .. n - o.k : o.k + j \in 1 .. n /\ rest[j] = q[o.k + j]
  <2> HIDE DEF q
  <2> QED  BY <1>1, SMT
<1>5. t.forward = next /\ t.remote_start = r /\ t.remote_seq = upto
  <2> DEFINE up == s.hist.up + Sub(upto, s.remote_seq)
  <2> HIDE DEF next, upto, up
  <2>1. t = [s EXCEPT !.forward = next, !.remote_seq = upto,
                      !.hist.up = up, !.hist.lost = @ \/ refused]
    BY Zenon DEF Forwarded, next, upto, up
  <2> HIDE DEF t
  <2> QED  BY <2>1, Zenon DEF Session
<1> HIDE DEF t, rest
<1> DEFINE m == n - o.k
<1>6. /\ Len(next) = m /\ m \in Nat
      /\ \A j \in 1 .. m : /\ next[j].seq = q[o.k + j].seq
                           /\ next[j].len = q[o.k + j].len
                           /\ next[j].sent = IF o.part # 0 /\ j = 1 THEN part
                                             ELSE q[o.k + j].sent
  <2>0. m \in Nat
    <3> HIDE DEF n
    <3> QED  BY <1>1, SMT
  <2>1. CASE o.part = 0
    BY <1>4, <2>0, <2>1, Zenon
  <2>2. CASE o.part # 0
    <3>1. 1 \in 1 .. m
      <4> HIDE DEF n
      <4> QED  BY <1>1, <2>2, SMT
    <3>2. rest[1] \in Segment /\ part \in Nat
      <4>1. rest[1] = q[o.k + 1] /\ o.k + 1 \in 1 .. n  BY <1>4, <3>1
      <4> DEFINE sofar == q[o.k + 1].sent
      <4>2. q[o.k + 1] \in Segment /\ sofar \in Nat  BY <1>2, <4>1
      <4>3. part = sofar + o.part  BY <2>2, Zenon
      <4>4. o.part \in Nat  BY <1>1
      <4> HIDE DEF sofar, part, q
      <4>5. part \in Nat  BY <4>2, <4>3, <4>4, SMT
      <4> QED  BY <4>1, <4>2, <4>5, Zenon
    <3> HIDE DEF part
    <3>3. [rest[1] EXCEPT !.sent = part] \in Segment  BY <3>2, Zenon DEF Segment
    <3> DEFINE u == [rest EXCEPT ![1] = [rest[1] EXCEPT !.sent = part]]
    <3>4. next = u  BY <2>2, Zenon
    <3>5. /\ Len(u) = m
          /\ \A j \in 1 .. m :
               u[j] = IF j = 1 THEN [rest[1] EXCEPT !.sent = part] ELSE rest[j]
      <4> HIDE DEF q, n
      <4> QED  BY <1>4, <2>0, <3>1, <3>3, SMT
    <3>6. /\ [rest[1] EXCEPT !.sent = part].seq = rest[1].seq
          /\ [rest[1] EXCEPT !.sent = part].len = rest[1].len
          /\ [rest[1] EXCEPT !.sent = part].sent = part
      BY <3>2, Zenon DEF Segment
    <3> HIDE DEF u, m, q
    <3>7. \A j \in 1 .. m : /\ u[j].seq = rest[j].seq /\ u[j].len = rest[j].len
                            /\ u[j].sent = IF j = 1 THEN part ELSE rest[j].sent
      BY <3>5, <3>6, Zenon
    <3>8. \A j \in 1 .. m : rest[j] = q[o.k + j]  BY <1>4 DEF m
    <3>9. /\ Len(u) = m
          /\ \A j \in 1 .. m : /\ u[j].seq = q[o.k + j].seq
                               /\ u[j].len = q[o.k + j].len
                               /\ u[j].sent = IF o.part # 0 /\ j = 1 THEN part
                                              ELSE q[o.k + j].sent
      <4>1. \A j \in 1 .. m : /\ u[j].seq = q[o.k + j].seq
                              /\ u[j].len = q[o.k + j].len
                              /\ u[j].sent = IF j = 1 THEN part ELSE q[o.k + j].sent
        BY <3>7, <3>8, Zenon
      <4>2. Len(u) = m  BY <3>5
      <4> QED  BY <2>2, <4>1, <4>2, Zenon
    <3> HIDE DEF next
    <3> QED  BY <2>0, <3>4, <3>9, Zenon DEF m
  <2> QED  BY <2>1, <2>2
<1>7. \A j \in 1 .. m : o.k + j \in 1 .. n  BY <1>4
<1> HIDE DEF next
<1>8. \A j \in 1 .. m : Sub(next[j].seq, r) + next[j].len <= top
  BY <1>3, <1>6, <1>7, Zenon
<1>9. \A j, k \in 1 .. m : j < k => Sub(next[j].seq, r) < Sub(next[k].seq, r)
  <2> SUFFICES ASSUME NEW j \in 1 .. m, NEW k \in 1 .. m, j < k
               PROVE  Sub(next[j].seq, r) < Sub(next[k].seq, r)
    OBVIOUS
  <2>1. o.k + j < o.k + k
    <3> HIDE DEF n
    <3> QED  BY <1>1, <1>6, SMT
  <2>2. Sub(q[o.k + j].seq, r) < Sub(q[o.k + k].seq, r)  BY <1>3, <1>7, <2>1, Zenon
  <2> QED  BY <1>6, <2>2, Zenon
<1>10. \A j \in 1 .. m :
         next[j].sent > 0 => /\ j = 1 /\ next[j].sent < next[j].len
                             /\ Add(next[j].seq, next[j].sent) = upto
  <2> SUFFICES ASSUME NEW j \in 1 .. m, next[j].sent > 0
               PROVE  /\ j = 1 /\ next[j].sent < next[j].len
                      /\ Add(next[j].seq, next[j].sent) = upto
    OBVIOUS
  <2>1. CASE o.part # 0 /\ j = 1
    <3>1. /\ next[j].sent = part /\ next[j].seq = q[o.k + 1].seq
          /\ next[j].len = q[o.k + 1].len
      BY <1>6, <2>1, Zenon
    <3>2. o.k + 1 \in 1 .. n  BY <1>7, <2>1
    <3>3. o.part > 0 /\ part < q[o.k + 1].len
      <4>1. /\ q[o.k + 1].len \in Nat /\ q[o.k + 1].sent \in Nat
            /\ o.part < q[o.k + 1].len - q[o.k + 1].sent
            /\ part = q[o.k + 1].sent + o.part
        BY <1>2, <2>1, <3>2, Zenon DEF Left
      <4> HIDE DEF part, q, n
      <4> QED  BY <1>1, <2>1, <4>1, SMT
    <3>4. upto = Add(q[o.k + 1].seq, part)  BY <3>3, Zenon
    <3> HIDE DEF upto, part
    <3> QED  BY <2>1, <3>1, <3>3, <3>4, Zenon
  <2>2. CASE ~(o.part # 0 /\ j = 1)
    <3>1. /\ next[j].sent = q[o.k + j].sent /\ next[j].seq = q[o.k + j].seq
          /\ next[j].len = q[o.k + j].len
      BY <1>6, <2>2, Zenon
    <3>2. /\ o.k + j = 1 /\ q[o.k + j].sent < q[o.k + j].len
          /\ Add(q[o.k + j].seq, q[o.k + j].sent) = s.remote_seq
      BY <1>3, <1>7, <3>1, Zenon
    <3>3. j = 1 /\ ~(o.k > 0) /\ ~(o.part > 0)
      <4> HIDE DEF n, m
      <4> QED  BY <1>1, <1>6, <2>2, <3>2, SMT
    <3>4. upto = s.remote_seq  BY <3>3, Zenon
    <3> HIDE DEF upto
    <3> QED  BY <3>1, <3>2, <3>3, <3>4, Zenon
  <2> QED  BY <2>1, <2>2
<1>11. o.part = 0 /\ Unsent(s) => \A j \in 1 .. m : next[j].sent = 0
  <2> HIDE DEF part
  <2> QED  BY <1>6, <1>7, Zenon DEF Unsent
<1> HIDE DEF upto, r, m
<1>12. InOrder(t, top)
  BY <1>5, <1>6, <1>8, <1>9, <1>10, Zenon DEF InOrder
<1>13. o.part = 0 /\ Unsent(s) => Unsent(t)
  BY <1>5, <1>6, <1>11, Zenon DEF Unsent
<1> QED  BY <1>5, <1>12, <1>13 DEF t, r

\* The pieces that touch neither the queue nor remote_seq.
LEMMA QueueUntouched ==
  ASSUME NEW s \in Session
  PROVE  /\ QueueKept(s, s)
         /\ \A ok : QueueKept(write_ack(s, ok), s)
         /\ \A pkt : QueueKept(Heard(s, pkt), s)
         /\ QueueKept(close_closing(s), s)
         /\ \A pkt : QueueKept(receive_ack(s, pkt), s)
         /\ \A n, ok : QueueKept(receive_data(s, n, ok), s)
         /\ \A v : QueueKept([s EXCEPT !.state = v], s)
         /\ \A e : QueueKept([s EXCEPT !.expired = e], s)
         /\ \A r : QueueKept([s EXCEPT !.recv_open = r], s)
         /\ \A x : QueueKept([s EXCEPT !.acked = x], s)
         /\ QueueKept([s EXCEPT !.open = FALSE, !.expired = FALSE], s)
         /\ \A events, v : QueueKept([s EXCEPT !.mask = events, !.state = v], s)
         /\ \A c, v : QueueKept([s EXCEPT !.connect_sent = c, !.state = v], s)
<1>1. QueueKept(s, s)  BY Zenon DEF QueueKept
<1>2. \A v : QueueKept([s EXCEPT !.state = v], s)  BY Zenon DEF QueueKept, Session
<1>3. \A ok : QueueKept(write_ack(s, ok), s)  BY <1>1, <1>2, Zenon DEF write_ack
<1>4. \A pkt : QueueKept(Heard(s, pkt), s)  BY Zenon DEF QueueKept, Session, Heard
<1>5. QueueKept(close_closing(s), s)
  <2>1. QueueKept([s EXCEPT !.open = FALSE, !.expired = FALSE, !.state = "CLOSE"], s)
    BY Zenon DEF QueueKept, Session
  <2> QED  BY <1>1, <2>1, Zenon DEF close_closing
<1>6. \A pkt : QueueKept(receive_ack(s, pkt), s)
  BY Zenon DEF QueueKept, Session, receive_ack
<1>7. \A n, ok : QueueKept(receive_data(s, n, ok), s)
  BY Zenon DEF QueueKept, Session, receive_data
<1>8. \A e : QueueKept([s EXCEPT !.expired = e], s)  BY Zenon DEF QueueKept, Session
<1>9. \A r : QueueKept([s EXCEPT !.recv_open = r], s)  BY Zenon DEF QueueKept, Session
<1>10. \A x : QueueKept([s EXCEPT !.acked = x], s)  BY Zenon DEF QueueKept, Session
<1>11. QueueKept([s EXCEPT !.open = FALSE, !.expired = FALSE], s)
  BY Zenon DEF QueueKept, Session
<1>12. \A events, v : QueueKept([s EXCEPT !.mask = events, !.state = v], s)
  BY Zenon DEF QueueKept, Session
<1>13. \A c, v : QueueKept([s EXCEPT !.connect_sent = c, !.state = v], s)
  BY Zenon DEF QueueKept, Session
<1> QED  BY <1>1, <1>2, <1>3, <1>4, <1>5, <1>6, <1>7, <1>8, <1>9, <1>10, <1>11, <1>12, <1>13, Zenon

\* The pieces that move remote_seq without sending: over the SYN and the FIN.
LEMMA ResetKeepsQueue ==
  ASSUME NEW s \in Session, s.state = "LISTEN" => Unsent(s)
  PROVE  /\ QueueKept(write_rst(s), s)
         /\ \A sent : QueueKept(send_connect(s, sent), s)
         /\ QueueKept(connect_reply(s), s)
         /\ QueueKept(time_out(s), s)
         /\ \A pkt : QueueKept(receive_other_ack(s, pkt), s)
<1>1. QueueKept(write_rst(s), s)
  <2> DEFINE n == IF s.state = "LISTEN" THEN 1 ELSE 0
             v == IF s.state = "CLOSE" THEN s.state ELSE "CLOSING"
             t == [s EXCEPT !.remote_seq = Add(@, n), !.hist.syn = @ + n, !.state = v]
  <2>1. write_rst(s) = t  BY Zenon DEF write_rst
  <2> HIDE DEF n, v
  <2>2. /\ t.forward = s.forward /\ t.remote_start = s.remote_start
        /\ t.remote_seq = Add(s.remote_seq, n)
    BY Zenon DEF Session
  <2> HIDE DEF t
  <2>3. CASE s.state = "LISTEN"  BY <2>1, <2>2, <2>3, Zenon DEF QueueKept
  <2>4. CASE s.state # "LISTEN"
    <3>1. n = 0  BY <2>4 DEF n
    <3>2. s.remote_seq \in SeqNums /\ s.remote_seq \in Int
      BY SessionFields, ModulusAssumption, SMT DEF SeqNums
    <3>3. s.remote_seq + 0 = s.remote_seq  BY <3>2, SMT
    <3>4. Add(s.remote_seq, 0) = s.remote_seq  BY <3>2, <3>3, ModFacts, Zenon DEF Add
    <3> QED  BY <2>1, <2>2, <3>1, <3>4, Zenon DEF QueueKept
  <2> QED  BY <2>3, <2>4
<1>2. /\ QueueKept(s, s) /\ QueueKept([s EXCEPT !.state = "CLOSING"], s)
      /\ \A x : QueueKept([s EXCEPT !.acked = x], s)
      /\ QueueKept([s EXCEPT !.connect_sent = "SENT", !.state = "LISTEN"], s)
      /\ QueueKept([s EXCEPT !.connect_sent = "ESTABLISHED", !.state = "SYN_RECV"], s)
  BY QueueUntouched, Zenon
<1>3. \A sent : QueueKept(send_connect(s, sent), s)
  BY <1>1, <1>2, Zenon DEF send_connect
<1>4. QueueKept(connect_reply(s), s)  BY <1>1, <1>2, Zenon DEF connect_reply
<1>5. QueueKept(time_out(s), s)  BY <1>1, <1>2, Zenon DEF time_out
<1>6. \A pkt : QueueKept(receive_other_ack(s, pkt), s)
  BY <1>1, <1>2, Zenon DEF receive_other_ack
<1> QED  BY <1>1, <1>3, <1>4, <1>5, <1>6

LEMMA FinKeepsQueue ==
  ASSUME NEW s \in Session, NEW ok, s.state = "FIN_WAIT1" => s.forward = <<>>
  PROVE  QueueKept(receive_fin(s, ok), s)
<1> DEFINE f == CountFin(s)
<1>1. ASSUME s.forward = <<>>, NEW v
      PROVE  QueueKept([f EXCEPT !.state = v], s)
  <2>1. /\ [f EXCEPT !.state = v].forward = s.forward
        /\ [f EXCEPT !.state = v].remote_start = s.remote_start
    BY Zenon DEF Session, CountFin
  <2>2. Unsent(s)
    <3>1. 1 .. Len(s.forward) = {}  BY <1>1, SMT
    <3> QED  BY <3>1, Zenon DEF Unsent
  <2> QED  BY <2>1, <2>2, Zenon DEF QueueKept
<1>2. QueueKept(s, s) /\ QueueKept([s EXCEPT !.state = "CLOSE_WAIT"], s)
  BY QueueUntouched, Zenon
<1> HIDE DEF f
<1>3. CASE s.state = "ESTABLISHED" /\ s.forward = <<>>
  <2>1. receive_fin(s, ok) = [f EXCEPT !.state = IF ok THEN "CLOSE_WAIT" ELSE "CLOSING"]
    BY <1>3, SMT DEF receive_fin, f
  <2> QED  BY <1>1, <1>3, <2>1, Zenon
<1>4. CASE s.state = "ESTABLISHED" /\ s.forward # <<>>
  <2>1. receive_fin(s, ok) = [s EXCEPT !.state = "CLOSE_WAIT"]
    BY <1>4, SMT DEF receive_fin
  <2> QED  BY <1>2, <2>1, Zenon
<1>5. CASE s.state = "FIN_WAIT1"
  <2>1. receive_fin(s, ok) = [f EXCEPT !.state = IF ok THEN "CLOSE" ELSE "CLOSING"]
    BY <1>5, SMT DEF receive_fin, f
  <2> QED  BY <1>1, <1>5, <2>1, Zenon
<1>6. CASE s.state \notin {"ESTABLISHED", "FIN_WAIT1"}
  <2>1. receive_fin(s, ok) = s  BY <1>6, SMT DEF receive_fin
  <2> QED  BY <1>2, <2>1, Zenon
<1> QED  BY <1>3, <1>4, <1>5, <1>6, Zenon

LEMMA AcknowledgeKeepsQueue ==
  ASSUME NEW s \in Session, NEW fwd \in BOOLEAN, NEW room \in BOOLEAN, NEW ok \in BOOLEAN
  PROVE  QueueKept(acknowledge(s, fwd, room, ok), s)
<1> DEFINE t == [s EXCEPT !.recv_open = room]
           u == IF fwd /\ s.forward = <<>> /\ s.state = "CLOSE_WAIT"
                THEN CountFin(t) ELSE t
           w == write_ack(u, ok)
           x == [w EXCEPT !.expired = @ /\ ~ok]
<1>1. t \in Session /\ QueueKept(t, s) /\ t.forward = s.forward
  <2>1. t \in Session /\ t.forward = s.forward  BY Zenon DEF Session
  <2> QED  BY <2>1, QueueUntouched, Zenon
<1> HIDE DEF t
<1>2. u \in Session /\ QueueKept(u, t)
  <2>1. CountFin(t) \in Session
    BY <1>1, CountFinType, Zenon DEF States
  <2>2. s.forward = <<>> => QueueKept(CountFin(t), t)
    <3> SUFFICES ASSUME s.forward = <<>>  PROVE QueueKept(CountFin(t), t)  OBVIOUS
    <3>1. 1 .. Len(t.forward) = {}  BY <1>1, SMT
    <3>2. CountFin(t).forward = t.forward /\ CountFin(t).remote_start = t.remote_start
      BY <1>1, Zenon DEF CountFin, Session
    <3> QED  BY <3>1, <3>2, Zenon DEF QueueKept, Unsent
  <2>3. QueueKept(t, t)  BY Zenon DEF QueueKept
  <2> QED  BY <1>1, <2>1, <2>2, <2>3, Zenon
<1> HIDE DEF u
<1>3. w \in Session /\ QueueKept(w, u)  BY <1>2, WriteType, QueueUntouched, Zenon
<1> HIDE DEF w
<1>4. QueueKept(x, w)  BY <1>3, QueueUntouched, Zenon
<1> HIDE DEF x
<1>5. acknowledge(s, fwd, room, ok) = IF fwd \/ (~s.recv_open /\ room) THEN x ELSE t
  BY Zenon DEF acknowledge, x, w, u, t
<1>6. QueueKept(x, u)  BY <1>3, <1>4, QueueKeptChain
<1>7. QueueKept(x, t)  BY <1>2, <1>6, QueueKeptChain
<1>8. QueueKept(x, s)  BY <1>1, <1>7, QueueKeptChain
<1> QED  BY <1>1, <1>5, <1>8, Zenon

LEMMA EofKeepsQueue ==
  ASSUME NEW s \in Session, NEW ok \in BOOLEAN,
         s.state \in {"ESTABLISHED", "CLOSE_WAIT"}
  PROVE  QueueKept(receive_eof(s, ok), s)
<1> DEFINE next == [ESTABLISHED |-> "FIN_WAIT1", CLOSE_WAIT |-> "LAST_ACK"]
           a == [s EXCEPT !.local_seq = Add(@, 1), !.hist.finack = @ + 1, !.state = next[@]]
           b == [s EXCEPT !.state = "CLOSING"]
           t == CASE s.forward # <<>> -> write_rst(s)
                  [] s.forward = <<>> /\ ok -> a
                  [] s.forward = <<>> /\ ~ok -> b
           w == [t EXCEPT !.open = FALSE, !.expired = FALSE]
<1> HIDE DEF next
<1>1. QueueKept(write_rst(s), s)
  <2>1. s.state # "LISTEN"  BY SMT
  <2> QED  BY <2>1, ResetKeepsQueue
<1>2. QueueKept(a, s) /\ QueueKept(b, s)  BY Zenon DEF QueueKept, Session
<1>3. t = write_rst(s) \/ t = a \/ t = b
  <2> HIDE DEF a, b
  <2> QED  BY Zenon
<1>4. receive_eof(s, ok) = w  BY Zenon DEF receive_eof, w, t, a, b, next
<1>5. t \in Session
  <2>1. write_rst(s) \in Session /\ b \in Session
    <3>1. b \in Session  BY Zenon DEF Session, States
    <3> QED  BY <3>1, WriteType, Zenon
  <2>2. a \in Session
    <3> DEFINE c == Add(s.local_seq, 1)
               d == s.hist.finack + 1
               v == next[s.state]
    <3>1. c \in SeqNums /\ d \in Nat
      BY SessionFields, AddSubType, SMT
    <3>2. v \in States  BY SMT DEF next, States
    <3> HIDE DEF c, d, v
    <3>3. [s EXCEPT !.local_seq = c, !.hist.finack = d, !.state = v] \in Session
      BY <3>1, <3>2, ZenonT(60) DEF Session, History
    <3> QED  BY <3>3, Zenon DEF c, d, v
  <2> HIDE DEF a, b, t
  <2> QED  BY <1>3, <2>1, <2>2, Zenon
<1>6. QueueKept(t, s)
  <2> HIDE DEF a, b, t
  <2> QED  BY <1>1, <1>2, <1>3, Zenon
<1> HIDE DEF t
<1>7. QueueKept(w, t)  BY <1>5, QueueUntouched
<1> HIDE DEF w
<1>8. QueueKept(w, s)  BY <1>6, <1>7, QueueKeptChain
<1> QED  BY <1>4, <1>8

LEMMA ConnectedKeepsQueue ==
  ASSUME NEW s \in Session, NEW ok \in BOOLEAN, Unsent(s)
  PROVE  QueueKept(connected(s, ok), s)
<1> DEFINE a == Add(s.remote_seq, 1)
           b == s.hist.syn + 1
           t == [s EXCEPT !.remote_seq = a, !.hist.syn = b]
           c == Add(s.local_seq, 1)
           u == [t EXCEPT !.expired = FALSE, !.local_seq = Add(@, 1),
                          !.hist.synack = @ + 1, !.state = "SYN_RECV"]
           v == [t EXCEPT !.state = "CLOSING"]
<1> HIDE DEF a, b
<1>1. QueueKept(u, s) /\ QueueKept(v, s)
  BY Zenon DEF QueueKept, Session
<1>2. connected(s, ok) = IF ok THEN u ELSE v
  BY Zenon DEF connected, u, v, t, a, b
<1> HIDE DEF u, v
<1> QED  BY <1>1, <1>2, Zenon
=============================================================================
