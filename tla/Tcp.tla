-------------------------------- MODULE Tcp --------------------------------
(***************************************************************************)
(* One TCP session of the tun2http engine (tcp.c): the record the code     *)
(* keeps in struct ng_session / struct tcp_session, and each piece of the  *)
(* handlers that reads or changes it, as an operator from session to       *)
(* session.  TcpLoop.tla runs them from the event loop.                    *)
(*                                                                         *)
(* The "app" is the TCP client on the device, whose packets come from the  *)
(* tun device.  The "server" is whatever the engine's own socket connects  *)
(* to: an HTTP proxy for the ports 80 and 443, the real destination for    *)
(* any other port.  "remote" in a field's name is the app's side and       *)
(* "local" the engine's, as in the code.                                   *)
(***************************************************************************)
EXTENDS SeqNum, SequencesExt

CONSTANT Windows   \* the receive windows the app advertises, scaled

ASSUME WindowsAssumption == Windows \subseteq Nat

States == {"NONE",                 \* no session in this slot
           "LISTEN", "SYN_RECV", "ESTABLISHED", "CLOSE_WAIT",
           "FIN_WAIT1", "LAST_ACK", "CLOSING", "CLOSE"}

Dests == {"http", "https", "other"}      \* destination ports 80, 443, others

Flags == {"SYN", "ACK", "FIN", "RST"}

\* A packet the app sends.  URG packets are dropped before anything else.
Packet == [flags : SUBSET Flags, seq : SeqNums, ack_seq : SeqNums,
           len : Nat, window : Windows]

\* What send_window takes: nothing, or what the last packet advertised.
SendWindows == {0} \cup Windows

\* struct segment: data waiting to be sent to the server.
Segment == [seq : SeqNums, len : Nat, sent : Nat]

\* What the handlers have done to this session since its SYN.  These counts
\* are not in the code; the properties are stated with them.
\*   syn, fin : how often remote_seq was advanced over the app's SYN, FIN
\*   up       : bytes counted as sent to the server
\*   lost     : some of them were refused by the socket
\*   synack, finack : SYN-ACKs and FIN-ACKs written to the app
\*   down     : bytes read from the server
History == [syn : Nat, fin : Nat, up : Nat, lost : BOOLEAN,
            synack : Nat, finack : Nat, down : Nat]

Session == [state : States, dest : Dests,
            connect_sent : {"NOT_SENT", "SENT", "ESTABLISHED"},
            open : BOOLEAN,        \* socket >= 0
            mask : SUBSET {"IN", "OUT"},   \* ev.events; ERR is always set
            remote_seq : SeqNums, local_seq : SeqNums,
            remote_start : SeqNums, local_start : SeqNums,
            acked : SeqNums, send_window : SendWindows,
            recv_open : BOOLEAN,   \* recv_window > 0
            forward : Seq(Segment),
            expired : BOOLEAN,     \* the timeout has passed since tcp.time
            hist : History]

NoHistory == [syn |-> 0, fin |-> 0, up |-> 0, lost |-> FALSE,
              synack |-> 0, finack |-> 0, down |-> 0]

NoSession ==
  [state |-> "NONE", dest |-> "other", connect_sent |-> "NOT_SENT",
   open |-> FALSE, mask |-> {}, remote_seq |-> 0, local_seq |-> 0,
   remote_start |-> 0, local_start |-> 0, acked |-> 0, send_window |-> 0,
   recv_open |-> FALSE, forward |-> <<>>, expired |-> FALSE,
   hist |-> NoHistory]

\* The session a SYN opens.
NewSession(pkt, dest, isn, room) ==
  [state |-> "LISTEN", dest |-> dest,
   connect_sent |-> IF dest = "http" THEN "ESTABLISHED" ELSE "NOT_SENT",
   open |-> TRUE, mask |-> {"OUT"},
   remote_seq |-> pkt.seq, local_seq |-> isn,
   remote_start |-> pkt.seq, local_start |-> isn,
   acked |-> 0, send_window |-> pkt.window, recv_open |-> room,
   forward |-> IF pkt.len = 0 THEN <<>>
               ELSE <<[seq |-> pkt.seq, len |-> pkt.len, sent |-> 0]>>,
   expired |-> FALSE, hist |-> NoHistory]

-----------------------------------------------------------------------------
\* Writing to the tun device.  ok: the whole packet was written.

write_ack(s, ok) == IF ok THEN s ELSE [s EXCEPT !.state = "CLOSING"]

\* Mutant of write_rst: the state is not looked at before it is set.
write_rst_always(s) ==
  LET syn == IF s.state = "LISTEN" THEN 1 ELSE 0
  IN  [s EXCEPT !.remote_seq = Add(@, syn), !.hist.syn = @ + syn,
                !.state = "CLOSING"]

write_rst(s) ==
  LET syn == IF s.state = "LISTEN" THEN 1 ELSE 0
  IN  [s EXCEPT !.remote_seq = Add(@, syn),
                !.hist.syn = @ + syn,
                !.state = IF @ = "CLOSE" THEN @ ELSE "CLOSING"]

-----------------------------------------------------------------------------
\* The queue of segments to forward.

\* Mutant of IsPlace: every segment goes to the end of the queue.
IsPlace_tail(q, seq, i) == i = Len(q) + 1

\* The place of a segment that starts at seq in queue q: before the first one
\* that does not start before it.
IsPlace(q, seq, i) ==
  /\ \A j \in 1 .. i - 1 : compare_u32(q[j].seq, seq) < 0
  /\ i <= Len(q) => compare_u32(q[i].seq, seq) >= 0

\* Of two segments that start at the same byte the longer one is kept.
Enqueue(q, pkt, i) ==
  IF i <= Len(q) /\ q[i].seq = pkt.seq
  THEN [q EXCEPT ![i].len = IF @ < pkt.len THEN pkt.len ELSE @]
  ELSE InsertAt(q, i, [seq |-> pkt.seq, len |-> pkt.len, sent |-> 0])

\* Queue the packet at its place i unless its first byte was forwarded.
queue_tcp(s, pkt, i) ==
  IF compare_u32(pkt.seq, s.remote_seq) < 0
  THEN s
  ELSE [s EXCEPT !.forward = Enqueue(@, pkt, i)]

Left(seg) == seg.len - seg.sent

EndOf(seg) == Add(seg.seq, seg.len)

\* Can the first k segments go out in one round of the forwarding loop, to a
\* socket with room for fewer than buffer_size bytes?  Each starts where the
\* one before it ends, and the last byte still fits.
CanForward(s, k, buffer_size) ==
  /\ k <= Len(s.forward)
  /\ \A i \in 1 .. k :
       LET q == s.forward
       IN  /\ Add(q[i].seq, q[i].sent) =
                IF i = 1 THEN s.remote_seq ELSE EndOf(q[i - 1])
           /\ Left(q[i]) <
                buffer_size - (IF i = 1 THEN 0
                               ELSE Sub(EndOf(q[i - 1]), s.remote_seq))

\* The outcomes of the loop: the first k segments are sent whole and, when
\* part > 0, so are part bytes of the next one; else the loop stopped because
\* the next one cannot go out.
ForwardOutcomes(s, buffer_size) ==
  { o \in [k : 0 .. Len(s.forward), part : 0 .. buffer_size] :
      /\ CanForward(s, o.k, buffer_size)
      /\ IF o.part = 0
         THEN ~CanForward(s, o.k + 1, buffer_size)
         ELSE /\ CanForward(s, o.k + 1, buffer_size)
              /\ o.part < Left(s.forward[o.k + 1]) }

\* remote_seq follows the last byte sent.  A send that fails returns -1,
\* which "sent > len" compares as a size_t: it counts as len bytes sent
\* (refused: the socket took none of a segment's bytes).
Forwarded(s, o, refused) ==
  LET q == s.forward
      part == IF o.part = 0 THEN 0 ELSE q[o.k + 1].sent + o.part
      upto == IF o.part > 0 THEN Add(q[o.k + 1].seq, part)
              ELSE IF o.k > 0 THEN EndOf(q[o.k]) ELSE s.remote_seq
      rest == SubSeq(q, o.k + 1, Len(q))
  IN  [s EXCEPT !.forward = IF o.part = 0 THEN rest ELSE [rest EXCEPT ![1].sent = part],
                !.remote_seq = upto,
                !.hist.up = @ + Sub(upto, s.remote_seq),
                !.hist.lost = @ \/ refused]

-----------------------------------------------------------------------------
\* The pieces of handle_tcp, for a packet of an existing session.

\* Mutant of get_send_window: bytes in flight are forgotten.
get_send_window_full(s) == s.send_window

get_send_window(s) ==
  LET behind == IF compare_u32(s.acked, s.local_seq) <= 0
                THEN Sub(s.local_seq, s.acked) ELSE s.acked
  IN  IF behind < s.send_window THEN s.send_window - behind ELSE 0

\* The HTTP CONNECT for port 443.  lookup_hostname always yields a name (the
\* address, without DNS_LOOKUPS), so the first packet of the session sends it.
send_connect(s, sent) ==
  IF sent THEN [s EXCEPT !.connect_sent = "SENT", !.state = "LISTEN"]
  ELSE write_rst(s)

\* Mutant of Connecting: only a CONNECT that was sent is waited for.
Connecting_sent(s) == s.dest = "https" /\ s.connect_sent = "SENT"

\* Until the proxy has answered the CONNECT, packets are only queued.
Connecting(s) == s.dest = "https" /\ s.connect_sent # "ESTABLISHED"

\* Every other packet refreshes the timeout and the send window.
Heard(s, pkt) == [s EXCEPT !.expired = FALSE, !.send_window = pkt.window]

Taken(s, pkt, i) ==
  IF pkt.len > 0 THEN queue_tcp(Heard(s, pkt), pkt, i) ELSE Heard(s, pkt)

AcksAll(s, pkt) == "ACK" \notin pkt.flags \/ pkt.ack_seq = s.local_seq

\* remote_seq moves over the app's FIN.
CountFin(s) == [s EXCEPT !.remote_seq = Add(@, 1), !.hist.fin = @ + 1]

\* Mutant of receive_fin: the FIN is counted though data is still queued.
receive_fin_early(s, ok) ==
  CASE s.state = "ESTABLISHED" ->
         [CountFin(s) EXCEPT !.state = IF ok THEN "CLOSE_WAIT" ELSE "CLOSING"]
    [] s.state = "FIN_WAIT1" ->
         [CountFin(s) EXCEPT !.state = IF ok THEN "CLOSE" ELSE "CLOSING"]
    [] OTHER -> s

receive_fin(s, ok) ==
  CASE s.state = "ESTABLISHED" /\ s.forward = <<>> ->
         [CountFin(s) EXCEPT !.state = IF ok THEN "CLOSE_WAIT" ELSE "CLOSING"]
    [] s.state = "ESTABLISHED" /\ s.forward # <<>> ->
         [s EXCEPT !.state = "CLOSE_WAIT"]
    [] s.state = "FIN_WAIT1" ->
         [CountFin(s) EXCEPT !.state = IF ok THEN "CLOSE" ELSE "CLOSING"]
    [] OTHER -> s

receive_ack(s, pkt) ==
  [s EXCEPT !.acked = pkt.ack_seq,
            !.state = IF @ = "SYN_RECV" THEN "ESTABLISHED"
                      ELSE IF @ = "LAST_ACK" THEN "CLOSING" ELSE @]

\* Mutant of receive_other_ack: future acknowledgements are not refused.
receive_other_ack_any(s, pkt) ==
  IF compare_u32(pkt.ack_seq, s.acked) <= 0 THEN s
  ELSE [s EXCEPT !.acked = pkt.ack_seq]

\* An acknowledgement of anything but all that was sent: a keep-alive, an
\* older one, or one of bytes never sent.
receive_other_ack(s, pkt) ==
  IF Add(pkt.ack_seq, 1) = s.local_seq THEN s
  ELSE IF compare_u32(pkt.ack_seq, s.local_seq) >= 0 THEN write_rst(s)
  ELSE IF compare_u32(pkt.ack_seq, s.acked) <= 0 THEN s
  ELSE [s EXCEPT !.acked = pkt.ack_seq]

-----------------------------------------------------------------------------
\* The pieces of check_tcp_socket.

\* The socket is connected: answer the app's SYN.
connected(s, ok) ==
  LET t == [s EXCEPT !.remote_seq = Add(@, 1), !.hist.syn = @ + 1]
  IN  IF ok
      THEN [t EXCEPT !.expired = FALSE, !.local_seq = Add(@, 1),
                     !.hist.synack = @ + 1, !.state = "SYN_RECV"]
      ELSE [t EXCEPT !.state = "CLOSING"]

\* Something arrived on the socket of a session in LISTEN: any answer to the
\* CONNECT is taken for success, whatever its status.
connect_reply(s) ==
  IF s.connect_sent = "SENT"
  THEN [s EXCEPT !.connect_sent = "ESTABLISHED", !.state = "SYN_RECV"]
  ELSE write_rst(s)

\* After the forwarding loop: the receive window is measured again (room),
\* and what was forwarded, or a window that opened, is acknowledged.
acknowledge(s, fwd, room, ok) ==
  LET t == [s EXCEPT !.recv_open = room]
      u == IF fwd /\ s.forward = <<>> /\ s.state = "CLOSE_WAIT"
           THEN CountFin(t) ELSE t
  IN  IF fwd \/ (~s.recv_open /\ room)
      THEN [write_ack(u, ok) EXCEPT !.expired = @ /\ ~ok]
      ELSE t

\* Mutant of receive_eof: the FIN is sent without a sequence number of its own.
receive_eof_uncounted(s, ok) ==
  LET next == [ESTABLISHED |-> "FIN_WAIT1", CLOSE_WAIT |-> "LAST_ACK"]
      t == IF s.forward # <<>> THEN write_rst(s)
           ELSE IF ok THEN [s EXCEPT !.hist.finack = @ + 1, !.state = next[@]]
           ELSE [s EXCEPT !.state = "CLOSING"]
  IN  [t EXCEPT !.open = FALSE, !.expired = FALSE]

\* Mutant of receive_eof: the closed descriptor is not forgotten.
receive_eof_open(s, ok) ==
  LET next == [ESTABLISHED |-> "FIN_WAIT1", CLOSE_WAIT |-> "LAST_ACK"]
      t == IF s.forward # <<>> THEN write_rst(s)
           ELSE IF ok THEN [s EXCEPT !.local_seq = Add(@, 1),
                                     !.hist.finack = @ + 1, !.state = next[@]]
           ELSE [s EXCEPT !.state = "CLOSING"]
  IN  [t EXCEPT !.expired = FALSE]

\* End of file on the socket.  ok: the FIN-ACK was written.
receive_eof(s, ok) ==
  LET next == [ESTABLISHED |-> "FIN_WAIT1", CLOSE_WAIT |-> "LAST_ACK"]
      t == CASE s.forward # <<>> -> write_rst(s)
             [] s.forward = <<>> /\ ok ->
                  [s EXCEPT !.local_seq = Add(@, 1), !.hist.finack = @ + 1,
                            !.state = next[@]]
             [] s.forward = <<>> /\ ~ok -> [s EXCEPT !.state = "CLOSING"]
  IN  [t EXCEPT !.open = FALSE, !.expired = FALSE]

\* n bytes arrived from the server.  ok: they were written to the app.
receive_data(s, n, ok) ==
  LET t == [s EXCEPT !.expired = FALSE, !.hist.down = @ + n]
  IN  IF ok THEN [t EXCEPT !.local_seq = Add(@, n)]
      ELSE [t EXCEPT !.state = "CLOSING"]

-----------------------------------------------------------------------------
\* The pieces of monitor_tcp_session and check_tcp_session.

\* Mutant of Events: a session in LISTEN always waits for an answer.
Events_in(s, room) ==
  CASE s.state = "LISTEN" -> {"IN"}
    [] s.state \in {"ESTABLISHED", "CLOSE_WAIT"} ->
         (IF get_send_window(s) > 0 THEN {"IN"} ELSE {})
           \cup (IF room THEN {"OUT"} ELSE {})
    [] OTHER -> {}

\* Mutant of Events: nothing is forwarded while the app's window is closed.
Events_window(s, room) ==
  CASE s.state = "LISTEN" ->
         IF s.connect_sent = "SENT" /\ s.dest = "https" THEN {"IN"} ELSE {"OUT"}
    [] s.state \in {"ESTABLISHED", "CLOSE_WAIT"} /\ get_send_window(s) > 0 ->
         {"IN"} \cup (IF room THEN {"OUT"} ELSE {})
    [] OTHER -> {}

\* The events the session waits for; room: the segment at the head may go.
Events(s, room) ==
  CASE s.state = "LISTEN" ->
         IF s.connect_sent = "SENT" /\ s.dest = "https" THEN {"IN"} ELSE {"OUT"}
    [] s.state \in {"ESTABLISHED", "CLOSE_WAIT"} ->
         (IF get_send_window(s) > 0 THEN {"IN"} ELSE {})
           \cup (IF room THEN {"OUT"} ELSE {})
    [] OTHER -> {}

\* A session whose time has passed: silently dropped before its SYN was
\* answered, else reset.
time_out(s) ==
  IF ~s.expired \/ s.state \in {"CLOSING", "CLOSE"} THEN s
  ELSE IF s.state = "LISTEN" THEN [s EXCEPT !.state = "CLOSING"]
  ELSE write_rst(s)

\* Mutant of close_closing: the socket is left open.
close_closing_leak(s) ==
  IF s.state # "CLOSING" THEN s
  ELSE [s EXCEPT !.expired = FALSE, !.state = "CLOSE"]

close_closing(s) ==
  IF s.state # "CLOSING" THEN s
  ELSE [s EXCEPT !.open = FALSE, !.expired = FALSE, !.state = "CLOSE"]
=============================================================================
