------------------------------ MODULE Sessions ------------------------------
(***************************************************************************)
(* The list of sessions of the tun2http engine and the loop that serves it *)
(* (session.c, and ip.c for the packets of the apps): every UDP and ICMP   *)
(* session in full, TCP sessions as SessionLife describes them, the limit  *)
(* on sessions, the time epoll_wait may sleep, the end of the thread with  *)
(* and without the list being cleared, and the next thread.                *)
(*                                                                         *)
(* The list is a function: a slot is the memory and the descriptor of a    *)
(* session.  The loop counts and checks the sessions ("round"), waits      *)
(* ("poll") and handles a batch of events ("dispatch", and "tun" while it  *)
(* reads the packets of the apps).  Time passes in epoll_wait.             *)
(*                                                                         *)
(* A resolver process, forked for a DNS query (udp.c:394), holds a copy of *)
(* every open descriptor for some two seconds.  epoll registers what the   *)
(* copies share: a socket closed meanwhile stays registered, and its       *)
(* events go on carrying the pointer to the session, or, of ICMP, to the   *)
(* memory that was its, which a new session may have got.                  *)
(***************************************************************************)
EXTENDS Udp, Icmp, FiniteSetsExt

CONSTANTS
  Slots,          \* bound: how many sessions there is memory for
  EPOLL_TIMEOUT,
  fwd53,          \* the setting of that name
  TunErrors       \* may the tun device fail, or a write to it, or epoll?

ASSUME SlotsAssumption ==
  /\ IsFiniteSet(Slots) /\ {"tun", "pipe"} \cap Slots = {}
  /\ IsFiniteSet(Ids)
  /\ EPOLL_TIMEOUT \in Nat \ {0}
  /\ fwd53 \in BOOLEAN /\ TunErrors \in BOOLEAN

VARIABLES
  session,    \* the list
  fds,        \* slots whose socket >= 0
  readable,   \* slots whose socket has something to read
  failed,     \* slots whose socket has an error pending
  held,       \* closed sockets epoll still reports: their slot, their flow
  phase,      \* where the thread is; "off": there is none
  sessions,   \* as counted at the beginning of the round
  wait,       \* seconds epoll_wait may still sleep
  batch,      \* events not yet handled: Event, Tun or Pipe
  resolvers   \* DNS flows with a query at a resolver process

vars == <<session, fds, readable, failed, held, phase, sessions, wait, batch, resolvers>>

\* An event of the socket of the session in slot; or of one closed before, with
\* the same pointer.
Event == [slot : Slots, ev : {"IN", "ERR"}, closed : BOOLEAN]

\* The events of the tun device and of the pipe.
Tun == [slot |-> "tun", ev |-> "IN"]
Pipe == [slot |-> "pipe", ev |-> "IN"]

Phases == {"off",
           "start",       \* a new thread, before its first round
           "round", "poll", "dispatch", "tun"}

\* The list, the kernel's view of the sockets and the loop's variables hold the
\* values the handlers give them; the counter is never below zero.
TypeOK ==
  /\ session \in [Slots -> Session]
  /\ fds \subseteq Slots /\ readable \subseteq fds /\ failed \subseteq fds
  /\ held \subseteq [slot : Slots, flow : Flows]
  /\ phase \in Phases /\ sessions \in 0 .. Cardinality(Slots)
  /\ wait \in 0 .. EPOLL_TIMEOUT
  /\ batch \subseteq Event \cup {Tun, Pipe}
  /\ resolvers \subseteq DnsFlows

Init ==
  /\ session = [s \in Slots |-> NoSession]
  /\ fds = {} /\ readable = {} /\ failed = {} /\ held = {}
  /\ phase = "off" /\ sessions = 0 /\ wait = 0 /\ batch = {} /\ resolvers = {}

sockets == <<fds, readable, failed, held>>

Active == { s \in Slots : session[s].state = "ACTIVE" }
Of(protocol) == { s \in Slots : session[s].flow \in protocol }

HeldSlots == { h.slot : h \in held }

\* The sockets a resolver may hold a copy of.  Those of an earlier thread are not
\* registered with the epoll instance of this one.
Shared == IF resolvers = {} \/ phase \in {"off", "start"} THEN {} ELSE fds

\* close(s->socket) for the slots in closed.
CloseSockets(closed) ==
  /\ fds' = fds \ closed
  /\ readable' = readable \ closed
  /\ failed' = failed \ closed
  /\ \E kept \in SUBSET (closed \cap Shared) :
       held' = held \cup { [slot |-> s, flow |-> session[s].flow] : s \in kept }

-----------------------------------------------------------------------------
\* The thread starts: what an earlier thread left is to be finished
\* (check_allowed).  TCP sessions are reset, which leaves them closing.

CheckAllowed(u) == IF u.state = "ACTIVE" THEN [u EXCEPT !.state = "FINISHING"] ELSE u

Start ==
  /\ phase = "off" /\ phase' = "start"
  /\ session' = [s \in Slots |-> CheckAllowed(session[s])]
  /\ UNCHANGED <<sockets, sessions, wait, batch, resolvers>>

\* The thread ends, with what epoll_wait has returned and the epoll instance.
EndThread ==
  /\ phase' = "off" /\ batch' = {} /\ held' = {}
  /\ UNCHANGED <<session, fds, readable, failed, sessions, wait, resolvers>>

\* A byte in the pipe ends the loop, whatever is left of the batch.
Stop == phase = "dispatch" /\ Pipe \in batch /\ EndThread

\* The tun device or epoll fails: the thread ends by itself.
Break == TunErrors /\ phase \in {"start", "poll", "tun"} /\ EndThread

\* clear: the list is freed, by jni_stop after it has waited for the thread, or
\* by jni_done.
ClearList ==
  /\ session' = [s \in Slots |-> NoSession]
  /\ CloseSockets(Slots)
  /\ UNCHANGED <<phase, sessions, wait, batch, resolvers>>

Clear == phase = "off" /\ ClearList

-----------------------------------------------------------------------------
\* One round: count the sessions, check them, find out how long to sleep.

\* check_tcp_session, seen from outside (see TcpLoop for all of it).
check_tcp_session(u, n) ==
  IF u.state = "FINISHING" \/ Idle(u, n)
  THEN [u EXCEPT !.state = "CLOSED", !.age = 0]
  ELSE IF u.state = "CLOSED" /\ u.age > TCP_KEEP_TIMEOUT THEN NoSession ELSE u

check_session(u, n) ==
  CASE u.flow \in IcmpFlows -> check_icmp_session(u, n)
    [] u.flow \in TcpFlows -> check_tcp_session(u, n)
    [] OTHER -> check_udp_session(u, n)

\* monitor_tcp_session of all TCP sessions: what epoll waits for cannot be set
\* for some, which are then closing.
Monitored ==
  LET open == Active \cap Of(TcpFlows) \cap fds
  IN  { [s \in Slots |-> IF s \in broken THEN [session[s] EXCEPT !.state = "FINISHING"]
                         ELSE session[s]] :
        broken \in IF TunErrors THEN SUBSET open ELSE {{}} }

\* The check of all sessions closes the sockets of those it closes or removes.
CheckSessions(list, n) ==
  /\ session' = [s \in Slots |-> check_session(list[s], n)]
  /\ CloseSockets({ s \in Slots : session'[s].state \in {"CLOSED", "NONE"} })

\* The time to the first timeout of a session that is still active.  Closed
\* sessions wake nobody.
Sleep(list, n) ==
  Min({EPOLL_TIMEOUT} \cup
      { t \in { get_timeout(list[s], n) - list[s].age + 1 :
                s \in { s \in Slots : list[s].state = "ACTIVE" } } : t > 0 })

\* A TCP session may ask for a recheck after EPOLL_MIN_CHECK ms.
Round ==
  /\ phase \in {"start", "round"} /\ phase' = "poll"
  /\ sessions' = Cardinality(Active)
  /\ \E list \in Monitored : CheckSessions(list, sessions')
  /\ wait' \in {Sleep(session', sessions')} \cup
               (IF Of(TcpFlows) \cap fds = {} THEN {} ELSE {0})
  /\ UNCHANGED <<batch, resolvers>>

\* Less than EPOLL_MIN_CHECK ms since the last check of this thread.
RoundUnchecked ==
  /\ phase = "round" /\ phase' = "poll"
  /\ sessions' = Cardinality(Active)
  /\ wait' = 0
  /\ session' \in Monitored
  /\ UNCHANGED <<sockets, batch, resolvers>>

-----------------------------------------------------------------------------
\* Waiting.

\* A second passes.
Older(u) ==
  IF u.state = "NONE" THEN u
  ELSE [u EXCEPT !.age = IF @ < MaxAge THEN @ + 1 ELSE @, !.used = FALSE]

\* No resolver lives as long as a closed session stays in the list: 2 seconds
\* against the 60 of UDP_KEEP_TIMEOUT and the 300 of TCP_KEEP_TIMEOUT.
Outlived ==
  \A h \in held \ [slot : Slots, flow : IcmpFlows] :
    session[h.slot].state = "CLOSED" => session[h.slot].age < keep_timeout(h.flow)

Tick ==
  /\ phase = "poll" /\ wait > 0 /\ Outlived
  /\ wait' = wait - 1
  /\ session' = [s \in Slots |-> Older(session[s])]
  /\ UNCHANGED <<sockets, phase, sessions, batch, resolvers>>

\* epoll_wait returns every socket that is ready, the tun device when an app has
\* sent something, and the pipe when it holds a byte; or nothing, when its time
\* is over or on a signal.  Of the closed sockets that are held, any.
EpollWait ==
  /\ phase = "poll" /\ phase' = "dispatch" /\ wait' = 0
  /\ \E other \in SUBSET ({Tun, Pipe} \cup
          [slot : HeldSlots, ev : {"IN", "ERR"}, closed : {TRUE}]) :
       batch' = other \cup [slot : failed, ev : {"ERR"}, closed : {FALSE}]
                    \cup [slot : readable \ failed, ev : {"IN"}, closed : {FALSE}]
  /\ UNCHANGED <<session, sockets, sessions, resolvers>>

EndDispatch ==
  /\ phase = "dispatch" /\ batch = {} /\ phase' = "round"
  /\ UNCHANGED <<session, sockets, sessions, wait, batch, resolvers>>

-----------------------------------------------------------------------------
\* Check downstream: one event of a session's socket.

Ok == IF TunErrors THEN BOOLEAN ELSE {TRUE}

SocketEvent(s, ev) ==
  /\ phase = "dispatch"
  /\ \E e \in batch : e.slot = s /\ e.ev = ev /\ batch' = batch \ {e}
  /\ UNCHANGED <<phase, sessions, wait, resolvers>>

Update(s, u) == session' = [session EXCEPT ![s] = u]

\* Datagrams are read until there are none.  An error that has come up since
\* epoll_wait returned is what the first recv returns.
UdpReadable(s) ==
  /\ s \in Of(DnsFlows \cup UdpFlows) /\ SocketEvent(s, "IN") /\ s \in readable
  /\ \E ok \in Ok : Update(s, check_udp_socket(session[s], ok /\ s \notin failed))
  /\ readable' = readable \ {s} /\ failed' = failed \ {s}
  /\ UNCHANGED <<fds, held>>

\* Nothing is done for an event with EPOLLERR, or when there is nothing to read.
UdpIgnored(s) ==
  /\ s \in Of(DnsFlows \cup UdpFlows)
  /\ SocketEvent(s, "ERR") \/ (SocketEvent(s, "IN") /\ s \notin readable)
  /\ UNCHANGED <<session, sockets>>

\* The reply to the echo request with identifier id.  (recv waits for it when
\* the event is that of a socket closed before: see Blocked.)
EchoReply(s, id) ==
  /\ s \in Of(IcmpFlows) /\ SocketEvent(s, "IN") /\ s \in readable
  /\ s \notin failed /\ id \in session[s].pinged
  /\ \E ok \in Ok : Update(s, check_icmp_socket(session[s], ok))
  /\ readable' = readable \ {s} /\ UNCHANGED <<fds, failed, held>>

\* An error, which getsockopt or recv clears.
IcmpError(s) ==
  /\ s \in Of(IcmpFlows)
  /\ SocketEvent(s, "ERR") \/ (SocketEvent(s, "IN") /\ s \in failed)
  /\ Update(s, check_icmp_socket(session[s], FALSE))
  /\ failed' = failed \ {s} /\ UNCHANGED <<fds, readable, held>>

\* The event of a closed ICMP session, whose memory is free: what is read and
\* written there is not the list.
FreedEvent(s) ==
  /\ session[s] = NoSession
  /\ SocketEvent(s, "IN") \/ SocketEvent(s, "ERR")
  /\ UNCHANGED <<session, sockets>>

\* check_tcp_socket: what TcpLoop does to its session's state.  A failed or a
\* closed socket, a failed write or a failed recv: the app gets a reset.
TcpReset(s) ==
  /\ s \in Of(TcpFlows)
  /\ SocketEvent(s, "ERR") \/ (SocketEvent(s, "IN") /\ s \in fds)
  /\ Update(s, [session[s] EXCEPT !.age = 0,
                                  !.state = IF @ = "CLOSED" THEN @ ELSE "FINISHING"])
  /\ readable' = readable \ {s} /\ failed' = failed \ {s}
  /\ UNCHANGED <<fds, held>>

TcpRelay(s) ==
  /\ s \in Of(TcpFlows) /\ SocketEvent(s, "IN") /\ s \in fds \ failed
  /\ Update(s, [session[s] EXCEPT !.age = 0])
  /\ readable' = readable \ {s} /\ UNCHANGED <<fds, failed, held>>

\* The end of file closes the socket.  Data still queued for it, or the failure
\* to tell the app, end the session.
TcpEof(s) ==
  /\ s \in Of(TcpFlows) /\ SocketEvent(s, "IN") /\ s \in fds \ failed
  /\ session[s].state = "ACTIVE"
  /\ \E state \in {"ACTIVE", "FINISHING"} :
       Update(s, [session[s] EXCEPT !.age = 0, !.state = state])
  /\ CloseSockets({s})

TcpGone(s) ==
  /\ s \in Of(TcpFlows) /\ SocketEvent(s, "IN") /\ s \notin fds
  /\ UNCHANGED <<session, sockets>>

CheckSocket ==
  \E s \in Slots :
    \/ UdpReadable(s) \/ UdpIgnored(s) \/ IcmpError(s) \/ FreedEvent(s)
    \/ TcpReset(s) \/ TcpRelay(s) \/ TcpEof(s) \/ TcpGone(s)
    \/ \E id \in Ids : EchoReply(s, id)

-----------------------------------------------------------------------------
\* Check upstream: packets of the apps, as long as there are any.

TunReadable ==
  /\ phase = "dispatch" /\ Tun \in batch
  /\ phase' = "tun" /\ batch' = batch \ {Tun}
  /\ UNCHANGED <<session, sockets, sessions, wait, resolvers>>

TunEmpty ==
  /\ phase = "tun" /\ phase' = "dispatch"
  /\ UNCHANGED <<session, sockets, sessions, wait, batch, resolvers>>

\* Mutant of Found: closed sessions are passed over, as stopped ones of ICMP are.
Found_open(f) ==
  { s \in Slots : session[s].flow = f /\ session[s].state = "ACTIVE" }

\* The session of a packet.
Found(f) ==
  { s \in Slots : /\ session[s].flow = f
                  /\ f \in IcmpFlows => session[s].state = "ACTIVE" }

\* has_udp_session: without fwd53 it says so of every DNS query.
has_udp_session(f) == Found(f) # {} \/ (f \in DnsFlows /\ ~fwd53)

\* handle_ip drops what would open a session when there are as many as may be,
\* and, of ICMP, what would not, too.
Limited(f) ==
  /\ sessions >= maxsessions
  /\ f \in DnsFlows \cup UdpFlows => ~has_udp_session(f)
  /\ f \in TcpFlows => Found(f) = {}

\* A packet of f that is not dropped.
Packet(f) ==
  /\ phase = "tun" /\ ~Limited(f)
  /\ UNCHANGED <<readable, held, phase, sessions, wait, batch>>

\* A socket is opened.  When that fails there is no session.
OpenSocket(s) == fds \cup {s}

\* The session found, or a new one in a slot of its own, and the sockets then.
SessionFor(f, id) ==
  IF Found(f) # {}
  THEN { [slot |-> s, session |-> session[s], fds |-> fds] : s \in Found(f) }
  ELSE { [slot |-> s, session |-> NewSession(f, id), fds |-> OpenSocket(s)] :
         s \in { s \in Slots : session[s] = NoSession } }

\* Mutants of SendUdp: the state is not looked at; or the time is taken first.
SendUdp_any(s, u) ==
  /\ \E ok \in BOOLEAN : /\ ok => s \notin failed
                         /\ Update(s, forward_udp(u, ok))
  /\ failed' = failed \ {s}

SendUdp_late(s, u) ==
  /\ \E ok \in BOOLEAN :
       /\ ok => s \notin failed
       /\ Update(s, IF u.state = "ACTIVE" THEN forward_udp(u, ok) ELSE [u EXCEPT !.age = 0])
  /\ failed' = failed \ {s}

\* handle_udp.  Packets of a session that is not active are ignored.  A pending
\* error of the socket is what sendto returns, once.
SendUdp(s, u) ==
  /\ u.state = "ACTIVE"
  /\ \E ok \in BOOLEAN : /\ ok => s \notin failed
                         /\ Update(s, forward_udp(u, ok))
  /\ failed' = failed \ {s}

\* (DHCP requests, which are answered on the spot, are left out.)
HandleUdp(f) ==
  /\ Packet(f) /\ f \in UdpFlows
  /\ \E o \in SessionFor(f, 0) : fds' = o.fds /\ SendUdp(o.slot, o.session)
  /\ UNCHANGED resolvers

\* A query, for which fork makes a resolver process or fails.
QueryDns(s, u) ==
  /\ u.state = "ACTIVE"
  /\ Update(s, query_dns(u))
  /\ resolvers' \in {resolvers, resolvers \cup {u.flow}}
  /\ UNCHANGED failed

HandleDns(f) ==
  /\ Packet(f) /\ f \in DnsFlows
  /\ \E o \in SessionFor(f, 0) : fds' = o.fds /\ QueryDns(o.slot, o.session)

SendIcmp(s, u, id) ==
  /\ \E ok \in BOOLEAN : /\ ok => s \notin failed
                         /\ Update(s, forward_icmp(u, id, ok))
  /\ failed' = failed \ {s}

HandleIcmp(f, id) ==
  /\ Packet(f) /\ f \in IcmpFlows
  /\ \E o \in SessionFor(f, id) : fds' = o.fds /\ SendIcmp(o.slot, o.session, id)
  /\ UNCHANGED resolvers

\* handle_tcp, seen from outside: a SYN opens a session; any packet may reset
\* one, or, on port 443, take a closing one back to LISTEN; the FIN of the app
\* closes a session whose socket the end of file has closed (FIN_WAIT1).
SendTcp(s, u) ==
  /\ u.state # "CLOSED"
  /\ \E state \in {"ACTIVE", "FINISHING", "CLOSED"} :
       /\ (u.state = "FINISHING" /\ state = "ACTIVE") => s \in fds
       /\ state = "CLOSED" => session[s].state = "ACTIVE" /\ s \notin fds
       /\ Update(s, [u EXCEPT !.state = state, !.age = 0, !.used = TRUE])
  /\ UNCHANGED failed

HandleTcp(f) ==
  /\ Packet(f) /\ f \in TcpFlows
  /\ \E o \in SessionFor(f, 0) : fds' = o.fds /\ SendTcp(o.slot, o.session)
  /\ UNCHANGED resolvers

HandleIp ==
  \E f \in Flows :
    \/ HandleUdp(f) \/ HandleDns(f) \/ HandleTcp(f)
    \/ \E id \in Ids : HandleIcmp(f, id)

-----------------------------------------------------------------------------
\* The rest of the world.

\* A resolver process writes the answer to the tun device, or gives up after two
\* seconds, and exits.  The session it then sets to UDP_FINISHING is its own copy.
\* (That a closed socket is no longer held shows at the next epoll_wait.)
Resolved(f) ==
  /\ f \in resolvers /\ resolvers' = resolvers \ {f}
  /\ phase \notin {"dispatch", "tun"}
  /\ held' = IF resolvers' = {} THEN {} ELSE held
  /\ UNCHANGED <<session, fds, readable, failed, phase, sessions, wait, batch>>

\* The last of those that hold the closed sockets of a slot exits.
ResolverExits(s) ==
  /\ s \in HeldSlots /\ phase \notin {"dispatch", "tun"}
  /\ held' = { h \in held : h.slot # s }
  /\ UNCHANGED <<session, fds, readable, failed, phase, sessions, wait, batch, resolvers>>

\* recv, on the socket of an ICMP session with nothing to read, which waits: the
\* event was that of a socket closed before, or came with one.
Blocked(s) ==
  /\ phase = "dispatch" /\ s \in (Of(IcmpFlows) \cap fds) \ (readable \cup failed)
  /\ \E e \in batch : e.slot = s /\ e.ev = "IN"

\* Something to read comes for a socket that has been used.  What comes while a
\* batch is handled is read with the rest, or makes an event of the next batch.
Arrives(s) ==
  /\ phase = "poll" \/ Blocked(s)
  /\ s \in fds \ (readable \cup Of(DnsFlows))
  /\ readable' = readable \cup {s}
  /\ UNCHANGED <<session, fds, failed, held, phase, sessions, wait, batch, resolvers>>

\* Its connection is reset, or the system ends the sockets of a network that goes
\* away: those that have been used.  Perhaps after epoll_wait returned.
Fails(s) ==
  /\ phase \in {"poll", "dispatch"}
  /\ s \in fds \ (failed \cup Of(DnsFlows))
  /\ failed' = failed \cup {s}
  /\ UNCHANGED <<session, fds, readable, held, phase, sessions, wait, batch, resolvers>>

Environment ==
  \/ \E f \in DnsFlows : Resolved(f)
  \/ \E s \in Slots : Arrives(s) \/ Fails(s) \/ ResolverExits(s)

Loop == Round \/ RoundUnchecked \/ EpollWait \/ CheckSocket \/ TunReadable
          \/ TunEmpty \/ EndDispatch

Thread == Start \/ Stop \/ Break \/ Clear

Next == Loop \/ HandleIp \/ Tick \/ Environment \/ Thread

Spec == Init /\ [][Next]_vars

-----------------------------------------------------------------------------
\* Safety.

(***************************************************************************)
(* Each slot of the list lives as SessionLife says: its descriptor is      *)
(* closed once, at the latest with the session, and a closed session is    *)
(* not revived, whatever packets, events, errors, timeouts and ends of the *)
(* thread come in which order.                                             *)
(***************************************************************************)
Life(s) == INSTANCE SessionLife WITH state <- session[s].state,
                                     socket <- (s \in fds)

LifeSpec ==
  /\ \A s \in Slots : Life(s)!Init
  /\ [][ \A s \in Slots : [Life(s)!Next]_<<session[s].state, s \in fds>> ]_vars

(***************************************************************************)
(* The events of a batch carry pointers to sessions.  Whatever is handled  *)
(* before an event, a packet of the app that fails to be sent included,    *)
(* its session is still in the list and its socket still open; unless it   *)
(* is the event of a socket that was closed while a resolver process held  *)
(* a copy.  Of UDP and TCP the closed session is still in the list then.   *)
(* (An ICMP session is not: its memory is free, or that of another.)       *)
(***************************************************************************)
EventsAlive ==
  \A e \in batch \ {Tun, Pipe} :
    \/ session[e.slot].state \in {"ACTIVE", "FINISHING"} /\ e.slot \in fds
    \/ \E h \in held : /\ h.slot = e.slot
                       /\ (h.flow \in IcmpFlows \/ session[h.slot].flow = h.flow)

(***************************************************************************)
(* A conversation has at most one session: two sockets for it would split  *)
(* its replies.  Of ICMP, where stopped sessions are passed over, at most  *)
(* one that is active.                                                     *)
(***************************************************************************)
OneSession ==
  \A s, t \in Slots :
    s # t /\ session[s].flow = session[t].flow =>
      \/ session[s] = NoSession
      \/ /\ session[s].flow \in IcmpFlows
         /\ "FINISHING" \in {session[s].state, session[t].state}

(***************************************************************************)
(* A UDP or ICMP session the app has used since time(NULL) last changed is *)
(* not closed, however many sessions shorten its timeout and whatever came *)
(* between, unless more sessions were open than the limit, which a single  *)
(* reading of the tun device, or queries, can bring about.  (Not so DNS    *)
(* sessions, for queries do not refresh their time; TCP sessions may be    *)
(* closed by what their two sides send.)                                   *)
(***************************************************************************)
UsedNotIdle ==
  [][ \A s \in Active \cap Of(UdpFlows \cup IcmpFlows) :
        session[s].used /\ session'[s].state \in {"CLOSED", "NONE"}
          => sessions' > maxsessions \/ phase' = "off" ]_vars

(***************************************************************************)
(* An echo reply gets back the identifier of its request, whatever was     *)
(* sent and received since, unless another ping between the same two       *)
(* addresses has used the session, too: that one's replies carry the       *)
(* identifier of the first.                                                *)
(***************************************************************************)
OwnIdentifier ==
  [][ \A s \in Slots, id \in Ids :
        EchoReply(s, id) => session'[s].id = id \/ Cardinality(session[s].pinged) > 1 ]_vars

-----------------------------------------------------------------------------
\* Liveness.

\* The thread runs, time passes, a check is skipped only right after one, and a
\* resolver process ends.
Fairness ==
  /\ WF_vars(Round \/ RoundUnchecked) /\ SF_vars(Round)
  /\ SF_vars(Tick) /\ WF_vars(EpollWait)
  /\ WF_vars(CheckSocket) /\ WF_vars(TunReadable)
  /\ WF_vars(TunEmpty) /\ WF_vars(EndDispatch)
  /\ \A s \in Slots : SF_vars(ResolverExits(s))

FairSpec == Spec /\ Fairness

\* The thread may wait in recv for a reply that never comes.
Waits == \E s \in Slots : Blocked(s)

(***************************************************************************)
(* A UDP socket with an error is closed in the end although its events are *)
(* not handled: its timeout comes, or the app sends again and is refused.  *)
(* (Unless the thread ends, or waits in recv: see Blocked.)                *)
(***************************************************************************)
FailedUdpCloses ==
  \A s \in Slots :
    s \in failed \cap Of(UdpFlows) ~> s \notin fds \/ phase = "off" \/ Waits

(***************************************************************************)
(* A conversation whose session was closed can begin again: the closed     *)
(* session leaves the list, even if the app keeps sending.  (Unless the    *)
(* thread ends, or waits in recv.)                                         *)
(***************************************************************************)
ClosedLeaves ==
  \A s \in Slots :
    session[s].state = "CLOSED" ~> session[s].state = "NONE" \/ phase = "off" \/ Waits
=============================================================================
