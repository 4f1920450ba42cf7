---------------------------- MODULE Engine_proofs ----------------------------
(***************************************************************************)
(* Proofs about Sessions and Engine for any flows, slots, timeouts, limits *)
(* and threads.                                                            *)
(***************************************************************************)
EXTENDS Engine, FiniteSetTheorems, WellFoundedInduction, TLAPS

-----------------------------------------------------------------------------
\* Timeouts.

LEMMA DivBounds ==
  ASSUME NEW a \in Nat, NEW b \in Nat \ {0}
  PROVE  a \div b \in Nat /\ (a \div b) * b <= a
BY SMT

\* A scaled timeout is an integer, below zero only above the limit.
LEMMA ScaledType ==
  ASSUME NEW t \in Nat, NEW n \in Nat
  PROVE  Scaled(t, n) \in Int /\ (Scaled(t, n) < 0 => n > maxsessions)
<1> DEFINE q == (n * 100) \div maxsessions
           k == 100 - q
           x == t * k
<1>1. maxsessions \in Nat \ {0}
  BY TimeoutsAssumption
<1>2. q \in Nat /\ q * maxsessions <= n * 100
  <2>1. n * 100 \in Nat  BY SMT
  <2> QED  BY <1>1, <2>1, DivBounds
<1> HIDE DEF q
<1>3. n <= maxsessions => q <= 100
  <2> SUFFICES ASSUME n <= maxsessions, q >= 101  PROVE FALSE
    BY <1>2
  <2>1. q * maxsessions >= 101 * maxsessions
    BY <1>1, <1>2, SMT
  <2> QED  BY <2>1, <1>1, <1>2, SMT
<1>4. k \in Int /\ (n <= maxsessions => k \in Nat)
  BY <1>2, <1>3
<1> HIDE DEF k
<1>5. x \in Int /\ (n <= maxsessions => x \in Nat)
  BY <1>4, SMT
<1>6. Scaled(t, n) = CDiv(x, 100)
  BY DEF Scaled, x, k, q
<1> HIDE DEF x
<1>7. CDiv(x, 100) \in Int /\ (x \in Nat => CDiv(x, 100) \in Nat)
  BY <1>5, SMT DEF CDiv
<1> QED  BY <1>1, <1>5, <1>6, <1>7

LEMMA TimeoutType ==
  ASSUME NEW u, NEW n \in Nat
  PROVE  get_timeout(u, n) \in Int /\ (get_timeout(u, n) < 0 => n > maxsessions)
<1>1. /\ ICMP_TIMEOUT \in Nat /\ UDP_TIMEOUT_53 \in Nat /\ UDP_TIMEOUT_ANY \in Nat
      /\ TCP_TIMEOUT \in Nat
  BY TimeoutsAssumption DEF Timeouts
<1>2. CASE u.flow \in IcmpFlows
  <2>1. get_timeout(u, n) = Scaled(ICMP_TIMEOUT, n)
    BY <1>2, FlowsAssumption DEF get_timeout, get_icmp_timeout
  <2> QED  BY <1>1, <2>1, ScaledType
<1>3. CASE u.flow \in TcpFlows
  <2>1. get_timeout(u, n) = Scaled(TCP_TIMEOUT, n)
    BY <1>3, FlowsAssumption DEF get_timeout, get_tcp_timeout
  <2> QED  BY <1>1, <2>1, ScaledType
<1>4. CASE u.flow \notin IcmpFlows /\ u.flow \notin TcpFlows
  <2> DEFINE t == IF u.flow \in DnsFlows THEN UDP_TIMEOUT_53 ELSE UDP_TIMEOUT_ANY
  <2>1. get_timeout(u, n) = Scaled(t, n)
    BY <1>4 DEF get_timeout, get_udp_timeout
  <2>2. t \in Nat
    BY <1>1
  <2> QED  BY <2>1, <2>2, ScaledType
<1> QED  BY <1>2, <1>3, <1>4

-----------------------------------------------------------------------------
\* One slot of the list.

\* What is true of a slot's record and descriptor between two actions.
Good(u, open) ==
  /\ u \in Session
  /\ (u.state = "NONE" \/ u.flow = "none") => u = NoSession
  /\ open => u.state \in {"ACTIVE", "FINISHING"}
  /\ u.flow \in IcmpFlows => u.state # "CLOSED"
  /\ (u.used = TRUE /\ u.flow \notin DnsFlows) => u.age = 0
  /\ u.flow \in IcmpFlows => u.id \in u.pinged

\* The session of the slot goes on: it may finish, and a finishing one of TCP
\* may be resumed.
GoesOn(u, open, v, open2) ==
  /\ v.flow = u.flow
  /\ \/ v.state = u.state /\ (open2 <=> open)
     \/ /\ u.state = "ACTIVE" /\ v.state \in {"ACTIVE", "FINISHING"}
        /\ open2 => open
     \/ /\ u.state = "FINISHING" /\ v.state = "ACTIVE"
        /\ u.flow \in TcpFlows /\ open /\ open2

\* What a session whose closed socket epoll still reports does not do: leave the
\* list, or come nearer to leaving it.
Stays(u, v) ==
  /\ v.flow = u.flow
  /\ v.state = "CLOSED" => v.age = 0 \/ (u.state = "CLOSED" /\ v.age = u.age)

\* It is closed, or removed from the list.
Ends(u, open, v, open2) ==
  /\ ~open2
  /\ \/ v = NoSession /\ u # NoSession
     \/ u.state \in {"ACTIVE", "FINISHING"} /\ v.state = "CLOSED" /\ v.flow = u.flow

\* The slot was free and has a new session.
Begins(u, open, v, open2) ==
  /\ u = NoSession /\ ~open /\ open2
  /\ v.flow \in Flows /\ v.state \in {"ACTIVE", "FINISHING"}

LEMMA NoSessionGood == Good(NoSession, FALSE)
BY TimeoutsAssumption, FlowsAssumption DEF Good, NoSession, Session, States, Flows

LEMMA NewSessionGood ==
  ASSUME NEW f \in Flows, NEW id \in Ids \cup {0}
  PROVE  /\ NewSession(f, id) \in Session /\ NewSession(f, id).flow = f
         /\ NewSession(f, id).state = "ACTIVE"
BY TimeoutsAssumption, FlowsAssumption DEF Good, NewSession, NoSession, Session, States, Flows

LEMMA CheckAllowedStep ==
  ASSUME NEW u, NEW o \in BOOLEAN, Good(u, o)
  PROVE  Good(CheckAllowed(u), o) /\ GoesOn(u, o, CheckAllowed(u), o)
<1>1. CASE u.state # "ACTIVE"
  BY <1>1 DEF Good, GoesOn, CheckAllowed
<1>2. CASE u.state = "ACTIVE"
  <2> DEFINE v == CheckAllowed(u)
  <2>1. /\ v \in Session /\ v.state = "FINISHING" /\ v.flow = u.flow
        /\ v.age = u.age /\ v.used = u.used /\ v.id = u.id /\ v.pinged = u.pinged
    BY <1>2 DEF CheckAllowed, Good, Session, States
  <2> HIDE DEF v
  <2>2. Good(v, o) /\ GoesOn(u, o, v, o)
    BY <1>2, <2>1 DEF Good, GoesOn, NoSession
  <2> QED  BY <2>2 DEF v
<1> QED  BY <1>1, <1>2

LEMMA OlderStep ==
  ASSUME NEW u, NEW o \in BOOLEAN, Good(u, o)
  PROVE  Good(Older(u), o) /\ GoesOn(u, o, Older(u), o)
<1>1. CASE u.state = "NONE"
  BY <1>1 DEF Good, GoesOn, Older
<1>2. CASE u.state # "NONE"
  <2> DEFINE a == IF u.age < MaxAge THEN u.age + 1 ELSE u.age
  <2>1. Older(u) = [u EXCEPT !.age = a, !.used = FALSE]
    BY <1>2, Zenon DEF Older
  <2>2. a \in 0 .. MaxAge
    BY TimeoutsAssumption DEF Good, Session
  <2> HIDE DEF a
  <2>3. /\ Older(u) \in Session /\ Older(u).used = FALSE
        /\ Older(u).flow = u.flow /\ Older(u).state = u.state
        /\ Older(u).id = u.id /\ Older(u).pinged = u.pinged
    BY <2>1, <2>2 DEF Good, Session
  <2> QED  BY <1>2, <2>3 DEF Good, GoesOn, NoSession
<1> QED  BY <1>1, <1>2

\* An active session that was used a moment ago is closed only above the limit; a
\* closed one is not removed before its time.
LEMMA CheckStep ==
  ASSUME NEW u, NEW o \in BOOLEAN, Good(u, o), NEW n \in Nat,
         NEW p \in BOOLEAN,
         p <=> o /\ check_session(u, n).state \notin {"CLOSED", "NONE"}
  PROVE  /\ Good(check_session(u, n), p)
         /\ \/ GoesOn(u, o, check_session(u, n), p) /\ check_session(u, n) = u
            \/ Ends(u, o, check_session(u, n), p)
         /\ (/\ u.state = "ACTIVE" /\ u.flow \notin DnsFlows /\ u.used = TRUE
             /\ check_session(u, n).state \in {"CLOSED", "NONE"}) => n > maxsessions
         /\ u.state = "FINISHING" => Ends(u, o, check_session(u, n), p)
         /\ (/\ u.flow \notin IcmpFlows
             /\ u.state = "CLOSED" => u.age <= keep_timeout(u.flow))
               => Stays(u, check_session(u, n))
<1> DEFINE t == get_timeout(u, n)
<1>1. t \in Int /\ (t < 0 => n > maxsessions)
  BY TimeoutType
<1>2. Idle(u, n) <=> u.state = "ACTIVE" /\ u.age > t
  BY DEF Idle
<1> HIDE DEF t
<1>3. u.age \in Int /\ UDP_KEEP_TIMEOUT \in Int /\ TCP_KEEP_TIMEOUT \in Int
  BY TimeoutsAssumption DEF Good, Session, Timeouts
<1>4. IcmpFlows \cap TcpFlows = {} /\ "none" \notin IcmpFlows \cup TcpFlows
  BY FlowsAssumption
<1>5. CASE u.flow \in IcmpFlows
  <2>1. check_session(u, n) = check_icmp_session(u, n)
    BY <1>4, <1>5 DEF check_session
  <2> QED
    BY <2>1, <1>1, <1>2, <1>3, <1>5, NoSessionGood
    DEF Good, GoesOn, Ends, check_icmp_session, Session, States, NoSession
<1>6. CASE u.flow \notin IcmpFlows
  <2> DEFINE v == check_session(u, n)
  <2>0. u \in Session
    BY DEF Good
  <2>1. /\ check_session(u, n) \in {check_tcp_session(u, n), check_udp_session(u, n)}
        /\ u.flow \in TcpFlows => check_session(u, n) = check_tcp_session(u, n)
        /\ u.flow \notin TcpFlows => check_session(u, n) = check_udp_session(u, n)
    BY <1>4, <1>6 DEF check_session
  <2>2. CASE u.state = "FINISHING" \/ Idle(u, n)
    <3>1. v = [u EXCEPT !.state = "CLOSED", !.age = 0]
      BY <2>1, <2>2 DEF check_tcp_session, check_udp_session
    <3> HIDE DEF v
    <3>2. v \in Session /\ v.state = "CLOSED" /\ v.flow = u.flow /\ v.age = 0
      <4>1. 0 \in 0 .. MaxAge /\ "CLOSED" \in States
        BY TimeoutsAssumption DEF States
      <4> QED  BY <2>0, <3>1, <4>1 DEF Session
    <3>3. u.state \in {"ACTIVE", "FINISHING"} /\ u # NoSession
      BY <2>2, <1>2 DEF NoSession
    <3>4. u.state = "ACTIVE" /\ u.flow \notin DnsFlows /\ u.used = TRUE => n > maxsessions
      BY <2>2, <1>1, <1>2 DEF Good
    <3>5. ~p /\ u.flow # "none"
      BY <3>2, <3>3 DEF v, Good
    <3>6. Good(v, p) /\ Ends(u, o, v, p) /\ Stays(u, v)
      BY <1>6, <3>2, <3>3, <3>5 DEF Good, Ends, Stays
    <3> QED  BY <3>4, <3>6 DEF v
  <2>3. CASE ~(u.state = "FINISHING" \/ Idle(u, n))
    <3>1. \/ v = NoSession /\ u.state = "CLOSED" /\ u.age > keep_timeout(u.flow)
          \/ v = u
      BY <2>1, <2>3 DEF check_tcp_session, check_udp_session, keep_timeout
    <3> HIDE DEF v
    <3>2. CASE v = NoSession /\ u.state = "CLOSED" /\ u.age > keep_timeout(u.flow)
      <4>1. v = NoSession /\ u # NoSession /\ ~p
        BY <3>2 DEF NoSession, v
      <4>2. ~ (u.age <= keep_timeout(u.flow))
        BY <1>3, <3>2 DEF keep_timeout
      <4> QED  BY <3>2, <4>1, <4>2, NoSessionGood DEF Ends, v
    <3>3. CASE v = u
      <4>1. u.state # "FINISHING"
        BY <2>3
      <4> QED  BY <3>3, <4>1 DEF Good, GoesOn, Stays, v
    <3> QED  BY <3>1, <3>2, <3>3
  <2> QED  BY <2>2, <2>3
<1> QED  BY <1>5, <1>6

\* What the handlers of packets and events do to the record of a session.
Touched(u, v) ==
  /\ v \in Session /\ v.flow = u.flow
  /\ v.state = u.state \/ v.state = "FINISHING"
  /\ v.age = 0 /\ v.id = u.id /\ u.pinged \subseteq v.pinged

LEMMA HandlersTouch ==
  ASSUME NEW u \in Session, NEW ok \in BOOLEAN
  PROVE  /\ Touched(u, forward_udp(u, ok))
         /\ Touched(u, check_udp_socket(u, ok))
         /\ Touched(u, check_icmp_socket(u, ok))
         /\ \A id \in Ids : /\ Touched(u, forward_icmp(u, id, ok))
                            /\ id \in forward_icmp(u, id, ok).pinged
<1>1. 0 \in 0 .. MaxAge
  BY TimeoutsAssumption
<1> DEFINE a == IF ok THEN u.state ELSE "FINISHING"
           b == IF ok /\ u.flow \notin DnsFlows THEN u.state ELSE "FINISHING"
<1>2. a \in States /\ b \in States /\ a \in {u.state, "FINISHING"} /\ b \in {u.state, "FINISHING"}
  BY DEF Session, States
<1>3. /\ forward_udp(u, ok) = [u EXCEPT !.age = 0, !.used = TRUE, !.state = a]
      /\ check_udp_socket(u, ok) = [u EXCEPT !.age = 0, !.state = b]
      /\ check_icmp_socket(u, ok) = [u EXCEPT !.age = 0, !.state = a]
  BY DEF forward_udp, check_udp_socket, check_icmp_socket, Session
<1>4. ASSUME NEW id \in Ids
      PROVE  /\ u.pinged \cup {id} \in SUBSET Ids
             /\ forward_icmp(u, id, ok) =
                  [u EXCEPT !.age = 0, !.used = TRUE, !.pinged = u.pinged \cup {id}, !.state = a]
  BY DEF forward_icmp, Session
<1> HIDE DEF a, b
<1>5. Touched(u, forward_udp(u, ok))
  <2> DEFINE v == [u EXCEPT !.age = 0, !.used = TRUE, !.state = a]
  <2>1. v \in Session
    BY <1>1, <1>2 DEF Session
  <2>2. v.flow = u.flow /\ v.state = a /\ v.age = 0 /\ v.id = u.id /\ v.pinged = u.pinged
    BY DEF Session
  <2> QED  BY <1>2, <1>3, <2>1, <2>2 DEF Touched
<1>6. Touched(u, check_udp_socket(u, ok)) /\ Touched(u, check_icmp_socket(u, ok))
  BY <1>1, <1>2, <1>3 DEF Touched, Session
<1>7. ASSUME NEW id \in Ids
      PROVE  Touched(u, forward_icmp(u, id, ok)) /\ id \in forward_icmp(u, id, ok).pinged
  <2> DEFINE p == u.pinged \cup {id}
  <2> HIDE DEF p
  <2>1. p \in SUBSET Ids /\ forward_icmp(u, id, ok) =
          [u EXCEPT !.age = 0, !.used = TRUE, !.pinged = p, !.state = a]
    BY <1>4 DEF p
  <2> DEFINE v == [u EXCEPT !.age = 0, !.used = TRUE, !.pinged = p, !.state = a]
  <2>2. v \in Session
    BY <1>1, <1>2, <2>1 DEF Session
  <2>3. v.flow = u.flow /\ v.state = a /\ v.age = 0 /\ v.id = u.id /\ v.pinged = p
    BY DEF Session
  <2>4. u.pinged \subseteq p /\ id \in p
    BY DEF p
  <2> QED  BY <1>2, <2>1, <2>2, <2>3, <2>4 DEF Touched
<1> QED  BY <1>5, <1>6, <1>7

LEMMA TouchedStep ==
  ASSUME NEW u, NEW o \in BOOLEAN, Good(u, o), u.state \in {"ACTIVE", "FINISHING"},
         NEW v, Touched(u, v)
  PROVE  Good(v, o) /\ GoesOn(u, o, v, o) /\ Stays(u, v)
BY DEF Touched, Good, GoesOn, Stays, NoSession

LEMMA QueryStep ==
  ASSUME NEW u \in Session
  PROVE  /\ query_dns(u) \in Session /\ query_dns(u).flow = u.flow
         /\ query_dns(u).state = u.state /\ query_dns(u).age = u.age
BY DEF query_dns, Session

-----------------------------------------------------------------------------
\* The list.

SlotGood(s) == Good(session[s], s \in fds)
SlotGoesOn(s) == GoesOn(session[s], s \in fds, session'[s], s \in fds')
SlotEnds(s) == Ends(session[s], s \in fds, session'[s], s \in fds')
SlotBegins(s) == Begins(session[s], s \in fds, session'[s], s \in fds')

\* There is a batch only while it is handled; its events are of open sockets, and
\* of each at most one, or of closed ones that are held.
BatchInv ==
  /\ phase \in {"off", "start", "round", "poll"} => batch = {}
  /\ \A e \in batch \ {Tun, Pipe} : /\ e.slot \in fds \/ e.slot \in HeldSlots
                                    /\ e.closed = TRUE => e.slot \in HeldSlots
  /\ \A d, e \in batch \ {Tun, Pipe} :
       d.slot = e.slot /\ d.closed = FALSE /\ e.closed = FALSE => d = e

\* The session of a closed socket that is held is in the list, but for ICMP, and
\* its time to leave has not come.
HeldGood(h) ==
  h.flow \notin IcmpFlows =>
    /\ session[h.slot].flow = h.flow
    /\ session[h.slot].state = "CLOSED" => session[h.slot].age <= keep_timeout(h.flow)

HeldInv ==
  /\ held \subseteq [slot : Slots, flow : Flows]
  /\ phase \in {"off", "start"} => held = {}
  /\ \A h \in held : HeldGood(h)

(***************************************************************************)
(* The inductive invariant of Sessions.  OneSession needs the slots: it    *)
(* is a new session that could be the second one, and the slot where none  *)
(* is found must really have none; UsedNotIdle needs the age of a used     *)
(* session; EventsAlive needs to know that no two events of a batch are of *)
(* the same socket, for the first may close it, and that a session stays   *)
(* in the list longer than a resolver holds its socket.                    *)
(***************************************************************************)
SInv == TypeOK /\ (\A s \in Slots : SlotGood(s)) /\ OneSession /\ BatchInv /\ HeldInv

\* What an action has to show of each slot.
SlotSteps ==
  \A s \in Slots : SlotGood(s)' /\ (SlotGoesOn(s) \/ SlotEnds(s) \/ SlotBegins(s))

LEMMA SlotLife ==
  ASSUME NEW s \in Slots, SlotGood(s), SlotGood(s)',
         SlotGoesOn(s) \/ SlotEnds(s) \/ SlotBegins(s)
  PROVE  [Life(s)!Next]_<<session[s].state, s \in fds>>
<1>1. CASE SlotGoesOn(s)
  BY <1>1 DEF SlotGoesOn, GoesOn, Life!Next, Life!EndOfFile, Life!Finish, Life!Resume
<1>2. CASE SlotEnds(s)
  <2>1. CASE session'[s] = NoSession /\ session[s] # NoSession
    BY <1>2, <2>1 DEF SlotEnds, Ends, SlotGood, Good, NoSession, Life!Next, Life!Remove
  <2>2. CASE session[s].state \in {"ACTIVE", "FINISHING"} /\ session'[s].state = "CLOSED"
    BY <1>2, <2>2 DEF SlotEnds, Ends, Life!Next, Life!Close
  <2> QED  BY <1>2, <2>1, <2>2 DEF SlotEnds, Ends
<1>3. CASE SlotBegins(s)
  BY <1>3 DEF SlotBegins, Begins, NoSession, Life!Next, Life!Open
<1> QED  BY <1>1, <1>2, <1>3

LEMMA StillOne ==
  ASSUME SInv, SlotSteps, \A s \in Slots : SlotGoesOn(s) \/ SlotEnds(s)
  PROVE  OneSession'
<1> SUFFICES ASSUME NEW s \in Slots, NEW t \in Slots, s # t,
                    session'[s].flow = session'[t].flow, session'[s] # NoSession
             PROVE  /\ session'[s].flow \in IcmpFlows
                    /\ "FINISHING" \in {session'[s].state, session'[t].state}
  BY DEF OneSession
<1>1. ASSUME NEW r \in Slots, session'[r] # NoSession
      PROVE  /\ session'[r].flow = session[r].flow /\ session[r] # NoSession
             /\ session[r].flow # "none"
             /\ (session[r].flow \in IcmpFlows /\ session[r].state = "FINISHING")
                   => session'[r].state = "FINISHING"
  <2>1. session'[r].flow # "none"
    BY <1>1 DEF SlotSteps, SlotGood, Good
  <2>2. IcmpFlows \cap TcpFlows = {}
    BY FlowsAssumption
  <2>3. SlotGood(r) /\ SlotGood(r)'
    BY DEF SInv, SlotSteps
  <2>4. CASE SlotGoesOn(r)
    BY <2>1, <2>2, <2>3, <2>4 DEF SlotGoesOn, GoesOn, SlotGood, Good, NoSession
  <2>5. CASE SlotEnds(r)
    BY <1>1, <2>1, <2>3, <2>5 DEF SlotEnds, Ends, SlotGood, Good, NoSession
  <2> QED  BY <2>4, <2>5
<1>2. session'[t] # NoSession
  BY <1>1 DEF SlotSteps, SlotGood, Good, NoSession
<1>3. /\ session[s].flow \in IcmpFlows
      /\ "FINISHING" \in {session[s].state, session[t].state}
  BY <1>1, <1>2 DEF SInv, OneSession
<1> QED  BY <1>1, <1>2, <1>3

LEMMA NewOne ==
  ASSUME SInv, SlotSteps, NEW f \in Flows, Found(f) = {}, NEW n \in Slots,
         SlotBegins(n), session'[n].flow = f,
         \A s \in Slots \ {n} : session'[s] = session[s]
  PROVE  OneSession'
<1> SUFFICES ASSUME NEW s \in Slots, NEW t \in Slots, s # t,
                    session'[s].flow = session'[t].flow, session'[s] # NoSession
             PROVE  /\ session'[s].flow \in IcmpFlows
                    /\ "FINISHING" \in {session'[s].state, session'[t].state}
  BY DEF OneSession
<1>1. f # "none"
  BY FlowsAssumption DEF Flows
<1>2. ASSUME NEW r \in Slots \ {n}, session[r].flow = f
      PROVE  f \in IcmpFlows /\ session'[r].state = "FINISHING"
  <2>1. f \in IcmpFlows /\ session[r].state # "ACTIVE"
    BY <1>2 DEF Found
  <2>2. SlotGood(r) /\ session'[r] = session[r]
    BY DEF SInv
  <2> QED  BY <1>1, <1>2, <2>1, <2>2 DEF SlotGood, Good, NoSession, Session, States
<1>3. CASE s = n
  BY <1>2, <1>3
<1>4. CASE t = n
  BY <1>2, <1>4
<1>5. CASE s # n /\ t # n
  BY <1>5 DEF SInv, OneSession
<1> QED  BY <1>3, <1>4, <1>5

\* The property UsedNotIdle of one step.
UsedStep ==
  \A s \in Active \cap Of(UdpFlows \cup IcmpFlows) :
    session[s].used /\ session'[s].state \in {"CLOSED", "NONE"}
      => sessions' > maxsessions \/ phase' = "off"

LEMMA UsedGoesOn ==
  ASSUME \A s \in Slots : \/ SlotGoesOn(s) \/ SlotBegins(s)
                          \/ session[s].flow \in TcpFlows
  PROVE  UsedStep
<1>1. (UdpFlows \cup IcmpFlows) \cap TcpFlows = {}
  BY FlowsAssumption
<1> QED  BY <1>1 DEF UsedStep, Active, Of, SlotGoesOn, GoesOn, SlotBegins, Begins, NoSession

\* What a step that leaves a session's place to it does to the list.
ListStep == SlotSteps /\ OneSession' /\ UsedStep /\ session' \in [Slots -> Session]

LEMMA SameList ==
  ASSUME SInv, session' = session, fds' = fds
  PROVE  ListStep
<1>1. \A s \in Slots : SlotGood(s)' /\ SlotGoesOn(s)
  BY DEF SInv, SlotGood, SlotGoesOn, GoesOn
<1>2. OneSession' /\ session' \in [Slots -> Session]
  BY DEF SInv, OneSession, TypeOK
<1> QED  BY <1>1, <1>2, UsedGoesOn DEF ListStep, SlotSteps

LEMMA AllGoOn ==
  ASSUME SInv, session' \in [Slots -> Session],
         \A s \in Slots : SlotGood(s)' /\ SlotGoesOn(s)
  PROVE  ListStep
<1>1. OneSession'
  BY StillOne DEF SlotSteps
<1> QED  BY <1>1, UsedGoesOn DEF ListStep, SlotSteps

LEMMA OneGoesOn ==
  ASSUME SInv, NEW s \in Slots, NEW v, session' = [session EXCEPT ![s] = v],
         fds' \in {fds, fds \ {s}}, Good(v, s \in fds'),
         \/ GoesOn(session[s], s \in fds, v, s \in fds')
         \/ /\ Ends(session[s], s \in fds, v, s \in fds')
            /\ session[s].flow \in TcpFlows
  PROVE  ListStep
<1>1. ASSUME NEW t \in Slots
      PROVE  SlotGood(t)' /\ (SlotGoesOn(t) \/ (SlotEnds(t) /\ session[t].flow \in TcpFlows))
  <2>1. CASE t = s
    BY <2>1 DEF SlotGood, SlotGoesOn, SlotEnds, SInv, TypeOK
  <2>2. CASE t # s
    <3>1. session'[t] = session[t] /\ (t \in fds' <=> t \in fds) /\ SlotGood(t)
      BY <2>2 DEF SInv, TypeOK
    <3> QED  BY <3>1 DEF SlotGood, SlotGoesOn, GoesOn
  <2> QED  BY <2>1, <2>2
<1>2. session' \in [Slots -> Session]
  BY DEF Good, SInv, TypeOK
<1>3. OneSession'
  BY <1>1, StillOne DEF SlotSteps
<1> QED  BY <1>1, <1>2, <1>3, UsedGoesOn DEF ListStep, SlotSteps

LEMMA OneBegins ==
  ASSUME SInv, NEW f \in Flows, Found(f) = {}, NEW s \in Slots, session[s] = NoSession,
         NEW v, session' = [session EXCEPT ![s] = v], fds' = fds \cup {s},
         Good(v, TRUE), v.flow = f
  PROVE  ListStep
<1>1. session'[s] = v /\ \A t \in Slots \ {s} : session'[t] = session[t]
  BY DEF SInv, TypeOK
<1>2. SlotGood(s)' /\ SlotBegins(s)
  BY <1>1 DEF SlotGood, SlotBegins, Begins, Good, SInv, NoSession
<1>3. ASSUME NEW t \in Slots, t # s  PROVE SlotGood(t)' /\ SlotGoesOn(t)
  <2>1. session'[t] = session[t] /\ (t \in fds' <=> t \in fds) /\ SlotGood(t)
    BY <1>1, <1>3 DEF SInv
  <2> QED  BY <2>1 DEF SlotGood, SlotGoesOn, GoesOn
<1>4. session' \in [Slots -> Session]
  BY DEF Good, SInv, TypeOK
<1>5. SlotSteps /\ UsedStep
  BY <1>2, <1>3, UsedGoesOn DEF SlotSteps
<1>6. OneSession'
  BY <1>1, <1>2, <1>5, NewOne
<1> QED  BY <1>4, <1>5, <1>6 DEF ListStep

-----------------------------------------------------------------------------
\* The closed sockets that are held.

\* Sockets are closed and some of them held.
LEMMA HeldStep ==
  ASSUME SInv, NEW K \in SUBSET fds,
         held' = held \cup { [slot |-> s, flow |-> session[s].flow] : s \in K },
         phase' \in {"off", "start"} => held' = {},
         \A s \in Slots :
           /\ session[s].flow \notin IcmpFlows
           /\ s \in K \/ (session[s].state = "CLOSED" =>
                            session[s].age <= keep_timeout(session[s].flow))
           => Stays(session[s], session'[s]) \/ session[s] = NoSession
  PROVE  HeldInv'
<1>1. \A s \in Slots : SlotGood(s)
  BY DEF SInv
<1>2. ASSUME NEW s \in K
      PROVE  /\ s \in Slots /\ session[s].flow \in Flows /\ session[s].flow # "none"
             /\ session[s].state \in {"ACTIVE", "FINISHING"}
  BY <1>1 DEF SlotGood, Good, NoSession, Session, SInv, TypeOK
<1>3. held' \subseteq [slot : Slots, flow : Flows]
  BY <1>2 DEF SInv, HeldInv
<1>4. keep_timeout("none") \in Nat /\ \A f \in Flows : keep_timeout(f) \in Nat
  BY TimeoutsAssumption DEF keep_timeout, Timeouts
<1>5. ASSUME NEW h \in held', h.flow \notin IcmpFlows
      PROVE  HeldGood(h)'
  <2>1. h.slot \in Slots /\ h.flow \in Flows /\ h.flow # "none"
    BY <1>3, FlowsAssumption DEF Flows
  <2> DEFINE s == h.slot
             u == session[s]
             v == session'[s]
  <2>2. /\ u.flow = h.flow
        /\ s \in K \/ (u.state = "CLOSED" => u.age <= keep_timeout(u.flow))
        /\ u.state = "CLOSED" => u.age <= keep_timeout(u.flow)
    <3>1. CASE h \in held
      <4>1. HeldGood(h)
        BY <3>1 DEF SInv, HeldInv
      <4> QED  BY <1>5, <4>1 DEF HeldGood
    <3>2. CASE h \notin held
      <4>1. PICK t \in K : h = [slot |-> t, flow |-> session[t].flow]
        BY <3>2
      <4> QED  BY <1>2, <4>1
    <3> QED  BY <3>1, <3>2
  <2>3. u # NoSession
    BY <2>1, <2>2 DEF NoSession
  <2>4. Stays(u, v)
    BY <1>5, <2>1, <2>2, <2>3
  <2> HIDE DEF u, v
  <2>5. v.flow = h.flow /\ (v.state = "CLOSED" => v.age <= keep_timeout(h.flow))
    BY <1>4, <2>1, <2>2, <2>4 DEF Stays
  <2> QED  BY <2>5 DEF HeldGood, v
<1>6. \A h \in held' : HeldGood(h)'
  BY <1>5 DEF HeldGood
<1> QED  BY <1>3, <1>6 DEF HeldInv

\* None is closed, and none of the sessions leaves the list.
LEMMA HeldLess ==
  ASSUME SInv, held' \subseteq held, phase' \in {"off", "start"} => held' = {},
         \A s \in Slots : Stays(session[s], session'[s]) \/ session[s] = NoSession
  PROVE  HeldInv'
<1>1. \A f \in Flows : keep_timeout(f) \in Nat
  BY TimeoutsAssumption DEF keep_timeout, Timeouts
<1>2. ASSUME NEW h \in held', h.flow \notin IcmpFlows
      PROVE  HeldGood(h)'
  <2>1. h.slot \in Slots /\ h.flow \in Flows /\ h.flow # "none" /\ HeldGood(h)
    BY FlowsAssumption DEF SInv, HeldInv, Flows
  <2> DEFINE u == session[h.slot]
             v == session'[h.slot]
  <2>2. u.flow = h.flow /\ (u.state = "CLOSED" => u.age <= keep_timeout(h.flow))
    BY <1>2, <2>1 DEF HeldGood
  <2>3. u # NoSession
    BY <2>1, <2>2 DEF NoSession
  <2>4. Stays(u, v)
    BY <2>1, <2>3
  <2> HIDE DEF u, v
  <2>5. v.flow = h.flow /\ (v.state = "CLOSED" => v.age <= keep_timeout(h.flow))
    BY <1>1, <2>1, <2>2, <2>4 DEF Stays
  <2> QED  BY <2>5 DEF HeldGood, v
<1>3. \A h \in held' : HeldGood(h)'
  BY <1>2 DEF HeldGood
<1> QED  BY <1>3 DEF HeldInv, SInv

LEMMA HeldNone == ASSUME held' = {}  PROVE HeldInv'
BY DEF HeldInv

LEMMA HeldSame ==
  ASSUME SInv, held' \subseteq held, phase' \in {"off", "start"} => held' = {},
         session' = session
  PROVE  HeldInv'
<1>1. \A s \in Slots : Stays(session[s], session'[s])
  BY DEF Stays
<1> QED  BY <1>1, HeldLess

-----------------------------------------------------------------------------
\* The actions of the thread.

SStep == SInv' /\ ListStep

LEMMA StepParts ==
  ASSUME ListStep, BatchInv', HeldInv',
         fds' \subseteq Slots, readable' \subseteq fds', failed' \subseteq fds',
         phase' \in Phases, sessions' \in 0 .. Cardinality(Slots),
         wait' \in 0 .. EPOLL_TIMEOUT, resolvers' \subseteq DnsFlows,
         batch' \subseteq Event \cup {Tun, Pipe}
  PROVE  SStep
BY DEF SStep, SInv, ListStep, SlotSteps, TypeOK, HeldInv

LEMMA StartStep == ASSUME SInv, Start  PROVE SStep
<1>1. \A s \in Slots : session'[s] = CheckAllowed(session[s]) /\ SlotGood(s)
  BY DEF Start, SInv
<1>2. fds' = fds /\ readable' = readable /\ failed' = failed
  BY DEF Start, sockets
<1>3. ASSUME NEW s \in Slots  PROVE SlotGood(s)' /\ SlotGoesOn(s)
  <2>1. /\ Good(session[s], s \in fds) /\ session'[s] = CheckAllowed(session[s])
        /\ s \in fds' <=> s \in fds
    BY <1>1, <1>2 DEF SlotGood
  <2> DEFINE o == s \in fds
  <2>2. o \in BOOLEAN /\ Good(session[s], o)
    BY <2>1
  <2> HIDE DEF o
  <2>3. Good(session'[s], o) /\ GoesOn(session[s], o, session'[s], o)
    BY <2>1, <2>2, CheckAllowedStep
  <2> QED  BY <2>1, <2>3 DEF SlotGood, SlotGoesOn, Good, GoesOn, o
<1>4. session' \in [Slots -> Session]
  <2>1. session' = [s \in Slots |-> CheckAllowed(session[s])]
    BY DEF Start
  <2>2. \A s \in Slots : session'[s] \in Session
    BY <1>3 DEF SlotGood, Good
  <2> QED  BY <2>1, <2>2
<1>5. ListStep
  BY <1>3, <1>4, AllGoOn
<1>6. BatchInv'
  BY <1>2 DEF SInv, BatchInv, Start
<1>7. HeldInv'
  BY HeldNone DEF SInv, HeldInv, Start, sockets
<1> QED  BY <1>2, <1>5, <1>6, <1>7, StepParts DEF SInv, TypeOK, Start, Phases

\* Actions that leave the list and the open sockets as they are.
LEMMA StopStep == ASSUME SInv, Stop \/ Break  PROVE SStep
<1>1. /\ session' = session /\ fds' = fds /\ readable' = readable /\ failed' = failed
      /\ phase' = "off" /\ batch' = {} /\ sessions' = sessions /\ wait' = wait
      /\ resolvers' = resolvers /\ held' = {}
  BY DEF Stop, Break, EndThread
<1>2. BatchInv' /\ HeldInv'
  BY <1>1, HeldNone DEF BatchInv
<1>3. ListStep
  BY <1>1, SameList
<1> QED  BY <1>1, <1>2, <1>3, StepParts DEF SInv, TypeOK, Phases

LEMMA EpollWaitStep == ASSUME SInv, EpollWait  PROVE SStep
<1>1. /\ session' = session /\ fds' = fds /\ readable' = readable /\ failed' = failed
      /\ phase' = "dispatch" /\ sessions' = sessions /\ wait' = 0
      /\ resolvers' = resolvers /\ held' = held
  BY DEF EpollWait, sockets
<1> DEFINE Closed == [slot : HeldSlots, ev : {"IN", "ERR"}, closed : {TRUE}]
           Errors == [slot : failed, ev : {"ERR"}, closed : {FALSE}]
           Inputs == [slot : readable \ failed, ev : {"IN"}, closed : {FALSE}]
<1>2. PICK other \in SUBSET ({Tun, Pipe} \cup Closed) :
        batch' = other \cup Errors \cup Inputs
  BY DEF EpollWait
<1>3. failed \subseteq Slots /\ readable \subseteq Slots /\ failed \subseteq fds
      /\ readable \subseteq fds /\ HeldSlots \subseteq Slots /\ HeldSlots' = HeldSlots
  BY <1>1 DEF SInv, TypeOK, HeldSlots
<1>4. Closed \subseteq Event /\ Errors \subseteq Event /\ Inputs \subseteq Event
  BY <1>3 DEF Event
<1>5. \A e \in batch' \ {Tun, Pipe} : e \in Closed \/ e \in Errors \/ e \in Inputs
  <2> HIDE DEF Closed, Errors, Inputs
  <2> QED  BY <1>2
<1>6. BatchInv'
  <2>1. \A e \in batch' \ {Tun, Pipe} : /\ e.slot \in fds' \/ e.slot \in HeldSlots'
                                        /\ e.closed = TRUE => e.slot \in HeldSlots'
    BY <1>1, <1>3, <1>5
  <2>2. \A d, e \in batch' \ {Tun, Pipe} :
          d.slot = e.slot /\ d.closed = FALSE /\ e.closed = FALSE => d = e
    <3>1. ASSUME NEW c \in batch' \ {Tun, Pipe}, c.closed = FALSE
          PROVE  c = [slot |-> c.slot, ev |-> IF c.slot \in failed THEN "ERR" ELSE "IN",
                      closed |-> FALSE]
      <4>1. c \notin Closed
        BY <3>1
      <4>2. c \in Errors \/ c \in Inputs
        BY <1>5, <4>1
      <4>3. CASE c \in Errors
        BY <4>3
      <4>4. CASE c \in Inputs
        BY <4>4
      <4> QED  BY <4>2, <4>3, <4>4
    <3> QED  BY <3>1, Zenon
  <2> QED  BY <1>1, <2>1, <2>2 DEF BatchInv
<1>7. ListStep
  BY <1>1, SameList
<1>8. 0 \in 0 .. EPOLL_TIMEOUT
  BY SlotsAssumption
<1>9. batch' \subseteq Event \cup {Tun, Pipe}
  <2> HIDE DEF Closed, Errors, Inputs
  <2> QED  BY <1>2, <1>4
<1>10. HeldInv'
  BY <1>1, HeldSame
<1> QED  BY <1>1, <1>6, <1>7, <1>8, <1>9, <1>10, StepParts DEF SInv, TypeOK, Phases

LEMMA QuietStep ==
  ASSUME SInv, EndDispatch \/ TunReadable \/ TunEmpty
  PROVE  SStep
<1>1. /\ session' = session /\ fds' = fds /\ readable' = readable /\ failed' = failed
      /\ sessions' = sessions /\ wait' = wait /\ held' = held
      /\ batch' \subseteq batch /\ resolvers' = resolvers
  BY DEF EndDispatch, TunReadable, TunEmpty, sockets
<1>2. /\ phase' \in Phases /\ phase' \notin {"off", "start"}
      /\ phase' \in {"round", "poll"} => batch' = {}
  BY DEF EndDispatch, TunReadable, TunEmpty, Phases, SInv, BatchInv
<1>3. BatchInv'
  BY <1>1, <1>2 DEF SInv, BatchInv, HeldSlots
<1>4. ListStep
  BY <1>1, SameList
<1>5. /\ readable' \subseteq fds' /\ failed' \subseteq fds' /\ fds' \subseteq Slots
      /\ batch' \subseteq Event \cup {Tun, Pipe}
      /\ sessions' \in 0 .. Cardinality(Slots) /\ wait' \in 0 .. EPOLL_TIMEOUT
      /\ resolvers' \subseteq DnsFlows
  BY <1>1 DEF SInv, TypeOK
<1>6. HeldInv'
  BY <1>1, <1>2, HeldSame
<1> QED  BY <1>2, <1>3, <1>4, <1>5, <1>6, StepParts

LEMMA ResolverStep ==
  ASSUME SInv,
         (\E f \in DnsFlows : Resolved(f)) \/ (\E s \in Slots : ResolverExits(s))
  PROVE  SStep
<1>1. /\ session' = session /\ fds' = fds /\ readable' = readable /\ failed' = failed
      /\ sessions' = sessions /\ wait' = wait /\ held' \subseteq held /\ phase' = phase
      /\ batch' = batch /\ resolvers' \subseteq resolvers
      /\ phase \notin {"dispatch", "tun"}
  BY DEF Resolved, ResolverExits
<1>2. batch = {} /\ (phase' \in {"off", "start"} => held' = {})
  BY <1>1 DEF SInv, TypeOK, BatchInv, HeldInv, Phases
<1>3. BatchInv' /\ HeldInv'
  BY <1>1, <1>2, HeldSame DEF BatchInv
<1>4. ListStep
  BY <1>1, SameList
<1>5. resolvers' \subseteq DnsFlows
  BY <1>1 DEF SInv, TypeOK
<1> QED  BY <1>1, <1>3, <1>4, <1>5, StepParts DEF SInv, TypeOK

LEMMA SocketStep ==
  ASSUME SInv, NEW s \in Slots, Arrives(s) \/ Fails(s)
  PROVE  SStep
<1>1. /\ session' = session /\ fds' = fds /\ phase' = phase
      /\ sessions' = sessions /\ wait' = wait /\ held' = held
      /\ batch' = batch /\ resolvers' = resolvers
      /\ readable' \subseteq fds /\ failed' \subseteq fds
  BY DEF Arrives, Fails, SInv, TypeOK
<1>2. BatchInv' /\ HeldInv'
  BY <1>1, HeldSame DEF SInv, BatchInv, HeldInv, HeldSlots
<1>3. ListStep
  BY <1>1, SameList
<1> QED  BY <1>1, <1>2, <1>3, StepParts DEF SInv, TypeOK

LEMMA ActiveCount == ASSUME SInv  PROVE Cardinality(Active) \in 0 .. Cardinality(Slots)
<1>1. IsFiniteSet(Slots) /\ Active \in SUBSET Slots
  BY SlotsAssumption DEF Active
<1>2. IsFiniteSet(Active) /\ Cardinality(Active) <= Cardinality(Slots)
  BY <1>1, FS_Subset
<1> QED  BY <1>1, <1>2, FS_CardinalityType

\* monitor_tcp_session leaves a session as it is, or, of TCP, sets it to closing.
LEMMA MonitoredSlot ==
  ASSUME SInv, NEW list \in Monitored, NEW s \in Slots
  PROVE  /\ Good(list[s], s \in fds) /\ Stays(session[s], list[s])
         /\ GoesOn(session[s], s \in fds, list[s], s \in fds)
         /\ \/ list[s] = session[s]
            \/ /\ session[s].flow \in TcpFlows /\ list[s].state = "FINISHING"
               /\ list[s].flow = session[s].flow /\ session[s].state = "ACTIVE"
<1>1. PICK broken \in SUBSET (Active \cap Of(TcpFlows) \cap fds) :
        list = [t \in Slots |-> IF t \in broken THEN [session[t] EXCEPT !.state = "FINISHING"]
                                ELSE session[t]]
  BY DEF Monitored
<1> DEFINE u == session[s]
           v == list[s]
           o == s \in fds
<1>2. Good(u, o) /\ o \in BOOLEAN
  BY DEF SInv, SlotGood
<1>3. CASE s \notin broken
  <2>1. v = u
    BY <1>1, <1>3
  <2> QED  BY <1>2, <2>1 DEF GoesOn, Stays
<1>4. CASE s \in broken
  <2>1. u.state = "ACTIVE" /\ u.flow \in TcpFlows /\ v = [u EXCEPT !.state = "FINISHING"]
    BY <1>1, <1>4 DEF Active, Of
  <2> HIDE DEF u, v, o
  <2>2. /\ v \in Session /\ v.state = "FINISHING" /\ v.flow = u.flow
        /\ v.age = u.age /\ v.used = u.used /\ v.id = u.id /\ v.pinged = u.pinged
    BY <1>2, <2>1 DEF Good, Session, States
  <2>3. Good(v, o) /\ GoesOn(u, o, v, o) /\ Stays(u, v)
    BY <1>2, <2>1, <2>2 DEF Good, GoesOn, Stays, NoSession
  <2> QED  BY <2>1, <2>2, <2>3 DEF u, v, o
<1> QED  BY <1>3, <1>4

LEMMA RoundUncheckedStep == ASSUME SInv, RoundUnchecked  PROVE SStep
<1>1. /\ session' \in Monitored /\ fds' = fds /\ readable' = readable /\ failed' = failed
      /\ phase' = "poll" /\ wait' = 0 /\ sessions' = Cardinality(Active)
      /\ batch' = batch /\ batch = {} /\ resolvers' = resolvers /\ held' = held
  BY DEF RoundUnchecked, sockets, SInv, BatchInv
<1>2. BatchInv'
  BY <1>1 DEF BatchInv
<1>3. \A s \in Slots : SlotGood(s)' /\ SlotGoesOn(s) /\ Stays(session[s], session'[s])
  BY <1>1, MonitoredSlot DEF SlotGood, SlotGoesOn
<1>4. session' \in [Slots -> Session]
  <2>1. \A s \in Slots : session'[s] \in Session
    BY <1>3 DEF SlotGood, Good
  <2> QED  BY <1>1, <2>1 DEF Monitored
<1>5. ListStep
  BY <1>3, <1>4, AllGoOn
<1>6. HeldInv'
  BY <1>1, <1>3, HeldLess
<1>7. 0 \in 0 .. EPOLL_TIMEOUT
  BY SlotsAssumption
<1> QED
  BY <1>1, <1>2, <1>5, <1>6, <1>7, ActiveCount, StepParts DEF SInv, TypeOK, Phases

LEMMA TickStep == ASSUME SInv, Tick  PROVE SStep
<1>1. /\ fds' = fds /\ readable' = readable /\ failed' = failed /\ held' = held
      /\ phase' = phase /\ wait' = wait - 1 /\ wait > 0 /\ sessions' = sessions
      /\ batch' = batch /\ resolvers' = resolvers /\ phase = "poll" /\ Outlived
  BY DEF Tick, sockets
<1>2. session' = [s \in Slots |-> Older(session[s])] /\ \A s \in Slots : SlotGood(s)
  BY DEF Tick, SInv
<1>3. ASSUME NEW s \in Slots  PROVE SlotGood(s)' /\ SlotGoesOn(s)
  <2>1. /\ Good(session[s], s \in fds) /\ session'[s] = Older(session[s])
        /\ s \in fds' <=> s \in fds
    BY <1>1, <1>2 DEF SlotGood
  <2> DEFINE o == s \in fds
  <2>2. o \in BOOLEAN /\ Good(session[s], o)
    BY <2>1
  <2> HIDE DEF o
  <2>3. Good(session'[s], o) /\ GoesOn(session[s], o, session'[s], o)
    BY <2>1, <2>2, OlderStep
  <2> QED  BY <2>1, <2>3 DEF SlotGood, SlotGoesOn, Good, GoesOn, o
<1>4. session' \in [Slots -> Session]
  <2>1. \A s \in Slots : session'[s] \in Session
    BY <1>3 DEF SlotGood, Good
  <2> QED  BY <1>2, <2>1
<1>5. ListStep
  BY <1>3, <1>4, AllGoOn
<1>6. BatchInv'
  BY <1>1 DEF SInv, BatchInv
<1>7. wait' \in 0 .. EPOLL_TIMEOUT
  BY <1>1, SlotsAssumption DEF SInv, TypeOK
<1>8. ASSUME NEW h \in held, h.flow \notin IcmpFlows
      PROVE  HeldGood(h)'
  <2>1. h.slot \in Slots /\ h.flow \in Flows /\ HeldGood(h)
    BY DEF SInv, HeldInv
  <2> DEFINE u == session[h.slot]
             v == session'[h.slot]
  <2>2. u.flow = h.flow /\ v = Older(u) /\ u \in Session
    BY <1>2, <1>8, <2>1 DEF HeldGood, SInv, TypeOK
  <2>3. u.state = "CLOSED" => u.age < keep_timeout(h.flow)
    BY <1>1, <1>8 DEF Outlived
  <2>4. keep_timeout(h.flow) \in Nat
    BY TimeoutsAssumption DEF keep_timeout, Timeouts
  <2> HIDE DEF u, v
  <2>5. v.flow = u.flow /\ v.state = u.state /\ v.age \in {u.age, u.age + 1}
    BY <2>2 DEF Older, Session
  <2>6. u.age \in Int
    BY <2>2, TimeoutsAssumption DEF Session
  <2>7. v.flow = h.flow /\ (v.state = "CLOSED" => v.age <= keep_timeout(h.flow))
    BY <2>2, <2>3, <2>4, <2>5, <2>6
  <2> QED  BY <2>7 DEF HeldGood, v
<1>9. HeldInv'
  BY <1>1, <1>8 DEF SInv, HeldInv, HeldGood
<1> QED  BY <1>1, <1>5, <1>6, <1>7, <1>9, StepParts DEF SInv, TypeOK

LEMMA MinOfNaturals ==
  ASSUME NEW T, T \subseteq Nat, T # {}
  PROVE  Min(T) \in T /\ \A y \in T : Min(T) <= y
<1>1. PICK x \in T : \A y \in T : ~ (<<y, x>> \in OpToRel(<, Nat))
  BY NatLessThanWellFounded, WFMin
<1>2. \A y \in T : ~ (y < x)
  BY <1>1 DEF OpToRel
<1>3. \A y \in T : x <= y
  BY <1>2
<1> QED  BY <1>3 DEF Min

\* The loop sleeps no longer than EPOLL_TIMEOUT.
LEMMA SleepBound ==
  ASSUME NEW list \in [Slots -> Session], NEW n \in Nat
  PROVE  Sleep(list, n) \in 0 .. EPOLL_TIMEOUT
<1> DEFINE A == { get_timeout(list[s], n) - list[s].age + 1 :
                  s \in { s \in Slots : list[s].state = "ACTIVE" } }
           T == {EPOLL_TIMEOUT} \cup { t \in A : t > 0 }
<1>1. \A t \in A : t \in Int
  <2>1. ASSUME NEW s \in Slots
        PROVE  get_timeout(list[s], n) - list[s].age + 1 \in Int
    <3>1. get_timeout(list[s], n) \in Int /\ list[s].age \in Int
      BY TimeoutType, TimeoutsAssumption DEF Session
    <3> QED  BY <3>1
  <2> QED  BY <2>1
<1>2. EPOLL_TIMEOUT \in Nat
  BY SlotsAssumption
<1>3. Sleep(list, n) = Min(T)
  BY DEF Sleep
<1> HIDE DEF A
<1>4. T \subseteq Nat /\ EPOLL_TIMEOUT \in T
  BY <1>1, <1>2
<1> HIDE DEF T
<1>5. Min(T) \in Nat /\ Min(T) <= EPOLL_TIMEOUT
  BY <1>4, MinOfNaturals
<1> QED  BY <1>2, <1>3, <1>5

\* The check of a session that monitor_tcp_session may have set to closing.
LEMMA RoundSlot ==
  ASSUME SInv, NEW list \in Monitored, NEW s \in Slots, NEW n \in Nat, NEW p \in BOOLEAN,
         p <=> s \in fds /\ check_session(list[s], n).state \notin {"CLOSED", "NONE"}
  PROVE  /\ Good(check_session(list[s], n), p)
         /\ \/ GoesOn(session[s], s \in fds, check_session(list[s], n), p)
            \/ Ends(session[s], s \in fds, check_session(list[s], n), p)
         /\ (/\ s \in Active \cap Of(UdpFlows \cup IcmpFlows) /\ session[s].used = TRUE
             /\ check_session(list[s], n).state \in {"CLOSED", "NONE"}) => n > maxsessions
         /\ (/\ session[s].flow \notin IcmpFlows
             /\ session[s].state = "CLOSED" =>
                  session[s].age <= keep_timeout(session[s].flow))
               => Stays(session[s], check_session(list[s], n))
<1> DEFINE u == session[s]
           w == list[s]
           v == check_session(w, n)
           o == s \in fds
<1>1. /\ Good(w, o) /\ o \in BOOLEAN /\ (p <=> o /\ v.state \notin {"CLOSED", "NONE"})
      /\ \/ w = u
         \/ /\ u.flow \in TcpFlows /\ w.state = "FINISHING" /\ w.flow = u.flow
            /\ u.state = "ACTIVE"
  BY MonitoredSlot
<1>2. s \in Active \cap Of(UdpFlows \cup IcmpFlows) =>
        u.state = "ACTIVE" /\ u.flow \notin DnsFlows \cup TcpFlows
  BY FlowsAssumption DEF Active, Of
<1> HIDE DEF u, w, o
<1>3. /\ Good(v, p)
      /\ GoesOn(w, o, v, p) \/ Ends(w, o, v, p)
      /\ (/\ w.state = "ACTIVE" /\ w.flow \notin DnsFlows /\ w.used = TRUE
          /\ v.state \in {"CLOSED", "NONE"}) => n > maxsessions
      /\ w.state = "FINISHING" => Ends(w, o, v, p)
      /\ (w.flow \notin IcmpFlows /\ (w.state = "CLOSED" => w.age <= keep_timeout(w.flow)))
            => Stays(w, v)
  BY <1>1, CheckStep
<1> HIDE DEF v
<1>4. CASE w = u
  <2>1. GoesOn(u, o, v, p) \/ Ends(u, o, v, p)
    BY <1>3, <1>4
  <2>2. (/\ s \in Active \cap Of(UdpFlows \cup IcmpFlows) /\ u.used = TRUE
         /\ v.state \in {"CLOSED", "NONE"}) => n > maxsessions
    BY <1>2, <1>3, <1>4
  <2>3. (u.flow \notin IcmpFlows /\ (u.state = "CLOSED" => u.age <= keep_timeout(u.flow)))
           => Stays(u, v)
    BY <1>3, <1>4
  <2> QED  BY <1>3, <2>1, <2>2, <2>3 DEF u, v, w, o
<1>5. CASE /\ u.flow \in TcpFlows /\ w.state = "FINISHING" /\ w.flow = u.flow
           /\ u.state = "ACTIVE"
  <2>1. Ends(w, o, v, p) /\ u # NoSession
    BY <1>3, <1>5 DEF NoSession
  <2>2. Ends(u, o, v, p)
    BY <1>5, <2>1 DEF Ends
  <2>3. u.flow \notin IcmpFlows => Stays(u, v)
    <3>1. u.flow \notin IcmpFlows => Stays(w, v)
      BY <1>3, <1>5
    <3> QED  BY <1>5, <3>1 DEF Stays
  <2>4. s \notin Active \cap Of(UdpFlows \cup IcmpFlows)
    BY <1>2, <1>5
  <2> QED  BY <1>3, <2>2, <2>3, <2>4 DEF u, v, w, o
<1> QED  BY <1>1, <1>4, <1>5

LEMMA RoundStep == ASSUME SInv, Round  PROVE SStep
<1> DEFINE n == Cardinality(Active)
<1>1. n \in 0 .. Cardinality(Slots) /\ n \in Nat
  BY ActiveCount
<1>2. PICK list \in Monitored : CheckSessions(list, n)
  BY DEF Round
<1>3. /\ session' = [s \in Slots |-> check_session(list[s], n)] /\ sessions' = n
      /\ CloseSockets({ s \in Slots : session'[s].state \in {"CLOSED", "NONE"} })
      /\ wait' \in {Sleep(session', n), 0} /\ phase' = "poll"
      /\ batch' = batch /\ batch = {} /\ resolvers' = resolvers
  BY <1>2 DEF Round, CheckSessions, SInv, BatchInv
<1> HIDE DEF n
<1>4. ASSUME NEW s \in Slots
      PROVE  /\ SlotGood(s)' /\ (SlotGoesOn(s) \/ SlotEnds(s))
             /\ (/\ s \in Active \cap Of(UdpFlows \cup IcmpFlows) /\ session[s].used
                 /\ session'[s].state \in {"CLOSED", "NONE"}) => n > maxsessions
             /\ (/\ session[s].flow \notin IcmpFlows
                 /\ session[s].state = "CLOSED" =>
                      session[s].age <= keep_timeout(session[s].flow))
                   => Stays(session[s], session'[s])
  <2> DEFINE p == s \in fds'
  <2>1. /\ p \in BOOLEAN /\ session'[s] = check_session(list[s], n)
        /\ p <=> s \in fds /\ check_session(list[s], n).state \notin {"CLOSED", "NONE"}
    BY <1>3 DEF CloseSockets
  <2>2. session[s].used \in BOOLEAN
    BY DEF SInv, SlotGood, Good, Session
  <2> HIDE DEF p
  <2>3. /\ Good(session'[s], p)
        /\ \/ GoesOn(session[s], s \in fds, session'[s], p)
           \/ Ends(session[s], s \in fds, session'[s], p)
        /\ (/\ s \in Active \cap Of(UdpFlows \cup IcmpFlows) /\ session[s].used = TRUE
            /\ session'[s].state \in {"CLOSED", "NONE"}) => n > maxsessions
        /\ (/\ session[s].flow \notin IcmpFlows
            /\ session[s].state = "CLOSED" =>
                 session[s].age <= keep_timeout(session[s].flow))
              => Stays(session[s], session'[s])
    BY <1>1, <2>1, RoundSlot
  <2> QED  BY <2>2, <2>3 DEF p, SlotGood, SlotGoesOn, SlotEnds
<1>5. session' \in [Slots -> Session]
  <2>1. \A s \in Slots : session'[s] \in Session
    BY <1>4 DEF SlotGood, Good
  <2> QED  BY <1>3, <2>1
<1>6. UsedStep
  BY <1>3, <1>4 DEF UsedStep, Active
<1>7. SlotSteps /\ OneSession'
  BY <1>4, StillOne DEF SlotSteps
<1>8. BatchInv'
  BY <1>3 DEF BatchInv
<1>9. wait' \in 0 .. EPOLL_TIMEOUT
  BY <1>1, <1>3, <1>5, SleepBound, SlotsAssumption
<1>10. HeldInv'
  <2>1. PICK K \in SUBSET ({ s \in Slots : session'[s].state \in {"CLOSED", "NONE"} }
                             \cap Shared) :
          held' = held \cup { [slot |-> s, flow |-> session[s].flow] : s \in K }
    BY <1>3 DEF CloseSockets
  <2>2. K \in SUBSET fds
    BY DEF Shared
  <2>3. \A s \in Slots \cap K : session[s].state # "CLOSED"
    BY <2>2 DEF SInv, SlotGood, Good
  <2>4. \A s \in Slots :
          /\ session[s].flow \notin IcmpFlows
          /\ s \in K \/ (session[s].state = "CLOSED" =>
                           session[s].age <= keep_timeout(session[s].flow))
          => Stays(session[s], session'[s]) \/ session[s] = NoSession
    BY <1>4, <2>3
  <2> QED  BY <1>3, <2>1, <2>2, <2>4, HeldStep
<1> QED
  BY <1>1, <1>3, <1>5, <1>6, <1>7, <1>8, <1>9, <1>10, StepParts
  DEF ListStep, CloseSockets, SInv, TypeOK, Phases

\* The list is freed: no session is left.
LEMMA ClearListStep ==
  ASSUME SInv, phase = "off", ClearList
  PROVE  SStep
<1>1. /\ session' = [s \in Slots |-> NoSession] /\ fds' = {} /\ readable' = {} /\ failed' = {}
      /\ phase' = "off" /\ sessions' = sessions /\ wait' = wait
      /\ batch' = batch /\ batch = {} /\ resolvers' = resolvers
  BY DEF ClearList, CloseSockets, SInv, TypeOK, BatchInv
<1>2. ASSUME NEW s \in Slots  PROVE SlotGood(s)' /\ (SlotGoesOn(s) \/ SlotEnds(s))
  <2>1. session'[s] = NoSession /\ s \notin fds' /\ SlotGood(s)
    BY <1>1 DEF SInv
  <2>2. SlotGood(s)'
    BY <2>1, NoSessionGood DEF SlotGood, Good
  <2>3. CASE session[s] = NoSession
    <3>1. s \notin fds
      BY <2>1, <2>3 DEF SlotGood, Good, NoSession
    <3> QED  BY <2>1, <2>2, <2>3, <3>1 DEF SlotGoesOn, GoesOn
  <2>4. CASE session[s] # NoSession
    BY <2>1, <2>2, <2>4 DEF SlotEnds, Ends
  <2> QED  BY <2>3, <2>4
<1>3. SlotSteps /\ OneSession'
  BY <1>2, StillOne DEF SlotSteps
<1>4. session' \in [Slots -> Session] /\ UsedStep
  BY <1>1, NoSessionGood DEF Good, UsedStep
<1>5. BatchInv'
  BY <1>1 DEF BatchInv
<1>6. held' = {}
  <2>1. held = {} /\ Shared = {}
    BY DEF SInv, HeldInv, Shared
  <2>2. PICK K \in SUBSET (Slots \cap Shared) :
          held' = held \cup { [slot |-> s, flow |-> session[s].flow] : s \in K }
    BY DEF ClearList, CloseSockets
  <2>3. K = {}
    BY <2>1
  <2> QED  BY <2>1, <2>2, <2>3
<1> QED
  BY <1>1, <1>3, <1>4, <1>5, <1>6, HeldNone, StepParts DEF ListStep, SInv, TypeOK

-----------------------------------------------------------------------------
\* Events of the sockets.

\* The socket of a session is closed and may be held.
Closes(s) ==
  /\ fds' = fds \ {s} /\ s \in fds
  /\ \E kept \in SUBSET {s} :
       held' = held \cup { [slot |-> r, flow |-> session[r].flow] : r \in kept }

\* The events left are of open sockets and of held ones.
LEMMA BatchLess ==
  ASSUME SInv, NEW e \in batch, e \notin {Tun, Pipe}, batch' = batch \ {e},
         phase' = "dispatch", phase = "dispatch",
         (fds' = fds /\ held' = held) \/ Closes(e.slot)
  PROVE  BatchInv'
<1> DEFINE s == e.slot
           Known(c) == /\ c.slot \in fds \/ c.slot \in HeldSlots
                       /\ c.closed = TRUE => c.slot \in HeldSlots
<1>1. /\ e \in batch \ {Tun, Pipe}
      /\ \A d \in batch \ {Tun, Pipe} : Known(d)
      /\ \A d, c \in batch \ {Tun, Pipe} :
           d.slot = c.slot /\ d.closed = FALSE /\ c.closed = FALSE => d = c
  BY DEF SInv, BatchInv
<1>2. \A d \in batch \ {Tun, Pipe} : d.closed \in BOOLEAN
  BY DEF SInv, TypeOK, Event
<1>3. HeldSlots \subseteq HeldSlots'
  BY DEF HeldSlots, Closes
<1>4. fds \ {s} \subseteq fds'
  BY DEF Closes
<1>5. ASSUME NEW d \in batch' \ {Tun, Pipe}
      PROVE  /\ d.slot \in fds' \/ d.slot \in HeldSlots'
             /\ d.closed = TRUE => d.slot \in HeldSlots'
  <2>1. d \in batch \ {Tun, Pipe} /\ d # e /\ Known(d) /\ Known(e)
    BY <1>1
  <2>2. CASE d.slot # s
    <3>1. d.slot \in fds => d.slot \in fds'
      BY <1>4, <2>2
    <3> QED  BY <1>3, <2>1, <3>1
  <2>3. CASE d.slot = s
    <3>1. d.closed = TRUE \/ e.closed = TRUE
      BY <1>1, <1>2, <2>1, <2>3
    <3>2. s \in HeldSlots
      BY <2>1, <2>3, <3>1
    <3> QED  BY <1>3, <2>3, <3>2
  <2> QED  BY <2>2, <2>3
<1>6. \A d, c \in batch' \ {Tun, Pipe} :
        d.slot = c.slot /\ d.closed = FALSE /\ c.closed = FALSE => d = c
  BY <1>1
<1> QED  BY <1>5, <1>6 DEF BatchInv

\* The handling of an event changes its session only, and closes no other socket.
LEMMA EventStep ==
  ASSUME SInv, NEW s \in Slots, NEW ev, SocketEvent(s, ev),
         NEW v, session' = [session EXCEPT ![s] = v],
         (fds' = fds /\ held' = held) \/ Closes(s),
         readable' \subseteq fds', failed' \subseteq fds',
         Good(v, s \in fds'), GoesOn(session[s], s \in fds, v, s \in fds'),
         Stays(session[s], v)
  PROVE  SStep
<1>1. /\ phase = "dispatch" /\ phase' = phase /\ sessions' = sessions /\ wait' = wait
      /\ resolvers' = resolvers
  BY DEF SocketEvent
<1>2. PICK e \in batch : e.slot = s /\ batch' = batch \ {e}
  BY DEF SocketEvent
<1>3. e \notin {Tun, Pipe}
  BY <1>2, SlotsAssumption DEF Tun, Pipe
<1>4. BatchInv'
  BY <1>1, <1>2, <1>3, BatchLess
<1>5. ListStep
  BY OneGoesOn DEF Closes
<1>6. \A r \in Slots : Stays(session[r], session'[r])
  BY DEF Stays, SInv, TypeOK
<1>7. HeldInv'
  <2>1. CASE held' = held
    BY <1>1, <1>6, <2>1, HeldLess
  <2>2. CASE Closes(s)
    <3>1. PICK K \in SUBSET {s} :
            held' = held \cup { [slot |-> r, flow |-> session[r].flow] : r \in K }
      BY <2>2 DEF Closes
    <3>2. K \in SUBSET fds
      BY <2>2 DEF Closes
    <3> QED  BY <1>1, <1>6, <3>1, <3>2, HeldStep
  <2> QED  BY <2>1, <2>2
<1>8. fds' \subseteq Slots /\ batch' \subseteq Event \cup {Tun, Pipe}
  BY <1>2 DEF SInv, TypeOK, Closes
<1> QED  BY <1>1, <1>4, <1>5, <1>7, <1>8, StepParts DEF SInv, TypeOK

\* The handler leaves the list and the sockets as they are.
LEMMA IgnoredStep ==
  ASSUME SInv, NEW s \in Slots, NEW ev, SocketEvent(s, ev), UNCHANGED <<session, sockets>>
  PROVE  SStep
<1>1. session' = session /\ fds' = fds /\ readable' = readable /\ failed' = failed
      /\ held' = held
  BY DEF sockets
<1>2. session' = [session EXCEPT ![s] = session[s]]
  BY <1>1 DEF SInv, TypeOK
<1>3. Good(session[s], s \in fds') /\ GoesOn(session[s], s \in fds, session[s], s \in fds')
  BY <1>1 DEF SInv, SlotGood, GoesOn
<1>4. Stays(session[s], session[s])
  BY DEF Stays
<1>5. readable' \subseteq fds' /\ failed' \subseteq fds'
  BY <1>1 DEF SInv, TypeOK
<1> QED  BY <1>1, <1>2, <1>3, <1>4, <1>5, EventStep

\* The handler of an event of an open socket.
LEMMA TouchedEvent ==
  ASSUME SInv, NEW s \in Slots, NEW ev, SocketEvent(s, ev),
         NEW v, session' = [session EXCEPT ![s] = v],
         session[s].state \in {"ACTIVE", "FINISHING"}, Touched(session[s], v),
         fds' = fds, held' = held, readable' \subseteq readable, failed' \subseteq failed
  PROVE  SStep
<1> DEFINE u == session[s]
           o == s \in fds
<1>1. Good(u, o) /\ o \in BOOLEAN /\ u.state \in {"ACTIVE", "FINISHING"} /\ Touched(u, v)
  BY DEF SInv, SlotGood
<1> HIDE DEF u, o
<1>2. Good(v, o) /\ GoesOn(u, o, v, o) /\ Stays(u, v)
  BY <1>1, TouchedStep
<1>3. Good(v, s \in fds') /\ GoesOn(session[s], s \in fds, v, s \in fds')
      /\ Stays(session[s], v)
  BY <1>2 DEF u, o
<1>4. readable' \subseteq fds' /\ failed' \subseteq fds'
  BY DEF SInv, TypeOK
<1> QED  BY <1>3, <1>4, EventStep

\* Only the time and the state of a record change.
LEMMA AgedRecord ==
  ASSUME NEW u \in Session, NEW t \in States, NEW v,
         v = [u EXCEPT !.age = 0, !.state = t]
  PROVE  v \in Session /\ v.flow = u.flow /\ v.state = t /\ v.age = 0
<1>1. 0 \in 0 .. MaxAge
  BY TimeoutsAssumption
<1> QED  BY <1>1 DEF Session

LEMMA TcpStep ==
  ASSUME SInv, NEW s \in Slots, NEW ev, SocketEvent(s, ev), s \in Of(TcpFlows),
         NEW t \in States, session' = [session EXCEPT ![s] = [session[s] EXCEPT !.age = 0, !.state = t]],
         \/ /\ fds' = fds /\ held' = held
            /\ t = session[s].state \/ (session[s].state # "CLOSED" /\ t = "FINISHING")
         \/ Closes(s) /\ session[s].state = "ACTIVE" /\ t \in {"ACTIVE", "FINISHING"},
         readable' \subseteq fds', failed' \subseteq fds'
  PROVE  SStep
<1> DEFINE u == session[s]
           v == [u EXCEPT !.age = 0, !.state = t]
           o == s \in fds
           q == s \in fds'
<1>1. Good(u, o) /\ u \in Session /\ u.flow \in TcpFlows /\ o \in BOOLEAN /\ q \in BOOLEAN
  BY DEF SInv, SlotGood, Good, Of
<1>2. \/ /\ q = o
         /\ t = u.state \/ (u.state # "CLOSED" /\ t = "FINISHING")
      \/ q = FALSE /\ u.state = "ACTIVE" /\ t \in {"ACTIVE", "FINISHING"}
  BY DEF Closes
<1>3. v \in Session /\ v.flow = u.flow /\ v.state = t /\ v.age = 0
  BY <1>1, AgedRecord
<1>4. session' = [session EXCEPT ![s] = v]
  OBVIOUS
<1>5. u.flow \notin IcmpFlows /\ u.flow # "none"
  BY <1>1, FlowsAssumption
<1> HIDE DEF u, v, o, q
<1>6. u.state \in {"ACTIVE", "FINISHING", "CLOSED"}
  BY <1>1, <1>5 DEF Good, NoSession, Session, States
<1>7. Good(v, q)
  BY <1>1, <1>2, <1>3, <1>5, <1>6 DEF Good
<1>8. GoesOn(u, o, v, q) /\ Stays(u, v)
  BY <1>1, <1>2, <1>3, <1>6 DEF GoesOn, Stays
<1>9. Good(v, s \in fds') /\ GoesOn(session[s], s \in fds, v, s \in fds')
      /\ Stays(session[s], v)
  BY <1>7, <1>8 DEF u, o, q
<1> QED  BY <1>4, <1>9, EventStep

LEMMA CheckSocketStep == ASSUME SInv, CheckSocket  PROVE SStep
<1>1. PICK s \in Slots :
        \/ UdpReadable(s) \/ UdpIgnored(s) \/ IcmpError(s) \/ FreedEvent(s)
        \/ TcpReset(s) \/ TcpRelay(s) \/ TcpEof(s) \/ TcpGone(s)
        \/ \E id \in Ids : EchoReply(s, id)
  BY DEF CheckSocket
<1>2. /\ readable \subseteq fds /\ failed \subseteq fds /\ SlotGood(s)
      /\ session[s] \in Session /\ session[s].state \in States
  BY DEF SInv, TypeOK, Session
<1>3. ASSUME NEW ok \in BOOLEAN
      PROVE  /\ Touched(session[s], check_udp_socket(session[s], ok))
             /\ Touched(session[s], check_icmp_socket(session[s], ok))
  BY <1>2, HandlersTouch
<1>4. Ok \subseteq BOOLEAN
  BY DEF Ok
<1>5. CASE UdpReadable(s)
  <2>1. PICK ok \in Ok : Update(s, check_udp_socket(session[s], ok /\ s \notin failed))
    BY <1>5 DEF UdpReadable
  <2> DEFINE k == ok /\ s \notin failed
             v == check_udp_socket(session[s], k)
  <2>2. k \in BOOLEAN
    OBVIOUS
  <2>3. session' = [session EXCEPT ![s] = v]
    BY <2>1 DEF Update
  <2> HIDE DEF k
  <2>4. Touched(session[s], v)
    BY <1>3, <2>2
  <2> HIDE DEF v
  <2>5. /\ SocketEvent(s, "IN") /\ fds' = fds /\ held' = held
        /\ readable' \subseteq readable /\ failed' \subseteq failed /\ s \in fds
    BY <1>2, <1>5 DEF UdpReadable
  <2>6. session[s].state \in {"ACTIVE", "FINISHING"}
    BY <1>2, <2>5 DEF SlotGood, Good
  <2> QED  BY <2>3, <2>4, <2>5, <2>6, TouchedEvent
<1>6. CASE UdpIgnored(s) \/ FreedEvent(s) \/ TcpGone(s)
  <2>1. PICK ev \in {"IN", "ERR"} : SocketEvent(s, ev)
    BY <1>6 DEF UdpIgnored, FreedEvent, TcpGone
  <2>2. UNCHANGED <<session, sockets>>
    BY <1>6 DEF UdpIgnored, FreedEvent, TcpGone
  <2> QED  BY <2>1, <2>2, IgnoredStep
<1>7. CASE IcmpError(s)
  <2> DEFINE v == check_icmp_socket(session[s], FALSE)
  <2>1. PICK ev \in {"IN", "ERR"} : SocketEvent(s, ev)
    BY <1>7 DEF IcmpError
  <2>2. session' = [session EXCEPT ![s] = v]
    BY <1>7 DEF IcmpError, Update
  <2>3. Touched(session[s], v)
    BY <1>3
  <2> HIDE DEF v
  <2>4. fds' = fds /\ held' = held /\ readable' \subseteq readable /\ failed' \subseteq failed
    BY <1>7 DEF IcmpError
  <2>5. session[s].flow \in IcmpFlows /\ session[s].flow # "none"
    BY <1>7, FlowsAssumption DEF IcmpError, Of
  <2>6. session[s].state \in {"ACTIVE", "FINISHING"}
    BY <1>2, <2>5 DEF SlotGood, Good, NoSession, States
  <2> QED  BY <2>1, <2>2, <2>3, <2>4, <2>6, TouchedEvent
<1>8. CASE \E id \in Ids : EchoReply(s, id)
  <2>1. PICK ok \in Ok : Update(s, check_icmp_socket(session[s], ok))
    BY <1>8 DEF EchoReply
  <2> DEFINE v == check_icmp_socket(session[s], ok)
  <2>2. session' = [session EXCEPT ![s] = v]
    BY <2>1 DEF Update
  <2>3. Touched(session[s], v)
    BY <1>3, <1>4
  <2> HIDE DEF v
  <2>4. /\ SocketEvent(s, "IN") /\ fds' = fds /\ held' = held
        /\ readable' \subseteq readable /\ failed' \subseteq failed /\ s \in fds
    BY <1>2, <1>8 DEF EchoReply
  <2>5. session[s].state \in {"ACTIVE", "FINISHING"}
    BY <1>2, <2>4 DEF SlotGood, Good
  <2> QED  BY <2>2, <2>3, <2>4, <2>5, TouchedEvent
<1>9. CASE TcpReset(s)
  <2> DEFINE t == IF session[s].state = "CLOSED" THEN "CLOSED" ELSE "FINISHING"
  <2>1. PICK ev \in {"IN", "ERR"} : SocketEvent(s, ev)
    BY <1>9 DEF TcpReset
  <2>2. /\ t \in States
        /\ t = session[s].state \/ (session[s].state # "CLOSED" /\ t = "FINISHING")
    BY DEF States
  <2>3. session' = [session EXCEPT ![s] = [session[s] EXCEPT !.age = 0, !.state = t]]
    <3>1. [session[s] EXCEPT !.age = 0,
                            !.state = IF @ = "CLOSED" THEN @ ELSE "FINISHING"]
            = [session[s] EXCEPT !.age = 0, !.state = t]
      BY <1>2 DEF Session
    <3> QED  BY <1>9, <3>1 DEF TcpReset, Update
  <2> HIDE DEF t
  <2>4. /\ s \in Of(TcpFlows) /\ fds' = fds /\ held' = held
        /\ readable' \subseteq fds' /\ failed' \subseteq fds'
    BY <1>2, <1>9 DEF TcpReset
  <2> QED  BY <2>1, <2>2, <2>3, <2>4, TcpStep
<1>10. CASE TcpRelay(s)
  <2>1. SocketEvent(s, "IN") /\ session' = [session EXCEPT ![s] = [session[s] EXCEPT !.age = 0]]
    BY <1>10 DEF TcpRelay, Update
  <2>2. [session[s] EXCEPT !.age = 0] = [session[s] EXCEPT !.age = 0, !.state = session[s].state]
    BY <1>2 DEF Session
  <2>3. session' = [session EXCEPT ![s] = [session[s] EXCEPT !.age = 0, !.state = session[s].state]]
    BY <2>1, <2>2
  <2>4. /\ s \in Of(TcpFlows) /\ fds' = fds /\ held' = held
        /\ readable' \subseteq fds' /\ failed' \subseteq fds'
    BY <1>2, <1>10 DEF TcpRelay
  <2> QED  BY <1>2, <2>1, <2>3, <2>4, TcpStep
<1>11. CASE TcpEof(s)
  <2>1. PICK t \in {"ACTIVE", "FINISHING"} :
          session' = [session EXCEPT ![s] = [session[s] EXCEPT !.age = 0, !.state = t]]
    BY <1>11 DEF TcpEof, Update
  <2>2. /\ SocketEvent(s, "IN") /\ s \in Of(TcpFlows) /\ session[s].state = "ACTIVE"
        /\ CloseSockets({s}) /\ s \in fds
    BY <1>11 DEF TcpEof
  <2>3. Closes(s) /\ readable' \subseteq fds' /\ failed' \subseteq fds'
    BY <1>2, <2>2 DEF CloseSockets, Closes
  <2>4. t \in States
    BY DEF States
  <2> QED  BY <2>1, <2>2, <2>3, <2>4, TcpStep
<1> QED  BY <1>1, <1>5, <1>6, <1>7, <1>8, <1>9, <1>10, <1>11

-----------------------------------------------------------------------------
\* Packets of the apps.

\* A packet changes the session found for its flow, or opens one in a free slot.
LEMMA PacketStep ==
  ASSUME SInv, NEW f \in Flows, Packet(f), NEW id \in Ids \cup {0},
         NEW o \in SessionFor(f, id), fds' = o.fds,
         NEW v, session' = [session EXCEPT ![o.slot] = v],
         v \in Session, v.flow = o.session.flow,
         v.age = 0 \/ (v.age = o.session.age /\ f \in DnsFlows),
         f \in IcmpFlows => /\ v.id = o.session.id /\ o.session.pinged \subseteq v.pinged
                            /\ id \in v.pinged,
         o.session.state \in {"ACTIVE", "FINISHING"} =>
           /\ \/ v.state \in {"ACTIVE", "FINISHING"}
              \/ /\ v.state = "CLOSED" /\ v.age = 0 /\ f \in TcpFlows
                 /\ session[o.slot].state = "ACTIVE" /\ o.slot \notin fds
           /\ (o.session.state = "FINISHING" /\ v.state = "ACTIVE") =>
                 f \in TcpFlows /\ o.slot \in fds,
         o.session.state \notin {"NONE", "CLOSED"} \/ v = o.session,
         failed' \subseteq failed, resolvers' \subseteq DnsFlows
  PROVE  SStep
<1>1. /\ phase = "tun" /\ phase' = phase /\ readable' = readable
      /\ sessions' = sessions /\ wait' = wait /\ batch' = batch /\ held' = held
  BY DEF Packet
<1>2. f # "none" /\ (f \in TcpFlows => f \notin IcmpFlows)
  BY FlowsAssumption DEF Flows
<1>3. /\ ListStep /\ fds \subseteq fds' /\ fds' \subseteq Slots
      /\ \A s \in Slots : Stays(session[s], session'[s]) \/ session[s] = NoSession
  <2>1. CASE Found(f) # {}
    <3>1. PICK s \in Found(f) : o = [slot |-> s, session |-> session[s], fds |-> fds]
      BY <2>1 DEF SessionFor
    <3>2. /\ s \in Slots /\ o.slot = s /\ o.session = session[s] /\ fds' = fds
          /\ session[s].flow = f /\ SlotGood(s)
      BY <3>1 DEF Found, SInv
    <3> DEFINE u == session[s]
               p == s \in fds
    <3>3. /\ Good(u, p) /\ p \in BOOLEAN /\ u.flow = f /\ v \in Session /\ v.flow = u.flow
          /\ v.age = 0 \/ (v.age = u.age /\ f \in DnsFlows)
          /\ u.state \in {"ACTIVE", "FINISHING"} =>
               /\ \/ v.state \in {"ACTIVE", "FINISHING"}
                  \/ /\ v.state = "CLOSED" /\ v.age = 0 /\ f \in TcpFlows
                     /\ u.state = "ACTIVE" /\ ~p
               /\ (u.state = "FINISHING" /\ v.state = "ACTIVE") => f \in TcpFlows /\ p
          /\ u.state \notin {"NONE", "CLOSED"} \/ v = u
          /\ f \in IcmpFlows => v.id = u.id /\ u.pinged \subseteq v.pinged
      BY <3>2 DEF SlotGood
    <3> HIDE DEF u, p
    <3>4. u.state \in {"ACTIVE", "FINISHING", "CLOSED"}
      BY <1>2, <3>3 DEF Good, NoSession, Session, States
    <3>5. /\ Good(v, p) /\ Stays(u, v)
          /\ GoesOn(u, p, v, p) \/ (Ends(u, p, v, p) /\ u.flow \in TcpFlows)
      <4>1. CASE v = u
        BY <3>3, <4>1 DEF GoesOn, Stays
      <4>2. CASE u.state \in {"ACTIVE", "FINISHING"} /\ v.state # "CLOSED"
        <5>1. v.state \in {"ACTIVE", "FINISHING"}
          BY <3>3, <4>2
        <5>2. Good(v, p)
          BY <1>2, <3>3, <5>1 DEF Good
        <5>3. GoesOn(u, p, v, p)
          BY <3>3, <4>2, <5>1 DEF GoesOn
        <5>4. Stays(u, v)
          BY <3>3, <5>1 DEF Stays
        <5> QED  BY <5>2, <5>3, <5>4
      <4>3. CASE u.state \in {"ACTIVE", "FINISHING"} /\ v.state = "CLOSED"
        <5>1. v.age = 0 /\ f \in TcpFlows /\ u.state = "ACTIVE" /\ ~p
          BY <3>3, <4>3
        <5>2. Good(v, p)
          BY <1>2, <3>3, <4>3, <5>1 DEF Good
        <5>3. Ends(u, p, v, p)
          BY <3>3, <4>3, <5>1 DEF Ends
        <5>4. Stays(u, v)
          BY <3>3, <5>1 DEF Stays
        <5> QED  BY <3>3, <5>1, <5>2, <5>3, <5>4
      <4> QED  BY <3>3, <3>4, <4>1, <4>2, <4>3
    <3>6. /\ Good(v, s \in fds') /\ Stays(session[s], v)
          /\ \/ GoesOn(session[s], s \in fds, v, s \in fds')
             \/ /\ Ends(session[s], s \in fds, v, s \in fds')
                /\ session[s].flow \in TcpFlows
      BY <3>2, <3>5 DEF u, p
    <3>7. session' = [session EXCEPT ![s] = v]
      BY <3>2
    <3>8. \A r \in Slots : Stays(session[r], session'[r])
      BY <3>2, <3>6, <3>7 DEF Stays, SInv, TypeOK
    <3> QED  BY <3>2, <3>6, <3>7, <3>8, OneGoesOn DEF SInv, TypeOK
  <2>2. CASE Found(f) = {}
    <3>1. PICK s \in Slots : /\ session[s] = NoSession
                             /\ o = [slot |-> s, session |-> NewSession(f, id), fds |-> OpenSocket(s)]
      BY <2>2 DEF SessionFor
    <3>2. o.slot = s /\ o.session = NewSession(f, id) /\ fds' = fds \cup {s}
      BY <3>1 DEF OpenSocket
    <3>3. /\ o.session.flow = f /\ o.session.state = "ACTIVE" /\ o.session.age = 0
          /\ o.session.id = id
      BY <3>2, NewSessionGood DEF NewSession
    <3>4. /\ v.flow = f /\ v.age = 0 /\ v.state \in {"ACTIVE", "FINISHING"}
          /\ f \in IcmpFlows => v.id \in v.pinged
      BY <3>1, <3>2, <3>3 DEF NoSession
    <3>5. Good(v, TRUE)
      BY <1>2, <3>4 DEF Good
    <3>6. \A r \in Slots : Stays(session[r], session'[r]) \/ session[r] = NoSession
      BY <3>1, <3>2 DEF Stays, SInv, TypeOK
    <3> QED  BY <2>2, <3>1, <3>2, <3>4, <3>5, <3>6, OneBegins DEF SInv, TypeOK
  <2> QED  BY <2>1, <2>2
<1>4. BatchInv' /\ HeldInv'
  BY <1>1, <1>3, HeldLess DEF SInv, BatchInv, HeldSlots, HeldInv
<1> QED  BY <1>1, <1>3, <1>4, StepParts DEF SInv, TypeOK

\* The record SessionFor gives is one of the list or a new one.
LEMMA ForSession ==
  ASSUME SInv, NEW f \in Flows, NEW id \in Ids \cup {0}, NEW o \in SessionFor(f, id)
  PROVE  o.session \in Session /\ o.slot \in Slots /\ o.session.flow = f
         /\ o.session.state \in {"ACTIVE", "FINISHING", "CLOSED"}
<1>1. CASE Found(f) # {}
  <2>1. PICK s \in Found(f) : o = [slot |-> s, session |-> session[s], fds |-> fds]
    BY <1>1 DEF SessionFor
  <2>2. s \in Slots /\ session[s].flow = f /\ SlotGood(s)
    BY <2>1 DEF Found, SInv
  <2>3. f # "none"
    BY FlowsAssumption DEF Flows
  <2> QED  BY <2>1, <2>2, <2>3 DEF SlotGood, Good, NoSession, Session, States
<1>2. CASE Found(f) = {}
  <2>1. PICK s \in Slots : o = [slot |-> s, session |-> NewSession(f, id), fds |-> OpenSocket(s)]
    BY <1>2 DEF SessionFor
  <2> QED  BY <2>1, NewSessionGood
<1> QED  BY <1>1, <1>2

LEMMA HandleUdpStep == ASSUME SInv, NEW f \in Flows, HandleUdp(f)  PROVE SStep
<1>1. PICK o \in SessionFor(f, 0) : fds' = o.fds /\ SendUdp(o.slot, o.session)
  BY DEF HandleUdp
<1>2. PICK ok \in BOOLEAN : session' = [session EXCEPT ![o.slot] = forward_udp(o.session, ok)]
  BY <1>1 DEF SendUdp, Update
<1>3. /\ Packet(f) /\ o.session.state = "ACTIVE" /\ o.session \in Session
      /\ failed' \subseteq failed /\ resolvers' \subseteq DnsFlows
  BY <1>1, ForSession DEF HandleUdp, SendUdp, SInv, TypeOK
<1>4. Touched(o.session, forward_udp(o.session, ok))
  BY <1>3, HandlersTouch
<1>5. f \notin IcmpFlows
  BY FlowsAssumption DEF HandleUdp
<1> QED  BY <1>1, <1>2, <1>3, <1>4, <1>5, PacketStep DEF Touched

LEMMA HandleDnsStep == ASSUME SInv, NEW f \in Flows, HandleDns(f)  PROVE SStep
<1>1. PICK o \in SessionFor(f, 0) : fds' = o.fds /\ QueryDns(o.slot, o.session)
  BY DEF HandleDns
<1>2. /\ Packet(f) /\ f \in DnsFlows /\ o.session.state = "ACTIVE"
      /\ session' = [session EXCEPT ![o.slot] = query_dns(o.session)]
      /\ failed' = failed /\ resolvers' \in {resolvers, resolvers \cup {o.session.flow}}
  BY <1>1 DEF HandleDns, QueryDns, Update
<1>3. o.session \in Session /\ o.session.flow = f
  BY ForSession
<1>4. failed' \subseteq failed /\ resolvers' \subseteq DnsFlows
  BY <1>2, <1>3 DEF SInv, TypeOK
<1>5. f \notin IcmpFlows
  BY <1>2, FlowsAssumption
<1> QED  BY <1>1, <1>2, <1>3, <1>4, <1>5, QueryStep, PacketStep

LEMMA HandleIcmpStep ==
  ASSUME SInv, NEW f \in Flows, NEW id \in Ids, HandleIcmp(f, id)
  PROVE  SStep
<1>1. PICK o \in SessionFor(f, id) : fds' = o.fds /\ SendIcmp(o.slot, o.session, id)
  BY DEF HandleIcmp
<1>2. PICK ok \in BOOLEAN :
        session' = [session EXCEPT ![o.slot] = forward_icmp(o.session, id, ok)]
  BY <1>1 DEF SendIcmp, Update
<1>3. /\ Packet(f) /\ f \in IcmpFlows /\ o.session \in Session
      /\ failed' \subseteq failed /\ resolvers' \subseteq DnsFlows
  BY <1>1, ForSession DEF HandleIcmp, SendIcmp, SInv, TypeOK
<1>4. o.session.state = "ACTIVE"
  <2>1. CASE Found(f) # {}
    BY <1>3, <2>1 DEF SessionFor, Found
  <2>2. CASE Found(f) = {}
    <3>1. PICK s \in Slots : o = [slot |-> s, session |-> NewSession(f, id), fds |-> OpenSocket(s)]
      BY <2>2 DEF SessionFor
    <3> QED  BY <3>1, NewSessionGood
  <2> QED  BY <2>1, <2>2
<1>5. /\ Touched(o.session, forward_icmp(o.session, id, ok))
      /\ id \in forward_icmp(o.session, id, ok).pinged
  BY <1>3, HandlersTouch
<1> QED  BY <1>1, <1>2, <1>3, <1>4, <1>5, PacketStep DEF Touched

LEMMA HandleTcpStep == ASSUME SInv, NEW f \in Flows, HandleTcp(f)  PROVE SStep
<1>1. PICK o \in SessionFor(f, 0) : fds' = o.fds /\ SendTcp(o.slot, o.session)
  BY DEF HandleTcp
<1> DEFINE u == o.session
<1>2. PICK t \in {"ACTIVE", "FINISHING", "CLOSED"} :
        /\ (u.state = "FINISHING" /\ t = "ACTIVE") => o.slot \in fds
        /\ t = "CLOSED" => session[o.slot].state = "ACTIVE" /\ o.slot \notin fds
        /\ session' = [session EXCEPT ![o.slot] =
                         [u EXCEPT !.state = t, !.age = 0, !.used = TRUE]]
  BY <1>1 DEF SendTcp, Update
<1>3. /\ Packet(f) /\ f \in TcpFlows /\ u \in Session /\ u.flow = f
      /\ u.state \in {"ACTIVE", "FINISHING"}
      /\ failed' \subseteq failed /\ resolvers' \subseteq DnsFlows
  BY <1>1, ForSession DEF HandleTcp, SendTcp, SInv, TypeOK
<1> DEFINE v == [u EXCEPT !.state = t, !.age = 0, !.used = TRUE]
<1>4. 0 \in 0 .. MaxAge /\ t \in States
  BY TimeoutsAssumption DEF States
<1>5. v \in Session
  BY <1>3, <1>4 DEF Session
<1>6. v.flow = f /\ v.state = t /\ v.age = 0
  BY <1>3 DEF Session
<1>7. session' = [session EXCEPT ![o.slot] = v]
  BY <1>2
<1>8. \/ v.state \in {"ACTIVE", "FINISHING"}
      \/ /\ v.state = "CLOSED" /\ v.age = 0 /\ f \in TcpFlows
         /\ session[o.slot].state = "ACTIVE" /\ o.slot \notin fds
  BY <1>2, <1>3, <1>6
<1>9. (u.state = "FINISHING" /\ v.state = "ACTIVE") => f \in TcpFlows /\ o.slot \in fds
  BY <1>2, <1>3, <1>6
<1>10. f \notin IcmpFlows
  BY <1>3, FlowsAssumption
<1> HIDE DEF v
<1> QED  BY <1>1, <1>3, <1>5, <1>6, <1>7, <1>8, <1>9, <1>10, PacketStep

-----------------------------------------------------------------------------
\* The theorems about Sessions.

LEMMA SInvInit == Init => SInv /\ \A s \in Slots : Life(s)!Init
<1> SUFFICES ASSUME Init  PROVE SInv /\ \A s \in Slots : Life(s)!Init
  OBVIOUS
<1>1. \A s \in Slots : session[s] = NoSession /\ s \notin fds
  BY DEF Init
<1>2. NoSession \in Session
  BY NoSessionGood DEF Good
<1>3. TypeOK
  <2>1. 0 \in 0 .. Cardinality(Slots) /\ 0 \in 0 .. EPOLL_TIMEOUT
    BY SlotsAssumption, FS_CardinalityType
  <2> QED  BY <1>2, <2>1 DEF Init, TypeOK, Phases
<1>4. \A s \in Slots : SlotGood(s)
  BY <1>1, NoSessionGood DEF SlotGood, Good
<1>5. OneSession /\ BatchInv
  BY <1>1 DEF OneSession, BatchInv, Init
<1>6. HeldInv
  BY DEF HeldInv, Init
<1>7. \A s \in Slots : Life(s)!Init
  BY <1>1 DEF Life!Init, NoSession
<1> QED  BY <1>3, <1>4, <1>5, <1>6, <1>7 DEF SInv

LEMMA SInvNext == SInv /\ [Next]_vars => SStep
<1> SUFFICES ASSUME SInv, [Next]_vars  PROVE SStep
  OBVIOUS
<1>1. CASE Loop
  BY <1>1, RoundStep, RoundUncheckedStep, EpollWaitStep, CheckSocketStep, QuietStep DEF Loop
<1>2. CASE HandleIp
  BY <1>2, HandleUdpStep, HandleDnsStep, HandleIcmpStep, HandleTcpStep DEF HandleIp
<1>3. CASE Tick
  BY <1>3, TickStep
<1>4. CASE Environment
  BY <1>4, ResolverStep, SocketStep DEF Environment
<1>5. CASE Thread
  BY <1>5, StartStep, StopStep, ClearListStep DEF Thread, Clear
<1>6. CASE UNCHANGED vars
  <2>1. /\ session' = session /\ fds' = fds /\ readable' = readable /\ failed' = failed
        /\ phase' = phase /\ sessions' = sessions /\ wait' = wait
        /\ batch' = batch /\ resolvers' = resolvers /\ held' = held
    BY <1>6 DEF vars
  <2>2. BatchInv' /\ HeldInv'
    BY <2>1, HeldSame DEF SInv, BatchInv, HeldInv, HeldSlots
  <2>3. ListStep
    BY <2>1, SameList
  <2> QED  BY <2>1, <2>2, <2>3, StepParts DEF SInv, TypeOK
<1> QED  BY <1>1, <1>2, <1>3, <1>4, <1>5, <1>6 DEF Next

THEOREM SInvariant == Spec => []SInv
<1>1. Init => SInv
  BY SInvInit
<1>2. SInv /\ [Next]_vars => SInv'
  BY SInvNext DEF SStep
<1> QED  BY <1>1, <1>2, PTL DEF Spec

(***************************************************************************)
(* The events of a batch are of sessions that are in the list and open,    *)
(* whatever check_socket and handle_ip do before them, unless a resolver   *)
(* process held the socket when it was closed: of UDP and TCP the session  *)
(* is in the list even then.                                               *)
(***************************************************************************)
THEOREM EventsAliveCorrect == Spec => []EventsAlive
<1>1. SInv => EventsAlive
  <2> SUFFICES ASSUME SInv, NEW e \in batch \ {Tun, Pipe}
               PROVE  \/ session[e.slot].state \in {"ACTIVE", "FINISHING"} /\ e.slot \in fds
                      \/ \E h \in held :
                           /\ h.slot = e.slot
                           /\ (h.flow \in IcmpFlows \/ session[h.slot].flow = h.flow)
    BY DEF EventsAlive
  <2>1. CASE e.slot \in fds
    <3>1. SlotGood(e.slot)
      BY <2>1 DEF SInv, TypeOK
    <3> QED  BY <2>1, <3>1 DEF SlotGood, Good
  <2>2. CASE e.slot \notin fds
    <3>1. e.slot \in HeldSlots
      BY <2>2 DEF SInv, BatchInv
    <3>2. PICK h \in held : h.slot = e.slot
      BY <3>1 DEF HeldSlots
    <3>3. HeldGood(h)
      BY DEF SInv, HeldInv
    <3> QED  BY <3>2, <3>3 DEF HeldGood
  <2> QED  BY <2>1, <2>2
<1> QED  BY <1>1, SInvariant, PTL

(***************************************************************************)
(* The lookups of handle_udp, handle_tcp and handle_icmp never let a       *)
(* conversation have two sessions.                                         *)
(***************************************************************************)
THEOREM OneSessionCorrect == Spec => []OneSession
<1>1. SInv => OneSession
  BY DEF SInv
<1> QED  BY <1>1, SInvariant, PTL

(***************************************************************************)
(* Every slot of the list implements SessionLife: whatever the handlers do *)
(* in which order, a socket is closed once and with its session.           *)
(***************************************************************************)
THEOREM LifeCorrect == Spec => LifeSpec
<1>1. Init => \A s \in Slots : Life(s)!Init
  BY SInvInit
<1>2. SInv /\ [Next]_vars =>
        \A s \in Slots : [Life(s)!Next]_<<session[s].state, s \in fds>>
  <2> SUFFICES ASSUME SInv, [Next]_vars, NEW s \in Slots
               PROVE  [Life(s)!Next]_<<session[s].state, s \in fds>>
    OBVIOUS
  <2>1. SlotSteps
    BY SInvNext DEF SStep, ListStep
  <2> QED  BY <2>1, SlotLife DEF SlotSteps, SInv
<1> QED  BY <1>1, <1>2, SInvariant, PTL DEF Spec, LifeSpec

(***************************************************************************)
(* check_session does not close as idle a UDP or ICMP session the app has  *)
(* just used, unless there are more sessions than the limit: a scaled      *)
(* timeout is negative only then; and nothing else closes it at once.      *)
(***************************************************************************)
THEOREM UsedNotIdleCorrect == Spec => UsedNotIdle
<1>1. SInv /\ [Next]_vars => [UsedStep]_vars
  BY SInvNext DEF SStep, ListStep
<1> QED  BY <1>1, SInvariant, PTL DEF Spec, UsedNotIdle, UsedStep

(***************************************************************************)
(* check_icmp_socket puts back the identifier in the record: the one of    *)
(* the request, unless two have been sent through the socket.              *)
(***************************************************************************)
THEOREM OwnIdentifierCorrect == Spec => OwnIdentifier
<1>1. ASSUME SInv, NEW s \in Slots, NEW id \in Ids, EchoReply(s, id)
      PROVE  session'[s].id = id \/ Cardinality(session[s].pinged) > 1
  <2> DEFINE u == session[s]
  <2>1. id \in u.pinged /\ u.flow \in IcmpFlows /\ SlotGood(s)
    BY <1>1 DEF EchoReply, Of, SInv
  <2>2. u \in Session /\ u.id \in u.pinged /\ u.pinged \in SUBSET Ids
    BY <2>1 DEF SlotGood, Good, Session
  <2>3. session'[s].id = u.id
    <3>1. PICK ok \in Ok : session' = [session EXCEPT ![s] = check_icmp_socket(u, ok)]
      BY <1>1 DEF EchoReply, Update
    <3>2. session'[s] = check_icmp_socket(u, ok) /\ ok \in BOOLEAN
      BY <1>1, <3>1 DEF SInv, TypeOK, Ok
    <3>3. Touched(u, check_icmp_socket(u, ok))
      BY <2>2, <3>2, HandlersTouch
    <3> QED  BY <3>2, <3>3 DEF Touched
  <2>4. CASE id # u.id
    <3>1. IsFiniteSet(u.pinged) /\ IsFiniteSet({id}) /\ {id, u.id} \in SUBSET u.pinged
      BY <2>1, <2>2, SlotsAssumption, FS_Subset, FS_Singleton
    <3>2. Cardinality({id, u.id}) = 2
      <4>1. {id, u.id} = {id} \cup {u.id} /\ u.id \notin {id}
        BY <2>4
      <4>2. IsFiniteSet({id}) /\ Cardinality({id}) = 1
        BY FS_Singleton
      <4>3. Cardinality({id} \cup {u.id}) = 1 + 1
        BY <4>1, <4>2, FS_AddElement
      <4> QED  BY <4>1, <4>3
    <3>3. Cardinality({id, u.id}) <= Cardinality(u.pinged) /\ Cardinality(u.pinged) \in Nat
      BY <3>1, FS_Subset, FS_CardinalityType
    <3> QED  BY <3>2, <3>3
  <2> QED  BY <2>3, <2>4
<1>2. SInv => [\A s \in Slots, id \in Ids :
                 EchoReply(s, id) => session'[s].id = id \/ Cardinality(session[s].pinged) > 1]_vars
  BY <1>1
<1> QED  BY <1>2, SInvariant, PTL DEF OwnIdentifier

-----------------------------------------------------------------------------
\* The life cycle.

Live == { t \in Threads : pc[t] # "none" }

EngineTypes ==
  /\ jni \in {"new", "idle", "write", "join"} /\ joined \in Threads \cup {0}
  /\ thread_id \in Threads \cup {0}
  /\ pc \in [Threads -> {"none", "created", "loop", "ending"}]
  /\ pipe \in 0 .. MaxPipe /\ missed \in BOOLEAN

\* The loop runs in one of the threads.
PhaseInv == phase # "off" <=> \E t \in Threads : pc[t] = "loop"

\* What the service may rely on between its calls and within jni_stop.
ServiceInv ==
  /\ jni = "new" => Live = {}
  /\ jni \in {"write", "join"} => joined \in Threads /\ Live \subseteq {joined}

\* As long as no thread has ended by itself while it was stopped, the pipe holds
\* one byte from the write until the thread joined has read it.
Unread == jni = "join" /\ pc[joined] \in {"created", "loop"}

PipeInv ==
  /\ Pipe \in batch => pipe > 0
  /\ jni = "write" => pipe < MaxPipe
  /\ ~missed =>
       /\ jni = "write" => pc[joined] \in {"created", "loop"}
       /\ pipe = IF Unread THEN 1 ELSE 0

(***************************************************************************)
(* The inductive invariant of Engine.  That thread_id names whoever is     *)
(* alive is not enough: the service must know that nobody else is alive    *)
(* when it frees the list (PhaseInv, ServiceInv), and the pipe must be     *)
(* followed through jni_stop (PipeInv).                                    *)
(***************************************************************************)
EInv == EngineTypes /\ LoopKnown /\ PhaseInv /\ ServiceInv /\ PipeInv

LEMMA LiveOne ==
  ASSUME EInv, NEW t \in Threads, pc[t] # "none"
  PROVE  /\ thread_id = t /\ thread_id # 0 /\ Running
         /\ \A r \in Threads : pc[r] # "none" => r = t
<1>1. \A r \in Threads : pc[r] # "none" => thread_id = r
  BY DEF EInv, EngineTypes, LoopKnown
<1> QED  BY <1>1, EngineAssumption DEF Running

\* The steps of the composition are steps of Sessions.
LEMMA EngineStepImplements ==
  ASSUME EInv, [EngineNext]_allVars
  PROVE  [Next]_vars
<1>1. CASE JniInit \/ JniStart \/ JniStop \/ WritePipe
  BY <1>1 DEF JniInit, JniStart, JniStop, WritePipe
<1>2. CASE Join
  <2>1. joined \in Threads /\ pc[joined] = "none" /\ Live \subseteq {joined}
    BY <1>2 DEF Join, EInv, ServiceInv
  <2>2. phase = "off"
    BY <2>1 DEF EInv, PhaseInv, Live
  <2> QED  BY <1>2, <2>2 DEF Join, Next, Thread, Clear
<1>3. CASE JniDone
  <2>1. ~Running
    BY <1>3 DEF JniDone
  <2>2. phase = "off"
    BY <2>1, LiveOne DEF EInv, PhaseInv
  <2> QED  BY <1>3, <2>2 DEF JniDone, Next, Thread, Clear
<1>4. ASSUME NEW t \in Threads,
             \/ ThreadBegins(t) \/ AttachFails(t) \/ ReadPipe(t) \/ LoopFails(t)
             \/ ThreadEnds(t)
      PROVE  [Next]_vars
  BY <1>4 DEF ThreadBegins, AttachFails, ReadPipe, LoopFails, ThreadEnds, Next, Thread
<1>5. CASE LoopRuns
  BY <1>5 DEF LoopRuns, Next
<1>6. CASE UNCHANGED allVars
  BY <1>6 DEF allVars
<1> QED  BY <1>1, <1>2, <1>3, <1>4, <1>5, <1>6 DEF EngineNext, Service, Native

\* What the loop does to the variables that the life cycle looks at.
LEMMA LoopLeaves ==
  ASSUME SInv, LoopRuns
  PROVE  /\ UNCHANGED engine
         /\ phase' = "off" <=> phase = "off"
         /\ Pipe \in batch' => Pipe \in batch \/ pipe > 0
<1>1. UNCHANGED engine
  BY DEF LoopRuns
<1>2. CASE Round \/ RoundUnchecked \/ TunReadable \/ TunEmpty \/ EndDispatch \/ Tick
  BY <1>1, <1>2 DEF Round, RoundUnchecked, TunReadable, TunEmpty, EndDispatch, Tick
<1>3. CASE EpollWait
  BY <1>1, <1>3 DEF EpollWait, LoopRuns, PipeRead
<1>4. CASE CheckSocket
  BY <1>1, <1>4 DEF CheckSocket, UdpReadable, UdpIgnored, IcmpError, FreedEvent,
      EchoReply, TcpReset, TcpRelay, TcpEof, TcpGone, SocketEvent
<1>5. CASE HandleIp
  BY <1>1, <1>5 DEF HandleIp, HandleUdp, HandleDns, HandleTcp, HandleIcmp, Packet
<1>6. CASE Environment
  BY <1>1, <1>6 DEF Environment, Resolved, ResolverExits, Arrives, Fails
<1> QED  BY <1>2, <1>3, <1>4, <1>5, <1>6 DEF LoopRuns, Loop

LEMMA EInvService ==
  ASSUME SInv, EInv, Service
  PROVE  EInv'
<1> USE DEF EInv, EngineTypes, LoopKnown, PhaseInv, ServiceInv, PipeInv, Unread, Live
<1>1. CASE JniInit
  <2>1. \A t \in Threads : pc[t] = "none"
    BY <1>1 DEF JniInit
  <2>2. batch = {}
    BY <2>1 DEF SInv, BatchInv
  <2>3. /\ jni' = "idle" /\ pipe' = 0 /\ missed' = FALSE /\ joined' = joined
        /\ thread_id' = thread_id /\ pc' = pc /\ phase' = phase /\ batch' = batch
    BY <1>1 DEF JniInit, vars
  <2>4. 0 \in 0 .. MaxPipe
    BY EngineAssumption
  <2>5. EngineTypes' /\ LoopKnown' /\ PhaseInv' /\ ServiceInv'
    BY <2>1, <2>3, <2>4
  <2>6. PipeInv'
    BY <2>2, <2>3
  <2> QED  BY <2>5, <2>6
<1>2. CASE JniStart
  <2>1. PICK t \in Threads : pc[t] = "none" /\ pc' = [pc EXCEPT ![t] = "created"] /\ thread_id' = t
    BY <1>2 DEF JniStart
  <2>2. \A r \in Threads : pc[r] = "none"
    BY <1>2, LiveOne DEF JniStart
  <2>3. /\ jni = "idle" /\ jni' = "idle" /\ joined' = joined /\ pipe' = pipe /\ missed' = missed
        /\ phase' = phase /\ batch' = batch
    BY <1>2 DEF JniStart, vars
  <2>4. EngineTypes' /\ LoopKnown'
    BY <2>1, <2>2, <2>3
  <2>5. PhaseInv' /\ ServiceInv' /\ PipeInv'
    BY <2>1, <2>2, <2>3
  <2> QED  BY <2>4, <2>5
<1>3. CASE JniStop
  <2>1. thread_id \in Threads /\ pc[thread_id] # "none"
    BY <1>3 DEF JniStop, Running
  <2>2. /\ jni = "idle" /\ jni' = "write" /\ joined' = thread_id /\ pipe' = pipe /\ pipe < MaxPipe
        /\ missed' = (missed \/ pc[thread_id] = "ending")
        /\ phase' = phase /\ batch' = batch /\ pc' = pc /\ thread_id' = thread_id
    BY <1>3 DEF JniStop, vars
  <2>3. \A r \in Threads : pc[r] # "none" => r = thread_id
    BY <2>1, LiveOne
  <2>4. missed' \in BOOLEAN /\ (~missed' => ~missed /\ pc[thread_id] \in {"created", "loop"})
    BY <2>1, <2>2
  <2> HIDE DEF Live
  <2>5. EngineTypes' /\ LoopKnown' /\ PhaseInv'
    BY <2>1, <2>2, <2>4
  <2>6. ServiceInv'
    BY <2>1, <2>2, <2>3 DEF Live
  <2>7. PipeInv'
    BY <2>1, <2>2, <2>4
  <2> QED  BY <2>5, <2>6, <2>7
<1>4. CASE WritePipe
  <2>1. /\ jni = "write" /\ jni' = "join" /\ joined' = joined /\ pipe' = pipe + 1
        /\ missed' = missed /\ phase' = phase /\ batch' = batch /\ pc' = pc
        /\ thread_id' = thread_id
    BY <1>4 DEF WritePipe, vars
  <2>2. pipe + 1 \in 0 .. MaxPipe /\ pipe + 1 > 0 /\ (~missed => pipe = 0)
    BY <2>1, EngineAssumption
  <2> QED  BY <2>1, <2>2
<1>5. CASE Join
  <2>1. /\ jni = "join" /\ jni' = "idle" /\ joined' = 0 /\ pipe' = pipe /\ missed' = missed
        /\ phase' = phase /\ batch' = batch /\ pc' = pc /\ thread_id' = thread_id
        /\ pc[joined] = "none"
    BY <1>5 DEF Join, ClearList
  <2> QED  BY <2>1
<1>6. CASE JniDone
  <2>1. /\ jni = "idle" /\ jni' = "new" /\ joined' = joined /\ pipe' = pipe /\ missed' = missed
        /\ phase' = phase /\ batch' = batch /\ pc' = pc /\ thread_id' = thread_id
    BY <1>6 DEF JniDone, ClearList
  <2>2. \A r \in Threads : pc[r] = "none"
    BY <1>6, LiveOne DEF JniDone
  <2> QED  BY <2>1, <2>2
<1> QED  BY <1>1, <1>2, <1>3, <1>4, <1>5, <1>6 DEF Service

LEMMA EInvThread ==
  ASSUME SInv, EInv, NEW t \in Threads,
         \/ ThreadBegins(t) \/ AttachFails(t) \/ ReadPipe(t) \/ LoopFails(t)
         \/ ThreadEnds(t)
  PROVE  EInv'
<1> USE DEF EInv, EngineTypes, LoopKnown, PhaseInv, ServiceInv, PipeInv, Unread, Live
<1>1. pc[t] # "none" /\ pc' = [pc EXCEPT ![t] = pc'[t]]
  BY DEF ThreadBegins, AttachFails, ReadPipe, LoopFails, ThreadEnds, Goes
<1>2. thread_id = t /\ \A r \in Threads \ {t} : pc[r] = "none" /\ pc'[r] = "none"
  BY <1>1, LiveOne
<1>3. CASE ThreadBegins(t)
  <2>1. /\ pc[t] = "created" /\ pc'[t] = "loop" /\ jni' = jni /\ joined' = joined
        /\ thread_id' = thread_id /\ pipe' = pipe /\ missed' = missed
        /\ phase' = "start" /\ batch' = batch
    BY <1>3 DEF ThreadBegins, Goes, Start
  <2> QED  BY <1>1, <1>2, <2>1
<1>4. CASE AttachFails(t)
  <2>1. /\ pc[t] = "created" /\ pc'[t] = "none" /\ jni' = jni /\ joined' = joined
        /\ thread_id' = thread_id /\ pipe' = pipe
        /\ missed' = (missed \/ jni \in {"write", "join"})
        /\ phase' = phase /\ batch' = batch
    BY <1>4 DEF AttachFails, Goes, vars, EndsByItself
  <2>2. missed' \in BOOLEAN /\ (~missed' => ~missed /\ jni \notin {"write", "join"})
    BY <2>1
  <2> QED  BY <1>1, <1>2, <2>1, <2>2
<1>5. CASE ReadPipe(t)
  <2>1. /\ pc[t] = "loop" /\ pc'[t] = "ending" /\ jni' = jni /\ joined' = joined
        /\ thread_id' = thread_id /\ pipe' = pipe - 1 /\ missed' = missed
        /\ phase' = "off" /\ batch' = {} /\ Pipe \in batch
    BY <1>5 DEF ReadPipe, Goes, Stop, EndThread
  <2>2. pipe - 1 \in 0 .. MaxPipe /\ pipe > 0
    BY <2>1, EngineAssumption
  <2>3. ~missed => pipe = 1 /\ jni = "join"
    BY <2>2
  <2>4. EngineTypes' /\ LoopKnown' /\ PhaseInv' /\ ServiceInv'
    BY <1>1, <1>2, <2>1, <2>2
  <2>5. jni = "join" => joined = t
    <3>1. t \in Live
      BY <1>1
    <3> QED  BY <3>1
  <2>6. PipeInv'
    <3>1. jni' = "write" => pipe' < MaxPipe
      BY <2>1, <2>2, EngineAssumption
    <3>2. ~Unread'
      BY <1>1, <2>1, <2>5
    <3> QED  BY <2>1, <2>3, <3>1, <3>2
  <2> QED  BY <2>4, <2>6
<1>6. CASE LoopFails(t)
  <2>1. /\ pc[t] = "loop" /\ pc'[t] = "ending" /\ jni' = jni /\ joined' = joined
        /\ thread_id' = thread_id /\ pipe' = pipe
        /\ missed' = (missed \/ jni \in {"write", "join"})
        /\ phase' = "off" /\ batch' = {}
    BY <1>6 DEF LoopFails, Goes, Break, EndThread, EndsByItself
  <2>2. missed' \in BOOLEAN /\ (~missed' => ~missed /\ jni \notin {"write", "join"})
    BY <2>1
  <2> QED  BY <1>1, <1>2, <2>1, <2>2
<1>7. CASE ThreadEnds(t)
  <2>1. /\ pc[t] = "ending" /\ pc'[t] = "none" /\ jni' = jni /\ joined' = joined
        /\ thread_id' = 0 /\ pipe' = pipe /\ missed' = missed
        /\ phase' = phase /\ batch' = batch
    BY <1>7 DEF ThreadEnds, Goes, vars
  <2> QED  BY <1>1, <1>2, <2>1
<1> QED  BY <1>3, <1>4, <1>5, <1>6, <1>7

LEMMA EInvNext == SInv /\ EInv /\ [EngineNext]_allVars => EInv'
<1> SUFFICES ASSUME SInv, EInv, [EngineNext]_allVars  PROVE EInv'
  OBVIOUS
<1>1. CASE Service
  BY <1>1, EInvService
<1>2. CASE Native
  BY <1>2, EInvThread DEF Native
<1>3. CASE LoopRuns
  <2>1. /\ UNCHANGED engine /\ (phase' = "off" <=> phase = "off")
        /\ Pipe \in batch' => Pipe \in batch \/ pipe > 0
    BY <1>3, LoopLeaves
  <2> QED
    BY <2>1
    DEF engine, EInv, EngineTypes, LoopKnown, PhaseInv, ServiceInv, PipeInv, Unread, Live
<1>4. CASE UNCHANGED allVars
  BY <1>4
  DEF allVars, vars, engine, EInv, EngineTypes, LoopKnown, PhaseInv, ServiceInv, PipeInv,
      Unread, Live
<1> QED  BY <1>1, <1>2, <1>3, <1>4 DEF EngineNext

-----------------------------------------------------------------------------
\* The theorems about Engine.

LEMMA EInvInit == EngineInit => EInv
<1>1. 0 \in 0 .. MaxPipe
  BY EngineAssumption
<1> QED
  BY <1>1
  DEF EngineInit, Init, EInv, EngineTypes, LoopKnown, PhaseInv, ServiceInv, PipeInv, Unread,
      Live

(***************************************************************************)
(* Whatever the service calls and whenever threads end, what happens to    *)
(* the list of sessions is what Sessions allows: jni_stop and jni_done     *)
(* free it, and a new thread begins its loop, only while no loop runs.     *)
(***************************************************************************)
THEOREM SessionsCorrect == EngineSpec => SessionsSpec
<1>1. EngineInit => Init /\ SInv /\ EInv
  BY SInvInit, EInvInit DEF EngineInit
<1>2. SInv /\ EInv /\ [EngineNext]_allVars => [Next]_vars /\ SInv' /\ EInv'
  BY EngineStepImplements, SInvNext, EInvNext DEF SStep
<1> QED  BY <1>1, <1>2, PTL DEF EngineSpec, SessionsSpec, Spec

LEMMA EInvariant == EngineSpec => [](SInv /\ EInv)
<1>1. EngineInit => SInv /\ EInv
  BY SInvInit, EInvInit DEF EngineInit
<1>2. SInv /\ EInv /\ [EngineNext]_allVars => SInv' /\ EInv'
  BY EngineStepImplements, SInvNext, EInvNext DEF SStep
<1> QED  BY <1>1, <1>2, PTL DEF EngineSpec

(***************************************************************************)
(* The variables hold the values the handlers and the calls give them; the *)
(* time to sleep is never negative and the pipe never overfull.            *)
(***************************************************************************)
THEOREM EngineTypeCorrect == EngineSpec => []EngineTypeOK
<1>1. SInv /\ EInv => EngineTypeOK
  BY DEF SInv, EInv, EngineTypes, EngineTypeOK
<1> QED  BY <1>1, EInvariant, PTL

(***************************************************************************)
(* The thread that runs, or is about to, is the one in thread_id, which    *)
(* jni_start and jni_stop look at.                                         *)
(***************************************************************************)
THEOREM LoopKnownCorrect == EngineSpec => []LoopKnown
<1>1. EInv => LoopKnown
  BY DEF EInv
<1> QED  BY <1>1, EInvariant, PTL

(***************************************************************************)
(* A thread that reads the byte of the pipe is the one jni_stop waits for, *)
(* unless one ended by itself while it was being stopped.                  *)
(***************************************************************************)
THEOREM StopMeantCorrect == EngineSpec => StopMeant
<1>1. SInv /\ EInv => [\A t \in Threads :
                         ReadPipe(t) => missed \/ (jni = "join" /\ joined = t)]_allVars
  <2> SUFFICES ASSUME EInv, NEW t \in Threads, ReadPipe(t), ~missed
               PROVE  jni = "join" /\ joined = t
    OBVIOUS
  <2>1. pc[t] = "loop" /\ Pipe \in batch
    BY DEF ReadPipe, Goes, Stop
  <2>2. pipe > 0 /\ jni = "join"
    BY <2>1 DEF EInv, PipeInv, Unread
  <2> QED  BY <2>1, <2>2 DEF EInv, ServiceInv, Live
<1> QED  BY <1>1, EInvariant, PTL DEF StopMeant
=============================================================================
