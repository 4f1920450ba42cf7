-------------------------------- MODULE Udp --------------------------------
(***************************************************************************)
(* One UDP session of the tun2http engine (udp.c): what its handlers do to *)
(* the record, as operators from session to session.  Sessions.tla runs    *)
(* them from the event loop.                                               *)
(***************************************************************************)
EXTENDS NgSession

\* Mutant of check_udp_session: a finished session is closed but not moved on.
check_udp_session_stuck(u, sessions) ==
  IF u.state = "CLOSED" /\ u.age > UDP_KEEP_TIMEOUT THEN NoSession
  ELSE IF Idle(u, sessions) THEN [u EXCEPT !.state = "FINISHING"] ELSE u

\* check_udp_session: an idle session finishes, a finishing one is closed, and
\* a closed one stays in the list for UDP_KEEP_TIMEOUT.
check_udp_session(u, sessions) ==
  IF u.state = "FINISHING" \/ Idle(u, sessions)
  THEN [u EXCEPT !.state = "CLOSED", !.age = 0]
  ELSE IF u.state = "CLOSED" /\ u.age > UDP_KEEP_TIMEOUT THEN NoSession ELSE u

\* check_udp_socket, called for EPOLLIN only: a datagram is received and
\* written to the tun device (ok), or one of the two fails.  A datagram for a
\* DNS session would end it; none comes, for nothing is sent on its socket.
check_udp_socket(u, ok) ==
  [u EXCEPT !.age = 0,
            !.state = IF ok /\ u.flow \notin DnsFlows THEN @ ELSE "FINISHING"]

\* Mutants of forward_udp: the time is not refreshed; a failure closes at once.
forward_udp_stale(u, ok) ==
  [u EXCEPT !.used = TRUE, !.state = IF ok THEN @ ELSE "FINISHING"]

forward_udp_close(u, ok) ==
  [u EXCEPT !.age = 0, !.used = TRUE, !.state = IF ok THEN @ ELSE "CLOSED"]

\* handle_udp, from the session found or made: the datagram is sent to its
\* destination.  ok: sent, or to be retried (EINTR, EAGAIN).
forward_udp(u, ok) ==
  [u EXCEPT !.age = 0, !.used = TRUE,
            !.state = IF ok THEN @ ELSE "FINISHING"]

\* handle_udp of a query to port 53: it goes to the local DNS server, through
\* a child process; the parent's record is left as it is, its time included.
query_dns(u) == [u EXCEPT !.used = TRUE]
=============================================================================
