-------------------------------- MODULE Icmp --------------------------------
(***************************************************************************)
(* One ICMP session of the tun2http engine (icmp.c): the echo requests     *)
(* between two addresses, through one ping socket.                         *)
(***************************************************************************)
EXTENDS NgSession

\* check_icmp_session: a stopped or idle session is closed and removed at once.
check_icmp_session(u, sessions) ==
  IF u.state = "FINISHING" \/ Idle(u, sessions) THEN NoSession ELSE u

\* check_icmp_socket: an echo reply is received, gets the session's identifier
\* back and is written to the tun device (ok); or the socket has failed.
check_icmp_socket(u, ok) ==
  [u EXCEPT !.age = 0, !.state = IF ok THEN @ ELSE "FINISHING"]

\* Mutant of forward_icmp: the identifier is inverted in the record.
forward_icmp_inverted(u, id, ok) ==
  [u EXCEPT !.age = 0, !.used = TRUE, !.pinged = @ \cup {id}, !.id = -@,
            !.state = IF ok THEN @ ELSE "FINISHING"]

\* handle_icmp, from the session found or made: the echo request goes out with
\* its identifier inverted, which the kernel replaces by the socket's own.
forward_icmp(u, id, ok) ==
  [u EXCEPT !.age = 0, !.used = TRUE, !.pinged = @ \cup {id},
            !.state = IF ok THEN @ ELSE "FINISHING"]
=============================================================================
