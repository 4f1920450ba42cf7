---------------------------- MODULE SessionLife ----------------------------
(***************************************************************************)
(* What every session of the tun2http engine goes through, whatever its    *)
(* protocol: a place in the list of sessions is empty, then holds an       *)
(* active session, then one that is finishing, then one that is closed,    *)
(* and its descriptor is open from the beginning until, at the latest, the *)
(* session is closed.  A closed session is never used again.               *)
(*                                                                         *)
(* TcpLoop implements this for the session it follows through every detail *)
(* of TCP; Sessions implements it for each session of a list.              *)
(***************************************************************************)
VARIABLES
  state,    \* "NONE", "ACTIVE", "FINISHING" or "CLOSED"
  socket    \* is the descriptor open?

Init == state = "NONE" /\ ~socket

\* The packet that opens a session may be the one that cannot be sent.
Open == state = "NONE" /\ state' \in {"ACTIVE", "FINISHING"} /\ socket'

\* The end of file from the server closes the descriptor of a TCP session that
\* still has something to tell the app.
EndOfFile == state = "ACTIVE" /\ socket /\ ~socket' /\ UNCHANGED state

Finish == state = "ACTIVE" /\ state' = "FINISHING" /\ (socket' => socket)

\* Only on port 443: the CONNECT moves any session back to LISTEN.
Resume == state = "FINISHING" /\ socket /\ state' = "ACTIVE" /\ UNCHANGED socket

Close == state \in {"ACTIVE", "FINISHING"} /\ state' = "CLOSED" /\ ~socket'

Remove == state # "NONE" /\ state' = "NONE" /\ ~socket'

Next == Open \/ EndOfFile \/ Finish \/ Resume \/ Close \/ Remove

Spec == Init /\ [][Next]_<<state, socket>>
=============================================================================
