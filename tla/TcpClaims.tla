----------------------------- MODULE TcpClaims -----------------------------
(***************************************************************************)
(* What a comment in tcp.c and one in tun2http.h say of a TCP session and  *)
(* its code does not do: the property is refuted by a run of its own.      *)
(***************************************************************************)
EXTENDS TcpLoop

(***************************************************************************)
(* remote_seq counts "confirmed bytes received", and a send() that would   *)
(* block is to "Retry later": while the connection lives, no byte is       *)
(* counted as sent that the socket refused.                                *)
(***************************************************************************)
NoBytesLost ==
  tcp.state = "ESTABLISHED" /\ ksock = "connected" => ~tcp.hist.lost
=============================================================================
