-------------------------- MODULE SessionsClaims --------------------------
(***************************************************************************)
(* What a comment of udp.c says of DNS sessions and the code does not do.   *)
(***************************************************************************)
EXTENDS Sessions

(***************************************************************************)
(* "Prevent too many open files" (udp.c:264): a DNS session finishes with  *)
(* the answer to its query.  The state is set in the resolver process, on  *)
(* its copy of the session.                                                *)
(***************************************************************************)
AnsweredFinishes ==
  [][ \A f \in DnsFlows :
        Resolved(f) => \A s \in Of({f}) : session'[s].state # "ACTIVE" ]_vars
=============================================================================
