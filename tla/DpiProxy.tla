------------------------------ MODULE DpiProxy ------------------------------
(***************************************************************************)
(* The DPI-bypass proxy (dpi-bypass.cpp, socket.cpp), which serves each    *)
(* client in a child process.  Followed is one client: its connection is   *)
(* accepted and a child forked, the child reads the first request, finds a *)
(* way to the remote server, and then copies what it reads from the one to *)
(* the other, in turn.  Meanwhile the service may be stopped: deInit kills *)
(* the children and closes the listening socket.                           *)
(*                                                                         *)
(* Streams are made of units, numbered as they are sent; a unit is some    *)
(* bytes, as they are rewritten where modify_http_request does so.  What   *)
(* a proxy on the way answers is not one unit: it may come in pieces, each *)
(* of which may be read, and judged, by itself.                            *)
(***************************************************************************)
EXTENDS Integers, Sequences

CONSTANTS
  Routes,          \* of "direct", "socks5" and "http"
  is_use_split,    \* every request is split, as in VPN mode
  split_position,
  MaxUnits         \* bound: units each peer sends

ASSUME ProxyAssumption ==
  /\ Routes \subseteq {"direct", "socks5", "http"} /\ is_use_split \in BOOLEAN
  /\ split_position \in Nat /\ MaxUnits \in Nat

VARIABLES
  \* the process of the service
  service,          \* "up", "killed" once deInit has killed, "down"
  acceptor,         \* acceptClient: "idle", "accepted" or what fork returned
  child_processes,  \* of "child" and "-1"
  \* the child
  job,              \* [connect, route]: method CONNECT? which way?
  alive, pc,
  asks,             \* requests to the proxy of the route still to be granted
  msg,              \* msg[p]: read from peer p and not yet sent on
  used,             \* used[p]: read from p for the child itself; a history
  misread,          \* was what holds no grant taken for one?  a history
  \* the peers
  inq,              \* inq[p]: what p has sent and the child has not read
  sent,             \* sent[p]: all that p has sent; a history
  delivered,        \* delivered[p]: what p has received
  ended,            \* ended[p]: has p closed the connection?
  busy,             \* busy[p]: does p send on without a pause?
  asked,            \* has the proxy of the route a request to answer?
  owes,             \* the rest of its answer, still to be sent
  granted           \* how many it has granted

child == <<job, pc, asks, msg, used, misread>>
proxy == <<asked, owes, granted>>
peers == <<inq, sent, delivered, ended, busy, proxy>>
parent == <<service, acceptor, child_processes>>
vars == <<parent, alive, child, peers>>

Peers == {"client", "remote"}
Other(p) == IF p = "client" THEN "remote" ELSE "client"

\* Units without a number: the request CONNECT, and pieces of an answer of the
\* proxy of the route.  One ends the code of a grant, or of a refusal; one is of
\* a refusal and has "200" in it all the same; one says nothing.
Connect == 0
Yes == -1
No == -2
Stray == -3
Plain == -4

\* SOCKS5 is asked twice, an HTTP proxy only to CONNECT.
Asks == CASE job.route = "socks5" -> 2
          [] job.route = "http" /\ job.connect -> 1
          [] OTHER -> 0

Empty == [p \in Peers |-> <<>>]

\* init has read the settings and listens.
Init ==
  /\ service = "up" /\ acceptor = "idle" /\ child_processes = {}
  /\ job \in [connect : BOOLEAN, route : Routes]
  /\ alive = FALSE /\ pc = "first" /\ asks = 0
  /\ msg = Empty /\ used = Empty /\ misread = FALSE
  /\ inq = Empty /\ delivered = Empty /\ sent = Empty
  /\ ended = [p \in Peers |-> FALSE] /\ busy = [p \in Peers |-> FALSE]
  /\ asked = FALSE /\ owes = <<>> /\ granted = 0

-----------------------------------------------------------------------------
\* acceptClient and deInit, in two threads of the service.

Accept ==
  /\ acceptor = "idle" /\ service # "down" /\ child_processes = {}
  /\ acceptor' = "accepted"
  /\ UNCHANGED <<service, child_processes, alive, child, peers>>

Fork ==
  /\ acceptor = "accepted"
  /\ acceptor' \in {"child", "-1"} /\ alive' = (acceptor' = "child")
  /\ UNCHANGED <<service, child_processes, child, peers>>

PushBack ==
  /\ acceptor \in {"child", "-1"}
  /\ child_processes' = child_processes \cup {acceptor}
  /\ acceptor' = "idle"
  /\ UNCHANGED <<service, alive, child, peers>>

\* kill(-1) is a signal to every process of the app.
KillChildren ==
  /\ service = "up" /\ service' = "killed"
  /\ alive' = (alive /\ child_processes = {})
  /\ UNCHANGED <<acceptor, child_processes, child, peers>>

Shutdown ==
  /\ service = "killed" /\ service' = "down"
  /\ UNCHANGED <<acceptor, child_processes, alive, child, peers>>

Parent == Accept \/ Fork \/ PushBack \/ KillChildren \/ Shutdown

-----------------------------------------------------------------------------
\* recv_string: collects what there is until nothing comes for a while.

At(step) == alive /\ pc = step /\ UNCHANGED <<parent, job>>

\* The child closes its sockets and exits.
End == alive' = FALSE /\ UNCHANGED <<pc, asks, msg, used, misread, peers>>

Goes(step) == pc' = step /\ UNCHANGED alive

Keeps == UNCHANGED <<asks, msg, used, misread, peers>>

Reads(p) == IF p = "client" THEN {"first", "request"} ELSE {"answer", "response"}

Collect(p) ==
  /\ \E step \in Reads(p) : At(step)
  /\ inq[p] # <<>>
  /\ msg' = [msg EXCEPT ![p] = Append(@, Head(inq[p]))]
  /\ inq' = [inq EXCEPT ![p] = Tail(@)]
  /\ UNCHANGED <<alive, pc, asks, used, misread, sent, delivered, ended, busy, proxy>>

\* The end of the stream, and a failed read, end the child, whatever has been
\* collected.
Eof(p) ==
  /\ \E step \in Reads(p) : At(step)
  /\ inq[p] = <<>> /\ ended[p]
  /\ End

\* Mutant of Quiet: the first byte is waited for.
Quiet_waiting(p) == inq[p] = <<>> /\ ~ended[p] /\ ~busy[p] /\ msg[p] # <<>>

\* Nothing has come from p for the time of the timeout.
Quiet(p) == inq[p] = <<>> /\ ~ended[p] /\ ~busy[p]

\* What has been read of p is not for the other side.
UseUp(p) ==
  /\ used' = [used EXCEPT ![p] = @ \o msg[p]]
  /\ msg' = [msg EXCEPT ![p] = <<>>]

\* process_client: the first request is complete, and makes sense.
FirstRequest ==
  /\ At("first") /\ Quiet("client")
  /\ IF msg["client"] = <<>> THEN End
     ELSE \/ End
          \/ /\ job.connect /\ Goes("established") /\ UseUp("client")
             /\ UNCHANGED <<asks, misread, peers>>
          \/ ~job.connect /\ Goes("dial") /\ Keeps

\* CONNECT is answered before the remote server is called.
Established ==
  /\ At("established")
  /\ \/ End
     \/ Goes("dial") /\ Keeps

-----------------------------------------------------------------------------
\* init_remote_server_socket

\* proxy_https reads a request, proxy_http has one.
Relaying == IF job.connect THEN "request" ELSE "forward"

\* Mutant of Dial: a SOCKS5 server is not asked to connect.
Dial_once ==
  /\ At("dial")
  /\ \/ End
     \/ /\ Goes(IF Asks = 0 THEN Relaying ELSE "ask")
        /\ asks' = (IF Asks = 0 THEN 0 ELSE 1)
        /\ UNCHANGED <<msg, used, misread, peers>>

\* The host is resolved and the server, or the proxy on the way, called.
Dial ==
  /\ At("dial")
  /\ \/ End
     \/ /\ Goes(IF Asks = 0 THEN Relaying ELSE "ask")
        /\ asks' = Asks
        /\ UNCHANGED <<msg, used, misread, peers>>

Ask ==
  /\ At("ask")
  /\ \/ End
     \/ /\ Goes("answer") /\ asked' = TRUE
        /\ UNCHANGED <<asks, msg, used, misread, inq, sent, delivered, ended, busy, owes, granted>>

\* Looked at is the second byte of what a SOCKS5 server has answered, which is
\* zero, too, if there is but one; and whether "200" is anywhere in what an HTTP
\* proxy has.
Taken(m) ==
  IF job.route = "socks5" THEN Len(m) = 1 \/ m[2] = Yes
                          ELSE \E n \in 1 .. Len(m) : m[n] \in {Yes, Stray}

\* Read again while there is nothing; then look whether it is granted.
Answer ==
  /\ At("answer") /\ Quiet("remote") /\ msg["remote"] # <<>>
  /\ IF ~Taken(msg["remote"]) THEN End
     ELSE /\ asks' = asks - 1 /\ Goes(IF asks' = 0 THEN Relaying ELSE "ask")
          /\ UseUp("remote")
          /\ misread' = (misread \/ \A n \in 1 .. Len(msg["remote"]) : msg["remote"][n] # Yes)
          /\ UNCHANGED peers

-----------------------------------------------------------------------------
\* proxy_https, proxy_http: the client's turn, the server's turn.

\* An empty message is sent without doing anything.
Request ==
  /\ At("request") /\ Quiet("client")
  /\ Goes(IF msg["client"] = <<>> THEN "response" ELSE "forward") /\ Keeps

Response ==
  /\ At("response") /\ Quiet("remote")
  /\ Goes(IF msg["remote"] = <<>> THEN "request" ELSE "back") /\ Keeps

\* How many units one send may take.  When less is left than split_position, the
\* code passes the result of that comparison, 1, for the length.
Pieces(p) ==
  LET left == Len(msg[p])
  IN  1 .. IF p = "remote" \/ ~is_use_split THEN left
           ELSE IF left < split_position THEN 1 ELSE split_position

SendStep(p) == IF p = "client" THEN "forward" ELSE "back"

\* Mutant of Send: what is left over by send is not sent.
Send_once(p) ==
  /\ At(SendStep(p))
  /\ \E k \in Pieces(p) :
       /\ delivered' = [delivered EXCEPT ![Other(p)] = @ \o SubSeq(msg[p], 1, k)]
       /\ msg' = [msg EXCEPT ![p] = <<>>]
       /\ Goes(IF p = "client" THEN "response" ELSE "request")
  /\ UNCHANGED <<asks, used, misread, inq, sent, ended, busy, proxy>>

\* send_string, with and without split_position: a piece of what p has sent.
Send(p) ==
  /\ At(SendStep(p))
  /\ \E k \in Pieces(p) :
       /\ delivered' = [delivered EXCEPT ![Other(p)] = @ \o SubSeq(msg[p], 1, k)]
       /\ msg' = [msg EXCEPT ![p] = SubSeq(@, k + 1, Len(@))]
       /\ Goes(IF k < Len(msg[p]) THEN SendStep(p)
               ELSE IF p = "client" THEN "response" ELSE "request")
  /\ UNCHANGED <<asks, used, misread, inq, sent, ended, busy, proxy>>

\* Also when the peer does not read for 100 microseconds, and when nothing is
\* sent, for a split_position of zero.
SendFails(p) == At(SendStep(p)) /\ End

Child ==
  \/ FirstRequest \/ Established \/ Dial \/ Ask \/ Answer \/ Request \/ Response
  \/ \E p \in Peers : Collect(p) \/ Eof(p) \/ Send(p) \/ SendFails(p)

-----------------------------------------------------------------------------
\* The peers.  A client waits for the answer to CONNECT (TcpLoop's TunnelFirst
\* is such a one); servers speak when they are spoken to.

Delivers(p, unit) ==
  /\ inq' = [inq EXCEPT ![p] = Append(@, unit)]
  /\ sent' = [sent EXCEPT ![p] = Append(@, unit)]

ClientConnects ==
  /\ job.connect /\ alive /\ pc = "first" /\ sent["client"] = <<>> /\ ~ended["client"]
  /\ Delivers("client", Connect)
  /\ UNCHANGED <<parent, alive, child, delivered, ended, busy, proxy>>

MaySpeak(p) ==
  IF p = "client" THEN job.connect => pc \notin {"first", "established"}
                  ELSE delivered["remote"] # <<>> /\ ~asked /\ owes = <<>>

\* The number of the last unit of p.
Produced(p) ==
  IF sent[p] = <<>> \/ sent[p][Len(sent[p])] < 0 THEN 0 ELSE sent[p][Len(sent[p])]

Speaks(p) ==
  /\ alive /\ MaySpeak(p) /\ ~ended[p] /\ Produced(p) < MaxUnits
  /\ Delivers(p, Produced(p) + 1)
  /\ \E more \in BOOLEAN : busy' = [busy EXCEPT ![p] = more]
  /\ UNCHANGED <<parent, alive, child, delivered, ended, proxy>>

\* Nothing makes a peer pause.
Pauses(p) ==
  /\ busy[p] /\ busy' = [busy EXCEPT ![p] = FALSE]
  /\ UNCHANGED <<parent, alive, child, inq, sent, delivered, ended, proxy>>

\* A SOCKS5 server answers version and method, and version, code and more; the
\* code of an HTTP proxy is complete with the first or the second piece.
Replies(code) ==
  IF job.route = "socks5" THEN {IF asks = 2 THEN <<Plain, code>> ELSE <<Plain, code, Plain>>}
  ELSE IF code = Yes THEN {<<Yes, Plain>>, <<Plain, Yes>>}
  ELSE {Stray, Plain} \X {Stray, Plain}

Answers ==
  /\ asked /\ asked' = FALSE /\ owes = <<>> /\ ~ended["remote"]
  /\ \E code \in {Yes, No} :
       /\ owes' \in Replies(code)
       /\ granted' = granted + IF code = Yes THEN 1 ELSE 0
  /\ UNCHANGED <<parent, alive, child, inq, sent, delivered, ended, busy>>

AnswerComes ==
  /\ owes # <<>> /\ ~ended["remote"]
  /\ Delivers("remote", Head(owes)) /\ owes' = Tail(owes)
  /\ UNCHANGED <<parent, alive, child, delivered, ended, busy, asked, granted>>

Ends(p) ==
  /\ alive /\ ~ended[p]
  /\ p = "remote" => pc \notin {"first", "established", "dial"}
  /\ ended' = [ended EXCEPT ![p] = TRUE]
  /\ UNCHANGED <<parent, alive, child, inq, sent, delivered, busy, proxy>>

World ==
  \/ ClientConnects \/ Answers \/ AnswerComes
  \/ \E p \in Peers : Speaks(p) \/ Pauses(p) \/ Ends(p)

Next == Parent \/ Child \/ World

Spec == Init /\ [][Next]_vars

-----------------------------------------------------------------------------
\* All that p has sent, wherever it is by now.
Whole(p) == ((used[p] \o delivered[Other(p)]) \o msg[p]) \o inq[p]

(***************************************************************************)
(* Nothing is lost, repeated or moved in either stream: what the child has *)
(* used up, what the other side has received, what the child holds, whole  *)
(* or sent in part, and what it has not read make up what was sent; and    *)
(* what it has used up is a CONNECT or answers of a proxy, never a unit of *)
(* the stream.  This holds after the child has ended or was killed, too:   *)
(* what is missing then is what it held, or had not read.                  *)
(***************************************************************************)
StreamsKept ==
  \A p \in Peers :
    /\ Whole(p) = sent[p]
    /\ \A n \in 1 .. Len(used[p]) : used[p][n] <= 0

(***************************************************************************)
(* Nothing of the client's reaches the remote side before every proxy on   *)
(* the way has granted the connection, unless what holds no grant was      *)
(* taken for one (Taken): the first byte of a SOCKS5 answer, or a refusal  *)
(* of an HTTP proxy with "200" somewhere in it.                            *)
(***************************************************************************)
GrantedUnlessMisread == delivered["remote"] # <<>> => granted = Asks \/ misread

Fairness ==
  /\ WF_vars(FirstRequest) /\ WF_vars(Established) /\ WF_vars(Dial) /\ WF_vars(Ask)
  /\ WF_vars(Answer) /\ WF_vars(Request) /\ WF_vars(Response)
  /\ \A p \in Peers : WF_vars(Collect(p)) /\ WF_vars(Eof(p)) /\ WF_vars(Send(p) \/ SendFails(p))

FairSpec == Spec /\ Fairness

Pending(p) == Len(sent[p]) > Len(used[p]) + Len(delivered[Other(p)])

(***************************************************************************)
(* What has arrived is passed on, or the child ends, although it looks at  *)
(* one side at a time and whichever side speaks next: if a peer that sends *)
(* pauses again, as all that comes without a pause is collected; and if a  *)
(* proxy on the way that is asked answers or hangs up, as its answer is    *)
(* waited for without limit.                                               *)
(***************************************************************************)
PassedOn ==
  (\A p \in Peers : []<>~busy[p]) /\ []<>~(alive /\ pc = "answer")
    => \A p \in Peers : (alive /\ Pending(p)) ~> (~alive \/ ~Pending(p))

-----------------------------------------------------------------------------
(***************************************************************************)
(* "Kill child processes" (dpi-bypass.cpp:375): when deInit is done, none  *)
(* is left.  A client accepted before, and forked after the children were  *)
(* killed, is served by one that is.                                       *)
(***************************************************************************)
ChildrenKilled == service = "down" => ~alive

(***************************************************************************)
(* "Check response code" (socket.cpp:299): a client's bytes go out only    *)
(* when each request to the proxy on the way was granted.  A refusal may   *)
(* be read piece by piece, or have "200" in it.                            *)
(***************************************************************************)
GrantedFirst == delivered["remote"] # <<>> => granted = Asks
=============================================================================
