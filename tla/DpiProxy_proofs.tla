-------------------------- MODULE DpiProxy_proofs --------------------------
(***************************************************************************)
(* Proofs about the DPI-bypass proxy for any routes, split positions and   *)
(* lengths of the streams: the streams are kept whole, and nothing of the  *)
(* client's goes out before the proxies on the way have granted it, unless *)
(* what holds no grant was taken for one.                                  *)
(*                                                                         *)
(* Neither is inductive.  The first needs that nothing is passed on before *)
(* the relay begins, and that a message is never empty where it is sent;   *)
(* the second that of all that a proxy's answer has still to be read, at   *)
(* most one piece is a grant, and that it is one not counted down yet.     *)
(***************************************************************************)
EXTENDS DpiProxy, SequenceTheorems, TLAPS

Before == {"first", "established", "dial", "ask", "answer"}
Relay == {"request", "forward", "response", "back"}

Streams == [Peers -> Seq(Int)]

ProxyType ==
  /\ job \in [connect : BOOLEAN, route : Routes]
  /\ pc \in Before \cup Relay /\ asks \in 0 .. 2 /\ granted \in Int
  /\ asked \in BOOLEAN /\ misread \in BOOLEAN
  /\ inq \in Streams /\ msg \in Streams /\ delivered \in Streams /\ used \in Streams
  /\ sent \in Streams /\ owes \in Seq(Int)

\* No unit of s has a number; none is a grant; at most one is.
NoData(s) == \A n \in 1 .. Len(s) : s[n] <= 0
NoYes(s) == \A n \in 1 .. Len(s) : s[n] # Yes
OneYes(s) == \A n, k \in 1 .. Len(s) : s[n] = Yes /\ s[k] = Yes => n = k

WholeInv == Whole("client") = sent["client"] /\ Whole("remote") = sent["remote"]

\* What is for the child comes before what is for the other side.
DataInv ==
  /\ NoData(used["client"]) /\ NoData(used["remote"]) /\ NoData(owes)
  /\ pc \in Before => delivered["client"] = <<>> /\ delivered["remote"] = <<>>
  /\ job.connect /\ pc = "first" => NoData(sent["client"])
  /\ delivered["remote"] = <<>> => NoData(sent["remote"])

\* There is something to send.
HeldInv ==
  /\ pc = "established" => job.connect
  /\ pc = "forward" \/ (~job.connect /\ pc \in {"dial", "ask", "answer"}) => msg["client"] # <<>>
  /\ pc = "back" => msg["remote"] # <<>>

\* What is still to be read, or to come, of a proxy's answer.
Coming == (msg["remote"] \o inq["remote"]) \o owes

\* Requests to the proxy of the route are counted down, grants are counted up.
CountInv ==
  /\ pc \in {"first", "established", "dial"} => granted = 0 /\ ~asked /\ NoYes(Coming)
  /\ pc = "ask" => granted = Asks - asks /\ ~asked /\ NoYes(Coming)
  /\ pc = "answer" /\ asked => granted = Asks - asks /\ NoYes(Coming)
  /\ pc = "answer" /\ ~asked => OneYes(Coming)
  /\ pc = "answer" /\ ~asked /\ ~NoYes(Coming) => granted = Asks - asks + 1
  /\ pc \in Relay => granted = Asks /\ ~asked

GrantInv ==
  /\ pc \in {"ask", "answer"} => asks > 0
  /\ ~misread => CountInv

IInv == ProxyType /\ WholeInv /\ DataInv /\ HeldInv /\ GrantInv

-----------------------------------------------------------------------------
\* Streams.

\* Three streams may be joined in either order: named, so that the provers are
\* told for which three.
Associates(a, b, c) == (a \o b) \o c = a \o (b \o c)

LEMMA Assoc ==
  ASSUME NEW a \in Seq(Int), NEW b \in Seq(Int), NEW c \in Seq(Int)
  PROVE  Associates(a, b, c)
BY ConcatAssociative DEF Associates

\* What Collect does to a stream.
LEMMA CollectTypes ==
  ASSUME NEW m \in Seq(Int), NEW q \in Seq(Int), q # <<>>
  PROVE  /\ Append(m, Head(q)) \in Seq(Int) /\ Tail(q) \in Seq(Int)
         /\ Append(m, Head(q)) = m \o <<Head(q)>> /\ q = <<Head(q)>> \o Tail(q)
         /\ <<Head(q)>> \in Seq(Int)
<1>1. Head(q) \in Int /\ Tail(q) \in Seq(Int) /\ Head(q) = q[1]
  BY HeadTailProperties
<1>2. /\ <<Head(q)>> \in Seq(Int) /\ Append(m, Head(q)) = m \o <<Head(q)>>
      /\ Append(m, Head(q)) \in Seq(Int)
  BY <1>1, AppendIsConcat, AppendProperties
<1>3. q = <<Head(q)>> \o Tail(q)
  <2>1. q = SubSeq(q, 1, Len(q)) /\ Len(q) \in Nat \ {0}
    BY SubSeqFull, EmptySeq, LenProperties
  <2>2. SubSeq(q, 1, Len(q)) = <<q[1]>> \o SubSeq(q, 1 + 1, Len(q))
    BY <2>1, SubSeqRecursiveFirst
  <2> QED  BY <1>1, <2>1, <2>2, TailIsSubSeq
<1> QED  BY <1>1, <1>2, <1>3

LEMMA CollectWhole ==
  ASSUME NEW d \in Seq(Int), NEW m \in Seq(Int), NEW q \in Seq(Int), q # <<>>
  PROVE  (d \o Append(m, Head(q))) \o Tail(q) = (d \o m) \o q
<1> DEFINE h == <<Head(q)>>
           t == Tail(q)
<1>1. h \in Seq(Int) /\ t \in Seq(Int) /\ Append(m, Head(q)) = m \o h /\ q = h \o t
  BY CollectTypes
<1> HIDE DEF h, t
<1>2. h \in Seq(Int) /\ t \in Seq(Int)
  BY <1>1
<1>3. d \o m \in Seq(Int)
  BY ConcatProperties
<1>4. Associates(d, m, h) /\ Associates(d \o m, h, t)
  BY <1>2, <1>3, Assoc, Zenon
<1>5. (d \o (m \o h)) \o t = (d \o m) \o (h \o t)
  BY <1>4, Zenon DEF Associates
<1> QED  BY <1>1, <1>5, Zenon DEF t

\* What Send does to a stream.
LEMMA SendTypes ==
  ASSUME NEW m \in Seq(Int), NEW k \in 1 .. Len(m)
  PROVE  /\ SubSeq(m, 1, k) \in Seq(Int) /\ SubSeq(m, k + 1, Len(m)) \in Seq(Int)
         /\ SubSeq(m, k + 1, Len(m)) = <<>> <=> k = Len(m)
         /\ SubSeq(m, 1, k) \o SubSeq(m, k + 1, Len(m)) = m
<1> DEFINE a == SubSeq(m, 1, k)
           b == SubSeq(m, k + 1, Len(m))
<1>1. Len(m) \in Nat /\ \A i \in 1 .. Len(m) : m[i] \in Int
  BY LenProperties, ElementOfSeq
<1>2. a \in Seq(Int) /\ Len(a) = k
  BY <1>1, SubSeqProperties
<1>3. b \in Seq(Int) /\ Len(b) = IF k + 1 <= Len(m) THEN Len(m) - k ELSE 0
  BY <1>1, SubSeqProperties
<1>4. a \o b = m
  <2>1. 1 \in 1 .. Len(m) + 1 /\ k \in 1 - 1 .. Len(m) /\ Len(m) \in k .. Len(m)
    BY <1>1
  <2>2. a \o b = SubSeq(m, 1, Len(m))
    BY <2>1, ConcatAdjacentSubSeq
  <2> QED  BY <2>2, SubSeqFull
<1> HIDE DEF a, b
<1>5. b = <<>> <=> k = Len(m)
  <2>1. b = <<>> <=> Len(b) = 0
    BY <1>3, EmptySeq
  <2> QED  BY <1>1, <1>3, <2>1
<1> QED  BY <1>2, <1>3, <1>4, <1>5 DEF a, b

SendKeeps(c, d, m, q, k) ==
  ((c \o (d \o SubSeq(m, 1, k))) \o SubSeq(m, k + 1, Len(m))) \o q = ((c \o d) \o m) \o q

LEMMA SendWhole ==
  ASSUME NEW c \in Seq(Int), NEW d \in Seq(Int), NEW m \in Seq(Int), NEW q \in Seq(Int),
         NEW k \in 1 .. Len(m)
  PROVE  SendKeeps(c, d, m, q, k)
<1> DEFINE a == SubSeq(m, 1, k)
           b == SubSeq(m, k + 1, Len(m))
<1>1. a \in Seq(Int) /\ b \in Seq(Int) /\ a \o b = m
  BY SendTypes
<1> HIDE DEF a, b
<1>2. a \in Seq(Int) /\ b \in Seq(Int)
  BY <1>1
<1>3. c \o d \in Seq(Int)
  BY ConcatProperties
<1>4. Associates(c, d, a) /\ Associates(c \o d, a, b)
  BY <1>2, <1>3, Assoc, Zenon
<1>5. (c \o (d \o a)) \o b = (c \o d) \o m
  BY <1>1, <1>4, Zenon DEF Associates
<1> QED  BY <1>5, Zenon DEF a, b, SendKeeps

\* What a new unit does to a stream.
LEMMA AppendWhole ==
  ASSUME NEW w \in Seq(Int), NEW q \in Seq(Int), NEW u \in Int
  PROVE  w \o Append(q, u) = Append(w \o q, u) /\ Append(q, u) \in Seq(Int)
<1>1. Append(q, u) = q \o <<u>> /\ <<u>> \in Seq(Int) /\ w \o q \in Seq(Int)
  BY AppendIsConcat, ConcatProperties
<1>2. Append(w \o q, u) = (w \o q) \o <<u>>
  BY <1>1, AppendIsConcat
<1>3. Associates(w, q, <<u>>)
  BY <1>1, Assoc, Zenon
<1> QED  BY <1>1, <1>2, <1>3, AppendProperties DEF Associates

\* What UseUp does to a stream of which nothing has been passed on.
LEMMA UseWhole ==
  ASSUME NEW c \in Seq(Int), NEW m \in Seq(Int), NEW q \in Seq(Int)
  PROVE  (((c \o m) \o <<>>) \o <<>>) \o q = ((c \o <<>>) \o m) \o q
<1>1. c \o m \in Seq(Int)
  BY ConcatProperties
<1> QED  BY <1>1, ConcatEmptySeq

\* What is said of all units of a stream is said of its parts.
LEMMA PartsOf ==
  ASSUME NEW a \in Seq(Int), NEW b \in Seq(Int)
  PROVE  /\ NoData(a \o b) <=> NoData(a) /\ NoData(b)
         /\ NoYes(a \o b) <=> NoYes(a) /\ NoYes(b)
<1>1. /\ Len(a) \in Nat /\ Len(b) \in Nat /\ Len(a \o b) = Len(a) + Len(b)
      /\ \A i \in 1 .. Len(a) + Len(b) :
           (a \o b)[i] = IF i <= Len(a) THEN a[i] ELSE b[i - Len(a)]
  BY ConcatProperties, LenProperties
<1>2. \A i \in 1 .. Len(b) : (a \o b)[Len(a) + i] = b[i] /\ Len(a) + i \in 1 .. Len(a \o b)
  BY <1>1
<1>3. \A i \in 1 .. Len(a) : (a \o b)[i] = a[i] /\ i \in 1 .. Len(a \o b)
  BY <1>1
<1>4. \A i \in 1 .. Len(a \o b) :
        \/ i \in 1 .. Len(a) /\ (a \o b)[i] = a[i]
        \/ i - Len(a) \in 1 .. Len(b) /\ (a \o b)[i] = b[i - Len(a)]
  BY <1>1
<1> QED  BY <1>2, <1>3, <1>4 DEF NoData, NoYes

\* The grant of an answer is read: what follows it has none.
LEMMA OneRead ==
  ASSUME NEW a \in Seq(Int), NEW b \in Seq(Int), OneYes(a \o b), ~NoYes(a)
  PROVE  NoYes(b)
<1>1. /\ Len(a) \in Nat /\ Len(b) \in Nat /\ Len(a \o b) = Len(a) + Len(b)
      /\ \A i \in 1 .. Len(a) + Len(b) :
           (a \o b)[i] = IF i <= Len(a) THEN a[i] ELSE b[i - Len(a)]
  BY ConcatProperties, LenProperties
<1>2. PICK n \in 1 .. Len(a) : a[n] = Yes
  BY DEF NoYes
<1>3. n \in 1 .. Len(a \o b) /\ (a \o b)[n] = Yes
  BY <1>1, <1>2
<1>4. ASSUME NEW i \in 1 .. Len(b), b[i] = Yes  PROVE FALSE
  <2>1. Len(a) + i \in 1 .. Len(a \o b) /\ (a \o b)[Len(a) + i] = Yes
    BY <1>1, <1>4
  <2>2. n = Len(a) + i
    BY <1>3, <2>1 DEF OneYes
  <2> QED  BY <1>1, <2>2
<1> QED  BY <1>4 DEF NoYes

\* An answer follows what is no grant.
LEMMA OneMore ==
  ASSUME NEW a \in Seq(Int), NEW b \in Seq(Int), NoYes(a), OneYes(b)
  PROVE  OneYes(a \o b)
<1>1. /\ Len(a) \in Nat /\ Len(b) \in Nat /\ Len(a \o b) = Len(a) + Len(b)
      /\ \A i \in 1 .. Len(a) + Len(b) :
           (a \o b)[i] = IF i <= Len(a) THEN a[i] ELSE b[i - Len(a)]
  BY ConcatProperties, LenProperties
<1>2. ASSUME NEW i \in 1 .. Len(a \o b), (a \o b)[i] = Yes
      PROVE  i - Len(a) \in 1 .. Len(b) /\ b[i - Len(a)] = Yes
  BY <1>1, <1>2 DEF NoYes
<1>3. ASSUME NEW i \in 1 .. Len(a \o b), NEW k \in 1 .. Len(a \o b),
             (a \o b)[i] = Yes, (a \o b)[k] = Yes
      PROVE  i = k
  <2>1. i - Len(a) = k - Len(a)
    BY <1>2, <1>3 DEF OneYes
  <2> QED  BY <1>1, <2>1
<1> QED  BY <1>3 DEF OneYes

\* What a proxy may answer.
LEMMA RepliesRange ==
  ASSUME NEW code \in {Yes, No}, NEW r \in Replies(code)
  PROVE  /\ r \in Seq(Int) /\ NoData(r) /\ OneYes(r)
         /\ code = No => NoYes(r)
<1>1. \/ \E a, b \in {Yes, No, Stray, Plain} :
            r = <<a, b>> /\ ~(a = Yes /\ b = Yes) /\ (code = No => a # Yes /\ b # Yes)
      \/ r = <<Plain, code, Plain>>
  BY DEF Replies, Yes, No, Stray, Plain
<1>2. CASE r = <<Plain, code, Plain>>
  BY <1>2 DEF NoData, NoYes, OneYes, Yes, No, Plain
<1>3. ASSUME NEW a \in {Yes, No, Stray, Plain}, NEW b \in {Yes, No, Stray, Plain},
             r = <<a, b>>, ~(a = Yes /\ b = Yes), code = No => a # Yes /\ b # Yes
      PROVE  /\ r \in Seq(Int) /\ NoData(r) /\ OneYes(r)
             /\ code = No => NoYes(r)
  <2>1. a \in Int /\ b \in Int /\ a <= 0 /\ b <= 0
    BY <1>3 DEF Yes, No, Stray, Plain
  <2>2. Len(r) = 2 /\ r[1] = a /\ r[2] = b /\ r \in Seq(Int)
    BY <1>3, <2>1
  <2> QED  BY <1>3, <2>1, <2>2 DEF NoData, NoYes, OneYes
<1> QED  BY <1>1, <1>2, <1>3

-----------------------------------------------------------------------------
\* Steps that leave the streams alone.

USE DEF Peers, Other

LEMMA AsksRange == ProxyType => Asks \in 0 .. 2
BY DEF Asks, ProxyType

LEMMA SameAsks == job' = job => Asks' = Asks
BY DEF Asks

LEMMA SameStreams ==
  ASSUME UNCHANGED <<used, delivered, msg, inq, owes>>
  PROVE  \A p \in Peers : Whole(p)' = Whole(p) /\ Coming' = Coming
BY DEF Whole, Coming

streams == <<job, pc, asks, msg, used, misread, inq, sent, delivered, asked, owes, granted>>

LEMMA SameIInv == ASSUME IInv, UNCHANGED streams  PROVE IInv'
<1>1. /\ job' = job /\ pc' = pc /\ asks' = asks /\ msg' = msg /\ used' = used
      /\ misread' = misread /\ inq' = inq /\ sent' = sent /\ delivered' = delivered
      /\ asked' = asked /\ owes' = owes /\ granted' = granted
  BY DEF streams
<1>2. /\ Whole("client")' = Whole("client") /\ Whole("remote")' = Whole("remote")
      /\ Coming' = Coming /\ Asks' = Asks
  BY <1>1, SameStreams, SameAsks
<1>3. ProxyType' /\ WholeInv' /\ DataInv' /\ HeldInv'
  BY <1>1, <1>2 DEF IInv, ProxyType, WholeInv, DataInv, HeldInv
<1>4. GrantInv'
  BY <1>1, <1>2 DEF IInv, GrantInv, CountInv
<1> QED  BY <1>3, <1>4 DEF IInv

LEMMA EndSame ==
  ASSUME End, job' = job
  PROVE  UNCHANGED streams
BY DEF End, streams, peers, proxy

\* Steps from one place to the next.
LEMMA MoveStep ==
  ASSUME IInv, UNCHANGED <<job, msg, used, misread, inq, sent, delivered, owes, granted>>,
         \/ /\ pc = "first" /\ pc' = "dial" /\ asks' = asks /\ asked' = asked
            /\ ~job.connect /\ msg["client"] # <<>>
         \/ pc = "established" /\ pc' = "dial" /\ asks' = asks /\ asked' = asked
         \/ /\ pc = "dial" /\ asks' = Asks /\ asked' = asked
            /\ pc' = IF Asks = 0 THEN Relaying ELSE "ask"
         \/ pc = "ask" /\ pc' = "answer" /\ asks' = asks /\ asked' = TRUE
         \/ /\ pc = "request" /\ asks' = asks /\ asked' = asked
            /\ pc' = IF msg["client"] = <<>> THEN "response" ELSE "forward"
         \/ /\ pc = "response" /\ asks' = asks /\ asked' = asked
            /\ pc' = IF msg["remote"] = <<>> THEN "request" ELSE "back"
  PROVE  IInv'
<1>1. Asks' = Asks /\ Asks \in 0 .. 2
  BY SameAsks, AsksRange DEF IInv
<1>2. /\ Whole("client")' = Whole("client") /\ Whole("remote")' = Whole("remote")
      /\ Coming' = Coming
  BY SameStreams
<1>3. Relaying \in {"request", "forward"} /\ (Relaying = "forward" <=> ~job.connect)
  BY DEF Relaying
<1>4. ProxyType'
  BY <1>1, <1>3 DEF IInv, ProxyType, Before, Relay
<1>5. WholeInv'
  BY <1>2 DEF IInv, WholeInv
<1>6. DataInv'
  BY <1>3 DEF IInv, DataInv, Before
<1>7. HeldInv'
  BY <1>3 DEF IInv, HeldInv
<1>8. GrantInv'
  <2>1. pc' \in {"ask", "answer"} => asks' > 0
    BY <1>1, <1>3 DEF IInv, GrantInv
  <2>2. ASSUME ~misread  PROVE CountInv'
    <3>1. CountInv
      BY <2>2 DEF IInv, GrantInv
    <3>2. CASE pc \in {"first", "established"}
      BY <1>1, <1>2, <3>1, <3>2 DEF CountInv, Relay
    <3>3. CASE pc = "dial"
      <4>1. granted' = 0 /\ ~asked' /\ NoYes(Coming)' /\ asks' = Asks
        BY <1>2, <3>1, <3>3 DEF CountInv, NoYes
      <4> QED  BY <1>1, <1>3, <3>3, <4>1 DEF CountInv, Relay
    <3>4. CASE pc = "ask"
      BY <1>1, <1>2, <3>1, <3>4 DEF CountInv, Relay
    <3>5. CASE pc \in {"request", "response"}
      BY <1>1, <1>2, <3>1, <3>5 DEF CountInv, Relay
    <3> QED  BY <3>2, <3>3, <3>4, <3>5
  <2> QED  BY <2>1, <2>2 DEF GrantInv
<1> QED  BY <1>4, <1>5, <1>6, <1>7, <1>8 DEF IInv

LEMMA MovingStep ==
  ASSUME IInv, Established \/ Dial \/ Ask \/ Request \/ Response
  PROVE  IInv'
<1>1. CASE End
  BY <1>1, EndSame, SameIInv DEF Established, Dial, Ask, Request, Response, At
<1>2. CASE ~End
  BY <1>2, MoveStep
  DEF Established, Dial, Ask, Request, Response, At, Goes, Keeps, peers, proxy
<1> QED  BY <1>1, <1>2

\* What is used up moves from one part of the stream to another.
LEMMA UsesStep ==
  ASSUME IInv, NEW p \in Peers, UseUp(p), delivered[Other(p)] = <<>>, inq[p] = <<>>,
         NoData(sent[p]), UNCHANGED <<inq, sent, delivered>>
  PROVE  /\ msg' \in Streams /\ used' \in Streams /\ WholeInv'
         /\ NoData(used'["client"]) /\ NoData(used'["remote"])
         /\ msg'[p] = <<>> /\ msg'[Other(p)] = msg[Other(p)]
<1>1. /\ used[p] \in Seq(Int) /\ msg[p] \in Seq(Int) /\ inq[p] \in Seq(Int)
      /\ msg \in Streams /\ used \in Streams
  BY DEF IInv, ProxyType, Streams
<1>2. used[p] \o msg[p] \in Seq(Int) /\ <<>> \in Seq(Int)
  BY <1>1, ConcatProperties
<1>3. /\ used' \in Streams /\ used'[p] = used[p] \o msg[p] /\ used'[Other(p)] = used[Other(p)]
      /\ msg' \in Streams /\ msg'[p] = <<>> /\ msg'[Other(p)] = msg[Other(p)]
  BY <1>1, <1>2 DEF UseUp, Streams
<1>4. Whole(p)' = Whole(p)
  <2>1. /\ Whole(p)' = (((used[p] \o msg[p]) \o <<>>) \o <<>>) \o inq[p]
        /\ Whole(p) = ((used[p] \o <<>>) \o msg[p]) \o inq[p]
    BY <1>3 DEF Whole
  <2> QED  BY <1>1, <2>1, UseWhole
<1>5. Whole(Other(p))' = Whole(Other(p))
  BY <1>3 DEF Whole
<1>6. NoData(used'[p])
  <2>1. (used[p] \o <<>>) \o msg[p] = used[p] \o msg[p]
    BY <1>1, ConcatEmptySeq
  <2>2. (used[p] \o msg[p]) \o <<>> = used[p] \o msg[p]
    BY <1>2, ConcatEmptySeq
  <2>3. sent[p] = used[p] \o msg[p]
    <3>1. sent[p] = Whole(p)
      BY DEF IInv, WholeInv
    <3> QED  BY <2>1, <2>2, <3>1 DEF Whole
  <2> QED  BY <1>3, <2>3
<1>7. NoData(used'[Other(p)])
  BY <1>3 DEF IInv, DataInv
<1>8. Whole(p)' = sent'[p] /\ Whole(Other(p))' = sent'[Other(p)]
  BY <1>4, <1>5 DEF IInv, WholeInv
<1>9. (p = "client" /\ Other(p) = "remote") \/ (p = "remote" /\ Other(p) = "client")
  OBVIOUS
<1>10. WholeInv' /\ NoData(used'["client"]) /\ NoData(used'["remote"])
  <2>1. CASE p = "client" /\ Other(p) = "remote"
    BY <1>6, <1>7, <1>8, <2>1 DEF WholeInv
  <2>2. CASE p = "remote" /\ Other(p) = "client"
    BY <1>6, <1>7, <1>8, <2>2 DEF WholeInv
  <2> QED  BY <1>9, <2>1, <2>2
<1> QED  BY <1>3, <1>10

LEMMA FirstRequestStep == ASSUME IInv, FirstRequest  PROVE IInv'
<1>1. CASE End
  BY <1>1, EndSame, SameIInv DEF FirstRequest, At
<1>2. CASE ~job.connect /\ ~End
  BY <1>2, MoveStep DEF FirstRequest, At, Goes, Keeps, peers, proxy
<1>3. CASE job.connect /\ ~End
  <2>1. /\ pc = "first" /\ pc' = "established" /\ job' = job /\ inq["client"] = <<>>
        /\ UseUp("client") /\ asks' = asks /\ misread' = misread
        /\ inq' = inq /\ sent' = sent /\ delivered' = delivered
        /\ asked' = asked /\ owes' = owes /\ granted' = granted
    BY <1>3 DEF FirstRequest, At, Goes, Quiet, peers, proxy
  <2>2. delivered["remote"] = <<>> /\ NoData(sent["client"])
    BY <1>3, <2>1 DEF IInv, DataInv, Before
  <2>3. /\ msg' \in Streams /\ used' \in Streams /\ WholeInv'
        /\ NoData(used'["client"]) /\ NoData(used'["remote"])
        /\ msg'["remote"] = msg["remote"]
    BY <2>1, <2>2, UsesStep
  <2>4. Coming' = Coming /\ Asks' = Asks
    BY <2>1, <2>3, SameAsks DEF Coming
  <2>5. ProxyType' /\ HeldInv'
    BY <1>3, <2>1, <2>3 DEF IInv, ProxyType, HeldInv, Before, Relay
  <2>6. DataInv'
    BY <2>1, <2>3 DEF IInv, DataInv, Before
  <2>7. GrantInv'
    BY <2>1, <2>4 DEF IInv, GrantInv, CountInv, Relay
  <2> QED  BY <2>3, <2>5, <2>6, <2>7 DEF IInv
<1> QED  BY <1>1, <1>2, <1>3

LEMMA AnswerStep == ASSUME IInv, Answer  PROVE IInv'
<1>1. CASE End
  BY <1>1, EndSame, SameIInv DEF Answer, At
<1>2. CASE ~End
  <2>1. /\ pc = "answer" /\ job' = job /\ inq["remote"] = <<>>
        /\ asks' = asks - 1 /\ pc' = IF asks' = 0 THEN Relaying ELSE "ask"
        /\ UseUp("remote")
        /\ inq' = inq /\ sent' = sent /\ delivered' = delivered
        /\ asked' = asked /\ owes' = owes /\ granted' = granted
    BY <1>2 DEF Answer, At, Goes, Quiet, peers, proxy
  <2>2. misread' = (misread \/ NoYes(msg["remote"]))
    BY <1>2 DEF Answer, NoYes
  <2>3. delivered["client"] = <<>> /\ delivered["remote"] = <<>> /\ NoData(sent["remote"])
    BY <2>1 DEF IInv, DataInv, Before
  <2>4. /\ msg' \in Streams /\ used' \in Streams /\ WholeInv'
        /\ NoData(used'["client"]) /\ NoData(used'["remote"])
        /\ msg'["remote"] = <<>> /\ msg'["client"] = msg["client"]
    BY <2>1, <2>3, UsesStep
  <2>5. asks > 0 /\ asks \in 0 .. 2
    BY <2>1 DEF IInv, ProxyType, GrantInv
  <2>6. Asks' = Asks /\ Asks \in 0 .. 2
    BY <2>1, SameAsks, AsksRange DEF IInv
  <2>7. Relaying \in {"request", "forward"} /\ (Relaying = "forward" <=> ~job.connect)
    BY DEF Relaying
  <2>8. ProxyType'
    <3>1. misread' \in BOOLEAN
      <4> DEFINE o == misread \/ NoYes(msg["remote"])
      <4>1. o \in BOOLEAN
        BY Zenon
      <4> HIDE DEF o
      <4> QED  BY <2>2, <4>1 DEF o
    <3> QED  BY <2>1, <2>4, <2>5, <2>7, <3>1 DEF IInv, ProxyType, Before, Relay
  <2>9. DataInv'
    BY <2>1, <2>3, <2>4, <2>7 DEF IInv, DataInv
  <2>10. HeldInv'
    BY <2>1, <2>4, <2>7 DEF IInv, HeldInv
  <2>11. GrantInv'
    <3>1. pc' \in {"ask", "answer"} => asks' > 0
      BY <2>1, <2>5, <2>7
    <3>2. ASSUME ~misread'  PROVE CountInv'
      <4>1. CountInv /\ ~NoYes(msg["remote"])
        BY <2>2, <3>2, Zenon DEF IInv, GrantInv
      <4>2. msg["remote"] \in Seq(Int) /\ owes \in Seq(Int)
        BY DEF IInv, ProxyType, Streams
      <4>3. Coming = msg["remote"] \o owes
        BY <2>1, <4>2, ConcatEmptySeq DEF Coming
      <4>4. ~NoYes(Coming)
        BY <4>1, <4>2, <4>3, PartsOf
      <4>5. ~asked /\ OneYes(Coming) /\ granted = Asks - asks + 1
        BY <2>1, <4>1, <4>4 DEF CountInv
      <4>6. NoYes(owes)
        BY <4>1, <4>2, <4>3, <4>5, OneRead
      <4>7. Coming' = owes
        <5>1. <<>> \o <<>> = <<>> /\ <<>> \o owes = owes
          BY <4>2, ConcatEmptySeq
        <5> QED  BY <2>1, <2>4, <5>1 DEF Coming
      <4>8. NoYes(Coming)'
        BY <4>6, <4>7 DEF NoYes
      <4> QED  BY <2>1, <2>5, <2>6, <2>7, <4>5, <4>8 DEF CountInv, Relay
    <3> QED  BY <3>1, <3>2 DEF GrantInv
  <2> QED  BY <2>4, <2>8, <2>9, <2>10, <2>11 DEF IInv
<1> QED  BY <1>1, <1>2

-----------------------------------------------------------------------------
\* Steps that move units.

\* A step that keeps the place, the counts and the answer to come.
LEMMA SameGrant ==
  ASSUME GrantInv, UNCHANGED <<job, pc, asks, misread, asked, granted>>, Coming' = Coming
  PROVE  GrantInv'
<1>1. Asks' = Asks
  BY SameAsks
<1> QED  BY <1>1 DEF GrantInv, CountInv

\* A step of one stream keeps both.
LEMMA BothWhole ==
  ASSUME NEW p \in Peers, Whole(p)' = sent'[p], Whole(Other(p))' = sent'[Other(p)]
  PROVE  WholeInv'
<1>1. CASE p = "client"
  BY <1>1 DEF WholeInv
<1>2. CASE p = "remote"
  BY <1>2 DEF WholeInv
<1> QED  BY <1>1, <1>2

LEMMA SendsStep == ASSUME IInv, NEW p \in Peers, Send(p)  PROVE IInv'
<1>1. PICK k \in Pieces(p) :
        /\ pc = SendStep(p) /\ job' = job
        /\ delivered' = [delivered EXCEPT ![Other(p)] = @ \o SubSeq(msg[p], 1, k)]
        /\ msg' = [msg EXCEPT ![p] = SubSeq(@, k + 1, Len(@))]
        /\ pc' = IF k < Len(msg[p]) THEN SendStep(p)
                 ELSE IF p = "client" THEN "response" ELSE "request"
        /\ asks' = asks /\ used' = used /\ misread' = misread /\ inq' = inq /\ sent' = sent
        /\ asked' = asked /\ owes' = owes /\ granted' = granted
  BY DEF Send, At, Goes, proxy
<1>2. /\ msg[p] \in Seq(Int) /\ inq[p] \in Seq(Int) /\ delivered[Other(p)] \in Seq(Int)
      /\ used[p] \in Seq(Int) /\ msg[p] # <<>> /\ pc \in Relay
  BY <1>1 DEF IInv, ProxyType, Streams, HeldInv, SendStep, Relay
<1>3. Len(msg[p]) \in Nat \ {0}
  BY <1>2, EmptySeq, LenProperties
<1>4. k \in 1 .. Len(msg[p])
  BY <1>3, ProxyAssumption DEF Pieces
<1> DEFINE a == SubSeq(msg[p], 1, k)
           b == SubSeq(msg[p], k + 1, Len(msg[p]))
<1>5. /\ a \in Seq(Int) /\ b \in Seq(Int) /\ delivered[Other(p)] \o a \in Seq(Int)
      /\ b = <<>> <=> k = Len(msg[p])
      /\ ((used[p] \o (delivered[Other(p)] \o a)) \o b) \o inq[p]
           = ((used[p] \o delivered[Other(p)]) \o msg[p]) \o inq[p]
      /\ delivered[Other(p)] \o a = <<>> => delivered[Other(p)] = <<>>
  <2> DEFINE c == used[p]
             d == delivered[Other(p)]
             n == msg[p]
             q == inq[p]
  <2>1. /\ c \in Seq(Int) /\ d \in Seq(Int) /\ n \in Seq(Int) /\ q \in Seq(Int)
        /\ k \in 1 .. Len(n)
    BY <1>2, <1>4
  <2> HIDE DEF c, d, n, q
  <2>2. /\ SubSeq(n, 1, k) \in Seq(Int) /\ SubSeq(n, k + 1, Len(n)) \in Seq(Int)
        /\ SubSeq(n, k + 1, Len(n)) = <<>> <=> k = Len(n)
    BY <2>1, SendTypes
  <2>3. d \o SubSeq(n, 1, k) \in Seq(Int)
    BY <2>1, <2>2, ConcatProperties
  <2>4. ((c \o (d \o SubSeq(n, 1, k))) \o SubSeq(n, k + 1, Len(n))) \o q
          = ((c \o d) \o n) \o q
    <3>1. SendKeeps(c, d, n, q, k)
      BY <2>1, SendWhole, Zenon
    <3> QED  BY <3>1, Zenon DEF SendKeeps
  <2>5. d \o SubSeq(n, 1, k) = <<>> => d = <<>>
    <3> DEFINE e == SubSeq(n, 1, k)
    <3>1. e \in Seq(Int)
      BY <2>2
    <3> HIDE DEF e
    <3>2. Len(d \o e) = Len(d) + Len(e) /\ Len(d) \in Nat /\ Len(e) \in Nat
      BY <2>1, <3>1, ConcatProperties, LenProperties
    <3>3. d \o e = <<>> => Len(d) = 0
      BY <3>2
    <3> QED  BY <2>1, <3>3, EmptySeq DEF e
  <2> QED  BY <2>2, <2>3, <2>4, <2>5 DEF c, d, n, q
<1> HIDE DEF a, b
<1>6. /\ msg' = [msg EXCEPT ![p] = b]
      /\ delivered' = [delivered EXCEPT ![Other(p)] = delivered[Other(p)] \o a]
  BY <1>1 DEF a, b
<1>7. /\ msg' \in Streams /\ delivered' \in Streams
      /\ msg'[p] = b /\ msg'[Other(p)] = msg[Other(p)]
      /\ delivered'[Other(p)] = delivered[Other(p)] \o a /\ delivered'[p] = delivered[p]
  BY <1>5, <1>6 DEF IInv, ProxyType, Streams
<1>8. pc' \in Relay
  BY <1>1 DEF SendStep, Relay
<1>9. ProxyType'
  BY <1>1, <1>7, <1>8 DEF IInv, ProxyType
<1>10. HeldInv'
  <2>1. pc' = SendStep(p) => msg'[p] # <<>>
    <3>1. pc' = SendStep(p) => k < Len(msg[p])
      BY <1>1 DEF SendStep
    <3> QED  BY <1>3, <1>4, <1>5, <1>7, <3>1
  <2> QED  BY <1>1, <2>1 DEF HeldInv, SendStep
<1>11. Whole(p)' = Whole(p) /\ Whole(Other(p))' = Whole(Other(p))
  BY <1>1, <1>5, <1>7 DEF Whole
<1>12. WholeInv'
  <2>1. Whole(p) = sent[p] /\ Whole(Other(p)) = sent[Other(p)]
    BY DEF IInv, WholeInv
  <2> QED  BY <1>1, <1>11, <2>1, BothWhole
<1>13. DataInv'
  <2>1. delivered'["remote"] = <<>> => delivered["remote"] = <<>>
    BY <1>5, <1>7
  <2> QED  BY <1>1, <1>8, <2>1 DEF IInv, DataInv, Before, Relay
<1>14. GrantInv'
  <2>1. Asks' = Asks
    BY <1>1, SameAsks
  <2> QED  BY <1>1, <1>2, <1>8, <2>1 DEF IInv, GrantInv, CountInv, Relay
<1> QED  BY <1>9, <1>10, <1>12, <1>13, <1>14 DEF IInv

LEMMA CollectStep == ASSUME IInv, NEW p \in Peers, Collect(p)  PROVE IInv'
<1> DEFINE m == Append(msg[p], Head(inq[p]))
           t == Tail(inq[p])
<1>1. /\ pc \in Reads(p) /\ pc' = pc /\ job' = job /\ asks' = asks /\ inq[p] # <<>>
      /\ msg' = [msg EXCEPT ![p] = m] /\ inq' = [inq EXCEPT ![p] = t]
      /\ used' = used /\ misread' = misread /\ sent' = sent /\ delivered' = delivered
      /\ asked' = asked /\ owes' = owes /\ granted' = granted
  BY DEF Collect, At, proxy
<1>2. /\ msg[p] \in Seq(Int) /\ inq[p] \in Seq(Int) /\ delivered[Other(p)] \in Seq(Int)
      /\ used[p] \in Seq(Int) /\ used[p] \o delivered[Other(p)] \in Seq(Int)
  <2>1. used[p] \in Seq(Int) /\ delivered[Other(p)] \in Seq(Int)
    BY DEF IInv, ProxyType, Streams
  <2> QED  BY <2>1, ConcatProperties DEF IInv, ProxyType, Streams
<1>3. /\ m \in Seq(Int) /\ t \in Seq(Int)
      /\ ((used[p] \o delivered[Other(p)]) \o m) \o t
           = ((used[p] \o delivered[Other(p)]) \o msg[p]) \o inq[p]
      /\ m \o t = msg[p] \o inq[p]
  <2> DEFINE d == used[p] \o delivered[Other(p)]
             n == msg[p]
             q == inq[p]
  <2>1. d \in Seq(Int) /\ n \in Seq(Int) /\ q \in Seq(Int) /\ q # <<>>
    BY <1>1, <1>2
  <2> HIDE DEF d, n, q
  <2>2. Append(n, Head(q)) \in Seq(Int) /\ Tail(q) \in Seq(Int)
    BY <2>1, CollectTypes
  <2>3. (d \o Append(n, Head(q))) \o Tail(q) = (d \o n) \o q
    BY <2>1, CollectWhole
  <2>4. Append(n, Head(q)) \o Tail(q) = n \o q
    <3>1. <<>> \in Seq(Int)
      OBVIOUS
    <3>2. (<<>> \o Append(n, Head(q))) \o Tail(q) = (<<>> \o n) \o q
      BY <2>1, <3>1, CollectWhole
    <3> QED  BY <2>1, <2>2, <3>2, ConcatEmptySeq
  <2> QED  BY <2>2, <2>3, <2>4 DEF d, n, q
<1>4. m # <<>>
  <2>1. Len(m) = Len(msg[p]) + 1 /\ Len(msg[p]) \in Nat
    BY <1>2, CollectTypes, AppendProperties, LenProperties
  <2> QED  BY <1>3, <2>1, EmptySeq
<1> HIDE DEF m, t
<1>5. /\ msg' \in Streams /\ inq' \in Streams
      /\ msg'[p] = m /\ msg'[Other(p)] = msg[Other(p)]
      /\ inq'[p] = t /\ inq'[Other(p)] = inq[Other(p)]
  BY <1>1, <1>3 DEF IInv, ProxyType, Streams
<1>6. Whole(p)' = Whole(p) /\ Whole(Other(p))' = Whole(Other(p))
  BY <1>1, <1>3, <1>5 DEF Whole
<1>7. ProxyType'
  BY <1>1, <1>5 DEF IInv, ProxyType
<1>8. WholeInv'
  <2>1. Whole(p) = sent[p] /\ Whole(Other(p)) = sent[Other(p)]
    BY DEF IInv, WholeInv
  <2> QED  BY <1>1, <1>6, <2>1, BothWhole
<1>9. HeldInv'
  BY <1>1, <1>4, <1>5 DEF IInv, HeldInv, Reads
<1>10. DataInv'
  BY <1>1 DEF IInv, DataInv
<1>11. Coming' = Coming
  <2>1. msg'["remote"] \o inq'["remote"] = msg["remote"] \o inq["remote"]
    BY <1>3, <1>5
  <2> QED  BY <1>1, <2>1 DEF Coming
<1>12. GrantInv'
  BY <1>1, <1>11, SameGrant DEF IInv
<1> QED  BY <1>7, <1>8, <1>9, <1>10, <1>12 DEF IInv

\* A peer sends one more unit.
LEMMA DeliversStep ==
  ASSUME IInv, NEW p \in Peers, NEW u \in Int, Delivers(p, u),
         UNCHANGED <<job, pc, asks, msg, used, misread, delivered>>
  PROVE  /\ inq' \in Streams /\ sent' \in Streams /\ WholeInv'
         /\ inq'[p] = Append(inq[p], u) /\ inq'[Other(p)] = inq[Other(p)]
         /\ sent'[Other(p)] = sent[Other(p)]
         /\ u <= 0 /\ NoData(sent[p]) => NoData(sent'[p])
<1>1. /\ msg[p] \in Seq(Int) /\ inq[p] \in Seq(Int) /\ delivered[Other(p)] \in Seq(Int)
      /\ used[p] \in Seq(Int) /\ sent[p] \in Seq(Int) /\ inq \in Streams /\ sent \in Streams
  BY DEF IInv, ProxyType, Streams
<1> DEFINE w == (used[p] \o delivered[Other(p)]) \o msg[p]
<1>2. w \in Seq(Int)
  BY <1>1, ConcatProperties
<1>3. Whole(p) = w \o inq[p] /\ Whole(p) = sent[p] /\ Whole(Other(p)) = sent[Other(p)]
  BY DEF IInv, WholeInv, Whole
<1> HIDE DEF w
<1>4. w \o Append(inq[p], u) = Append(sent[p], u) /\ Append(inq[p], u) \in Seq(Int)
  <2> DEFINE q == inq[p]
  <2>1. q \in Seq(Int) /\ w \o q = sent[p]
    BY <1>1, <1>3
  <2> HIDE DEF q
  <2>2. w \o Append(q, u) = Append(w \o q, u) /\ Append(q, u) \in Seq(Int)
    BY <1>2, <2>1, AppendWhole
  <2> QED  BY <2>1, <2>2 DEF q
<1>5. Append(sent[p], u) \in Seq(Int)
  BY <1>1, AppendProperties
<1>6. /\ inq' \in Streams /\ inq'[p] = Append(inq[p], u) /\ inq'[Other(p)] = inq[Other(p)]
      /\ sent' \in Streams /\ sent'[p] = Append(sent[p], u)
      /\ sent'[Other(p)] = sent[Other(p)]
  BY <1>1, <1>4, <1>5 DEF Delivers, Streams
<1>7. Whole(p)' = sent'[p]
  BY <1>4, <1>6 DEF Whole, w
<1>8. Whole(Other(p))' = sent'[Other(p)]
  BY <1>3, <1>6 DEF Whole
<1>9. u <= 0 /\ NoData(sent[p]) => NoData(sent'[p])
  BY <1>1, <1>6, AppendProperties DEF NoData
<1> QED  BY <1>6, <1>7, <1>8, <1>9, BothWhole

LEMMA SpeaksStep == ASSUME IInv, NEW p \in Peers, Speaks(p)  PROVE IInv'
<1> DEFINE u == Produced(p) + 1
<1>1. /\ MaySpeak(p) /\ Delivers(p, u)
      /\ job' = job /\ pc' = pc /\ asks' = asks /\ msg' = msg /\ used' = used
      /\ misread' = misread /\ delivered' = delivered
      /\ asked' = asked /\ owes' = owes /\ granted' = granted
  BY DEF Speaks, child, proxy
<1>2. u \in Int
  <2>1. sent[p] \in Seq(Int)
    BY DEF IInv, ProxyType, Streams
  <2>2. sent[p] # <<>> => sent[p][Len(sent[p])] \in Int
    BY <2>1, EmptySeq, LenProperties, ElementOfSeq
  <2> QED  BY <2>2 DEF Produced
<1> HIDE DEF u
<1>3. /\ inq' \in Streams /\ sent' \in Streams /\ WholeInv'
      /\ inq'[Other(p)] = inq[Other(p)] /\ sent'[Other(p)] = sent[Other(p)]
  BY <1>1, <1>2, DeliversStep
<1>4. ProxyType' /\ HeldInv'
  BY <1>1, <1>3 DEF IInv, ProxyType, HeldInv
<1>5. CASE p = "client"
  <2>1. DataInv'
    BY <1>1, <1>3, <1>5 DEF IInv, DataInv, MaySpeak
  <2>2. GrantInv'
    <3>1. Coming' = Coming
      BY <1>1, <1>3, <1>5 DEF Coming
    <3> QED  BY <1>1, <3>1, SameGrant DEF IInv
  <2> QED  BY <1>3, <1>4, <2>1, <2>2 DEF IInv
<1>6. CASE p = "remote"
  <2>1. delivered["remote"] # <<>> /\ pc \in Relay
    BY <1>1, <1>6 DEF MaySpeak, IInv, ProxyType, DataInv
  <2>2. DataInv'
    BY <1>1, <1>3, <1>6, <2>1 DEF IInv, DataInv
  <2>3. GrantInv'
    <3>1. Asks' = Asks
      BY <1>1, SameAsks
    <3> QED  BY <1>1, <2>1, <3>1 DEF IInv, GrantInv, CountInv, Relay
  <2> QED  BY <1>3, <1>4, <2>2, <2>3 DEF IInv
<1> QED  BY <1>5, <1>6

LEMMA ClientConnectsStep == ASSUME IInv, ClientConnects  PROVE IInv'
<1>1. /\ Delivers("client", Connect) /\ sent["client"] = <<>>
      /\ job' = job /\ pc' = pc /\ asks' = asks /\ msg' = msg /\ used' = used
      /\ misread' = misread /\ delivered' = delivered
      /\ asked' = asked /\ owes' = owes /\ granted' = granted
  BY DEF ClientConnects, child, proxy
<1>2. Connect \in Int /\ Connect <= 0 /\ NoData(<<>>)
  BY DEF Connect, NoData
<1>3. /\ inq' \in Streams /\ sent' \in Streams /\ WholeInv' /\ NoData(sent'["client"])
      /\ inq'["remote"] = inq["remote"] /\ sent'["remote"] = sent["remote"]
  BY <1>1, <1>2, DeliversStep
<1>4. ProxyType' /\ HeldInv' /\ DataInv'
  BY <1>1, <1>3 DEF IInv, ProxyType, HeldInv, DataInv
<1>5. Coming' = Coming
  BY <1>1, <1>3 DEF Coming
<1>6. GrantInv'
  BY <1>1, <1>5, SameGrant DEF IInv
<1> QED  BY <1>3, <1>4, <1>6 DEF IInv

LEMMA AnswersStep == ASSUME IInv, Answers  PROVE IInv'
<1>1. PICK code \in {Yes, No} :
        /\ asked /\ asked' = FALSE /\ owes = <<>> /\ owes' \in Replies(code)
        /\ granted' = granted + IF code = Yes THEN 1 ELSE 0
        /\ job' = job /\ pc' = pc /\ asks' = asks /\ msg' = msg /\ used' = used
        /\ misread' = misread /\ inq' = inq /\ sent' = sent /\ delivered' = delivered
  BY DEF Answers, child
<1>2. /\ owes' \in Seq(Int) /\ NoData(owes') /\ OneYes(owes')
      /\ code = No => NoYes(owes')
  BY <1>1, RepliesRange
<1>3. Yes # No /\ granted \in Int
  BY DEF Yes, No, IInv, ProxyType
<1>4. ProxyType'
  <2>1. granted' \in Int
    BY <1>1, <1>3
  <2>2. asked' \in BOOLEAN
    BY <1>1
  <2> QED  BY <1>1, <1>2, <2>1, <2>2 DEF IInv, ProxyType
<1>5. HeldInv'
  BY <1>1 DEF IInv, HeldInv
<1>6. DataInv'
  BY <1>1, <1>2 DEF IInv, DataInv
<1>7. WholeInv'
  BY <1>1 DEF IInv, WholeInv, Whole
<1>8. GrantInv'
  <2>1. Asks' = Asks /\ Asks \in 0 .. 2 /\ asks \in 0 .. 2
    BY <1>1, SameAsks, AsksRange DEF IInv, ProxyType
  <2>2. ASSUME ~misread  PROVE CountInv'
    <3>1. pc = "answer" /\ granted = Asks - asks /\ NoYes(Coming)
      BY <1>1, <2>2 DEF IInv, ProxyType, GrantInv, CountInv, Before
    <3> DEFINE r == msg["remote"] \o inq["remote"]
    <3>2. r \in Seq(Int)
      BY ConcatProperties DEF IInv, ProxyType, Streams
    <3>3. Coming = r /\ Coming' = r \o owes'
      BY <1>1, <3>2, ConcatEmptySeq DEF Coming
    <3> HIDE DEF r
    <3>4. OneYes(Coming') /\ (code = No => NoYes(Coming'))
      BY <1>2, <3>1, <3>2, <3>3, OneMore, PartsOf
    <3>5. OneYes(Coming)' /\ (code = No => NoYes(Coming)')
      BY <3>4 DEF OneYes, NoYes
    <3>6. code = Yes => granted' = Asks - asks + 1
      BY <1>1, <1>3, <2>1, <3>1
    <3> QED  BY <1>1, <2>1, <3>1, <3>5, <3>6 DEF CountInv, Relay
  <2> QED  BY <1>1, <2>2 DEF IInv, GrantInv
<1> QED  BY <1>4, <1>5, <1>6, <1>7, <1>8 DEF IInv

LEMMA AnswerComesStep == ASSUME IInv, AnswerComes  PROVE IInv'
<1>1. /\ owes # <<>> /\ Delivers("remote", Head(owes)) /\ owes' = Tail(owes)
      /\ job' = job /\ pc' = pc /\ asks' = asks /\ msg' = msg /\ used' = used
      /\ misread' = misread /\ delivered' = delivered
      /\ asked' = asked /\ granted' = granted
  BY DEF AnswerComes, child
<1>2. owes \in Seq(Int) /\ inq["remote"] \in Seq(Int) /\ msg["remote"] \in Seq(Int)
  BY DEF IInv, ProxyType, Streams
<1>3. /\ Head(owes) \in Int /\ Tail(owes) \in Seq(Int) /\ owes = <<Head(owes)>> \o Tail(owes)
      /\ <<Head(owes)>> \in Seq(Int)
  BY <1>1, <1>2, CollectTypes, HeadTailProperties
<1>4. Head(owes) <= 0 /\ NoData(Tail(owes))
  <2>1. NoData(<<Head(owes)>>) /\ NoData(Tail(owes))
    BY <1>3, PartsOf DEF IInv, DataInv
  <2>2. Len(<<Head(owes)>>) = 1 /\ <<Head(owes)>>[1] = Head(owes)
    OBVIOUS
  <2>3. <<Head(owes)>>[1] <= 0
    BY <2>1, <2>2 DEF NoData
  <2> QED  BY <2>1, <2>2, <2>3
<1>5. /\ inq' \in Streams /\ sent' \in Streams /\ WholeInv'
      /\ inq'["remote"] = Append(inq["remote"], Head(owes))
      /\ inq'["client"] = inq["client"] /\ sent'["client"] = sent["client"]
      /\ NoData(sent["remote"]) => NoData(sent'["remote"])
  BY <1>1, <1>3, <1>4, DeliversStep
<1>6. ProxyType' /\ HeldInv'
  BY <1>1, <1>3, <1>5 DEF IInv, ProxyType, HeldInv
<1>7. DataInv'
  BY <1>1, <1>4, <1>5 DEF IInv, DataInv
<1>8. Coming' = Coming
  <2>1. (msg["remote"] \o Append(inq["remote"], Head(owes))) \o Tail(owes)
          = (msg["remote"] \o inq["remote"]) \o owes
    BY <1>1, <1>2, CollectWhole
  <2> QED  BY <1>1, <1>5, <2>1 DEF Coming
<1>9. GrantInv'
  BY <1>1, <1>8, SameGrant DEF IInv
<1> QED  BY <1>5, <1>6, <1>7, <1>9 DEF IInv

-----------------------------------------------------------------------------
LEMMA IInvInit == Init => IInv
<1> SUFFICES ASSUME Init  PROVE IInv
  OBVIOUS
<1>1. /\ msg = Empty /\ used = Empty /\ inq = Empty /\ delivered = Empty /\ sent = Empty
      /\ job \in [connect : BOOLEAN, route : Routes] /\ pc = "first" /\ asks = 0
      /\ misread = FALSE /\ asked = FALSE /\ owes = <<>> /\ granted = 0
  BY DEF Init
<1>2. /\ Empty \in Streams /\ Empty["client"] = <<>> /\ Empty["remote"] = <<>>
      /\ <<>> \in Seq(Int)
  BY DEF Empty, Streams
<1>3. <<>> \o <<>> = <<>>
  OBVIOUS
<1>4. NoData(<<>>) /\ NoYes(<<>>)
  BY DEF NoData, NoYes
<1>5. ProxyType
  <2>1. asked \in BOOLEAN /\ misread \in BOOLEAN
    BY <1>1, Zenon
  <2> QED  BY <1>1, <1>2, <2>1 DEF ProxyType, Before
<1>6. WholeInv
  BY <1>1, <1>2, <1>3 DEF WholeInv, Whole
<1>7. DataInv /\ HeldInv
  BY <1>1, <1>2, <1>4 DEF DataInv, HeldInv
<1>8. Coming = <<>>
  BY <1>1, <1>2, <1>3 DEF Coming
<1>9. GrantInv
  BY <1>1, <1>4, <1>8 DEF GrantInv, CountInv, Relay
<1> QED  BY <1>5, <1>6, <1>7, <1>9 DEF IInv

LEMMA IInvNext == IInv /\ [Next]_vars => IInv'
<1> SUFFICES ASSUME IInv, [Next]_vars  PROVE IInv'
  OBVIOUS
<1>1. CASE UNCHANGED vars
  BY <1>1, SameIInv DEF vars, child, peers, proxy, streams
<1>2. CASE Parent
  BY <1>2, SameIInv
  DEF Parent, Accept, Fork, PushBack, KillChildren, Shutdown, child, peers, proxy, streams
<1>3. CASE Child
  <2>1. ASSUME NEW p \in Peers, Eof(p) \/ SendFails(p)  PROVE IInv'
    <3>1. End /\ job' = job
      BY <2>1 DEF Eof, SendFails, At
    <3> QED  BY <3>1, EndSame, SameIInv
  <2> QED
    BY <1>3, <2>1, FirstRequestStep, MovingStep, AnswerStep, CollectStep, SendsStep DEF Child
<1>4. CASE World
  <2>1. ASSUME NEW p \in Peers, Pauses(p) \/ Ends(p)  PROVE IInv'
    BY <2>1, SameIInv DEF Pauses, Ends, child, proxy, streams
  <2> QED  BY <1>4, <2>1, ClientConnectsStep, AnswersStep, AnswerComesStep, SpeaksStep DEF World
<1> QED  BY <1>1, <1>2, <1>3, <1>4 DEF Next

(***************************************************************************)
(* Nothing is lost, repeated or moved in either stream while the child     *)
(* relays, in whatever pieces it reads and sends, and however it ends; and *)
(* nothing of a stream is taken for a CONNECT or a proxy's answer.         *)
(***************************************************************************)
THEOREM StreamsKeptCorrect == Spec => []StreamsKept
<1>1. IInv => StreamsKept
  BY DEF IInv, WholeInv, DataInv, NoData, StreamsKept
<1> QED  BY <1>1, IInvInit, IInvNext, PTL DEF Spec

(***************************************************************************)
(* Nothing of the client's reaches the remote side before every proxy on   *)
(* the way has granted the connection, unless what holds no grant was      *)
(* taken for one: silence never is, nor is a grant taken for two.          *)
(***************************************************************************)
THEOREM GrantedUnlessMisreadCorrect == Spec => []GrantedUnlessMisread
<1>1. IInv => GrantedUnlessMisread
  BY DEF IInv, ProxyType, DataInv, GrantInv, CountInv, GrantedUnlessMisread
<1> QED  BY <1>1, IInvInit, IInvNext, PTL DEF Spec
=============================================================================
