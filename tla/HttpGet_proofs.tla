--------------------------- MODULE HttpGet_proofs ---------------------------
(***************************************************************************)
(* Proofs about HttpGet for any number of requests, urls and permits: the  *)
(* permits are counted, the semaphore implements Permits, and a page that  *)
(* has been fetched is asked for by nobody but those who asked before.     *)
(*                                                                         *)
(* The count alone is not inductive.  A release completes the future of    *)
(* the first waiter, so it must be known that this one does not hold a     *)
(* permit yet; LineInv says so: those in the queue wait, each stands there *)
(* once, and only those who wait can have a completed future.              *)
(***************************************************************************)
EXTENDS HttpGet, FiniteSetTheorems, SequenceTheorems, TLAPS

LineInv ==
  /\ sem.completed \subseteq Waiting
  /\ \A i \in 1 .. Len(sem.waitQueue) :
       sem.waitQueue[i] \in Waiting /\ sem.waitQueue[i] \notin sem.completed
  /\ \A i, j \in 1 .. Len(sem.waitQueue) :
       sem.waitQueue[i] = sem.waitQueue[j] => i = j

\* Who is not idle asks for a url.
UrlInv == \A r \in Requests : req[r].at # "idle" => req[r].url # NoUrl

IInv == TypeOK /\ PermitsCounted /\ LineInv /\ UrlInv

Semaphores == [currentCount : Nat, waitQueue : Seq(Requests),
               completed : SUBSET Requests]

-----------------------------------------------------------------------------
\* What the methods of the semaphore do to its fields.

LEMMA AcquireEffect ==
  ASSUME NEW s \in Semaphores, NEW c \in Requests
  PROVE  LET t == acquire(s, c)
         IN  /\ t \in Semaphores
             /\ s.currentCount + 1 <= maxCount =>
                  /\ t.currentCount = s.currentCount + 1
                  /\ t.waitQueue = s.waitQueue
                  /\ t.completed = s.completed \cup {c}
             /\ ~(s.currentCount + 1 <= maxCount) =>
                  /\ t.currentCount = s.currentCount
                  /\ t.waitQueue = Append(s.waitQueue, c)
                  /\ t.completed = s.completed
<1>1. /\ s.currentCount + 1 \in Nat /\ s.completed \cup {c} \in SUBSET Requests
      /\ Append(s.waitQueue, c) \in Seq(Requests)
  BY AppendProperties DEF Semaphores
<1> DEFINE n == s.currentCount + 1
           d == s.completed \cup {c}
           q == Append(s.waitQueue, c)
<1> HIDE DEF n, d, q
<1>2. CASE s.currentCount + 1 <= maxCount
  <2>1. acquire(s, c) = [s EXCEPT !.currentCount = n, !.completed = d]
    BY <1>2, Zenon DEF acquire, n, d
  <2>2. n \in Nat /\ d \in SUBSET Requests  BY <1>1 DEF n, d
  <2>3. /\ acquire(s, c) \in Semaphores /\ acquire(s, c).currentCount = n
        /\ acquire(s, c).waitQueue = s.waitQueue /\ acquire(s, c).completed = d
    BY <2>1, <2>2, Zenon DEF Semaphores
  <2> QED  BY <1>2, <2>3 DEF n, d
<1>3. CASE ~(s.currentCount + 1 <= maxCount)
  <2>1. acquire(s, c) = [s EXCEPT !.waitQueue = q]
    BY <1>3, Zenon DEF acquire, q
  <2>2. q \in Seq(Requests)  BY <1>1 DEF q
  <2>3. /\ acquire(s, c) \in Semaphores /\ acquire(s, c).currentCount = s.currentCount
        /\ acquire(s, c).waitQueue = q /\ acquire(s, c).completed = s.completed
    BY <2>1, <2>2, Zenon DEF Semaphores
  <2> QED  BY <1>3, <2>3 DEF q
<1> QED  BY <1>2, <1>3

LEMMA ReleaseEffect ==
  ASSUME NEW s \in Semaphores, s.currentCount > 0
  PROVE  LET t == release(s)
         IN  /\ t \in Semaphores
             /\ s.waitQueue = <<>> =>
                  /\ t.currentCount = s.currentCount - 1
                  /\ t.waitQueue = s.waitQueue
                  /\ t.completed = s.completed
             /\ s.waitQueue # <<>> =>
                  /\ t.currentCount = s.currentCount
                  /\ t.waitQueue = Tail(s.waitQueue)
                  /\ t.completed = s.completed \cup {Head(s.waitQueue)}
<1>1. CASE s.waitQueue = <<>>
  BY <1>1, SMT DEF Semaphores, release
<1>2. CASE s.waitQueue # <<>>
  <2>1. /\ s.waitQueue \in Seq(Requests) /\ s.completed \in SUBSET Requests
        /\ s.currentCount \in Nat
    BY DEF Semaphores
  <2>2. Head(s.waitQueue) \in Requests /\ Tail(s.waitQueue) \in Seq(Requests)
    BY <1>2, <2>1, HeadTailProperties
  <2> DEFINE h == Head(s.waitQueue)
             q == Tail(s.waitQueue)
  <2>3. release(s) = [s EXCEPT !.waitQueue = q, !.completed = s.completed \cup {h}]
    BY <1>2, Zenon DEF release
  <2>4. h \in Requests /\ q \in Seq(Requests)  BY <2>2
  <2> HIDE DEF h, q
  <2>5. s.completed \cup {h} \in SUBSET Requests  BY <2>1, <2>4
  <2> DEFINE d == s.completed \cup {h}
  <2> HIDE DEF d
  <2>6. release(s) = [s EXCEPT !.waitQueue = q, !.completed = d]
        /\ d \in SUBSET Requests
    BY <2>3, <2>5 DEF d
  <2>7. /\ release(s) \in Semaphores /\ release(s).currentCount = s.currentCount
        /\ release(s).waitQueue = q /\ release(s).completed = d
    BY <2>4, <2>6, Zenon DEF Semaphores
  <2> QED  BY <1>2, <2>7 DEF h, q, d
<1> QED  BY <1>1, <1>2

LEMMA ResumeEffect ==
  ASSUME NEW s \in Semaphores, NEW c
  PROVE  /\ resume(s, c) \in Semaphores
         /\ resume(s, c).currentCount = s.currentCount
         /\ resume(s, c).waitQueue = s.waitQueue
         /\ resume(s, c).completed = s.completed \ {c}
BY SMT DEF Semaphores, resume

\* A queue without its head has the other elements, each once.
LEMMA TailLine ==
  ASSUME NEW q \in Seq(Requests), q # <<>>,
         \A i, j \in 1 .. Len(q) : q[i] = q[j] => i = j
  PROVE  /\ \A i \in 1 .. Len(Tail(q)) :
              i + 1 \in 1 .. Len(q) /\ Tail(q)[i] = q[i + 1] /\ Tail(q)[i] # Head(q)
         /\ \A i, j \in 1 .. Len(Tail(q)) : Tail(q)[i] = Tail(q)[j] => i = j
<1>1. /\ Len(q) \in Nat \ {0} /\ Len(Tail(q)) = Len(q) - 1
      /\ \A i \in 1 .. Len(Tail(q)) : Tail(q)[i] = q[i + 1]
      /\ Head(q) = q[1]
  BY HeadTailProperties, EmptySeq
<1> QED  BY <1>1, SMT

\* Holders is finite, and one more or less changes its number by one.
LEMMA HolderCount ==
  ASSUME NEW S \in SUBSET Requests, NEW x
  PROVE  /\ Cardinality(S) \in Nat
         /\ x \notin S => Cardinality(S \cup {x}) = Cardinality(S) + 1
         /\ x \in S => Cardinality(S \ {x}) = Cardinality(S) - 1
<1>1. IsFiniteSet(S)  BY FS_Subset, RequestsAssumption
<1> QED  BY <1>1, FS_CardinalityType, FS_AddElement, FS_RemoveElement

\* The cardinality of the module Permits is the one of this module.
LEMMA SameCardinality == ASSUME NEW S PROVE Throttle!Cardinality(S) = Cardinality(S)
BY Zenon DEF Throttle!Cardinality, Cardinality

-----------------------------------------------------------------------------
\* How a change of one request changes who waits and who fetches.

Places == {"idle", "waiting", "fetching"}

LEMMA RequestEffect ==
  ASSUME IInv, NEW r \in Requests, NEW q,
         q \in [at : Places, url : Urls \cup {NoUrl}, retry : 0 .. 4],
         q.at # "idle" => q.url # NoUrl, req' = [req EXCEPT ![r] = q]
  PROVE  /\ req' \in [Requests -> [at : Places, url : Urls \cup {NoUrl}, retry : 0 .. 4]]
         /\ Waiting' = IF q.at = "waiting" THEN Waiting \cup {r} ELSE Waiting \ {r}
         /\ Fetching' = IF q.at = "fetching" THEN Fetching \cup {r} ELSE Fetching \ {r}
         /\ UrlInv'
<1>1. req' \in [Requests -> [at : Places, url : Urls \cup {NoUrl}, retry : 0 .. 4]]
  BY Zenon DEF IInv, TypeOK, Places
<1>2. \A x \in Requests : req'[x] = IF x = r THEN q ELSE req[x]
  BY Zenon DEF IInv, TypeOK
<1>3. UrlInv'  BY <1>2, Zenon DEF IInv, UrlInv
<1> QED  BY <1>1, <1>2, <1>3, Zenon DEF Waiting, Fetching

\* A request that asks for a permit.
LEMMA AskStep ==
  ASSUME IInv, NEW r \in Requests, NEW u \in Urls, Call(r, u)
  PROVE  IInv' /\ Throttle!Ask(r)
<1> DEFINE n == sem.currentCount
           w == sem.waitQueue
           d == sem.completed
           q == [at |-> "waiting", url |-> u, retry |-> 0]
<1>1. /\ sem \in Semaphores /\ n \in Nat /\ w \in Seq(Requests) /\ d \subseteq Requests
      /\ leaked \in Nat /\ cacheResponse \subseteq Urls
  BY DEF IInv, TypeOK, Semaphores
<1>2. /\ req[r].at = "idle" /\ sem' = acquire(sem, r)
      /\ req' = [req EXCEPT ![r] = q]
      /\ cacheResponse' = cacheResponse /\ leaked' = leaked
  BY Zenon DEF Call
<1>3. q \in [at : Places, url : Urls \cup {NoUrl}, retry : 0 .. 4] /\ q.at = "waiting"
      /\ q.url # NoUrl
  BY RequestsAssumption, SMT DEF Places
<1> HIDE DEF q
<1>4. /\ req' \in [Requests -> [at : Places, url : Urls \cup {NoUrl}, retry : 0 .. 4]]
      /\ Waiting' = Waiting \cup {r} /\ Fetching' = Fetching \ {r} /\ UrlInv'
  BY <1>2, <1>3, RequestEffect
<1>5. r \notin Waiting /\ r \notin Fetching /\ r \notin d /\ r \notin Holders
  BY <1>2, Zenon DEF Waiting, Fetching, Holders, IInv, LineInv
<1>6. /\ Fetching' = Fetching /\ Holders \in SUBSET Requests
      /\ \A i \in 1 .. Len(w) : w[i] # r
  BY <1>1, <1>4, <1>5, Zenon DEF Holders, Fetching, IInv, LineInv
<1>7. n = Cardinality(Holders) + leaked /\ n <= maxCount /\ (w # <<>> => n = maxCount)
  BY DEF IInv, PermitsCounted
<1>c. Cardinality(Holders) \in Nat /\ Cardinality(Holders \cup {r}) = Cardinality(Holders) + 1
  BY <1>5, <1>6, HolderCount
<1>8. CASE n + 1 <= maxCount
  <2>1. /\ sem' \in Semaphores /\ sem.currentCount' = n + 1
        /\ sem.waitQueue' = w /\ sem.completed' = d \cup {r}
    BY <1>1, <1>2, <1>8, AcquireEffect
  <2>2. Holders' = Holders \cup {r}  BY <1>6, <2>1, Zenon DEF Holders
  <2>3. w = <<>>  BY <1>1, <1>7, <1>8, MaxCountAssumption, SMT
  <2>4. LineInv'
    <3>1. (d \cup {r}) \subseteq Waiting'  BY <1>4 DEF IInv, LineInv
    <3>2. Len(w) = 0  BY <2>3, SMT
    <3> QED  BY <2>1, <3>1, <3>2, SMT DEF LineInv
  <2>5. PermitsCounted'
    BY <1>1, <1>2, <1>7, <1>8, <1>c, <2>1, <2>2, <2>3, SMT DEF PermitsCounted
  <2>6. Throttle!Ask(r)
    <3>1. Cardinality(Holders) + leaked < maxCount
      BY <1>1, <1>7, <1>8, <1>c, MaxCountAssumption, SMT
    <3> QED  BY <1>2, <1>5, <1>6, <2>1, <2>2, <3>1, SameCardinality, Zenon DEF Throttle!Ask
  <2>7. TypeOK'  BY <1>1, <1>2, <1>4, <2>1, Zenon DEF TypeOK, Semaphores, Places
  <2> QED  BY <1>4, <2>4, <2>5, <2>6, <2>7 DEF IInv
<1>9. CASE ~(n + 1 <= maxCount)
  <2>1. /\ sem' \in Semaphores /\ sem.currentCount' = n
        /\ sem.waitQueue' = Append(w, r) /\ sem.completed' = d
    BY <1>1, <1>2, <1>9, AcquireEffect
  <2>2. Holders' = Holders  BY <1>6, <2>1, Zenon DEF Holders
  <2>3. /\ Len(Append(w, r)) = Len(w) + 1 /\ Append(w, r)[Len(w) + 1] = r
        /\ \A i \in 1 .. Len(w) : Append(w, r)[i] = w[i]
        /\ Len(w) \in Nat /\ Append(w, r) # <<>>
    BY <1>1, AppendProperties, LenProperties
  <2>4. LineInv'
    <3> DEFINE v == Append(w, r)
    <3>1. /\ d \subseteq Waiting
          /\ \A i \in 1 .. Len(w) : w[i] \in Waiting /\ w[i] \notin d
          /\ \A i, j \in 1 .. Len(w) : w[i] = w[j] => i = j
      BY DEF IInv, LineInv
    <3>2. /\ Len(v) = Len(w) + 1 /\ v[Len(w) + 1] = r
          /\ \A i \in 1 .. Len(w) : v[i] = w[i]
      BY <2>3
    <3> HIDE DEF v
    <3>3. \A i \in 1 .. Len(v) : v[i] \in Waiting' /\ v[i] \notin d
      BY <1>4, <1>5, <2>3, <3>1, <3>2, SMT
    <3>4. \A i, j \in 1 .. Len(v) : v[i] = v[j] => i = j
      BY <1>6, <2>3, <3>1, <3>2, SMT
    <3>5. d \subseteq Waiting'  BY <1>4, <3>1
    <3> QED  BY <2>1, <3>3, <3>4, <3>5 DEF LineInv, v
  <2>5. PermitsCounted'
    BY <1>1, <1>2, <1>7, <1>9, <2>1, <2>2, MaxCountAssumption, SMT DEF PermitsCounted
  <2>6. Throttle!Ask(r)
    <3>1. ~(Cardinality(Holders) + leaked < maxCount)
      BY <1>1, <1>7, <1>9, <1>c, MaxCountAssumption, SMT
    <3> QED  BY <1>2, <1>5, <1>6, <2>1, <2>2, <3>1, SameCardinality, Zenon DEF Throttle!Ask
  <2>7. TypeOK'  BY <1>1, <1>2, <1>4, <2>1, Zenon DEF TypeOK, Semaphores, Places
  <2> QED  BY <1>4, <2>4, <2>5, <2>6, <2>7 DEF IInv
<1> QED  BY <1>8, <1>9

\* A holder that gives its permit back, having run on from its await (s).
LEMMA GiveBackStep ==
  ASSUME IInv, NEW r \in Requests, r \in Holders, NEW s \in Semaphores,
         s.currentCount = sem.currentCount, s.waitQueue = sem.waitQueue,
         s.completed = sem.completed \ {r}, sem' = release(s),
         req' = [req EXCEPT ![r] = Idle], leaked' = leaked, cacheResponse' \subseteq Urls
  PROVE  IInv' /\ Throttle!GiveBack(r)
<1> DEFINE n == sem.currentCount
           w == sem.waitQueue
           d == sem.completed
<1>1. /\ sem \in Semaphores /\ n \in Nat /\ w \in Seq(Requests) /\ d \subseteq Requests
      /\ leaked \in Nat
  BY DEF IInv, TypeOK, Semaphores
<1>2. Idle \in [at : Places, url : Urls \cup {NoUrl}, retry : 0 .. 4] /\ Idle.at = "idle"
  BY SMT DEF Places, Idle
<1>3. /\ req' \in [Requests -> [at : Places, url : Urls \cup {NoUrl}, retry : 0 .. 4]]
      /\ Waiting' = Waiting \ {r} /\ Fetching' = Fetching \ {r} /\ UrlInv'
  BY <1>2, RequestEffect
<1>4. n = Cardinality(Holders) + leaked /\ n <= maxCount /\ (w # <<>> => n = maxCount)
  BY DEF IInv, PermitsCounted
<1>5. Holders \in SUBSET Requests  BY <1>1 DEF Holders, Fetching
<1>6. /\ Cardinality(Holders) \in Nat /\ Cardinality(Holders \ {r}) \in Nat
      /\ Cardinality(Holders \ {r}) = Cardinality(Holders) - 1
  BY <1>5, HolderCount
<1>7. n > 0  BY <1>1, <1>4, <1>6, SMT
<1>8. /\ d \subseteq Waiting
      /\ \A i \in 1 .. Len(w) : w[i] \in Waiting /\ w[i] \notin d
      /\ \A i, j \in 1 .. Len(w) : w[i] = w[j] => i = j
  BY DEF IInv, LineInv
<1>9. \A i \in 1 .. Len(w) : w[i] \notin Holders /\ w[i] # r
  BY <1>8, Zenon DEF Holders, Waiting, Fetching
<1>10. CASE w = <<>>
  <2>1. /\ sem' \in Semaphores /\ sem.currentCount' = n - 1
        /\ sem.waitQueue' = w /\ sem.completed' = d \ {r}
    BY <1>7, <1>10, ReleaseEffect
  <2>2. Holders' = Holders \ {r}  BY <1>3, <2>1, Zenon DEF Holders
  <2>3. LineInv'
    <3>1. (d \ {r}) \subseteq Waiting'  BY <1>3, <1>8
    <3>2. Len(w) = 0  BY <1>10, SMT
    <3> QED  BY <2>1, <3>1, <3>2, SMT DEF LineInv
  <2>4. PermitsCounted'
    BY <1>1, <1>4, <1>6, <1>10, <2>1, <2>2, MaxCountAssumption, SMT DEF PermitsCounted
  <2>5. Throttle!GiveBack(r)  BY <1>10, <2>1, <2>2, Zenon DEF Throttle!GiveBack
  <2>6. TypeOK'  BY <1>1, <1>3, <2>1, Zenon DEF TypeOK, Semaphores, Places
  <2> QED  BY <1>3, <2>3, <2>4, <2>5, <2>6 DEF IInv
<1>11. CASE w # <<>>
  <2> DEFINE h == Head(w)
             v == Tail(w)
  <2>1. /\ sem' \in Semaphores /\ sem.currentCount' = n
        /\ sem.waitQueue' = v /\ sem.completed' = (d \ {r}) \cup {h}
    BY <1>7, <1>11, ReleaseEffect
  <2>2. h = w[1] /\ 1 \in 1 .. Len(w) /\ h \in Requests
    BY <1>1, <1>11, HeadTailProperties, EmptySeq, SMT
  <2>3. h \in Waiting /\ h \notin d /\ h \notin Holders /\ h # r
    BY <1>8, <1>9, <2>2, Zenon
  <2>4. /\ \A i \in 1 .. Len(v) : i + 1 \in 1 .. Len(w) /\ v[i] = w[i + 1] /\ v[i] # h
        /\ \A i, j \in 1 .. Len(v) : v[i] = v[j] => i = j
    BY <1>1, <1>8, <1>11, TailLine
  <2> HIDE DEF h, v
  <2>5. Holders' = (Holders \ {r}) \cup {h}
    BY <1>3, <2>1, Zenon DEF Holders
  <2>6. Cardinality(Holders') = Cardinality(Holders)
    <3>1. (Holders \ {r}) \in SUBSET Requests /\ h \notin (Holders \ {r})
      BY <1>5, <2>3
    <3>2. Cardinality((Holders \ {r}) \cup {h}) = Cardinality(Holders \ {r}) + 1
      BY <3>1, HolderCount
    <3> QED  BY <1>6, <2>5, <3>2, SMT
  <2>7. LineInv'
    <3>1. ((d \ {r}) \cup {h}) \subseteq Waiting'  BY <1>3, <1>8, <2>3
    <3>2. \A i \in 1 .. Len(v) : v[i] \in Waiting' /\ v[i] \notin ((d \ {r}) \cup {h})
      <4> SUFFICES ASSUME NEW i \in 1 .. Len(v)
                   PROVE  v[i] \in Waiting' /\ v[i] \notin ((d \ {r}) \cup {h})
        OBVIOUS
      <4>1. i + 1 \in 1 .. Len(w) /\ v[i] = w[i + 1] /\ v[i] # h  BY <2>4
      <4>2. w[i + 1] \in Waiting /\ w[i + 1] \notin d /\ w[i + 1] # r
        BY <1>8, <1>9, <4>1
      <4> QED  BY <1>3, <4>1, <4>2
    <3> QED  BY <2>1, <2>4, <3>1, <3>2 DEF LineInv
  <2>8. PermitsCounted'
    BY <1>1, <1>4, <1>6, <1>11, <2>1, <2>6, SMT DEF PermitsCounted
  <2>9. Throttle!GiveBack(r)
    BY <1>11, <2>1, <2>5, Zenon DEF Throttle!GiveBack, h, v
  <2>10. TypeOK'  BY <1>1, <1>3, <2>1, Zenon DEF TypeOK, Semaphores, Places
  <2> QED  BY <1>3, <2>7, <2>8, <2>9, <2>10 DEF IInv
<1> QED  BY <1>10, <1>11

\* What the permits and the line look like is unchanged.
KeepsPermits == UNCHANGED <<Holders, sem.waitQueue, leaked>>

\* A request that runs on from its await and sends, or sends again.
LEMMA KeepStep ==
  ASSUME IInv, NEW r \in Requests, r \in Holders, NEW q,
         q \in [at : Places, url : Urls \cup {NoUrl}, retry : 0 .. 4],
         q.at = "fetching", q.url # NoUrl, req' = [req EXCEPT ![r] = q], sem' = resume(sem, r),
         leaked' = leaked, cacheResponse' = cacheResponse
  PROVE  IInv' /\ KeepsPermits
<1>1. sem \in Semaphores /\ sem.completed \subseteq Requests
  BY DEF IInv, TypeOK, Semaphores
<1>2. /\ req' \in [Requests -> [at : Places, url : Urls \cup {NoUrl}, retry : 0 .. 4]]
      /\ Waiting' = Waiting \ {r} /\ Fetching' = Fetching \cup {r} /\ UrlInv'
  BY RequestEffect
<1>3. /\ sem' \in Semaphores /\ sem.currentCount' = sem.currentCount
      /\ sem.waitQueue' = sem.waitQueue /\ sem.completed' = sem.completed \ {r}
  BY <1>1, ResumeEffect
<1>4. Holders' = Holders  BY <1>2, <1>3, Zenon DEF Holders
<1>5. KeepsPermits  BY <1>3, <1>4, Zenon DEF KeepsPermits
<1>6. PermitsCounted'  BY <1>3, <1>4, Zenon DEF IInv, PermitsCounted
<1>7. \A i \in 1 .. Len(sem.waitQueue) : sem.waitQueue[i] # r
  BY Zenon DEF IInv, LineInv, Holders, Waiting, Fetching
<1>8. LineInv'  BY <1>2, <1>3, <1>7 DEF IInv, LineInv
<1>9. TypeOK'  BY <1>2, <1>3, Zenon DEF IInv, TypeOK, Semaphores, Places
<1> QED  BY <1>2, <1>5, <1>6, <1>8, <1>9 DEF IInv

\* A request whose http.get throws.
LEMMA LoseStep ==
  ASSUME IInv, NEW r \in Requests, Exception(r)
  PROVE  IInv' /\ Throttle!Lose(r)
<1>1. /\ sem \in Semaphores /\ sem.currentCount \in Nat /\ leaked \in Nat
  BY DEF IInv, TypeOK, Semaphores
<1>2. Idle \in [at : Places, url : Urls \cup {NoUrl}, retry : 0 .. 4] /\ Idle.at = "idle"
  BY SMT DEF Places, Idle
<1>3. /\ req[r].at = "fetching" /\ req' = [req EXCEPT ![r] = Idle]
      /\ sem' = sem /\ cacheResponse' = cacheResponse /\ leaked' = leaked + 1
  BY Zenon DEF Exception
<1>4. /\ req' \in [Requests -> [at : Places, url : Urls \cup {NoUrl}, retry : 0 .. 4]]
      /\ Waiting' = Waiting \ {r} /\ Fetching' = Fetching \ {r} /\ UrlInv'
  BY <1>2, <1>3, RequestEffect
<1>5. r \notin Waiting /\ r \notin sem.completed /\ r \in Holders
  BY <1>3, Zenon DEF IInv, LineInv, Waiting, Fetching, Holders
<1>6. Holders' = Holders \ {r}  BY <1>3, <1>4, <1>5, Zenon DEF Holders
<1>7. /\ Cardinality(Holders) \in Nat /\ Cardinality(Holders') \in Nat
      /\ Cardinality(Holders') = Cardinality(Holders) - 1
  <2>1. Holders \in SUBSET Requests
    BY DEF Holders, Fetching, IInv, TypeOK
  <2>2. Cardinality(Holders) \in Nat /\ Cardinality(Holders \ {r}) \in Nat
    BY <2>1, HolderCount
  <2> QED  BY <1>5, <1>6, <2>1, <2>2, HolderCount
<1>8. PermitsCounted'
  <2>1. PermitsCounted  BY DEF IInv
  <2> QED  BY <1>1, <1>3, <1>7, <2>1, SMT DEF PermitsCounted
<1>9. LineInv'
  <2>1. Waiting' = Waiting  BY <1>4, <1>5
  <2> QED  BY <1>3, <2>1, Zenon DEF IInv, LineInv
<1>10. TypeOK'
  <2>1. leaked' \in Nat  BY <1>1, <1>3, SMT
  <2> QED  BY <1>1, <1>3, <1>4, <2>1, Zenon DEF IInv, TypeOK, Semaphores, Places
<1>11. Throttle!Lose(r)  BY <1>3, <1>5, <1>6, Zenon DEF Throttle!Lose
<1> QED  BY <1>4, <1>8, <1>9, <1>10, <1>11 DEF IInv

-----------------------------------------------------------------------------
\* Every step keeps IInv and is a step of Permits or none.
LEMMA PermitStep ==
  ASSUME IInv, [Next]_vars
  PROVE  IInv' /\ (Throttle!Next \/ KeepsPermits)
<1>0. /\ sem \in Semaphores /\ cacheResponse \subseteq Urls
      /\ req \in [Requests -> [at : Places, url : Urls \cup {NoUrl}, retry : 0 .. 4]]
  BY DEF IInv, TypeOK, Semaphores, Places
<1>1. ASSUME NEW r \in Requests, NEW u \in Urls, Call(r, u)
      PROVE  IInv' /\ Throttle!Next
  BY <1>1, AskStep, Zenon DEF Throttle!Next
<1>2. ASSUME NEW r \in Requests, Resume(r)
      PROVE  IInv' /\ (Throttle!Next \/ KeepsPermits)
  <2>1. r \in Holders /\ Granted(r) /\ UNCHANGED <<cacheResponse, leaked>>
    BY <1>2, Zenon DEF Resume, Holders
  <2> DEFINE s == resume(sem, r)
  <2>2. /\ s \in Semaphores /\ s.currentCount = sem.currentCount
        /\ s.waitQueue = sem.waitQueue /\ s.completed = sem.completed \ {r}
    BY <1>0, ResumeEffect
  <2> HIDE DEF s
  <2>3. CASE req[r].url \in cacheResponse
    <3>1. sem' = release(s) /\ req' = [req EXCEPT ![r] = Idle]
      BY <2>1, <2>3, Zenon DEF Granted, s
    <3>2. leaked' = leaked /\ cacheResponse' \subseteq Urls  BY <1>0, <2>1
    <3> QED  BY <2>1, <2>2, <3>1, <3>2, GiveBackStep, Zenon DEF Throttle!Next
  <2>4. CASE req[r].url \notin cacheResponse
    <3> DEFINE q == [req[r] EXCEPT !.at = "fetching"]
    <3>1. /\ q \in [at : Places, url : Urls \cup {NoUrl}, retry : 0 .. 4]
          /\ q.at = "fetching" /\ q.url # NoUrl
      <4>1. req[r] \in [at : Places, url : Urls \cup {NoUrl}, retry : 0 .. 4]  BY <1>0
      <4>2. req[r].at # "idle"
        BY <2>1, Zenon DEF IInv, LineInv, Holders, Waiting, Fetching
      <4>3. req[r].url # NoUrl  BY <4>2, Zenon DEF IInv, UrlInv
      <4> QED  BY <4>1, <4>3, SMT DEF Places
    <3>2. req' = [req EXCEPT ![r] = q] /\ sem' = resume(sem, r)
      BY <2>1, <2>4, Zenon DEF Granted
    <3> HIDE DEF q
    <3> QED  BY <2>1, <3>1, <3>2, KeepStep
  <2> QED  BY <2>3, <2>4
<1>3. ASSUME NEW r \in Requests, Timeout(r)
      PROVE  IInv' /\ KeepsPermits
  <2> DEFINE q == [req[r] EXCEPT !.retry = @ + 1]
  <2>1. /\ req[r].at = "fetching" /\ req[r].retry <= 3
        /\ req' = [req EXCEPT ![r] = q] /\ UNCHANGED <<sem, cacheResponse, leaked>>
    BY <1>3, Zenon DEF Timeout
  <2>2. /\ q \in [at : Places, url : Urls \cup {NoUrl}, retry : 0 .. 4]
        /\ q.at = "fetching" /\ q.url # NoUrl
    <3>1. req[r] \in [at : Places, url : Urls \cup {NoUrl}, retry : 0 .. 4]  BY <1>0
    <3>2. req[r].url # NoUrl  BY <2>1, SMT DEF IInv, UrlInv
    <3> QED  BY <2>1, <3>1, <3>2, SMT
  <2> HIDE DEF q
  <2>3. r \in Holders /\ r \notin sem.completed
    BY <2>1, Zenon DEF Holders, Fetching, Waiting, IInv, LineInv
  <2>4. sem' = resume(sem, r)
    <3>1. sem.completed \ {r} = sem.completed  BY <2>3
    <3>2. resume(sem, r) = sem  BY <1>0, <3>1, SMT DEF resume, Semaphores
    <3> QED  BY <2>1, <3>2
  <2> QED  BY <2>1, <2>2, <2>3, <2>4, KeepStep
<1>4. ASSUME NEW r \in Requests, NEW ok \in BOOLEAN, Response(r, ok)
      PROVE  IInv' /\ Throttle!Next
  <2>1. /\ req[r].at = "fetching" /\ sem' = release(sem)
        /\ req' = [req EXCEPT ![r] = Idle] /\ leaked' = leaked
    BY <1>4, Zenon DEF Response
  <2>2. r \in Holders /\ r \notin sem.completed
    BY <2>1, Zenon DEF Holders, Fetching, Waiting, IInv, LineInv
  <2>3. cacheResponse' \subseteq Urls
    <3>1. req[r].url \in Urls \cup {NoUrl}  BY <1>0
    <3>2. req[r].url # NoUrl  BY <2>1, SMT DEF IInv, UrlInv
    <3> QED  BY <1>0, <1>4, <3>1, <3>2, SMT DEF Response
  <2>4. sem.completed = sem.completed \ {r}  BY <2>2
  <2>5. IInv' /\ Throttle!GiveBack(r)
    BY <1>0, <2>1, <2>2, <2>3, <2>4, GiveBackStep
  <2> QED  BY <2>5, Zenon DEF Throttle!Next
<1>5. ASSUME NEW r \in Requests, Exception(r)
      PROVE  IInv' /\ Throttle!Next
  BY <1>5, LoseStep, Zenon DEF Throttle!Next
<1>6. CASE UNCHANGED vars
  BY <1>6, Zenon DEF vars, IInv, TypeOK, PermitsCounted, LineInv, UrlInv,
       KeepsPermits, Waiting, Fetching, Holders
<1> QED  BY <1>1, <1>2, <1>3, <1>4, <1>5, <1>6, Zenon DEF Next, Step, Answered

-----------------------------------------------------------------------------
LEMMA PermitInit == Init => IInv /\ Throttle!Init
<1> SUFFICES ASSUME Init PROVE IInv /\ Throttle!Init
  OBVIOUS
<1>1. /\ sem.currentCount = 0 /\ sem.waitQueue = <<>> /\ sem.completed = {}
      /\ sem \in Semaphores /\ cacheResponse = {} /\ leaked = 0
  BY SMT DEF Init, NewSemaphore, Semaphores
<1>2. \A r \in Requests : req[r].at = "idle"  BY SMT DEF Init, Idle
<1>3. Waiting = {} /\ Fetching = {} /\ Holders = {}
  BY <1>1, <1>2, SMT DEF Waiting, Fetching, Holders
<1>4. Idle \in [at : Places, url : Urls \cup {NoUrl}, retry : 0 .. 4]
  BY SMT DEF Places, Idle
<1>5. req \in [Requests -> [at : Places, url : Urls \cup {NoUrl}, retry : 0 .. 4]]
  BY <1>4, Zenon DEF Init
<1>6. TypeOK
  <2>1. 0 \in Nat /\ {} \subseteq Urls  BY SMT
  <2> QED  BY <1>1, <1>5, <2>1, Zenon DEF TypeOK, Semaphores, Places
<1>7. PermitsCounted
  BY <1>1, <1>3, FS_EmptySet, MaxCountAssumption, SMT DEF PermitsCounted
<1>8. LineInv /\ UrlInv
  BY <1>1, <1>2, <1>3, SMT DEF LineInv, UrlInv
<1>9. Throttle!Init  BY <1>1, <1>3, Zenon DEF Throttle!Init
<1> QED  BY <1>6, <1>7, <1>8, <1>9 DEF IInv

LEMMA Inductive == Spec => []IInv
<1>1. Init => IInv  BY PermitInit
<1>2. IInv /\ [Next]_vars => IInv'  BY PermitStep
<1> QED  BY <1>1, <1>2, PTL DEF Spec

(***************************************************************************)
(* Every request and the semaphore are always as the code can make them.   *)
(***************************************************************************)
THEOREM HttpTypeCorrect == Spec => []TypeOK
<1>1. IInv => TypeOK  BY DEF IInv
<1> QED  BY <1>1, Inductive, PTL

(***************************************************************************)
(* _currentCount counts the permits that are out or lost, never passes     *)
(* maxCount, and is maxCount while somebody waits: for any number of       *)
(* requests, whatever order they are answered, repeated and failed in.     *)
(***************************************************************************)
THEOREM PermitsCountedCorrect == Spec => []PermitsCounted
<1>1. IInv => PermitsCounted  BY DEF IInv
<1> QED  BY <1>1, Inductive, PTL

(***************************************************************************)
(* acquire and release as get() uses them implement a line of permits:     *)
(* each is handed to whoever has waited longest, and only an exception     *)
(* loses one.                                                              *)
(***************************************************************************)
THEOREM ThrottleCorrect == Spec => ThrottleSpec
<1>1. Init => Throttle!Init  BY PermitInit
<1>2. IInv /\ [Next]_vars => [Throttle!Next]_(Throttle!vars)
  BY PermitStep DEF KeepsPermits, Throttle!vars
<1> QED  BY <1>1, <1>2, Inductive, PTL DEF Spec, ThrottleSpec, Throttle!Spec

-----------------------------------------------------------------------------
\* Who asks for a url.
Asking(u) == { r \in Fetching : req[r].url = u }

\* Nobody begins to ask for what is in the cache, and what comes into it was
\* asked for by one who does so no more.
LEMMA AskingStep ==
  ASSUME IInv, [Next]_vars, NEW u \in cacheResponse'
  PROVE  \/ u \in cacheResponse /\ Asking(u)' \subseteq Asking(u)
         \/ \E r \in Fetching : Asking(u)' \subseteq Fetching \ {r}
<1>1. req \in [Requests -> [at : Places, url : Urls \cup {NoUrl}, retry : 0 .. 4]]
  BY DEF IInv, TypeOK, Places
<1>2. ASSUME cacheResponse' = cacheResponse,
             \A x \in Requests :
               req'[x].at = "fetching" /\ req'[x].url = u
                 => req[x].at = "fetching" /\ req[x].url = u
      PROVE  u \in cacheResponse /\ Asking(u)' \subseteq Asking(u)
  BY <1>2, Zenon DEF Asking, Fetching
<1>3. ASSUME NEW r \in Requests, NEW q, req' = [req EXCEPT ![r] = q]
      PROVE  \A x \in Requests : req'[x] = IF x = r THEN q ELSE req[x]
  BY <1>1, <1>3, Zenon
<1>4. Idle.at # "fetching"
  BY DEF Idle
<1>5. ASSUME NEW r \in Requests, NEW v \in Urls, Call(r, v)
      PROVE  u \in cacheResponse /\ Asking(u)' \subseteq Asking(u)
  <2> DEFINE q == [at |-> "waiting", url |-> v, retry |-> 0]
  <2>1. q.at # "fetching"
    OBVIOUS
  <2>2. req' = [req EXCEPT ![r] = q] /\ cacheResponse' = cacheResponse
    BY <1>5, Zenon DEF Call
  <2> HIDE DEF q
  <2>3. \A x \in Requests : req'[x] = IF x = r THEN q ELSE req[x]
    BY <1>3, <2>2
  <2> QED  BY <1>2, <2>1, <2>2, <2>3
<1>6. ASSUME NEW r \in Requests, Resume(r)
      PROVE  u \in cacheResponse /\ Asking(u)' \subseteq Asking(u)
  <2>1. Granted(r) /\ cacheResponse' = cacheResponse
    BY <1>6, Zenon DEF Resume
  <2>2. CASE req[r].url \in cacheResponse
    <3>1. req' = [req EXCEPT ![r] = Idle]
      BY <2>1, <2>2, Zenon DEF Granted
    <3>2. \A x \in Requests : req'[x] = IF x = r THEN Idle ELSE req[x]
      BY <1>3, <3>1
    <3> QED  BY <1>2, <1>4, <2>1, <3>2
  <2>3. CASE req[r].url \notin cacheResponse
    <3> DEFINE q == [req[r] EXCEPT !.at = "fetching"]
    <3>1. q.url = req[r].url /\ q.url # u
      BY <1>1, <2>1, <2>3
    <3>2. req' = [req EXCEPT ![r] = q]
      BY <2>1, <2>3, Zenon DEF Granted
    <3> HIDE DEF q
    <3>3. \A x \in Requests : req'[x] = IF x = r THEN q ELSE req[x]
      BY <1>3, <3>2
    <3> QED  BY <1>2, <2>1, <3>1, <3>3
  <2> QED  BY <2>2, <2>3
<1>7. ASSUME NEW r \in Requests, Timeout(r)
      PROVE  u \in cacheResponse /\ Asking(u)' \subseteq Asking(u)
  <2> DEFINE q == [req[r] EXCEPT !.retry = @ + 1]
  <2>1. q.at = req[r].at /\ q.url = req[r].url
    BY <1>1
  <2>2. req' = [req EXCEPT ![r] = q] /\ cacheResponse' = cacheResponse
    BY <1>7, Zenon DEF Timeout
  <2> HIDE DEF q
  <2>3. \A x \in Requests : req'[x] = IF x = r THEN q ELSE req[x]
    BY <1>3, <2>2
  <2> QED  BY <1>2, <2>1, <2>2, <2>3
<1>8. ASSUME NEW r \in Requests, Answered(r)
      PROVE  \/ u \in cacheResponse /\ Asking(u)' \subseteq Asking(u)
             \/ \E x \in Fetching : Asking(u)' \subseteq Fetching \ {x}
  <2>1. /\ r \in Fetching /\ req' = [req EXCEPT ![r] = Idle]
    BY <1>8, Zenon DEF Answered, Response, Exception, Fetching
  <2>2. \A x \in Requests : req'[x] = IF x = r THEN Idle ELSE req[x]
    BY <1>3, <2>1
  <2>3. Asking(u)' \subseteq Fetching \ {r}
    BY <1>4, <2>2, Zenon DEF Asking, Fetching
  <2> QED  BY <2>1, <2>3
<1>9. CASE UNCHANGED vars
  <2>1. cacheResponse' = cacheResponse /\ req' = req
    BY <1>9, Zenon DEF vars
  <2> QED  BY <1>2, <2>1
<1> QED  BY <1>5, <1>6, <1>7, <1>8, <1>9, Zenon DEF Next, Step

(***************************************************************************)
(* A page that is in the cache is being asked for by fewer requests than   *)
(* there are permits, because the cache is looked at again after the       *)
(* await; with one permit, by none.                                        *)
(***************************************************************************)
THEOREM FetchedOnceCorrect == Spec => []FetchedOnce
<1>1. Init => FetchedOnce
  BY DEF Init, FetchedOnce
<1>2. IInv /\ FetchedOnce /\ [Next]_vars => FetchedOnce'
  <2> SUFFICES ASSUME IInv, FetchedOnce, [Next]_vars, NEW u \in cacheResponse'
               PROVE  Cardinality(Asking(u)') < maxCount
    BY Zenon DEF FetchedOnce, Asking
  <2>1. IsFiniteSet(Fetching) /\ \A v : IsFiniteSet(Asking(v))
    <3>1. Fetching \subseteq Requests /\ \A v : Asking(v) \subseteq Requests
      BY Zenon DEF Asking, Fetching
    <3> QED  BY <3>1, FS_Subset, RequestsAssumption, Zenon
  <2>2. Cardinality(Fetching) \in Nat /\ Cardinality(Fetching) <= maxCount
    <3>1. Holders \in SUBSET Requests /\ leaked \in Nat
      BY DEF IInv, TypeOK, Holders, Fetching
    <3>2. IsFiniteSet(Holders) /\ Cardinality(Holders) \in Nat
      BY <3>1, FS_Subset, FS_CardinalityType, RequestsAssumption
    <3>3. Cardinality(Fetching) \in Nat /\ Cardinality(Fetching) <= Cardinality(Holders)
      <4>1. Fetching \subseteq Holders
        BY DEF Holders
      <4> QED  BY <2>1, <3>2, <4>1, FS_Subset, FS_CardinalityType
    <3> QED  BY <3>1, <3>2, <3>3, MaxCountAssumption DEF IInv, PermitsCounted
  <2>3. CASE u \in cacheResponse /\ Asking(u)' \subseteq Asking(u)
    <3>1. Cardinality(Asking(u)) < maxCount
      BY <2>3, Zenon DEF FetchedOnce, Asking
    <3>2. /\ Cardinality(Asking(u)) \in Nat /\ Cardinality(Asking(u)') \in Nat
          /\ Cardinality(Asking(u)') <= Cardinality(Asking(u))
      BY <2>1, <2>3, FS_Subset, FS_CardinalityType
    <3> QED  BY <3>1, <3>2, MaxCountAssumption
  <2>4. ASSUME NEW r \in Fetching, Asking(u)' \subseteq Fetching \ {r}
        PROVE  Cardinality(Asking(u)') < maxCount
    <3>1. /\ IsFiniteSet(Fetching \ {r})
          /\ Cardinality(Fetching \ {r}) = Cardinality(Fetching) - 1
      BY <2>1, FS_RemoveElement
    <3>2. /\ Cardinality(Asking(u)') \in Nat
          /\ Cardinality(Asking(u)') <= Cardinality(Fetching \ {r})
      BY <2>4, <3>1, FS_Subset, FS_CardinalityType
    <3> QED  BY <2>2, <3>1, <3>2, MaxCountAssumption
  <2> QED  BY <2>3, <2>4, AskingStep
<1> QED  BY <1>1, <1>2, Inductive, PTL DEF Spec
=============================================================================
