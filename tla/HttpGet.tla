------------------------------ MODULE HttpGet ------------------------------
(***************************************************************************)
(* get() of lib/network/wrapper.dart for one of its two throttled sites:   *)
(* concurrent requests that share a semaphore and a cache of responses.    *)
(* Dart runs one piece of code at a time, from one await to the next; each *)
(* action is such a piece.                                                 *)
(***************************************************************************)
EXTENDS Semaphore, FiniteSets

CONSTANTS
  Requests,   \* the calls of get() that may be under way at a time
  Urls,       \* of the site
  NoUrl       \* the url of no request

ASSUME RequestsAssumption == IsFiniteSet(Requests) /\ NoUrl \notin Urls

VARIABLES
  sem,             \* HttpWrapper.throttlerExHentai (or throttlerEHentai)
  cacheResponse,   \* HttpWrapper.cacheResponse: the urls in it
  req,             \* the requests
  leaked           \* how many requests ended without giving back their permit

vars == <<sem, cacheResponse, req, leaked>>

Idle == [at |-> "idle", url |-> NoUrl, retry |-> 0]

Init ==
  /\ sem = NewSemaphore /\ cacheResponse = {}
  /\ req = [r \in Requests |-> Idle] /\ leaked = 0

\* get(u), unless the cache answers it.
Call(r, u) ==
  /\ req[r].at = "idle" /\ u \notin cacheResponse
  /\ sem' = acquire(sem, r)
  /\ req' = [req EXCEPT ![r] = [at |-> "waiting", url |-> u, retry |-> 0]]
  /\ UNCHANGED <<cacheResponse, leaked>>

\* Mutant of Granted: the cache is not looked at again.
Granted_blind(r) ==
  /\ sem' = resume(sem, r)
  /\ req' = [req EXCEPT ![r].at = "fetching"]

\* The permit came.  The response may have come meanwhile, too.
Granted(r) ==
  IF req[r].url \in cacheResponse
  THEN /\ sem' = release(resume(sem, r))
       /\ req' = [req EXCEPT ![r] = Idle]
  ELSE /\ sem' = resume(sem, r)
       /\ req' = [req EXCEPT ![r].at = "fetching"]

Resume(r) ==
  /\ r \in sem.completed
  /\ Granted(r)
  /\ UNCHANGED <<cacheResponse, leaked>>

\* After 3 seconds the request is sent again, four times; the fifth waits for
\* as long as it takes.
Timeout(r) ==
  /\ req[r].at = "fetching" /\ req[r].retry <= 3
  /\ req' = [req EXCEPT ![r].retry = @ + 1]
  /\ UNCHANGED <<sem, cacheResponse, leaked>>

\* A response; only one with status 200 is cached.
Response(r, ok) ==
  /\ req[r].at = "fetching"
  /\ cacheResponse' = IF ok THEN cacheResponse \cup {req[r].url} ELSE cacheResponse
  /\ sem' = release(sem)
  /\ req' = [req EXCEPT ![r] = Idle]
  /\ UNCHANGED leaked

\* http.get throws (no network, no such host): the exception leaves get(), and
\* nothing releases.
Exception(r) ==
  /\ req[r].at = "fetching"
  /\ req' = [req EXCEPT ![r] = Idle]
  /\ leaked' = leaked + 1
  /\ UNCHANGED <<sem, cacheResponse>>

Answered(r) == (\E ok \in BOOLEAN : Response(r, ok)) \/ Exception(r)

Step(r) == (\E u \in Urls : Call(r, u)) \/ Resume(r) \/ Timeout(r) \/ Answered(r)

Next == \E r \in Requests : Step(r)

Spec == Init /\ [][Next]_vars

-----------------------------------------------------------------------------
Waiting == { r \in Requests : req[r].at = "waiting" }
Fetching == { r \in Requests : req[r].at = "fetching" }

\* Who has a permit: those who fetch and those about to.
Holders == Fetching \cup sem.completed

\* Every request and the semaphore are as the code can make them.
TypeOK ==
  /\ sem \in [currentCount : Nat, waitQueue : Seq(Requests),
              completed : SUBSET Requests]
  /\ cacheResponse \subseteq Urls
  /\ req \in [Requests -> [at : {"idle", "waiting", "fetching"},
                           url : Urls \cup {NoUrl}, retry : 0 .. 4]]
  /\ leaked \in Nat

(***************************************************************************)
(* _currentCount counts the permits that are out, those lost to exceptions *)
(* included, and never passes maxCount; and nobody waits while a permit is *)
(* free.                                                                   *)
(***************************************************************************)
PermitsCounted ==
  /\ sem.currentCount = Cardinality(Holders) + leaked
  /\ sem.currentCount <= maxCount
  /\ sem.waitQueue # <<>> => sem.currentCount = maxCount

(***************************************************************************)
(* A page that is in the cache is asked for by fewer requests than there   *)
(* are permits: those that were sent before it came.  The cache is looked  *)
(* at again after the await.  With one permit (exhentai.org) a page is     *)
(* never asked for again.                                                  *)
(***************************************************************************)
FetchedOnce ==
  \A u \in cacheResponse :
    Cardinality({ r \in Fetching : req[r].url = u }) < maxCount

(***************************************************************************)
(* The semaphore and its use in get() implement a line of permits.         *)
(***************************************************************************)
Throttle == INSTANCE Permits WITH holders <- Holders, line <- sem.waitQueue,
                                  lost <- leaked

ThrottleSpec == Throttle!Spec

-----------------------------------------------------------------------------
\* Microtasks run, and a request that is sent is answered or fails in the end.
Fairness == \A r \in Requests : WF_vars(Resume(r)) /\ WF_vars(Answered(r))

FairSpec == Spec /\ Fairness

(***************************************************************************)
(* Whoever waits for a permit gets it, unless every permit was lost to an  *)
(* exception.                                                              *)
(***************************************************************************)
WaiterServed ==
  \A r \in Requests :
    req[r].at = "waiting" ~> req[r].at # "waiting" \/ leaked = maxCount
=============================================================================
