----------------------------- MODULE SearchPage -----------------------------
(***************************************************************************)
(* The search page (lib/pages/search/search_page.dart): the query, the     *)
(* results shown, and the calls of loadNextQuery, by scrolling and by new  *)
(* searches, that load them page by page under a semaphore of one permit.  *)
(* A call gives up after it has waited five seconds, and its completer     *)
(* stays in the queue; the first search of the page does without the       *)
(* semaphore.  Each action is the code from one await to the next.         *)
(***************************************************************************)
EXTENDS Semaphore, Integers, FiniteSets

CONSTANTS
  Calls,      \* bound: calls of loadNextQuery under way, or given up
  Queries,
  NoQuery,    \* latestQuery == null
  Everything, \* the query ''
  MaxPages    \* bound: full pages of a query

ASSUME SearchAssumption ==
  /\ maxCount = 1 /\ IsFiniteSet(Calls)
  /\ NoQuery \notin Queries /\ Everything \in Queries /\ MaxPages \in Nat

VARIABLES
  latestQuery,  \* [query, next]: what is shown, and the offset of its next page
  queryResult,  \* the pages shown
  queryEnd,
  sem,          \* _querySem
  load,         \* the calls
  scroll,       \* scrollInProgress: "no", "delay" or the call
  initial,      \* the first search: "delay", "searching" or "done"
  mixed         \* has the page shown taken in an answer to an earlier search?

\* mixed is not in the code; ResultsInOrder is stated with it.

vars == <<latestQuery, queryResult, queryEnd, sem, load, scroll, initial, mixed>>
shown == <<latestQuery, queryResult, queryEnd, mixed>>

\* late: has another call begun to search since this one began to wait?
\* overtaken: has the page shown been replaced since this one began to search?
Idle == [at |-> "idle", query |-> NoQuery, offset |-> 0,
         late |-> FALSE, overtaken |-> FALSE]

Init ==
  /\ latestQuery = [query |-> NoQuery, next |-> 0]
  /\ queryResult = <<>> /\ queryEnd = FALSE
  /\ sem = NewSemaphore /\ load = [c \in Calls |-> Idle]
  /\ scroll = "no" /\ initial = "delay" /\ mixed = FALSE

Waiting == { c \in Calls : load[c].at = "waiting" }
Searching == { c \in Calls : load[c].at = "searching" }

\* What HentaiManager.search finds at an offset: a full page, which may not be
\* the last, or less; -1 is for the end.
Found(q, offset) ==
  LET page == <<[query |-> q, page |-> offset]>>
  IN  {[results |-> <<>>, next |-> -1], [results |-> page, next |-> -1]}
        \cup (IF offset < MaxPages THEN {[results |-> page, next |-> offset + 1]}
              ELSE {})

\* The answers to come are to a search that is no longer shown.
Overtake == [c \in Calls |-> IF c \in Searching THEN [load[c] EXCEPT !.overtaken = TRUE]
                             ELSE load[c]]

-----------------------------------------------------------------------------
\* initState: half a second later everything is searched.

BeginInitial ==
  /\ initial = "delay" /\ initial' = "searching"
  /\ UNCHANGED <<shown, sem, load, scroll>>

\* Whatever the page shows by now is replaced; queryEnd is left as it is.
InitialFound ==
  /\ initial = "searching" /\ initial' = "done"
  /\ \E next \in Found(Everything, 0) :
       /\ latestQuery' = [query |-> Everything, next |-> next.next]
       /\ queryResult' = next.results
  /\ load' = Overtake /\ mixed' = FALSE
  /\ UNCHANGED <<queryEnd, sem, scroll>>

InitialFails ==
  /\ initial = "searching" /\ initial' = "done"
  /\ UNCHANGED <<shown, sem, load, scroll>>

-----------------------------------------------------------------------------
\* loadNextQuery

\* The call of acquire, from a page shown by list of calls l.
Acquire(c, l) ==
  /\ sem' = acquire(sem, c)
  /\ load' = [l EXCEPT ![c].at = "waiting"]

\* _showSearchBar, and the double tap for a random query.
NewSearch(c, q) ==
  /\ load[c].at = "idle"
  /\ latestQuery' = [query |-> q, next |-> 0]
  /\ queryResult' = <<>> /\ queryEnd' = FALSE /\ mixed' = FALSE
  /\ Acquire(c, Overtake)
  /\ UNCHANGED <<scroll, initial>>

Scroll ==
  /\ scroll = "no" /\ ~queryEnd
  /\ scroll' = "delay"
  /\ UNCHANGED <<shown, sem, load, initial>>

LoadMore(c) ==
  /\ scroll = "delay" /\ load[c].at = "idle"
  /\ scroll' = c
  /\ Acquire(c, load)
  /\ UNCHANGED <<shown, initial>>

\* scrollInProgress = false
EndScroll(c) == scroll' = IF scroll = c THEN "no" ELSE scroll

\* Mutant of GiveUp: the permit is given back although it was not got.
GiveUp_release(c) ==
  /\ c \in Waiting \ sem.completed /\ load[c].late
  /\ sem' = release(sem)
  /\ load' = [load EXCEPT ![c].at = "gone"] /\ EndScroll(c)
  /\ UNCHANGED <<shown, initial>>

\* The timeout of acquire.  It cannot come before that of the search that is
\* under way when the call begins to wait.
GiveUp(c) ==
  /\ c \in Waiting \ sem.completed
  /\ load[c].late \/ \E d \in sem.completed : load[d].at = "gone"
  /\ load' = [load EXCEPT ![c].at = "gone"] /\ EndScroll(c)
  /\ UNCHANGED <<shown, sem, initial>>

\* finally: the permit is given back by the call that has it.
Finish(c, s) ==
  /\ sem' = release(s)
  /\ load' = [load EXCEPT ![c] = Idle]
  /\ EndScroll(c)

\* The permit came.
Granted(c) ==
  LET s == resume(sem, c)
      ended == queryEnd \/ latestQuery.next = -1
  IN  /\ c \in Waiting \cap sem.completed
      /\ IF ended \/ latestQuery.query = NoQuery     \* NoQuery: an exception
         THEN Finish(c, s)
         ELSE /\ sem' = s
              /\ load' = [d \in Calls |->
                   IF d = c THEN [at |-> "searching", query |-> latestQuery.query,
                                  offset |-> latestQuery.next,
                                  late |-> FALSE, overtaken |-> FALSE]
                   ELSE [load[d] EXCEPT !.late = d \in Waiting]]
              /\ UNCHANGED scroll
      /\ UNCHANGED <<shown, initial>>

\* Mutant of Answered: the offset of the next page is not noted.
Answered_still(c) ==
  /\ c \in Searching
  /\ \E next \in Found(load[c].query, load[c].offset) :
       /\ queryResult' = queryResult \o next.results
       /\ queryEnd' = (queryEnd \/ next.results = <<>>)
  /\ mixed' = (mixed \/ load[c].overtaken)
  /\ Finish(c, sem)
  /\ UNCHANGED <<latestQuery, initial>>

\* The answer is taken for one to the query that is shown now.
Answered(c) ==
  /\ c \in Searching
  /\ \E next \in Found(load[c].query, load[c].offset) :
       /\ latestQuery' = [latestQuery EXCEPT !.next = next.next]
       /\ queryResult' = queryResult \o next.results
       /\ queryEnd' = (queryEnd \/ next.results = <<>>)
  /\ mixed' = (mixed \/ load[c].overtaken)
  /\ Finish(c, sem)
  /\ UNCHANGED initial

\* Mutant of Failed: scrolling is not set free.
Failed_stuck(c) ==
  /\ c \in Searching
  /\ sem' = release(sem) /\ load' = [load EXCEPT ![c] = Idle]
  /\ UNCHANGED <<shown, scroll, initial>>

\* The search throws, or takes more than five seconds.
Failed(c) ==
  /\ c \in Searching
  /\ Finish(c, sem)
  /\ UNCHANGED <<shown, initial>>

Step(c) == LoadMore(c) \/ GiveUp(c) \/ Granted(c) \/ Answered(c) \/ Failed(c)
             \/ \E q \in Queries : NewSearch(c, q)

Next == BeginInitial \/ InitialFound \/ InitialFails \/ Scroll \/ \E c \in Calls : Step(c)

Spec == Init /\ [][Next]_vars

-----------------------------------------------------------------------------
(***************************************************************************)
(* The results shown are the first pages of the query shown, each once and *)
(* in order, and the next to be asked for is the one after them.  This is  *)
(* so whatever calls wait, give up or fail, but not once the answer to an  *)
(* earlier search has come in: loadNextQuery takes it for one to the query *)
(* that has replaced it.                                                   *)
(***************************************************************************)
ResultsInOrder ==
  ~mixed =>
    /\ queryResult = [i \in 1 .. Len(queryResult) |->
                        [query |-> latestQuery.query, page |-> i - 1]]
    /\ latestQuery.next \in {-1, Len(queryResult)}

(***************************************************************************)
(* loadNextQuery uses its permit as Permits says, its finally included: no *)
(* permit is lost by a call that has it, and none is given back by one     *)
(* that has not.  A call that gave up still stands in line, and keeps the  *)
(* permit that comes to it.                                                *)
(***************************************************************************)
Loads == INSTANCE Permits WITH Requests <- Calls, lost <- 0,
           holders <- Searching \cup sem.completed, line <- sem.waitQueue

PermitKept == Loads!Spec

-----------------------------------------------------------------------------
\* Microtasks and timers run: a search is answered or times out.  Nothing is
\* assumed of the timeout of acquire, of the user or of scrolling.
Fairness ==
  \A c \in Calls : WF_vars(Granted(c)) /\ WF_vars(Answered(c) \/ Failed(c))

FairSpec == Spec /\ Fairness

\* A call that gave up has the permit.
Gone == \E d \in sem.completed : load[d].at = "gone"

(***************************************************************************)
(* A call that waits gets its turn, or gives up, even if others keep       *)
(* coming, and a scroll that has begun to load is followed by another,     *)
(* however its call ends; unless a call that gave up has got the permit:   *)
(* then none is ever served again.                                         *)
(***************************************************************************)
TurnComes ==
  /\ \A c \in Calls : c \in Waiting ~> c \notin Waiting \/ Gone
  /\ scroll \in Calls ~> scroll \notin Calls \/ Gone
=============================================================================
