------------------------- MODULE SearchPage_proofs --------------------------
(***************************************************************************)
(* Proofs about SearchPage for any number of calls, queries and pages: the *)
(* permit is used as Permits says, and the results are those of the query  *)
(* shown, in order.                                                        *)
(*                                                                         *)
(* The second rests on the first.  An answer is appended at the offset     *)
(* that was current when its search began, so the order of the results     *)
(* needs that this offset is still the current one (AskedInv), and that is *)
(* so because no other call searches in between.                           *)
(***************************************************************************)
EXTENDS SearchPage, FiniteSetTheorems, SequenceTheorems, TLAPS

Steps == {"idle", "waiting", "searching", "gone"}

Loadings == [at : Steps, query : Queries \cup {NoQuery}, offset : Nat,
             late : BOOLEAN, overtaken : BOOLEAN]

Semaphores == [currentCount : Nat, waitQueue : Seq(Calls), completed : SUBSET Calls]

GivenUp == { c \in Calls : load[c].at = "gone" }
Lined == Waiting \cup GivenUp
Holders == Searching \cup sem.completed

PermitType == sem \in Semaphores /\ load \in [Calls -> Loadings]

\* The permit is out when the count says so, and nobody waits while it is free.
Counted ==
  /\ sem.currentCount = Cardinality(Holders) /\ sem.currentCount <= 1
  /\ sem.waitQueue # <<>> => sem.currentCount = 1

\* Those in the queue wait or gave up, each stands there once, and has no
\* permit yet.
LineInv ==
  /\ sem.completed \subseteq Lined
  /\ \A i \in 1 .. Len(sem.waitQueue) :
       sem.waitQueue[i] \in Lined /\ sem.waitQueue[i] \notin sem.completed
  /\ \A i, j \in 1 .. Len(sem.waitQueue) :
       sem.waitQueue[i] = sem.waitQueue[j] => i = j

PermitInv == PermitType /\ Counted /\ LineInv

Shown == [query : Queries \cup {NoQuery}, next : Nat \cup {-1}]

\* A search that was not overtaken is for the page that is next.
AskedInv ==
  \A c \in Searching :
    /\ load[c].query \in Queries
    /\ ~load[c].overtaken => /\ load[c].query = latestQuery.query
                             /\ load[c].offset = latestQuery.next

ShownInv == latestQuery \in Shown /\ mixed \in BOOLEAN /\ AskedInv /\ ResultsInOrder

IInv == PermitInv /\ ShownInv

-----------------------------------------------------------------------------
\* What the methods of the semaphore do to its fields when there is one permit.

LEMMA AcquireEffect ==
  ASSUME NEW s \in Semaphores, NEW c \in Calls
  PROVE  LET t == acquire(s, c)
         IN  /\ t \in Semaphores
             /\ s.currentCount = 0 =>
                  /\ t.currentCount = 1
                  /\ t.waitQueue = s.waitQueue
                  /\ t.completed = s.completed \cup {c}
             /\ s.currentCount # 0 =>
                  /\ t.currentCount = s.currentCount
                  /\ t.waitQueue = Append(s.waitQueue, c)
                  /\ t.completed = s.completed
<1>1. /\ s.currentCount \in Nat /\ s.completed \cup {c} \in SUBSET Calls
      /\ Append(s.waitQueue, c) \in Seq(Calls)
  BY AppendProperties DEF Semaphores
<1>m. maxCount = 1  BY SearchAssumption
<1> DEFINE d == s.completed \cup {c}
           q == Append(s.waitQueue, c)
<1> HIDE DEF d, q
<1>2. CASE s.currentCount = 0
  <2>1. s.currentCount + 1 <= maxCount /\ s.currentCount + 1 = 1  BY <1>m, <1>2, SMT
  <2>2. acquire(s, c) = [s EXCEPT !.currentCount = 1, !.completed = d]
    BY <2>1, Zenon DEF acquire, d
  <2>3. 1 \in Nat /\ d \in SUBSET Calls  BY <1>1, SMT DEF d
  <2>4. /\ acquire(s, c) \in Semaphores /\ acquire(s, c).currentCount = 1
        /\ acquire(s, c).waitQueue = s.waitQueue /\ acquire(s, c).completed = d
    BY <2>2, <2>3, Zenon DEF Semaphores
  <2> QED  BY <1>2, <2>4 DEF d
<1>3. CASE s.currentCount # 0
  <2>1. ~(s.currentCount + 1 <= maxCount)  BY <1>1, <1>m, <1>3, SMT
  <2>2. acquire(s, c) = [s EXCEPT !.waitQueue = q]  BY <2>1, Zenon DEF acquire, q
  <2>3. q \in Seq(Calls)  BY <1>1 DEF q
  <2>4. /\ acquire(s, c) \in Semaphores /\ acquire(s, c).currentCount = s.currentCount
        /\ acquire(s, c).waitQueue = q /\ acquire(s, c).completed = s.completed
    BY <2>2, <2>3, Zenon DEF Semaphores
  <2> QED  BY <1>3, <2>4 DEF q
<1> QED  BY <1>2, <1>3

LEMMA ReleaseEffect ==
  ASSUME NEW s \in Semaphores, s.currentCount > 0
  PROVE  LET t == release(s)
         IN  /\ t \in Semaphores
             /\ s.waitQueue = <<>> =>
                  /\ t.currentCount = s.currentCount - 1
                  /\ t.waitQueue = s.waitQueue
                  /\ t.completed = s.completed
             /\ s.waitQueue # <<>> =>
                  /\ t.currentCount = s.currentCount
                  /\ t.waitQueue = Tail(s.waitQueue)
                  /\ t.completed = s.completed \cup {Head(s.waitQueue)}
<1>1. CASE s.waitQueue = <<>>
  BY <1>1, SMT DEF Semaphores, release
<1>2. CASE s.waitQueue # <<>>
  <2> DEFINE q == Tail(s.waitQueue)
             d == s.completed \cup {Head(s.waitQueue)}
  <2>1. s.waitQueue \in Seq(Calls) /\ s.completed \in SUBSET Calls  BY DEF Semaphores
  <2>2. Head(s.waitQueue) \in Calls /\ q \in Seq(Calls)
    BY <1>2, <2>1, HeadTailProperties
  <2>3. d \in SUBSET Calls  BY <2>1, <2>2
  <2>4. release(s) = [s EXCEPT !.waitQueue = q, !.completed = d]
    BY <1>2, Zenon DEF release
  <2>5. q \in Seq(Calls)  BY <2>2
  <2> HIDE DEF d, q
  <2>6. /\ release(s) \in Semaphores /\ release(s).currentCount = s.currentCount
        /\ release(s).waitQueue = q /\ release(s).completed = d
    BY <2>3, <2>4, <2>5, Zenon DEF Semaphores
  <2> QED  BY <1>2, <2>6 DEF d, q
<1> QED  BY <1>1, <1>2

LEMMA ResumeEffect ==
  ASSUME NEW s \in Semaphores, NEW c
  PROVE  /\ resume(s, c) \in Semaphores
         /\ resume(s, c).currentCount = s.currentCount
         /\ resume(s, c).waitQueue = s.waitQueue
         /\ resume(s, c).completed = s.completed \ {c}
BY SMT DEF Semaphores, resume

\* A queue without its head has the other elements, each once.
LEMMA TailLine ==
  ASSUME NEW q \in Seq(Calls), q # <<>>,
         \A i, j \in 1 .. Len(q) : q[i] = q[j] => i = j
  PROVE  /\ \A i \in 1 .. Len(Tail(q)) :
              i + 1 \in 1 .. Len(q) /\ Tail(q)[i] = q[i + 1] /\ Tail(q)[i] # Head(q)
         /\ \A i, j \in 1 .. Len(Tail(q)) : Tail(q)[i] = Tail(q)[j] => i = j
<1>1. /\ Len(q) \in Nat \ {0} /\ Len(Tail(q)) = Len(q) - 1
      /\ \A i \in 1 .. Len(Tail(q)) : Tail(q)[i] = q[i + 1]
      /\ Head(q) = q[1]
  BY HeadTailProperties, EmptySeq
<1> QED  BY <1>1, SMT

LEMMA HolderCount ==
  ASSUME NEW S \in SUBSET Calls, NEW x
  PROVE  /\ Cardinality(S) \in Nat
         /\ x \notin S => Cardinality(S \cup {x}) = Cardinality(S) + 1
         /\ x \in S => Cardinality(S \ {x}) = Cardinality(S) - 1
<1>1. IsFiniteSet(S)  BY FS_Subset, SearchAssumption
<1> QED  BY <1>1, FS_CardinalityType, FS_AddElement, FS_RemoveElement

\* The cardinality of the module Permits is the one of this module.
LEMMA SameCardinality == ASSUME NEW S PROVE Loads!Cardinality(S) = Cardinality(S)
BY Zenon DEF Loads!Cardinality, Cardinality

-----------------------------------------------------------------------------
\* The kinds of steps of the calls.

\* Call c comes to step p and the others stay where they are.
Moves(c, p) == \A d \in Calls : load'[d].at = IF d = c THEN p ELSE load[d].at

LEMMA MovesEffect ==
  ASSUME NEW c \in Calls, NEW p, Moves(c, p)
  PROVE  /\ Waiting' = IF p = "waiting" THEN Waiting \cup {c} ELSE Waiting \ {c}
         /\ Searching' = IF p = "searching" THEN Searching \cup {c} ELSE Searching \ {c}
         /\ GivenUp' = IF p = "gone" THEN GivenUp \cup {c} ELSE GivenUp \ {c}
BY Zenon DEF Moves, Waiting, Searching, GivenUp

\* A call that asks for the permit.
LEMMA AskStep ==
  ASSUME PermitInv, NEW c \in Calls, load[c].at = "idle",
         sem' = acquire(sem, c), load' \in [Calls -> Loadings], Moves(c, "waiting")
  PROVE  PermitInv' /\ Loads!Ask(c)
<1> DEFINE n == sem.currentCount
           w == sem.waitQueue
           d == sem.completed
<1>1. /\ sem \in Semaphores /\ n \in Nat /\ w \in Seq(Calls) /\ d \subseteq Calls
      /\ Waiting \subseteq Calls /\ Searching \subseteq Calls
  BY DEF PermitInv, PermitType, Semaphores, Waiting, Searching
<1>2. c \notin Waiting /\ c \notin Searching /\ c \notin GivenUp
  BY Zenon DEF Waiting, Searching, GivenUp
<1>3. /\ d \subseteq Lined
      /\ \A i \in 1 .. Len(w) : w[i] \in Lined /\ w[i] \notin d
      /\ \A i, j \in 1 .. Len(w) : w[i] = w[j] => i = j
  BY DEF PermitInv, LineInv
<1>4. c \notin d /\ c \notin Holders /\ \A i \in 1 .. Len(w) : w[i] # c
  BY <1>2, <1>3, Zenon DEF Lined, Holders
<1>5. Waiting' = Waiting \cup {c} /\ Searching' = Searching /\ Lined' = Lined \cup {c}
  <2>1. /\ Waiting' = Waiting \cup {c} /\ Searching' = Searching \ {c}
        /\ GivenUp' = GivenUp \ {c}
    BY MovesEffect
  <2> QED  BY <1>2, <2>1, Zenon DEF Lined
<1>6. n = Cardinality(Holders) /\ n <= 1 /\ (w # <<>> => n = 1)
  BY DEF PermitInv, Counted
<1>7. Holders \in SUBSET Calls  BY <1>1 DEF Holders
<1>8. /\ Cardinality(Holders) \in Nat
      /\ Cardinality(Holders \cup {c}) = Cardinality(Holders) + 1
  BY <1>4, <1>7, HolderCount
<1>m. maxCount = 1  BY SearchAssumption
<1>9. CASE n = 0
  <2>1. /\ sem' \in Semaphores /\ sem.currentCount' = 1
        /\ sem.waitQueue' = w /\ sem.completed' = d \cup {c}
    BY <1>1, <1>9, AcquireEffect
  <2>2. Holders' = Holders \cup {c}  BY <1>5, <2>1, Zenon DEF Holders
  <2>3. w = <<>> /\ Len(w) = 0  BY <1>1, <1>6, <1>9, SMT
  <2>4. LineInv'
    <3>1. (d \cup {c}) \subseteq Lined'  BY <1>3, <1>5
    <3> QED  BY <2>1, <2>3, <3>1, SMT DEF LineInv
  <2>5. Counted'
    BY <1>6, <1>8, <1>9, <2>1, <2>2, <2>3, SMT DEF Counted
  <2>6. Loads!Ask(c)
    <3>1. Cardinality(Holders) + 0 < maxCount  BY <1>6, <1>8, <1>9, <1>m, SMT
    <3> QED  BY <1>4, <2>1, <2>2, <3>1, SameCardinality, Zenon DEF Loads!Ask, Holders
  <2> QED  BY <2>1, <2>4, <2>5, <2>6 DEF PermitInv, PermitType
<1>10. CASE n # 0
  <2>1. /\ sem' \in Semaphores /\ sem.currentCount' = n
        /\ sem.waitQueue' = Append(w, c) /\ sem.completed' = d
    BY <1>1, <1>10, AcquireEffect
  <2>2. Holders' = Holders  BY <1>5, <2>1, Zenon DEF Holders
  <2>3. /\ Len(Append(w, c)) = Len(w) + 1 /\ Append(w, c)[Len(w) + 1] = c
        /\ \A i \in 1 .. Len(w) : Append(w, c)[i] = w[i]
        /\ Len(w) \in Nat
    BY <1>1, AppendProperties, LenProperties
  <2>4. LineInv'
    <3> DEFINE v == Append(w, c)
    <3>1. /\ Len(v) = Len(w) + 1 /\ v[Len(w) + 1] = c
          /\ \A i \in 1 .. Len(w) : v[i] = w[i]
      BY <2>3
    <3> HIDE DEF v
    <3>2. \A i \in 1 .. Len(v) : v[i] \in Lined' /\ v[i] \notin d
      BY <1>3, <1>4, <1>5, <2>3, <3>1, SMT
    <3>3. \A i, j \in 1 .. Len(v) : v[i] = v[j] => i = j
      BY <1>3, <1>4, <2>3, <3>1, SMT
    <3>4. d \subseteq Lined'  BY <1>3, <1>5
    <3> QED  BY <2>1, <3>2, <3>3, <3>4 DEF LineInv, v
  <2>5. Counted'
    BY <1>1, <1>6, <1>10, <2>1, <2>2, SMT DEF Counted
  <2>6. Loads!Ask(c)
    <3>1. ~(Cardinality(Holders) + 0 < maxCount)  BY <1>1, <1>6, <1>8, <1>10, <1>m, SMT
    <3> QED  BY <1>4, <2>1, <2>2, <3>1, SameCardinality, Zenon DEF Loads!Ask, Holders
  <2> QED  BY <2>1, <2>4, <2>5, <2>6 DEF PermitInv, PermitType
<1> QED  BY <1>9, <1>10

\* A holder that gives the permit back, having run on from its await (s).
LEMMA GiveBackStep ==
  ASSUME PermitInv, NEW c \in Calls, c \in Holders, NEW s \in Semaphores,
         s.currentCount = sem.currentCount, s.waitQueue = sem.waitQueue,
         s.completed = sem.completed \ {c},
         sem' = release(s), load' \in [Calls -> Loadings], Moves(c, "idle")
  PROVE  PermitInv' /\ Loads!GiveBack(c)
<1> DEFINE n == sem.currentCount
           w == sem.waitQueue
           d == sem.completed
<1>1. /\ sem \in Semaphores /\ n \in Nat /\ w \in Seq(Calls) /\ d \subseteq Calls
      /\ Searching \subseteq Calls
  BY DEF PermitInv, PermitType, Semaphores, Searching
<1>2. /\ d \subseteq Lined
      /\ \A i \in 1 .. Len(w) : w[i] \in Lined /\ w[i] \notin d
      /\ \A i, j \in 1 .. Len(w) : w[i] = w[j] => i = j
  BY DEF PermitInv, LineInv
<1>3. Searching' = Searching \ {c} /\ Lined' = Lined \ {c}
  <2>1. /\ Waiting' = Waiting \ {c} /\ Searching' = Searching \ {c}
        /\ GivenUp' = GivenUp \ {c}
    BY MovesEffect
  <2> QED  BY <2>1, Zenon DEF Lined
<1>4. n = Cardinality(Holders) /\ n <= 1 /\ (w # <<>> => n = 1)
  BY DEF PermitInv, Counted
<1>5. Holders \in SUBSET Calls  BY <1>1 DEF Holders
<1>6. /\ Cardinality(Holders) \in Nat /\ Cardinality(Holders \ {c}) \in Nat
      /\ Cardinality(Holders \ {c}) = Cardinality(Holders) - 1
  BY <1>5, HolderCount
<1>7. n = 1 /\ n > 0 /\ Cardinality(Holders \ {c}) = 0  BY <1>1, <1>4, <1>6, SMT
<1>8. \A i \in 1 .. Len(w) : w[i] \notin Searching
  <2>1. \A x \in Lined : x \notin Searching
    BY SMT DEF Lined, Waiting, Searching, GivenUp
  <2> QED  BY <1>2, <2>1
<1>c. \A i \in 1 .. Len(w) : w[i] # c
  BY <1>2, <1>8, Zenon DEF Holders
<1>9. CASE w = <<>>
  <2>1. /\ sem' \in Semaphores /\ sem.currentCount' = n - 1
        /\ sem.waitQueue' = w /\ sem.completed' = d \ {c}
    BY <1>7, <1>9, ReleaseEffect
  <2>2. Holders' = Holders \ {c}  BY <1>3, <2>1, Zenon DEF Holders
  <2>3. LineInv'
    <3>1. (d \ {c}) \subseteq Lined'  BY <1>2, <1>3
    <3>2. Len(w) = 0  BY <1>9, SMT
    <3> QED  BY <2>1, <3>1, <3>2, SMT DEF LineInv
  <2>4. Counted'  BY <1>7, <1>9, <2>1, <2>2, SMT DEF Counted
  <2>5. Loads!GiveBack(c)  BY <1>9, <2>1, <2>2, Zenon DEF Loads!GiveBack, Holders
  <2> QED  BY <2>1, <2>3, <2>4, <2>5 DEF PermitInv, PermitType
<1>10. CASE w # <<>>
  <2> DEFINE h == Head(w)
             v == Tail(w)
  <2>1. /\ sem' \in Semaphores /\ sem.currentCount' = n
        /\ sem.waitQueue' = v /\ sem.completed' = (d \ {c}) \cup {h}
    BY <1>7, <1>10, ReleaseEffect
  <2>2. h = w[1] /\ 1 \in 1 .. Len(w) /\ h \in Calls
    BY <1>1, <1>10, HeadTailProperties, EmptySeq, SMT
  <2>3. h \in Lined /\ h \notin d /\ h \notin Searching /\ h # c
    BY <1>2, <1>8, <1>c, <2>2, Zenon
  <2>4. /\ \A i \in 1 .. Len(v) : i + 1 \in 1 .. Len(w) /\ v[i] = w[i + 1] /\ v[i] # h
        /\ \A i, j \in 1 .. Len(v) : v[i] = v[j] => i = j
    BY <1>1, <1>2, <1>10, TailLine
  <2> HIDE DEF h, v
  <2>5. Holders' = (Holders \ {c}) \cup {h}  BY <1>3, <2>1, <2>3, Zenon DEF Holders
  <2>6. Cardinality(Holders') = 1
    <3>1. (Holders \ {c}) \in SUBSET Calls /\ h \notin (Holders \ {c})
      BY <1>5, <2>3 DEF Holders
    <3>2. Cardinality((Holders \ {c}) \cup {h}) = Cardinality(Holders \ {c}) + 1
      BY <3>1, HolderCount
    <3> QED  BY <1>7, <2>5, <3>2, SMT
  <2>7. LineInv'
    <3>1. ((d \ {c}) \cup {h}) \subseteq Lined'  BY <1>2, <1>3, <2>3
    <3>2. \A i \in 1 .. Len(v) : v[i] \in Lined' /\ v[i] \notin ((d \ {c}) \cup {h})
      <4> SUFFICES ASSUME NEW i \in 1 .. Len(v)
                   PROVE  v[i] \in Lined' /\ v[i] \notin ((d \ {c}) \cup {h})
        OBVIOUS
      <4>1. i + 1 \in 1 .. Len(w) /\ v[i] = w[i + 1] /\ v[i] # h  BY <2>4
      <4>2. w[i + 1] \in Lined /\ w[i + 1] \notin d /\ w[i + 1] # c
        BY <1>2, <1>c, <4>1
      <4> QED  BY <1>3, <4>1, <4>2
    <3> QED  BY <2>1, <2>4, <3>1, <3>2 DEF LineInv
  <2>8. Counted'  BY <1>7, <2>1, <2>6, SMT DEF Counted
  <2>9. Loads!GiveBack(c)
    BY <1>10, <2>1, <2>5, Zenon DEF Loads!GiveBack, Holders, h, v
  <2> QED  BY <2>1, <2>7, <2>8, <2>9 DEF PermitInv, PermitType
<1> QED  BY <1>9, <1>10

\* The permits stay where they are.
LEMMA StayStep ==
  ASSUME PermitInv, sem' = sem, load' \in [Calls -> Loadings],
         Searching' = Searching, Lined' = Lined
  PROVE  PermitInv' /\ UNCHANGED <<Holders, sem.waitQueue>>
BY Zenon DEF PermitInv, PermitType, Counted, LineInv, Holders

\* The permit came to c, which begins to search.
LEMMA SearchStep ==
  ASSUME PermitInv, NEW c \in Calls, c \in Waiting, c \in sem.completed,
         sem' = resume(sem, c), load' \in [Calls -> Loadings], Moves(c, "searching")
  PROVE  PermitInv' /\ UNCHANGED <<Holders, sem.waitQueue>>
<1>1. /\ sem' \in Semaphores /\ sem.currentCount' = sem.currentCount
      /\ sem.waitQueue' = sem.waitQueue /\ sem.completed' = sem.completed \ {c}
  BY ResumeEffect DEF PermitInv, PermitType
<1>2. Searching' = Searching \cup {c} /\ Lined' = Lined \ {c}
  <2>1. /\ Waiting' = Waiting \ {c} /\ Searching' = Searching \cup {c}
        /\ GivenUp' = GivenUp \ {c}
    BY MovesEffect
  <2> QED  BY <2>1, Zenon DEF Lined
<1>3. Holders' = Holders  BY <1>1, <1>2, Zenon DEF Holders
<1>4. Counted'  BY <1>1, <1>3, Zenon DEF PermitInv, Counted
<1>5. LineInv'
  <2>1. /\ sem.completed \subseteq Lined
        /\ \A i \in 1 .. Len(sem.waitQueue) :
             sem.waitQueue[i] \in Lined /\ sem.waitQueue[i] \notin sem.completed
        /\ \A i, j \in 1 .. Len(sem.waitQueue) :
             sem.waitQueue[i] = sem.waitQueue[j] => i = j
    BY DEF PermitInv, LineInv
  <2>2. sem.completed' \subseteq Lined'  BY <1>1, <1>2, <2>1
  <2>3. \A i \in 1 .. Len(sem.waitQueue) :
          sem.waitQueue[i] \in Lined' /\ sem.waitQueue[i] \notin sem.completed'
    BY <1>1, <1>2, <2>1, Zenon
  <2> DEFINE w == sem.waitQueue
  <2>4. sem.waitQueue' = w  BY <1>1
  <2>5. /\ \A i \in 1 .. Len(w) : w[i] \in Lined' /\ w[i] \notin sem.completed'
        /\ \A i, j \in 1 .. Len(w) : w[i] = w[j] => i = j
    BY <2>1, <2>3
  <2> HIDE DEF w
  <2> QED  BY <2>2, <2>4, <2>5, Zenon DEF LineInv
<1> QED  BY <1>1, <1>3, <1>4, <1>5 DEF PermitInv, PermitType

-----------------------------------------------------------------------------
\* What is shown.

\* The first n pages of query q.
PagesOf(q, n) == [i \in 1 .. n |-> [query |-> q, page |-> i - 1]]

LEMMA OnePage ==
  ASSUME NEW q, NEW n \in Nat
  PROVE  /\ PagesOf(q, n) \o <<[query |-> q, page |-> n]>> = PagesOf(q, n + 1)
         /\ PagesOf(q, n) \o <<>> = PagesOf(q, n)
         /\ Len(PagesOf(q, n)) = n
         /\ <<>> = PagesOf(q, 0) /\ <<[query |-> q, page |-> 0]>> = PagesOf(q, 1)
<1> DEFINE p == [query |-> q, page |-> n]
           z == [query |-> q, page |-> 0]
           R == [query : {q}, page : Int]
<1>1. /\ PagesOf(q, n) \in Seq(R) /\ PagesOf(q, n + 1) \in Seq(R)
      /\ PagesOf(q, 0) \in Seq(R) /\ PagesOf(q, 1) \in Seq(R)
      /\ Len(PagesOf(q, n)) = n /\ Len(PagesOf(q, n + 1)) = n + 1
      /\ Len(PagesOf(q, 0)) = 0 /\ Len(PagesOf(q, 1)) = 1
  <2>1. ASSUME NEW k \in Nat  PROVE PagesOf(q, k) \in Seq(R) /\ Len(PagesOf(q, k)) = k
    <3>1. \A i \in 1 .. k : [query |-> q, page |-> i - 1] \in R  BY SMT
    <3> HIDE DEF R
    <3>2. PagesOf(q, k) \in [1 .. k -> R]  BY <3>1, Zenon DEF PagesOf
    <3> DEFINE u == PagesOf(q, k)
    <3> HIDE DEF u
    <3>3. u \in [1 .. k -> R]  BY <3>2 DEF u
    <3>4. u \in Seq(R) /\ Len(u) = k  BY <3>3, SMT
    <3> QED  BY <3>4 DEF u
  <2>2. n \in Nat /\ n + 1 \in Nat /\ 0 \in Nat /\ 1 \in Nat  BY SMT
  <2> HIDE DEF R
  <2> QED  BY <2>1, <2>2, Zenon
<1>2. p \in R /\ z \in R  BY SMT
<1>3. \A k \in Nat : \A i \in 1 .. k : PagesOf(q, k)[i] = [query |-> q, page |-> i - 1]
  BY Zenon DEF PagesOf
<1> HIDE DEF R, PagesOf
<1>4. PagesOf(q, n) \o <<p>> = PagesOf(q, n + 1)
  <2>1. <<p>> \in Seq(R) /\ Len(<<p>>) = 1 /\ <<p>>[1] = p  BY <1>2, SMT
  <2> DEFINE u == PagesOf(q, n) \o <<p>>
             v == PagesOf(q, n + 1)
  <2>2. /\ u \in Seq(R) /\ Len(u) = n + 1
        /\ \A i \in 1 .. n + 1 : u[i] = IF i <= n THEN PagesOf(q, n)[i] ELSE <<p>>[i - n]
    BY <1>1, <2>1, ConcatProperties, SMT
  <2>3. \A i \in 1 .. n + 1 : u[i] = v[i]
    <3> SUFFICES ASSUME NEW i \in 1 .. n + 1  PROVE u[i] = v[i]
      OBVIOUS
    <3>1. v[i] = [query |-> q, page |-> i - 1]
      <4>1. n + 1 \in Nat  BY SMT
      <4> QED  BY <1>3, <4>1
    <3>2. CASE i <= n
      <4>1. u[i] = PagesOf(q, n)[i] /\ i \in 1 .. n  BY <2>2, <3>2, SMT
      <4> QED  BY <1>3, <3>1, <4>1
    <3>3. CASE ~(i <= n)
      <4>1. i = n + 1 /\ i - n = 1 /\ i - 1 = n  BY <3>3, SMT
      <4>2. u[i] = p  BY <2>1, <2>2, <3>3, <4>1
      <4> QED  BY <3>1, <4>1, <4>2
    <3> QED  BY <3>2, <3>3
  <2> HIDE DEF u, v
  <2>4. u = v
    <3>1. v \in Seq(R) /\ Len(v) = n + 1  BY <1>1 DEF v
    <3> QED  BY <2>2, <2>3, <3>1, SeqEqual, SMT
  <2> QED  BY <2>4 DEF u, v
<1>5. PagesOf(q, n) \o <<>> = PagesOf(q, n)  BY <1>1, ConcatEmptySeq
<1>6. <<>> = PagesOf(q, 0)  BY <1>1, EmptySeq
<1>7. <<z>> = PagesOf(q, 1)
  <2>1. <<z>> \in Seq(R) /\ Len(<<z>>) = 1 /\ <<z>>[1] = z  BY <1>2, SMT
  <2>2. PagesOf(q, 1)[1] = z
    <3>1. 1 \in Nat /\ 1 \in 1 .. 1 /\ 1 - 1 = 0  BY SMT
    <3> QED  BY <1>3, <3>1
  <2>3. \A i \in 1 .. 1 : <<z>>[i] = PagesOf(q, 1)[i]  BY <2>1, <2>2, SMT
  <2> HIDE DEF z
  <2> QED  BY <1>1, <2>1, <2>3, SeqEqual, SMT
<1> QED  BY <1>1, <1>4, <1>5, <1>6, <1>7

-----------------------------------------------------------------------------
\* The actions: each keeps the invariant, and asks for the permit, gives it
\* back, or leaves it where it is.

Stays == UNCHANGED <<Holders, sem.waitQueue>>
Permits(c) == Loads!Ask(c) \/ Loads!GiveBack(c) \/ Stays

\* What is found extends the pages of the query shown by one or none.
LEMMA FoundPages ==
  ASSUME NEW q \in Queries, NEW k \in Nat, NEW next \in Found(q, k)
  PROVE  /\ next.next \in {-1, k + 1}
         /\ \/ next.results = <<>> /\ next.next = -1
            \/ next.results = <<[query |-> q, page |-> k]>>
BY SMT DEF Found

\* The marks of Overtake change no place.
LEMMA OvertakeEffect ==
  ASSUME load \in [Calls -> Loadings]
  PROVE  /\ Overtake \in [Calls -> Loadings]
         /\ \A d \in Calls : /\ Overtake[d].at = load[d].at
                             /\ Overtake[d].query = load[d].query
                             /\ d \in Searching => Overtake[d].overtaken
<1>1. ASSUME NEW d \in Calls
      PROVE  LET l == IF d \in Searching THEN [load[d] EXCEPT !.overtaken = TRUE]
                      ELSE load[d]
             IN  /\ l \in Loadings /\ l.at = load[d].at /\ l.query = load[d].query
                 /\ d \in Searching => l.overtaken
  <2>1. load[d] \in Loadings  BY <1>1
  <2> DEFINE m == load[d]
  <2>2. m \in Loadings  BY <2>1
  <2> HIDE DEF m
  <2>3. /\ [m EXCEPT !.overtaken = TRUE] \in Loadings
        /\ [m EXCEPT !.overtaken = TRUE].at = m.at
        /\ [m EXCEPT !.overtaken = TRUE].query = m.query
        /\ [m EXCEPT !.overtaken = TRUE].overtaken
    BY <2>2, Zenon DEF Loadings
  <2> QED  BY <2>2, <2>3, Zenon DEF m
<1> QED  BY <1>1, Zenon DEF Overtake

\* The call that asks, from a list of calls l with the places of load.
LEMMA AcquireMoves ==
  ASSUME PermitInv, NEW c \in Calls, load[c].at = "idle", NEW l \in [Calls -> Loadings],
         \A d \in Calls : l[d].at = load[d].at, Acquire(c, l)
  PROVE  /\ PermitInv' /\ Loads!Ask(c)
         /\ \A d \in Calls : d \in Searching' => /\ d \in Searching /\ load'[d] = l[d]
<1> DEFINE m == [l[c] EXCEPT !.at = "waiting"]
<1>1. m \in Loadings /\ m.at = "waiting"
  <2>1. "waiting" \in Steps  BY SMT DEF Steps
  <2> QED  BY <2>1, Zenon DEF Loadings
<1>2. sem' = acquire(sem, c) /\ load' = [l EXCEPT ![c] = m]  BY Zenon DEF Acquire
<1> HIDE DEF m
<1>3. /\ load' \in [Calls -> Loadings]
      /\ \A d \in Calls : load'[d] = IF d = c THEN m ELSE l[d]
  BY <1>1, <1>2, Zenon
<1>4. Moves(c, "waiting")  BY <1>1, <1>3, Zenon DEF Moves
<1>5. PermitInv' /\ Loads!Ask(c)  BY <1>2, <1>3, <1>4, AskStep
<1>6. ASSUME NEW d \in Calls, d \in Searching'
      PROVE  d \in Searching /\ load'[d] = l[d]
  <2>1. load'[d].at = "searching"  BY <1>6, Zenon DEF Searching
  <2>2. d # c  BY <1>1, <1>3, <2>1, SMT
  <2> QED  BY <1>3, <2>1, <2>2, Zenon DEF Searching
<1> QED  BY <1>5, <1>6

\* The call that ends and gives back.
LEMMA FinishMoves ==
  ASSUME PermitInv, NEW c \in Calls, c \in Holders, NEW s \in Semaphores,
         s.currentCount = sem.currentCount, s.waitQueue = sem.waitQueue,
         s.completed = sem.completed \ {c}, Finish(c, s)
  PROVE  /\ PermitInv' /\ Loads!GiveBack(c)
         /\ Searching' \subseteq Searching \ {c}
         /\ \A d \in Calls \ {c} : load'[d] = load[d]
<1>1. Idle \in Loadings /\ Idle.at = "idle"
  BY SearchAssumption, SMT DEF Idle, Loadings, Steps
<1>2. sem' = release(s) /\ load' = [load EXCEPT ![c] = Idle]  BY Zenon DEF Finish
<1>3. load \in [Calls -> Loadings]  BY DEF PermitInv, PermitType
<1>4. /\ load' \in [Calls -> Loadings]
      /\ \A d \in Calls : load'[d] = IF d = c THEN Idle ELSE load[d]
  BY <1>1, <1>2, <1>3, Zenon
<1>5. Moves(c, "idle")  BY <1>1, <1>4, Zenon DEF Moves
<1>6. PermitInv' /\ Loads!GiveBack(c)  BY <1>2, <1>4, <1>5, GiveBackStep
<1>7. Searching' = Searching \ {c}
  <2>1. "idle" # "searching"  BY SMT
  <2> QED  BY <1>5, <2>1, MovesEffect
<1> QED  BY <1>4, <1>6, <1>7, Zenon

\* With one permit there is one holder.
LEMMA OneHolder ==
  ASSUME PermitInv, NEW c \in Holders, NEW d \in Holders
  PROVE  c = d
<1> SUFFICES ASSUME c # d  PROVE FALSE  OBVIOUS
<1>1. Holders \in SUBSET Calls
  BY Zenon DEF PermitInv, PermitType, Semaphores, Holders, Searching
<1>2. Cardinality(Holders) \in Nat /\ Cardinality(Holders) <= 1
  BY <1>1, HolderCount DEF PermitInv, Counted
<1>3. /\ Cardinality(Holders \ {c}) = Cardinality(Holders) - 1
      /\ Cardinality(Holders \ {c}) \in Nat
  BY <1>1, HolderCount
<1>4. /\ Cardinality((Holders \ {c}) \ {d}) = Cardinality(Holders \ {c}) - 1
      /\ Cardinality((Holders \ {c}) \ {d}) \in Nat
  <2>1. Holders \ {c} \in SUBSET Calls /\ d \in Holders \ {c}
        /\ (Holders \ {c}) \ {d} \in SUBSET Calls
    BY <1>1
  <2> QED  BY <2>1, HolderCount
<1> QED  BY <1>2, <1>3, <1>4, SMT

\* A call that searches does not wait, so its permit is no longer to come.
LEMMA SearchesOn ==
  ASSUME PermitInv, NEW c \in Searching
  PROVE  c \in Calls /\ c \in Holders /\ sem.completed = sem.completed \ {c}
<1>1. c \in Calls /\ load[c].at = "searching"  BY DEF Searching
<1>2. c \notin Lined  BY <1>1, SMT DEF Lined, Waiting, GivenUp
<1>3. c \notin sem.completed  BY <1>2 DEF PermitInv, LineInv
<1> QED  BY <1>1, <1>3, Zenon DEF Holders

\* The results are in order when they are the first k pages of q, the next of
\* which is page k.
LEMMA NowShown ==
  ASSUME NEW q \in Queries, NEW k \in Nat, NEW n \in {-1, k},
         latestQuery' = [query |-> q, next |-> n], queryResult' = PagesOf(q, k)
  PROVE  latestQuery' \in Shown /\ ResultsInOrder'
<1>1. latestQuery' \in Shown  BY SMT DEF Shown
<1>2. latestQuery'.query = q /\ latestQuery'.next = n  BY Zenon
<1>3. Len(queryResult') = k  BY OnePage
<1>4. queryResult' = [i \in 1 .. k |-> [query |-> q, page |-> i - 1]]
  BY Zenon DEF PagesOf
<1>5. ResultsInOrder'  BY <1>2, <1>3, <1>4, Zenon DEF ResultsInOrder
<1> QED  BY <1>1, <1>5

LEMMA StillShown ==
  ASSUME ShownInv, UNCHANGED shown, Searching' \subseteq Searching,
         \A d \in Searching' : load'[d] = load[d]
  PROVE  ShownInv'
<1>1. /\ latestQuery' = latestQuery /\ queryResult' = queryResult /\ mixed' = mixed
  BY Zenon DEF shown
<1>2. AskedInv'
  <2> SUFFICES ASSUME NEW d \in Searching'
               PROVE  /\ load'[d].query \in Queries
                      /\ ~load'[d].overtaken => /\ load'[d].query = latestQuery'.query
                                                /\ load'[d].offset = latestQuery'.next
    BY DEF AskedInv
  <2>1. d \in Searching /\ load'[d] = load[d]  OBVIOUS
  <2> QED  BY <1>1, <2>1, Zenon DEF ShownInv, AskedInv
<1>3. ResultsInOrder'  BY <1>1, Zenon DEF ShownInv, ResultsInOrder
<1> QED  BY <1>1, <1>2, <1>3, Zenon DEF ShownInv

LEMMA InitialFoundStep ==
  ASSUME IInv, InitialFound
  PROVE  IInv' /\ Stays
<1>1. load \in [Calls -> Loadings]  BY DEF IInv, PermitInv, PermitType
<1>2. sem' = sem /\ load' = Overtake /\ mixed' = FALSE  BY Zenon DEF InitialFound
<1>3. /\ Waiting' = Waiting /\ Searching' = Searching /\ GivenUp' = GivenUp
  BY <1>1, <1>2, OvertakeEffect, Zenon DEF Waiting, Searching, GivenUp
<1>4. PermitInv' /\ Stays
  <2>1. Lined' = Lined  BY <1>3, Zenon DEF Lined
  <2>2. load' \in [Calls -> Loadings]  BY <1>1, <1>2, OvertakeEffect
  <2> QED  BY <1>2, <1>3, <2>1, <2>2, StayStep DEF IInv, Stays
<1>5. AskedInv'
  <2> SUFFICES ASSUME NEW d \in Searching
               PROVE  load'[d].query \in Queries /\ load'[d].overtaken
    BY <1>3, Zenon DEF AskedInv
  <2>1. d \in Calls /\ load[d].query \in Queries
    BY DEF Searching, IInv, ShownInv, AskedInv
  <2> QED  BY <1>1, <1>2, <2>1, OvertakeEffect
<1>6. latestQuery' \in Shown /\ ResultsInOrder'
  <2>1. PICK next \in Found(Everything, 0) :
          /\ latestQuery' = [query |-> Everything, next |-> next.next]
          /\ queryResult' = next.results
    BY Zenon DEF InitialFound
  <2>2. Everything \in Queries /\ 0 \in Nat /\ 1 \in Nat /\ 0 + 1 = 1
    BY SearchAssumption, SMT
  <2>3. /\ next.next \in {-1, 0 + 1}
        /\ \/ next.results = <<>> /\ next.next = -1
           \/ next.results = <<[query |-> Everything, page |-> 0]>>
    BY <2>2, FoundPages
  <2>4. CASE next.results = <<>> /\ next.next = -1
    <3>1. queryResult' = PagesOf(Everything, 0) /\ next.next \in {-1, 0}
      BY <2>1, <2>2, <2>4, OnePage
    <3> QED  BY <2>1, <2>2, <3>1, NowShown
  <2>5. CASE next.results = <<[query |-> Everything, page |-> 0]>>
    <3>1. queryResult' = PagesOf(Everything, 1) /\ next.next \in {-1, 1}
      BY <2>1, <2>2, <2>3, <2>5, OnePage
    <3> QED  BY <2>1, <2>2, <3>1, NowShown
  <2> QED  BY <2>3, <2>4, <2>5
<1> QED  BY <1>2, <1>4, <1>5, <1>6, Zenon DEF IInv, ShownInv

LEMMA NewSearchStep ==
  ASSUME IInv, NEW c \in Calls, NEW q \in Queries, NewSearch(c, q)
  PROVE  IInv' /\ Permits(c)
<1>1. load \in [Calls -> Loadings]  BY DEF IInv, PermitInv, PermitType
<1>2. /\ load[c].at = "idle" /\ latestQuery' = [query |-> q, next |-> 0]
      /\ queryResult' = <<>> /\ mixed' = FALSE /\ Acquire(c, Overtake)
  BY Zenon DEF NewSearch
<1>3. /\ PermitInv' /\ Loads!Ask(c)
      /\ \A d \in Calls : d \in Searching' => d \in Searching /\ load'[d] = Overtake[d]
  BY <1>1, <1>2, OvertakeEffect, AcquireMoves DEF IInv
<1>4. AskedInv'
  <2> SUFFICES ASSUME NEW d \in Searching'
               PROVE  load'[d].query \in Queries /\ load'[d].overtaken
    BY Zenon DEF AskedInv
  <2>1. d \in Calls  BY DEF Searching
  <2>2. d \in Searching /\ load'[d] = Overtake[d]  BY <1>3, <2>1
  <2>3. load[d].query \in Queries  BY <2>2 DEF IInv, ShownInv, AskedInv
  <2> QED  BY <1>1, <2>1, <2>2, <2>3, OvertakeEffect
<1>5. latestQuery' \in Shown /\ ResultsInOrder'
  <2>1. 0 \in Nat /\ 0 \in {-1, 0}  BY SMT
  <2>2. queryResult' = PagesOf(q, 0)  BY <1>2, <2>1, OnePage
  <2> QED  BY <1>2, <2>1, <2>2, NowShown
<1> QED  BY <1>2, <1>3, <1>4, <1>5, Zenon DEF IInv, ShownInv, Permits

LEMMA LoadMoreStep ==
  ASSUME IInv, NEW c \in Calls, LoadMore(c)
  PROVE  IInv' /\ Permits(c)
<1>1. load \in [Calls -> Loadings]  BY DEF IInv, PermitInv, PermitType
<1>2. load[c].at = "idle" /\ Acquire(c, load) /\ UNCHANGED shown  BY Zenon DEF LoadMore
<1>3. /\ PermitInv' /\ Loads!Ask(c)
      /\ \A d \in Calls : d \in Searching' => d \in Searching /\ load'[d] = load[d]
  BY <1>1, <1>2, AcquireMoves DEF IInv
<1>4. Searching' \subseteq Searching /\ \A d \in Searching' : load'[d] = load[d]
  <2>1. \A d \in Searching' : d \in Calls  BY DEF Searching
  <2> QED  BY <1>3, <2>1
<1>5. ShownInv'  BY <1>2, <1>4, StillShown DEF IInv
<1> QED  BY <1>3, <1>5 DEF IInv, Permits

LEMMA GiveUpStep ==
  ASSUME IInv, NEW c \in Calls, GiveUp(c)
  PROVE  IInv' /\ Stays
<1> DEFINE m == [load[c] EXCEPT !.at = "gone"]
<1>1. load \in [Calls -> Loadings]  BY DEF IInv, PermitInv, PermitType
<1>2. c \in Waiting /\ load' = [load EXCEPT ![c] = m] /\ sem' = sem /\ UNCHANGED shown
  BY Zenon DEF GiveUp, shown
<1>3. m \in Loadings /\ m.at = "gone"
  <2>1. "gone" \in Steps /\ load[c] \in Loadings  BY <1>1, SMT DEF Steps
  <2> QED  BY <2>1, Zenon DEF Loadings
<1> HIDE DEF m
<1>4. /\ load' \in [Calls -> Loadings]
      /\ \A d \in Calls : load'[d] = IF d = c THEN m ELSE load[d]
  BY <1>1, <1>2, <1>3, Zenon
<1>5. Moves(c, "gone")  BY <1>3, <1>4, Zenon DEF Moves
<1>6. Searching' = Searching /\ Lined' = Lined /\ c \notin Searching
  <2>1. /\ Waiting' = Waiting \ {c} /\ Searching' = Searching \ {c}
        /\ GivenUp' = GivenUp \cup {c}
    BY <1>5, MovesEffect, SMT
  <2>2. c \notin Searching  BY <1>2, SMT DEF Searching, Waiting
  <2> QED  BY <1>2, <2>1, <2>2, Zenon DEF Lined
<1>7. PermitInv' /\ Stays  BY <1>2, <1>4, <1>6, StayStep DEF IInv, Stays
<1>8. ShownInv'
  <2>1. \A d \in Searching' : load'[d] = load[d]
    BY <1>4, <1>6, Zenon DEF Searching
  <2> QED  BY <1>2, <1>6, <2>1, StillShown DEF IInv
<1> QED  BY <1>7, <1>8 DEF IInv

LEMMA GrantedStep ==
  ASSUME IInv, NEW c \in Calls, Granted(c)
  PROVE  IInv' /\ Permits(c)
<1> DEFINE s == resume(sem, c)
           ended == queryEnd \/ latestQuery.next = -1 \/ latestQuery.query = NoQuery
           m == [at |-> "searching", query |-> latestQuery.query,
                 offset |-> latestQuery.next, late |-> FALSE, overtaken |-> FALSE]
<1>1. /\ load \in [Calls -> Loadings] /\ sem \in Semaphores /\ latestQuery \in Shown
  BY DEF IInv, PermitInv, PermitType, ShownInv
<1>2. /\ s \in Semaphores /\ s.currentCount = sem.currentCount
      /\ s.waitQueue = sem.waitQueue /\ s.completed = sem.completed \ {c}
  BY <1>1, ResumeEffect
<1>3. c \in Waiting /\ c \in sem.completed /\ c \in Holders /\ UNCHANGED shown
  BY Zenon DEF Granted, Holders
<1>4. CASE ended
  <2>1. Finish(c, s)  BY <1>4, Zenon DEF Granted
  <2> HIDE DEF s
  <2>2. /\ PermitInv' /\ Loads!GiveBack(c) /\ Searching' \subseteq Searching \ {c}
        /\ \A d \in Calls \ {c} : load'[d] = load[d]
    BY <1>2, <1>3, <2>1, FinishMoves DEF IInv
  <2>3. Searching' \subseteq Searching /\ \A d \in Searching' : load'[d] = load[d]
    BY <2>2 DEF Searching
  <2>4. ShownInv'  BY <1>3, <2>3, StillShown DEF IInv
  <2> QED  BY <2>2, <2>4 DEF IInv, Permits
<1>5. CASE ~ended
  <2>1. /\ sem' = s
        /\ load' = [d \in Calls |-> IF d = c THEN m
                                    ELSE [load[d] EXCEPT !.late = d \in Waiting]]
    BY <1>5, Zenon DEF Granted
  <2>2. latestQuery.query \in Queries /\ latestQuery.next \in Nat
    BY <1>1, <1>5, SMT DEF Shown
  <2>3. m \in Loadings /\ m.at = "searching"  BY <2>2, SMT DEF Loadings, Steps
  <2>4. ASSUME NEW d \in Calls
        PROVE  LET l == [load[d] EXCEPT !.late = d \in Waiting]
               IN  /\ l \in Loadings /\ l.at = load[d].at /\ l.query = load[d].query
                   /\ l.offset = load[d].offset /\ l.overtaken = load[d].overtaken
    <3> DEFINE k == load[d]
               b == d \in Waiting
    <3>1. k \in Loadings /\ b \in BOOLEAN  BY <1>1
    <3> HIDE DEF k, b
    <3>2. /\ [k EXCEPT !.late = b] \in Loadings
          /\ [k EXCEPT !.late = b].at = k.at
          /\ [k EXCEPT !.late = b].query = k.query
          /\ [k EXCEPT !.late = b].offset = k.offset
          /\ [k EXCEPT !.late = b].overtaken = k.overtaken
      BY <3>1, Zenon DEF Loadings
    <3> QED  BY <3>2, Zenon DEF k, b
  <2> HIDE DEF s
  <2>5. /\ load' \in [Calls -> Loadings] /\ load'[c] = m
        /\ \A d \in Calls \ {c} : /\ load'[d].at = load[d].at
                                  /\ load'[d].query = load[d].query
                                  /\ load'[d].offset = load[d].offset
                                  /\ load'[d].overtaken = load[d].overtaken
    <3> HIDE DEF m
    <3> QED  BY <2>1, <2>3, <2>4, Zenon
  <2>6. Moves(c, "searching")  BY <2>3, <2>5, Zenon DEF Moves
  <2>7. PermitInv' /\ Stays
    BY <1>3, <2>1, <2>5, <2>6, SearchStep DEF IInv, Stays, s
  <2>8. /\ m.query = latestQuery.query /\ m.offset = latestQuery.next
    OBVIOUS
  <2> HIDE DEF m
  <2>9. AskedInv'
    <3>1. Searching' = Searching \cup {c}  BY <2>6, MovesEffect
    <3>2. latestQuery' = latestQuery  BY <1>3, Zenon DEF shown
    <3> SUFFICES ASSUME NEW d \in Searching'
                 PROVE  /\ load'[d].query \in Queries
                        /\ ~load'[d].overtaken =>
                             /\ load'[d].query = latestQuery.query
                             /\ load'[d].offset = latestQuery.next
      BY <3>2, Zenon DEF AskedInv
    <3>3. CASE d = c  BY <2>2, <2>5, <2>8, <3>3, Zenon
    <3>4. CASE d # c
      <4>1. d \in Searching /\ d \in Calls \ {c}  BY <3>1, <3>4 DEF Searching
      <4>2. /\ load[d].query \in Queries
            /\ ~load[d].overtaken => /\ load[d].query = latestQuery.query
                                     /\ load[d].offset = latestQuery.next
        BY <4>1 DEF IInv, ShownInv, AskedInv
      <4> QED  BY <2>5, <4>1, <4>2, Zenon
    <3> QED  BY <3>3, <3>4
  <2>10. ShownInv'
    <3>1. /\ latestQuery' = latestQuery /\ queryResult' = queryResult /\ mixed' = mixed
      BY <1>3, Zenon DEF shown
    <3> QED  BY <2>9, <3>1, Zenon DEF IInv, ShownInv, ResultsInOrder
  <2> QED  BY <2>7, <2>10 DEF IInv, Permits
<1> QED  BY <1>4, <1>5

LEMMA AnsweredStep ==
  ASSUME IInv, NEW c \in Calls, Answered(c)
  PROVE  IInv' /\ Permits(c)
<1>1. /\ c \in Searching /\ Finish(c, sem) /\ mixed' = (mixed \/ load[c].overtaken)
  BY Zenon DEF Answered
<1>2. /\ load \in [Calls -> Loadings] /\ sem \in Semaphores /\ latestQuery \in Shown
      /\ mixed \in BOOLEAN
  BY DEF IInv, PermitInv, PermitType, ShownInv
<1>3. c \in Holders /\ sem.completed = sem.completed \ {c}
  BY <1>1, SearchesOn DEF IInv
<1>4. /\ PermitInv' /\ Loads!GiveBack(c) /\ Searching' \subseteq Searching \ {c}
  BY <1>1, <1>2, <1>3, FinishMoves DEF IInv
<1>5. Searching' = {}
  <2>1. \A d \in Searching : d = c
    BY <1>3, OneHolder DEF IInv, Holders
  <2> QED  BY <1>4, <2>1
<1>6. AskedInv'  BY <1>5, Zenon DEF AskedInv
<1> DEFINE q == load[c].query
           k == load[c].offset
<1>7. q \in Queries /\ k \in Nat /\ load[c].overtaken \in BOOLEAN
  BY <1>1, <1>2 DEF IInv, ShownInv, AskedInv, Loadings
<1>8. PICK next \in Found(q, k) :
        /\ latestQuery' = [latestQuery EXCEPT !.next = next.next]
        /\ queryResult' = queryResult \o next.results
  BY Zenon DEF Answered
<1>9. /\ next.next \in {-1, k + 1}
      /\ \/ next.results = <<>> /\ next.next = -1
         \/ next.results = <<[query |-> q, page |-> k]>>
  BY <1>7, FoundPages
<1>10. latestQuery' \in Shown
  <2> DEFINE n == next.next
  <2>1. n \in Nat \cup {-1}  BY <1>7, <1>9, SMT
  <2> HIDE DEF n
  <2>2. latestQuery' = [latestQuery EXCEPT !.next = n]  BY <1>8 DEF n
  <2> QED  BY <1>2, <2>1, <2>2, Zenon DEF Shown
<1>11. ResultsInOrder'
  <2>1. CASE mixed'  BY <2>1, Zenon DEF ResultsInOrder
  <2>2. CASE ~mixed'
    <3>1. ~mixed /\ ~load[c].overtaken  BY <1>1, <2>2, Zenon
    <3>2. q = latestQuery.query /\ k = latestQuery.next
      BY <1>1, <3>1 DEF IInv, ShownInv, AskedInv
    <3>3. /\ queryResult = PagesOf(q, Len(queryResult))
          /\ latestQuery.next \in {-1, Len(queryResult)}
      BY <3>1, <3>2, Zenon DEF IInv, ShownInv, ResultsInOrder, PagesOf
    <3>4. k = Len(queryResult)  BY <1>7, <3>2, <3>3, SMT
    <3>5. queryResult = PagesOf(q, k)  BY <3>3, <3>4
    <3>6. latestQuery' = [query |-> q, next |-> next.next]
      <4>1. latestQuery = [query |-> q, next |-> k]
        BY <1>2, <3>2, SMT DEF Shown
      <4> HIDE DEF q, k
      <4> QED  BY <1>8, <4>1, SMT
    <3> HIDE DEF q, k
    <3>7. CASE next.results = <<>> /\ next.next = -1
      <4>1. queryResult' = PagesOf(q, k)  BY <1>7, <1>8, <3>5, <3>7, OnePage
      <4> QED  BY <1>7, <3>6, <3>7, <4>1, NowShown
    <3>8. CASE next.results = <<[query |-> q, page |-> k]>>
      <4>1. queryResult' = PagesOf(q, k + 1)  BY <1>7, <1>8, <3>5, <3>8, OnePage
      <4>2. k + 1 \in Nat  BY <1>7, SMT
      <4> QED  BY <1>7, <1>9, <3>6, <4>1, <4>2, NowShown
    <3> QED  BY <1>9, <3>7, <3>8
  <2> QED  BY <2>1, <2>2
<1>12. mixed' \in BOOLEAN  BY <1>1, Zenon
<1> QED  BY <1>4, <1>6, <1>10, <1>11, <1>12 DEF IInv, ShownInv, Permits

LEMMA FailedStep ==
  ASSUME IInv, NEW c \in Calls, Failed(c)
  PROVE  IInv' /\ Permits(c)
<1>1. c \in Searching /\ Finish(c, sem) /\ UNCHANGED shown  BY Zenon DEF Failed
<1>2. c \in Holders /\ sem.completed = sem.completed \ {c} /\ sem \in Semaphores
  BY <1>1, SearchesOn DEF IInv, PermitInv, PermitType
<1>3. /\ PermitInv' /\ Loads!GiveBack(c) /\ Searching' \subseteq Searching \ {c}
      /\ \A d \in Calls \ {c} : load'[d] = load[d]
  BY <1>1, <1>2, FinishMoves DEF IInv
<1>4. Searching' \subseteq Searching /\ \A d \in Searching' : load'[d] = load[d]
  BY <1>3 DEF Searching
<1>5. ShownInv'  BY <1>1, <1>4, StillShown DEF IInv
<1> QED  BY <1>3, <1>5 DEF IInv, Permits

\* Nothing that the invariant speaks of changes.
LEMMA IdleStep ==
  ASSUME IInv, UNCHANGED <<shown, sem, load>>
  PROVE  IInv' /\ Stays
<1>1. UNCHANGED shown /\ sem' = sem /\ load' = load  BY Zenon
<1>2. /\ Waiting' = Waiting /\ Searching' = Searching /\ GivenUp' = GivenUp
  BY <1>1, Zenon DEF Waiting, Searching, GivenUp
<1>3. Lined' = Lined /\ load' \in [Calls -> Loadings]
  BY <1>1, <1>2, Zenon DEF Lined, IInv, PermitInv, PermitType
<1>4. PermitInv' /\ Stays  BY <1>1, <1>2, <1>3, StayStep DEF IInv, Stays
<1>5. ShownInv'  BY <1>1, <1>2, StillShown DEF IInv
<1> QED  BY <1>4, <1>5 DEF IInv

LEMMA SearchInit == Init => IInv /\ Loads!Init
<1> SUFFICES ASSUME Init  PROVE IInv /\ Loads!Init  OBVIOUS
<1>1. /\ latestQuery = [query |-> NoQuery, next |-> 0] /\ queryResult = <<>>
      /\ sem = [currentCount |-> 0, waitQueue |-> <<>>, completed |-> {}]
      /\ load = [c \in Calls |-> Idle] /\ mixed = FALSE
  BY Zenon DEF Init, NewSemaphore
<1>2. Idle \in Loadings /\ Idle.at = "idle"  BY SMT DEF Idle, Loadings, Steps
<1>3. PermitType
  <2>1. sem \in Semaphores  BY <1>1, SMT DEF Semaphores
  <2> QED  BY <1>1, <1>2, <2>1, Zenon DEF PermitType
<1>4. Searching = {} /\ sem.completed = {} /\ sem.waitQueue = <<>> /\ sem.currentCount = 0
  <2>1. \A c \in Calls : load[c].at = "idle"  BY <1>1, <1>2, Zenon
  <2> QED  BY <1>1, <2>1, SMT DEF Searching
<1>5. Holders = {}  BY <1>4, Zenon DEF Holders
<1>6. Counted
  <2>1. Cardinality({}) = 0  BY FS_EmptySet
  <2> QED  BY <1>4, <1>5, <2>1, SMT DEF Counted
<1>7. LineInv  BY <1>4, SMT DEF LineInv
<1>8. AskedInv  BY <1>4, Zenon DEF AskedInv
<1>9. latestQuery \in Shown  BY <1>1, SMT DEF Shown
<1>10. ResultsInOrder
  <2>1. Len(queryResult) = 0 /\ latestQuery.next = 0  BY <1>1, SMT
  <2>2. queryResult = PagesOf(latestQuery.query, 0)
    <3>1. 0 \in Nat  BY SMT
    <3> QED  BY <1>1, <3>1, OnePage
  <2> QED  BY <2>1, <2>2, Zenon DEF ResultsInOrder, PagesOf
<1>11. Loads!Init  BY <1>4, <1>5, Zenon DEF Loads!Init, Holders
<1> QED
  BY <1>1, <1>3, <1>6, <1>7, <1>8, <1>9, <1>10, <1>11, Zenon
     DEF IInv, PermitInv, ShownInv

LEMMA SearchNext ==
  ASSUME IInv, [Next]_vars
  PROVE  IInv' /\ (Stays \/ \E c \in Calls : Permits(c))
<1>1. CASE UNCHANGED vars
  <2>1. UNCHANGED <<shown, sem, load>>  BY <1>1, Zenon DEF vars, shown
  <2> QED  BY <2>1, IdleStep
<1>2. CASE BeginInitial \/ InitialFails \/ Scroll
  <2>1. UNCHANGED <<shown, sem, load>>
    BY <1>2, Zenon DEF BeginInitial, InitialFails, Scroll
  <2> QED  BY <2>1, IdleStep
<1>3. CASE InitialFound  BY <1>3, InitialFoundStep
<1>4. ASSUME NEW c \in Calls, Step(c)  PROVE IInv' /\ (Stays \/ Permits(c))
  <2>1. CASE LoadMore(c)  BY <2>1, LoadMoreStep
  <2>2. CASE GiveUp(c)  BY <2>2, GiveUpStep
  <2>3. CASE Granted(c)  BY <2>3, GrantedStep
  <2>4. CASE Answered(c)  BY <2>4, AnsweredStep
  <2>5. CASE Failed(c)  BY <2>5, FailedStep
  <2>6. ASSUME NEW q \in Queries, NewSearch(c, q)  PROVE IInv' /\ Permits(c)
    BY <2>6, NewSearchStep
  <2> QED  BY <1>4, <2>1, <2>2, <2>3, <2>4, <2>5, <2>6, Zenon DEF Step
<1> QED  BY <1>1, <1>2, <1>3, <1>4, Zenon DEF Next

LEMMA SearchInvariant == Spec => []IInv
<1>1. Init => IInv  BY SearchInit
<1>2. IInv /\ [Next]_vars => IInv'  BY SearchNext
<1> QED  BY <1>1, <1>2, PTL DEF Spec

-----------------------------------------------------------------------------
(***************************************************************************)
(* However calls wait, give up, fail or are overtaken by a new query, the  *)
(* page shows the first pages of its query, each once and in order, until  *)
(* the answer to a search that was overtaken has come in.                  *)
(***************************************************************************)
THEOREM ResultsInOrderCorrect == Spec => []ResultsInOrder
<1>1. IInv => ResultsInOrder  BY DEF IInv, ShownInv
<1> QED  BY <1>1, SearchInvariant, PTL

(***************************************************************************)
(* loadNextQuery takes and gives back its permit as Permits says, in the   *)
(* order in which the calls asked, and loses none: the refinement, with    *)
(* the calls that search or may begin to as the holders.                   *)
(***************************************************************************)
THEOREM PermitKeptCorrect == Spec => PermitKept
<1>1. Init => Loads!Init  BY SearchInit
<1>2. IInv /\ [Next]_vars => [Loads!Next]_(Loads!vars)
  <2> SUFFICES ASSUME IInv, [Next]_vars  PROVE [Loads!Next]_(Loads!vars)
    OBVIOUS
  <2>1. CASE Stays
    <3>1. Loads!vars' = Loads!vars  BY <2>1, Zenon DEF Stays, Holders, Loads!vars
    <3> QED  BY <3>1
  <2>2. ASSUME NEW c \in Calls, Permits(c)  PROVE [Loads!Next]_(Loads!vars)
    <3>1. CASE Stays
      <4>1. Loads!vars' = Loads!vars  BY <3>1, Zenon DEF Stays, Holders, Loads!vars
      <4> QED  BY <4>1
    <3>2. CASE Loads!Ask(c) \/ Loads!GiveBack(c)
      BY <3>2, Zenon DEF Loads!Next
    <3> QED  BY <2>2, <3>1, <3>2 DEF Permits
  <2> QED  BY <2>1, <2>2, SearchNext
<1> QED  BY <1>1, <1>2, SearchInvariant, PTL DEF Spec, PermitKept, Loads!Spec
=============================================================================
