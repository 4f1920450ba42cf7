----------------------------- MODULE Semaphore -----------------------------
(***************************************************************************)
(* The class Semaphore of lib/thread/semaphore.dart: a count of permits    *)
(* taken and a queue of the completers of those who wait.  A completer is  *)
(* named by the caller that awaits its future; completed holds the callers *)
(* whose future has completed and whose code has not run on yet, as it     *)
(* does in a microtask of its own.  Each method is an operator from        *)
(* semaphore to semaphore.                                                 *)
(***************************************************************************)
EXTENDS Naturals, Sequences

CONSTANT maxCount

ASSUME MaxCountAssumption == maxCount \in Nat \ {0}

\* currentCount and waitQueue are private in the code (_currentCount).
NewSemaphore == [currentCount |-> 0, waitQueue |-> <<>>, completed |-> {}]

\* Mutant of acquire: the permits are counted before the new one.
acquire_late(s, c) ==
  IF s.currentCount <= maxCount
  THEN [s EXCEPT !.currentCount = @ + 1, !.completed = @ \cup {c}]
  ELSE [s EXCEPT !.waitQueue = Append(@, c)]

acquire(s, c) ==
  IF s.currentCount + 1 <= maxCount
  THEN [s EXCEPT !.currentCount = @ + 1, !.completed = @ \cup {c}]
  ELSE [s EXCEPT !.waitQueue = Append(@, c)]

\* Mutant of release: the permit handed to the waiter is not counted.
release_uncounted(s) ==
  IF s.waitQueue = <<>>
  THEN [s EXCEPT !.currentCount = @ - 1]
  ELSE [s EXCEPT !.currentCount = @ - 1, !.waitQueue = Tail(@),
                 !.completed = @ \cup {Head(s.waitQueue)}]

\* Mutant of release: nobody is woken.
release_alone(s) == [s EXCEPT !.currentCount = @ - 1]

\* The permit goes to the first waiter, if there is one.
release(s) ==
  IF s.waitQueue = <<>>
  THEN [s EXCEPT !.currentCount = @ - 1]
  ELSE [s EXCEPT !.waitQueue = Tail(@), !.completed = @ \cup {Head(s.waitQueue)}]

\* The await of c's future returns.
resume(s, c) == [s EXCEPT !.completed = @ \ {c}]
=============================================================================
