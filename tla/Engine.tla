------------------------------- MODULE Engine -------------------------------
(***************************************************************************)
(* The life of the tun2http engine: the VPN service, in one Java thread,   *)
(* calls jni_init, jni_start, jni_stop and jni_done (tun2http.c), which    *)
(* start, stop and join a native thread that runs the loop of Sessions and *)
(* may end by itself when the tun device fails.  The two share thread_id,  *)
(* the pipe and the list of sessions.                                      *)
(*                                                                         *)
(* As in bionic, a thread's identifier is stored before the thread runs,   *)
(* and pthread_kill says of a thread that has exited that there is none.   *)
(***************************************************************************)
EXTENDS Sessions

CONSTANTS
  Threads,   \* bound: native threads at a time
  MaxPipe    \* bound: bytes in the pipe (65536 fit)

ASSUME EngineAssumption == 0 \notin Threads /\ MaxPipe \in Nat \ {0}

VARIABLES
  jni,        \* what the service is doing
  joined,     \* jni_stop: the thread it has read from thread_id
  thread_id,  \* 0 or a thread, which may have exited
  pc,         \* pc[t]: "none", "created", "loop" or "ending"
  pipe,       \* bytes in the pipe
  missed      \* has a thread ended by itself while it was stopped?

\* missed is not in the code; StopMeant is stated with it.

engine == <<jni, joined, thread_id, pc, pipe, missed>>

allVars == <<vars, engine>>

\* The life cycle's variables hold the values the calls give them.
EngineTypeOK ==
  /\ TypeOK
  /\ jni \in {"new", "idle", "write", "join"} /\ joined \in Threads \cup {0}
  /\ thread_id \in Threads \cup {0}
  /\ pc \in [Threads -> {"none", "created", "loop", "ending"}]
  /\ pipe \in 0 .. MaxPipe /\ missed \in BOOLEAN

EngineInit ==
  /\ Init
  /\ jni = "new" /\ joined = 0 /\ thread_id = 0
  /\ pc = [t \in Threads |-> "none"] /\ pipe = 0 /\ missed = FALSE

\* thread_id && pthread_kill(thread_id, 0) == 0
Running == thread_id # 0 /\ pc[thread_id] # "none"

-----------------------------------------------------------------------------
\* The service.

JniInit ==
  /\ jni = "new" /\ jni' = "idle"
  /\ pipe' = 0 /\ missed' = FALSE
  /\ UNCHANGED <<vars, joined, thread_id, pc>>

\* Mutant of JniStart: whether a thread is running is not tested.
JniStart_always ==
  /\ jni = "idle"
  /\ \E t \in Threads : /\ pc[t] = "none"
                        /\ pc' = [pc EXCEPT ![t] = "created"]
                        /\ thread_id' = t
  /\ UNCHANGED <<vars, jni, joined, pipe, missed>>

\* Nothing happens when a thread is running, or when there can be none.
JniStart ==
  /\ jni = "idle" /\ ~Running
  /\ \E t \in Threads : /\ pc[t] = "none"
                        /\ pc' = [pc EXCEPT ![t] = "created"]
                        /\ thread_id' = t
  /\ UNCHANGED <<vars, jni, joined, pipe, missed>>

\* Mutant of JniStop: whether the thread still runs is not tested.
JniStop_blind ==
  /\ jni = "idle" /\ thread_id # 0 /\ pipe < MaxPipe
  /\ jni' = "write" /\ joined' = thread_id
  /\ missed' = (missed \/ pc[thread_id] = "ending")
  /\ UNCHANGED <<vars, thread_id, pc, pipe>>

\* Nothing happens when no thread is running: the list is kept, too.
JniStop ==
  /\ jni = "idle" /\ Running /\ pipe < MaxPipe
  /\ jni' = "write" /\ joined' = thread_id
  /\ missed' = (missed \/ pc[thread_id] = "ending")
  /\ UNCHANGED <<vars, thread_id, pc, pipe>>

\* Mutant of WritePipe: one byte for the thread and one for the loop.
WritePipe_twice ==
  /\ jni = "write"
  /\ jni' = "join" /\ pipe' = pipe + 2
  /\ UNCHANGED <<vars, joined, thread_id, pc, missed>>

WritePipe ==
  /\ jni = "write"
  /\ jni' = "join" /\ pipe' = pipe + 1
  /\ UNCHANGED <<vars, joined, thread_id, pc, missed>>

\* Mutant of Join: the thread is not waited for.
Join_now ==
  /\ jni = "join" /\ jni' = "idle" /\ joined' = 0
  /\ ClearList
  /\ UNCHANGED <<thread_id, pc, pipe, missed>>

\* pthread_join returns, the list is freed.
Join ==
  /\ jni = "join" /\ pc[joined] = "none"
  /\ jni' = "idle" /\ joined' = 0
  /\ ClearList
  /\ UNCHANGED <<thread_id, pc, pipe, missed>>

\* Called by a service that has stopped the engine.
JniDone ==
  /\ jni = "idle" /\ ~Running
  /\ jni' = "new"
  /\ ClearList
  /\ UNCHANGED <<joined, thread_id, pc, pipe, missed>>

Service == JniInit \/ JniStart \/ JniStop \/ WritePipe \/ Join \/ JniDone

-----------------------------------------------------------------------------
\* The native thread.

Goes(t, from, to) == pc[t] = from /\ pc' = [pc EXCEPT ![t] = to]

ThreadBegins(t) ==
  /\ Goes(t, "created", "loop") /\ Start
  /\ UNCHANGED <<jni, joined, thread_id, pipe, missed>>

EndsByItself == missed' = (missed \/ jni \in {"write", "join"})

\* AttachCurrentThread fails: thread_id is left as it is.
AttachFails(t) ==
  /\ Goes(t, "created", "none") /\ EndsByItself
  /\ UNCHANGED <<vars, jni, joined, thread_id, pipe>>

\* Mutant of ReadPipe: the loop goes on.
ReadPipe_on(t) ==
  /\ pc[t] = "loop" /\ phase = "dispatch" /\ Pipe \in batch
  /\ pipe' = pipe - 1 /\ phase' = "round" /\ batch' = {}
  /\ UNCHANGED <<session, sockets, sessions, wait, resolvers>>
  /\ UNCHANGED <<jni, joined, thread_id, pc, missed>>

ReadPipe(t) ==
  /\ Goes(t, "loop", "ending") /\ Stop
  /\ pipe' = pipe - 1
  /\ UNCHANGED <<jni, joined, thread_id, missed>>

LoopFails(t) ==
  /\ Goes(t, "loop", "ending") /\ Break /\ EndsByItself
  /\ UNCHANGED <<jni, joined, thread_id, pipe>>

\* The last thing a thread does is to take itself out of thread_id.
ThreadEnds(t) ==
  /\ Goes(t, "ending", "none") /\ thread_id' = 0
  /\ UNCHANGED <<vars, jni, joined, pipe, missed>>

\* The loop finds in the pipe what is there.
PipeRead == phase = "poll" /\ phase' = "dispatch" => (Pipe \in batch' <=> pipe > 0)

LoopRuns == (Loop \/ HandleIp \/ Tick \/ Environment) /\ PipeRead /\ UNCHANGED engine

Native ==
  \E t \in Threads :
    ThreadBegins(t) \/ AttachFails(t) \/ ReadPipe(t) \/ LoopFails(t) \/ ThreadEnds(t)

EngineNext == Service \/ Native \/ LoopRuns

EngineSpec == EngineInit /\ [][EngineNext]_allVars

-----------------------------------------------------------------------------
(***************************************************************************)
(* The composition implements Sessions: the service frees the list only    *)
(* while no loop runs, and no loop begins before the last one has ended.   *)
(***************************************************************************)
SessionsSpec == Spec

(***************************************************************************)
(* Whoever runs the loop, or is about to, is the thread thread_id names:   *)
(* it can be stopped, and no other is started beside it.                   *)
(***************************************************************************)
LoopKnown ==
  \A t \in Threads : pc[t] \in {"created", "loop", "ending"} => thread_id = t

(***************************************************************************)
(* A thread reads a byte only while the service waits for it, unless a     *)
(* thread ended by itself while it was being stopped: the byte written for *)
(* that one is left in the pipe, and stops the next as soon as it runs.    *)
(***************************************************************************)
StopMeant ==
  [][ \A t \in Threads :
        ReadPipe(t) => missed \/ (jni = "join" /\ joined = t) ]_allVars

EngineFairness ==
  /\ WF_allVars((Round \/ RoundUnchecked) /\ UNCHANGED engine)
  /\ SF_allVars(Round /\ UNCHANGED engine)
  /\ SF_allVars(Tick /\ UNCHANGED engine)
  /\ WF_allVars(EpollWait /\ PipeRead /\ UNCHANGED engine)
  /\ WF_allVars(CheckSocket /\ UNCHANGED engine)
  /\ WF_allVars(TunReadable /\ UNCHANGED engine)
  /\ WF_allVars(TunEmpty /\ UNCHANGED engine)
  /\ WF_allVars(EndDispatch /\ UNCHANGED engine)
  /\ \A s \in Slots : SF_allVars(ResolverExits(s) /\ UNCHANGED engine)
  /\ \A t \in Threads : /\ WF_allVars(ThreadBegins(t)) /\ WF_allVars(ReadPipe(t))
                        /\ WF_allVars(ThreadEnds(t))
  /\ WF_allVars(WritePipe) /\ WF_allVars(Join)

FairEngineSpec == EngineSpec /\ EngineFairness

(***************************************************************************)
(* jni_stop returns: the thread it joins ends, whatever the sessions, the  *)
(* apps and the tun device do meanwhile, and even if it has already left   *)
(* its loop when the byte is written.  (Unless it waits in recv for the    *)
(* reply to a ping: see Blocked.)                                          *)
(***************************************************************************)
StopReturns == jni = "join" ~> jni = "idle" \/ Waits
=============================================================================
