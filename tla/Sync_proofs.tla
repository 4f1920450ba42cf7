---------------------------- MODULE Sync_proofs ----------------------------
(***************************************************************************)
(* Proofs about the synchronisation for any records, any publications and  *)
(* any number of them: synclatest never runs ahead of the database.        *)
(*                                                                         *)
(* This is not inductive: that the mark may follow the transaction depends *)
(* on the chunks that are left being all there are between synclatest and  *)
(* the newest of them, and on the process being where the chunk has been   *)
(* applied; that it may follow the download, on the database being the     *)
(* snapshot still, of the type the download page was given.  ChunkInv and  *)
(* DbInv say so.                                                           *)
(***************************************************************************)
EXTENDS Sync, FiniteSetTheorems, SequenceTheorems, WellFoundedInduction, TLAPS

Apps == [at : Pages, chunks : Seq(Nat), i : Nat, latestDB : Nat, firstSync : BOOLEAN,
         chunkRequire : BOOLEAN, broken : SUBSET Nat, databaseDecompressed : BOOLEAN,
         dbType : Types \cup {NoDb}, isSync : BOOLEAN]

Prefs == [exists : BOOLEAN, own : BOOLEAN, databasetype : Types \cup {NoDb},
          databasesync : 0 .. Len(log), synclatest : 0 .. Len(log)]

SyncType ==
  /\ log \in Seq(SUBSET Records) /\ Len(log) \in Times /\ IsDb(1)
  /\ db \in [Records -> Absent .. MaxTime] \cup {NoDb} /\ torn \in BOOLEAN
  /\ prefs \in Prefs
  /\ app \in Apps /\ app.latestDB <= Len(log)

\* The list of chunks is newest first, and is gone through once.
ListInv ==
  /\ app.chunks \in Seq(1 .. Len(log))
  /\ \A m, n \in 1 .. Len(app.chunks) : m < n => app.chunks[m] > app.chunks[n]
  /\ app.i <= Len(app.chunks)
  /\ app.at \notin {"apply", "mark"} => app.i = 0
  /\ app.at = "mark" => app.i < Len(app.chunks)

\* The chunks that are not done yet.
Left == { app.chunks[n] : n \in 1 .. Len(app.chunks) - app.i }

\* They are the chunks between synclatest and the newest of the list.
ChunkInv ==
  /\ app.at \in {"off", "splash"} => ~app.chunkRequire
  /\ app.at \in {"fetch", "apply", "mark"} =>
       /\ app.chunks # <<>>
       /\ \A t \in Left : t > prefs.synclatest
       /\ \A t \in 1 .. app.chunks[1] : t > prefs.synclatest /\ ~IsDb(t) => t \in Left

\* What the next write to the preferences relies on.
DbInv ==
  /\ app.at = "mark" =>
       LET t == Oldest(app.chunks, app.i)
       IN  /\ prefs.databasetype \in Types /\ db \in [Records -> Absent .. MaxTime]
           /\ \A r \in log[t] \cap prefs.databasetype : db[r] = t
  /\ app.at \in {"replace", "rename", "exists", "path", "type", "databasesync", "synclatest"} =>
       app.dbType \in Types
  /\ app.at \in {"exists", "path"} /\ prefs.own => db = Snapshot(app.latestDB, app.dbType)
  /\ app.at \in {"type", "databasesync", "synclatest"} =>
       db = Snapshot(app.latestDB, app.dbType)
  /\ app.at \in {"databasesync", "synclatest"} => prefs.databasetype = app.dbType

\* A database that is not torn is of a type there is.
Known == db # NoDb /\ ~torn => prefs.databasetype \in Types

IInv == SyncType /\ ListInv /\ ChunkInv /\ DbInv /\ Known /\ Fresh

-----------------------------------------------------------------------------
\* Maxima and versions.

LEMMA MinExists ==
  ASSUME NEW T, T \subseteq Nat, T # {}
  PROVE  \E x \in T : \A y \in T : x <= y
<1>1. PICK x \in T : \A y \in T : ~ (<<y, x>> \in OpToRel(<, Nat))
  BY NatLessThanWellFounded, WFMin
<1>2. \A y \in T : ~ (y < x)
  BY <1>1 DEF OpToRel
<1>3. \A y \in T : x <= y
  BY <1>2
<1> QED  BY <1>3

LEMMA MaxOfBounded ==
  ASSUME NEW k \in Nat, NEW T, T \subseteq 0 .. k, T # {}
  PROVE  Max(T) \in T /\ \A y \in T : y <= Max(T)
<1> DEFINE D == { k - x : x \in T }
<1>1. \A x \in T : x \in 0 .. k /\ k - x \in Nat
  OBVIOUS
<1>2. D \subseteq Nat /\ D # {}
  BY <1>1
<1>3. PICK d \in D : \A y \in D : d <= y
  <2> HIDE DEF D
  <2> QED  BY <1>2, MinExists
<1>4. PICK x \in T : d = k - x
  BY <1>3
<1>5. \A y \in T : x >= y
  <2> SUFFICES ASSUME NEW y \in T  PROVE x >= y
    OBVIOUS
  <2>1. k - x <= k - y
    BY <1>3, <1>4
  <2> QED  BY <1>1, <2>1
<1>6. Max(T) \in T /\ \A y \in T : Max(T) >= y
  BY <1>4, <1>5 DEF Max
<1>7. \A x1, y1 \in 0 .. k : x1 >= y1 => y1 <= x1
  OBVIOUS
<1> QED  BY <1>6, <1>7

\* Version and Snapshot, of a log l.
V(l, r, t) == Max({0} \cup { s \in 1 .. t : r \in l[s] })
Snap(l, t, type) == [r \in Records |-> IF r \in type THEN V(l, r, t) ELSE Absent]
Has(l, d, type, t) == \A r \in type \ Excluded : d[r] >= V(l, r, t)

LEMMA SnapshotIs ==
  ASSUME NEW t, NEW type
  PROVE  Snapshot(t, type) = Snap(log, t, type)
BY DEF Snapshot, Snap, Version, V

LEMMA FreshIs ==
  Fresh <=> (db # NoDb /\ ~torn => Has(log, db, prefs.databasetype, prefs.synclatest))
BY DEF Fresh, Holds, Has, Version, V

LEMMA FreshNext ==
  Fresh' <=> (db' # NoDb /\ ~torn' => Has(log', db', prefs'.databasetype, prefs'.synclatest))
BY DEF Fresh, Holds, Has, Version, V

LEMMA VProps ==
  ASSUME NEW l, NEW r, NEW k \in Nat
  PROVE  /\ V(l, r, k) \in 0 .. k
         /\ V(l, r, k) # 0 => r \in l[V(l, r, k)]
         /\ \A s \in 1 .. k : r \in l[s] => s <= V(l, r, k)
<1> DEFINE T == {0} \cup { s \in 1 .. k : r \in l[s] }
<1>1. T \subseteq 0 .. k /\ T # {}
  OBVIOUS
<1>2. Max(T) \in T /\ \A y \in T : y <= Max(T)
  BY <1>1, MaxOfBounded
<1> QED  BY <1>2 DEF V

LEMMA VMono ==
  ASSUME NEW l, NEW r, NEW k \in Nat, NEW m \in Nat, k <= m
  PROVE  V(l, r, k) <= V(l, r, m)
<1>1. /\ V(l, r, k) \in 0 .. k /\ V(l, r, m) \in 0 .. m
      /\ V(l, r, k) # 0 => r \in l[V(l, r, k)]
      /\ \A s \in 1 .. m : r \in l[s] => s <= V(l, r, m)
  BY VProps
<1> DEFINE v == V(l, r, k)
<1> HIDE DEF v
<1>2. v \in 0 .. k /\ (v # 0 => r \in l[v])
  BY <1>1 DEF v
<1>3. v # 0 => v \in 1 .. m
  BY <1>2
<1> QED  BY <1>1, <1>2, <1>3 DEF v

LEMMA VAppend ==
  ASSUME NEW l \in Seq(SUBSET Records), NEW e \in SUBSET Records, NEW r, NEW k \in 0 .. Len(l)
  PROVE  V(Append(l, e), r, k) = V(l, r, k)
<1>1. \A s \in 1 .. k : Append(l, e)[s] = l[s]
  BY SMT
<1>2. { s \in 1 .. k : r \in Append(l, e)[s] } = { s \in 1 .. k : r \in l[s] }
  BY <1>1
<1> QED  BY <1>2 DEF V

\* Nothing is new in the lines of the log that do not hold the record.
LEMMA VSkip ==
  ASSUME NEW l, NEW r, NEW k \in Nat, NEW m \in Nat, k <= m,
         \A s \in k + 1 .. m : r \notin l[s]
  PROVE  V(l, r, m) <= V(l, r, k)
<1>1. /\ V(l, r, m) \in 0 .. m /\ V(l, r, k) \in 0 .. k
      /\ V(l, r, m) # 0 => r \in l[V(l, r, m)]
      /\ \A s \in 1 .. k : r \in l[s] => s <= V(l, r, k)
  BY VProps
<1> DEFINE v == V(l, r, m)
<1> HIDE DEF v
<1>2. v \in 0 .. m /\ (v # 0 => r \in l[v])
  BY <1>1 DEF v
<1>3. v # 0 => v \in 1 .. k
  BY <1>2
<1> QED  BY <1>1, <1>2, <1>3 DEF v

-----------------------------------------------------------------------------
\* Lists.

\* f lists S, the newest first.
Lists(f, S) == f \in [1 .. Cardinality(S) -> S]
               /\ \A m, n \in 1 .. Cardinality(S) : m < n => f[m] > f[n]

LEMMA ListExists ==
  ASSUME NEW S, S \subseteq Nat, IsFiniteSet(S)
  PROVE  \E f : Lists(f, S)
<1> DEFINE Bad == { n \in Nat : \E T : /\ T \subseteq Nat /\ IsFiniteSet(T) /\ Cardinality(T) = n
                                       /\ ~ \E f : Lists(f, T) }
<1>1. SUFFICES Bad = {}
  <2>1. Cardinality(S) \in Nat
    BY FS_CardinalityType
  <2> QED  BY <1>1, <2>1
<1>2. SUFFICES ASSUME Bad # {}  PROVE FALSE
  OBVIOUS
<1>3. PICK n \in Bad : \A y \in Bad : ~ (<<y, n>> \in OpToRel(<, Nat))
  <2>1. Bad \subseteq Nat
    OBVIOUS
  <2> HIDE DEF Bad
  <2> QED  BY <1>2, <2>1, NatLessThanWellFounded, WFMin
<1>4. PICK T : /\ T \subseteq Nat /\ IsFiniteSet(T) /\ Cardinality(T) = n /\ n \in Nat
               /\ ~ \E f : Lists(f, T)
  BY <1>3
<1>5. CASE T = {}
  <2>1. Cardinality(T) = 0
    BY <1>5, FS_EmptySet
  <2>2. Lists([i \in 1 .. 0 |-> 0], T)
    BY <2>1 DEF Lists
  <2> QED  BY <1>4, <2>2
<1>6. CASE T # {}
  <2> DEFINE m == CHOOSE x \in T : \A y \in T : x <= y
             U == T \ {m}
  <2>1. m \in T /\ \A y \in T : m <= y
    BY <1>4, <1>6, MinExists
  <2> HIDE DEF m
  <2>2. IsFiniteSet(U) /\ Cardinality(U) = n - 1 /\ n - 1 \in Nat /\ U \subseteq Nat
    <3>1. IsFiniteSet(U) /\ Cardinality(U) = Cardinality(T) - 1
      BY <1>4, <2>1, FS_RemoveElement
    <3>2. Cardinality(U) \in Nat /\ U \subseteq Nat
      BY <1>4, <3>1, FS_CardinalityType
    <3> QED  BY <1>4, <3>1, <3>2
  <2>3. n - 1 \notin Bad
    <3>1. n - 1 \in Bad => <<n - 1, n>> \in OpToRel(<, Nat)
      BY <1>4, <2>2 DEF OpToRel
    <3> QED  BY <1>3, <3>1
  <2>4. PICK f : Lists(f, U)
    BY <2>2, <2>3
  <2> DEFINE g == [i \in 1 .. n |-> IF i = n THEN m ELSE f[i]]
  <2>5. f \in [1 .. n - 1 -> U] /\ \A i, j \in 1 .. n - 1 : i < j => f[i] > f[j]
    BY <2>2, <2>4 DEF Lists
  <2>6. \A i \in 1 .. n : i # n => i \in 1 .. n - 1
    BY <1>4
  <2>7. \A i \in 1 .. n - 1 : f[i] \in T /\ f[i] # m /\ f[i] \in Nat /\ f[i] > m
    <3>1. \A y \in U : y \in T /\ y # m /\ y \in Nat /\ m \in Nat /\ y > m
      BY <1>4, <2>1
    <3> QED  BY <2>5, <3>1
  <2>8. g \in [1 .. n -> T]
    BY <2>1, <2>6, <2>7
  <2>9. ASSUME NEW i \in 1 .. n, NEW j \in 1 .. n, i < j
        PROVE  g[i] > g[j]
    <3>1. i \in 1 .. n - 1 /\ i # n
      BY <1>4, <2>9
    <3> QED  BY <2>5, <2>6, <2>7, <2>9, <3>1
  <2> HIDE DEF g
  <2>10. Lists(g, T)
    BY <1>4, <2>8, <2>9 DEF Lists
  <2> QED  BY <1>4, <2>10
<1> QED  BY <1>5, <1>6

LEMMA NewestFirstLists ==
  ASSUME NEW k \in Nat, NEW S, S \subseteq 1 .. k
  PROVE  /\ NewestFirst(S) \in Seq(1 .. k) /\ NewestFirst(S) \in Seq(Nat)
         /\ \A n \in 1 .. Len(NewestFirst(S)) : NewestFirst(S)[n] \in S
         /\ \A m, n \in 1 .. Len(NewestFirst(S)) :
              m < n => NewestFirst(S)[m] > NewestFirst(S)[n]
         /\ \A t \in S : \E n \in 1 .. Len(NewestFirst(S)) : NewestFirst(S)[n] = t
<1> DEFINE c == Cardinality(S)
           f == NewestFirst(S)
<1>1. IsFiniteSet(S) /\ c \in Nat /\ S \subseteq Nat
  <2>1. IsFiniteSet(1 .. k)
    BY FS_Interval
  <2>2. IsFiniteSet(S)
    BY <2>1, FS_Subset
  <2>3. S \subseteq Nat
    OBVIOUS
  <2> QED  BY <2>2, <2>3, FS_CardinalityType
<1>2. PICK g : Lists(g, S)
  BY <1>1, ListExists
<1>3. Lists(f, S)
  <2>1. \E h \in [1 .. c -> S] : \A m, n \in DOMAIN h : m < n => h[m] > h[n]
    BY <1>2 DEF Lists
  <2>2. f \in [1 .. c -> S] /\ \A m, n \in DOMAIN f : m < n => f[m] > f[n]
    BY <2>1 DEF NewestFirst
  <2> QED  BY <2>2 DEF Lists
<1> HIDE DEF c, f
<1>4. f \in [1 .. c -> S] /\ \A m, n \in 1 .. c : m < n => f[m] > f[n]
  BY <1>3 DEF Lists, c
<1>5. f \in Seq(1 .. k) /\ f \in Seq(Nat) /\ Len(f) = c
  <2>1. f \in [1 .. c -> 1 .. k] /\ f \in [1 .. c -> Nat]
    BY <1>1, <1>4
  <2> QED  BY <1>1, <2>1
<1>6. f \in Injection(1 .. c, S)
  <2>1. ASSUME NEW m \in 1 .. c, NEW n \in 1 .. c, f[m] = f[n]
        PROVE  m = n
    <3>1. m \in Int /\ n \in Int
      BY <1>1
    <3>2. f[m] \in S
      BY <1>4
    <3>3. f[m] \in Nat
      BY <1>1, <3>2
    <3>4. ~ (m < n) /\ ~ (n < m)
      BY <1>4, <2>1, <3>3
    <3> QED  BY <3>1, <3>4
  <2> QED  BY <1>4, <2>1 DEF Injection, IsInjective
<1>7. f \in Surjection(1 .. c, S)
  <2>1. Cardinality(1 .. c) = c
    BY <1>1, FS_Interval
  <2> QED  BY <1>1, <1>6, <2>1, FS_Injection DEF c
<1>8. \A t \in S : \E n \in 1 .. c : f[n] = t
  BY <1>7 DEF Surjection
<1> QED  BY <1>4, <1>5, <1>8 DEF f

-----------------------------------------------------------------------------
\* Steps. A step of the process changes where it is.

LEMMA GotoEffect ==
  ASSUME app \in Apps, NEW p \in Pages, goto(p)
  PROVE  /\ app' \in Apps /\ app'.at = p /\ app'.chunks = app.chunks /\ app'.i = app.i
         /\ app'.latestDB = app.latestDB /\ app'.chunkRequire = app.chunkRequire
         /\ app'.dbType = app.dbType
BY DEF goto, Apps

\* The other fields of Apps.
LEMMA AppFields ==
  ASSUME app \in Apps
  PROVE  /\ app.at \in Pages /\ app.chunks \in Seq(Nat) /\ app.i \in Nat
         /\ app.latestDB \in Nat /\ app.chunkRequire \in BOOLEAN
         /\ app.dbType \in Types \cup {NoDb}
BY DEF Apps

\* The list and the log are as they were.
SameLists == log' = log /\ app'.chunks = app.chunks /\ app'.i = app.i

LEMMA SameLeft == ASSUME SameLists  PROVE Left' = Left
BY DEF SameLists, Left

LEMMA SameDb == ASSUME log' = log, NEW t  PROVE IsDb(t)' = IsDb(t)
BY DEF IsDb

\* The database is fresh after a step that keeps it and what it is compared to.
LEMMA FreshStep ==
  ASSUME IInv, log' = log, db' = db \/ db' = NoDb, torn' = torn,
         prefs'.synclatest = prefs.synclatest, prefs'.databasetype = prefs.databasetype
  PROVE  Fresh' /\ Known'
<1>1. Fresh /\ Known
  BY DEF IInv
<1>2. CASE db' = db
  BY <1>1, <1>2, FreshIs, FreshNext DEF Known
<1>3. CASE db' = NoDb
  BY <1>3 DEF Fresh, Known
<1> QED  BY <1>2, <1>3

\* A database that is no older than synclatest and of databasetype is fresh.
LEMMA SnapHas ==
  ASSUME NEW l, NEW t \in Nat, NEW u \in Nat, u <= t, NEW type \in Types
  PROVE  Has(l, Snap(l, t, type), type, u)
<1> SUFFICES ASSUME NEW r \in type \ Excluded
             PROVE  Snap(l, t, type)[r] >= V(l, r, u)
  BY DEF Has
<1>1. Snap(l, t, type)[r] = V(l, r, t)
  BY SyncAssumption DEF Snap
<1>2. V(l, r, u) <= V(l, r, t) /\ V(l, r, u) \in 0 .. u /\ V(l, r, t) \in 0 .. t
  BY VMono, VProps
<1> QED  BY <1>1, <1>2

LEMMA SnapType ==
  ASSUME NEW l, NEW t \in 0 .. MaxTime, NEW type
  PROVE  Snap(l, t, type) \in [Records -> Absent .. MaxTime]
<1>1. MaxTime \in Nat /\ t \in Nat
  BY SyncAssumption
<1>2. ASSUME NEW r \in Records
      PROVE  (IF r \in type THEN V(l, r, t) ELSE Absent) \in Absent .. MaxTime
  <2>1. V(l, r, t) \in 0 .. t
    BY <1>1, VProps
  <2> QED  BY <1>1, <2>1 DEF Absent
<1> QED  BY <1>2 DEF Snap

\* Another database comes.
LEMMA ReplacedStep ==
  ASSUME IInv, NEW t \in 0 .. Len(log), NEW type \in Types, Replaced(t, type), log' = log,
         prefs'.synclatest = prefs.synclatest, prefs'.databasetype = prefs.databasetype
  PROVE  /\ Fresh' /\ Known' /\ torn' \in BOOLEAN /\ db' = Snap(log, t, type)
         /\ db' \in [Records -> Absent .. MaxTime]
<1>1. /\ Len(log) \in 1 .. MaxTime /\ MaxTime \in Nat /\ prefs.synclatest \in 0 .. Len(log)
  BY SyncAssumption DEF IInv, SyncType, Prefs, Times
<1>2. db' = Snap(log, t, type)
  BY SnapshotIs DEF Replaced
<1>3. torn' \in BOOLEAN
  BY DEF Replaced
<1>4. db' \in [Records -> Absent .. MaxTime]
  <2>1. t \in 0 .. MaxTime
    BY <1>1
  <2>2. Snap(log, t, type) \in [Records -> Absent .. MaxTime]
    BY <2>1, SnapType
  <2> QED  BY <1>2, <2>2
<1>5. ~torn' => ~ (t < prefs.synclatest) /\ type = prefs.databasetype
  BY Zenon DEF Replaced
<1>6. ~torn' => Has(log', db', prefs'.databasetype, prefs'.synclatest)
  BY <1>1, <1>2, <1>5, SnapHas
<1>7. Fresh' /\ Known'
  BY <1>5, <1>6, FreshNext DEF Known
<1> QED  BY <1>2, <1>3, <1>4, <1>7

\* Steps of the process elsewhere than in the synchronisation.
LEMMA GoStep ==
  ASSUME IInv, log' = log, db' = db \/ db' = NoDb, torn' = torn,
         prefs' = prefs \/ prefs' = [prefs EXCEPT !.exists = TRUE],
         app' \in Apps, app'.chunks = app.chunks \/ app'.chunks = <<>>, app'.i = 0,
         app'.latestDB = app.latestDB \/ app'.latestDB = 0,
         app'.chunkRequire = app.chunkRequire \/ app'.chunkRequire = FALSE,
         app'.at \notin {"off", "fetch", "apply", "mark", "exists", "path", "type",
                        "databasesync", "synclatest"},
         app'.at = "splash" => app'.chunkRequire = FALSE,
         app'.at \in {"replace", "rename"} => app'.dbType \in Types
  PROVE  IInv'
<1>1. /\ prefs \in Prefs /\ prefs' \in Prefs /\ prefs'.synclatest = prefs.synclatest
      /\ prefs'.databasetype = prefs.databasetype /\ Len(log) \in Nat
      /\ app.latestDB \in Nat /\ app.latestDB <= Len(log)
  <2>1. /\ prefs \in Prefs /\ Len(log) \in Nat /\ app \in Apps /\ app.latestDB <= Len(log)
    BY DEF IInv, SyncType
  <2>2. app.latestDB \in Nat
    BY <2>1, AppFields
  <2>3. /\ prefs' \in Prefs /\ prefs'.synclatest = prefs.synclatest
        /\ prefs'.databasetype = prefs.databasetype
    BY <2>1 DEF Prefs
  <2> QED  BY <2>1, <2>2, <2>3
<1>2. SyncType'
  <2>1. Prefs' = Prefs
    BY DEF Prefs
  <2> QED  BY <1>1, <2>1 DEF IInv, SyncType, IsDb
<1>3. ListInv'
  <2>1. app'.chunks \in Seq(1 .. Len(log))
    <3>1. app.chunks \in Seq(1 .. Len(log))
      BY DEF IInv, ListInv
    <3>2. \A S : <<>> \in Seq(S)
      OBVIOUS
    <3> QED  BY <3>1, <3>2, Zenon
  <2>2. \A m, n \in 1 .. Len(app'.chunks) : m < n => app'.chunks[m] > app'.chunks[n]
    <3>1. CASE app'.chunks = app.chunks
      BY <3>1 DEF IInv, ListInv
    <3>2. CASE app'.chunks = <<>>
      BY <3>2
    <3> QED  BY <3>1, <3>2
  <2>3. Len(app'.chunks) \in Nat
    BY <2>1
  <2> QED  BY <2>1, <2>2, <2>3 DEF ListInv
<1>4. ChunkInv' /\ DbInv'
  BY DEF ChunkInv, DbInv
<1>5. Fresh' /\ Known'
  BY <1>1, FreshStep
<1> QED  BY <1>2, <1>3, <1>4, <1>5 DEF IInv

LEMMA StopStep == ASSUME IInv, Stop  PROVE IInv'
<1>1. /\ app' = NoProcess /\ log' = log /\ db' = db /\ prefs' = prefs /\ torn' = torn
  BY DEF Stop
<1>2. /\ NoProcess \in Apps /\ NoProcess.at = "off" /\ NoProcess.chunks = <<>>
      /\ NoProcess.i = 0 /\ NoProcess.latestDB = 0 /\ NoProcess.chunkRequire = FALSE
  BY DEF NoProcess, Apps, Pages
<1>3. SyncType'
  <2>1. Prefs' = Prefs
    BY <1>1 DEF Prefs
  <2> QED  BY <1>1, <1>2, <2>1 DEF IInv, SyncType, IsDb, Times
<1>4. ListInv'
  BY <1>1, <1>2 DEF ListInv
<1>5. ChunkInv' /\ DbInv'
  BY <1>1, <1>2 DEF ChunkInv, DbInv
<1>6. Fresh' /\ Known'
  BY <1>1, FreshStep
<1> QED  BY <1>3, <1>4, <1>5, <1>6 DEF IInv

\* The steps GoStep covers.
LEMMA GoSteps ==
  ASSUME IInv, \/ Start \/ CheckFails \/ SyncFails \/ Redownload \/ Switch \/ FirstDownload
               \/ PickFile \/ TestFails \/ FileExists \/ Unpack \/ DeleteData \/ DownloadFails
  PROVE  IInv'
<1>1. /\ app \in Apps /\ (app.at \notin {"apply", "mark"} => app.i = 0)
      /\ (app.at \in {"off", "splash"} => app.chunkRequire = FALSE)
      /\ app.chunkRequire \in BOOLEAN /\ (app.at = "replace" => app.dbType \in Types)
      /\ prefs \in Prefs
  BY AppFields DEF IInv, SyncType, ListInv, ChunkInv, DbInv
<1>2. CASE Start
  <2>1. /\ app.at = "off" /\ log' = log /\ db' = db /\ torn' = torn /\ prefs' = prefs
        /\ goto(IF prefs.exists THEN "splash" ELSE "choose")
    BY <1>2 DEF Start, goto
  <2>2. "splash" \in Pages /\ "choose" \in Pages
    BY DEF Pages
  <2>3. /\ app' \in Apps /\ app'.at \in {"splash", "choose"} /\ app'.chunks = app.chunks
        /\ app'.i = app.i /\ app'.latestDB = app.latestDB
        /\ app'.chunkRequire = app.chunkRequire
    BY <1>1, <2>1, <2>2, GotoEffect
  <2> QED  BY <1>1, <2>1, <2>3, GoStep
<1>3. CASE CheckFails
  <2> DEFINE next == IF app.at = "check" THEN "download" ELSE "main"
  <2>1. /\ app.at \in {"splash", "check"} /\ log' = log /\ db' = db /\ torn' = torn
        /\ prefs' = prefs
        /\ \/ goto(next)
           \/ app' = [app EXCEPT !.at = next, !.chunks = <<>>, !.latestDB = 0]
    BY <1>1, <1>3 DEF CheckFails
  <2>2. next \in Pages /\ next \in {"download", "main"}
    BY DEF Pages
  <2> HIDE DEF next
  <2>3. CASE goto(next)
    <3>1. /\ app' \in Apps /\ app'.at = next /\ app'.chunks = app.chunks
          /\ app'.i = app.i /\ app'.latestDB = app.latestDB
          /\ app'.chunkRequire = app.chunkRequire
      BY <1>1, <2>2, <2>3, GotoEffect
    <3> QED  BY <1>1, <2>1, <2>2, <3>1, GoStep
  <2>4. CASE app' = [app EXCEPT !.at = next, !.chunks = <<>>, !.latestDB = 0]
    <3>1. /\ app' \in Apps /\ app'.at = next /\ app'.chunks = <<>>
          /\ app'.i = app.i /\ app'.latestDB = 0 /\ app'.chunkRequire = app.chunkRequire
      <4> DEFINE none == <<>>
      <4>1. none \in Seq(Nat)
        OBVIOUS
      <4> HIDE DEF none
      <4>2. app' = [app EXCEPT !.at = next, !.chunks = none, !.latestDB = 0]
        BY <2>4 DEF none
      <4>3. /\ app' \in Apps /\ app'.at = next /\ app'.chunks = none
            /\ app'.i = app.i /\ app'.latestDB = 0 /\ app'.chunkRequire = app.chunkRequire
        BY <1>1, <2>2, <4>1, <4>2 DEF Apps
      <4> QED  BY <4>3 DEF none
    <3> QED  BY <1>1, <2>1, <2>2, <3>1, GoStep
  <2> QED  BY <2>1, <2>3, <2>4
<1>4. CASE SyncFails
  <2>1. /\ log' = log /\ db' = db /\ torn' = torn /\ prefs' = prefs
        /\ app' = [app EXCEPT !.at = "main", !.i = 0]
    BY <1>4 DEF SyncFails, EndSync
  <2>2. /\ app' \in Apps /\ app'.at = "main" /\ app'.chunks = app.chunks
        /\ app'.i = 0 /\ app'.latestDB = app.latestDB
        /\ app'.chunkRequire = app.chunkRequire
    BY <1>1, <2>1 DEF Apps, Pages
  <2> QED  BY <2>1, <2>2, GoStep
<1>5. CASE FirstDownload
  <2>1. PICK type \in Types \cup {NoDb} :
          /\ app.at = "choose" /\ log' = log /\ db' = NoDb /\ torn' = torn /\ prefs' = prefs
          /\ app' = [app EXCEPT !.at = "check", !.dbType = type, !.isSync = FALSE]
    BY <1>5 DEF FirstDownload
  <2>2. /\ app' \in Apps /\ app'.at = "check" /\ app'.chunks = app.chunks /\ app'.i = app.i
        /\ app'.latestDB = app.latestDB /\ app'.chunkRequire = app.chunkRequire
    BY <1>1, <2>1 DEF Apps, Pages
  <2> QED  BY <1>1, <2>1, <2>2, GoStep
<1>6. CASE Unpack
  <2>1. /\ app.at = "download" /\ log' = log /\ db' = db /\ torn' = torn /\ prefs' = prefs
        /\ app' = [app EXCEPT !.at = "replace", !.databaseDecompressed = TRUE]
        /\ app.dbType \in Types
    BY <1>6 DEF Unpack
  <2>2. /\ app' \in Apps /\ app'.at = "replace" /\ app'.dbType = app.dbType
        /\ app'.chunks = app.chunks /\ app'.i = app.i
        /\ app'.latestDB = app.latestDB /\ app'.chunkRequire = app.chunkRequire
    BY <1>1, <2>1 DEF Apps, Pages
  <2> QED  BY <1>1, <2>1, <2>2, GoStep
<1>7. CASE DeleteData
  <2>1. /\ app.at = "replace" /\ log' = log /\ db' = NoDb /\ torn' = torn /\ prefs' = prefs
        /\ goto("rename") /\ "rename" \in Pages
    BY <1>1, <1>7 DEF DeleteData, Pages
  <2>2. /\ app' \in Apps /\ app'.at = "rename" /\ app'.chunks = app.chunks
        /\ app'.i = app.i /\ app'.latestDB = app.latestDB
        /\ app'.chunkRequire = app.chunkRequire /\ app'.dbType = app.dbType
    BY <1>1, <2>1, GotoEffect
  <2> QED  BY <1>1, <2>1, <2>2, GoStep
<1>8. CASE DownloadFails
  <2> DEFINE next == IF app.isSync THEN "main" ELSE "page"
  <2>1. /\ app.at \in {"download", "replace", "rename"} /\ log' = log /\ db' = db
        /\ torn' = torn /\ prefs' = prefs /\ goto(next)
    BY <1>8 DEF DownloadFails
  <2>2. next \in Pages /\ next \in {"main", "page"}
    BY DEF Pages
  <2> HIDE DEF next
  <2>3. /\ app' \in Apps /\ app'.at = next /\ app'.chunks = app.chunks
        /\ app'.i = app.i /\ app'.latestDB = app.latestDB
        /\ app'.chunkRequire = app.chunkRequire
    BY <1>1, <2>1, <2>2, GotoEffect
  <2> QED  BY <1>1, <2>1, <2>2, <2>3, GoStep
<1>9. CASE Redownload
  <2>1. /\ app.at = "main" /\ log' = log /\ db' = NoDb /\ torn' = torn /\ prefs' = prefs
        /\ app' = [app EXCEPT !.at = "check", !.dbType = prefs.databasetype, !.isSync = TRUE]
    BY <1>9 DEF Redownload
  <2>2. prefs.databasetype \in Types \cup {NoDb}
    BY <1>1 DEF Prefs
  <2>3. /\ app' \in Apps /\ app'.at = "check" /\ app'.chunks = app.chunks /\ app'.i = app.i
        /\ app'.latestDB = app.latestDB /\ app'.chunkRequire = app.chunkRequire
    BY <1>1, <2>1, <2>2 DEF Apps, Pages
  <2> QED  BY <1>1, <2>1, <2>3, GoStep
<1>10. CASE PickFile
  <2>1. /\ app.at = "choose" /\ log' = log /\ db' = NoDb /\ torn' = torn /\ prefs' = prefs
        /\ goto("test") /\ "test" \in Pages
    BY <1>1, <1>10 DEF PickFile, Pages
  <2>2. /\ app' \in Apps /\ app'.at = "test" /\ app'.chunks = app.chunks
        /\ app'.i = app.i /\ app'.latestDB = app.latestDB
        /\ app'.chunkRequire = app.chunkRequire /\ app'.dbType = app.dbType
    BY <1>1, <2>1, GotoEffect
  <2> QED  BY <1>1, <2>1, <2>2, GoStep
<1>11. CASE TestFails
  <2>1. /\ app.at = "test" /\ log' = log /\ db' = db /\ torn' = torn /\ prefs' = prefs
        /\ goto("page") /\ "page" \in Pages
    BY <1>1, <1>11 DEF TestFails, Pages
  <2>2. /\ app' \in Apps /\ app'.at = "page" /\ app'.chunks = app.chunks
        /\ app'.i = app.i /\ app'.latestDB = app.latestDB
        /\ app'.chunkRequire = app.chunkRequire /\ app'.dbType = app.dbType
    BY <1>1, <2>1, GotoEffect
  <2> QED  BY <1>1, <2>1, <2>2, GoStep
<1>12. CASE FileExists
  <2>1. /\ app.at = "test" /\ log' = log /\ db' = db /\ torn' = torn /\ prefs' = [prefs EXCEPT !.exists = TRUE]
        /\ goto("file") /\ "file" \in Pages
    BY <1>1, <1>12 DEF FileExists, Pages
  <2>2. /\ app' \in Apps /\ app'.at = "file" /\ app'.chunks = app.chunks
        /\ app'.i = app.i /\ app'.latestDB = app.latestDB
        /\ app'.chunkRequire = app.chunkRequire /\ app'.dbType = app.dbType
    BY <1>1, <2>1, GotoEffect
  <2> QED  BY <1>1, <2>1, <2>2, GoStep
<1>13. CASE Switch
  <2>1. /\ app.at = "main" /\ log' = log /\ db' = db /\ torn' = torn /\ prefs' = prefs
        /\ goto("choose") /\ "choose" \in Pages
    BY <1>1, <1>13 DEF Switch, Pages
  <2>2. /\ app' \in Apps /\ app'.at = "choose" /\ app'.chunks = app.chunks
        /\ app'.i = app.i /\ app'.latestDB = app.latestDB
        /\ app'.chunkRequire = app.chunkRequire /\ app'.dbType = app.dbType
    BY <1>1, <2>1, GotoEffect
  <2> QED  BY <1>1, <2>1, <2>2, GoStep
<1> QED
  BY <1>2, <1>3, <1>4, <1>5, <1>6, <1>7, <1>8, <1>9, <1>10, <1>11, <1>12, <1>13

LEMMA PublishStep == ASSUME IInv, Publish  PROVE IInv'
<1>1. PICK e \in SUBSET Records :
        /\ Len(log) < MaxTime /\ log' = Append(log, e)
        /\ db' = db /\ prefs' = prefs /\ app' = app /\ torn' = torn
  BY DEF Publish
<1>2. log \in Seq(SUBSET Records) /\ Len(log) \in Nat /\ Len(log) >= 1 /\ MaxTime \in Nat
  BY SyncAssumption DEF IInv, SyncType, Times
<1>3. /\ log' \in Seq(SUBSET Records) /\ Len(log') = Len(log) + 1
      /\ \A t \in 1 .. Len(log) : log'[t] = log[t]
  BY <1>1, <1>2
<1>4. \A t \in 1 .. Len(log) : IsDb(t)' <=> IsDb(t)
  BY <1>3 DEF IsDb
<1>5. \A r : \A t \in 0 .. Len(log) : V(log', r, t) = V(log, r, t)
  BY <1>1, <1>2, VAppend
<1>6. /\ prefs.synclatest \in 0 .. Len(log) /\ app.latestDB \in 0 .. Len(log)
      /\ app \in Apps
  BY AppFields DEF IInv, SyncType, Prefs
<1>7. SyncType'
  <2>1. Len(log') \in Times
    BY <1>1, <1>2, <1>3 DEF Times
  <2>2. IsDb(1)'
    BY <1>2, <1>4 DEF IInv, SyncType
  <2>3. prefs' \in Prefs'
    <3>1. 0 .. Len(log) \subseteq 0 .. Len(log')
      BY <1>2, <1>3
    <3> QED  BY <1>1, <3>1 DEF IInv, SyncType, Prefs
  <2>4. app'.latestDB <= Len(log')
    BY <1>1, <1>2, <1>3, <1>6
  <2> QED  BY <1>1, <1>3, <2>1, <2>2, <2>3, <2>4 DEF IInv, SyncType
<1>8. ListInv'
  <2>1. app.chunks \in Seq(1 .. Len(log'))
    <3>1. \A z \in 1 .. Len(log) : z \in 1 .. Len(log')
      BY <1>2, <1>3
    <3>2. app.chunks \in Seq(1 .. Len(log))
      BY DEF IInv, ListInv
    <3> DEFINE q == app.chunks
               S == 1 .. Len(log)
               T == 1 .. Len(log')
    <3> HIDE DEF q, S, T
    <3>3. q \in Seq(S) /\ \A z \in S : z \in T
      BY <3>1, <3>2 DEF q, S, T
    <3>4. q \in Seq(T)
      BY <3>3
    <3> QED  BY <3>4 DEF q, T
  <2> QED  BY <1>1, <2>1 DEF IInv, ListInv
<1>9. ChunkInv'
  <2>1. Left' = Left
    BY <1>1 DEF Left
  <2>2. app.chunks # <<>> => app.chunks[1] \in 1 .. Len(log)
    BY DEF IInv, ListInv
  <2>3. app.chunks # <<>> => \A t \in 1 .. app.chunks[1] : IsDb(t)' <=> IsDb(t)
    BY <1>2, <1>4, <2>2
  <2> QED  BY <1>1, <2>1, <2>3 DEF IInv, ChunkInv
<1>10. DbInv'
  <2>1. app.at = "mark" => Oldest(app.chunks, app.i) \in 1 .. Len(log)
    <3>1. app.at = "mark" => Len(app.chunks) - app.i \in 1 .. Len(app.chunks)
      BY <1>6, AppFields DEF IInv, ListInv
    <3> QED  BY <3>1 DEF IInv, ListInv, Oldest
  <2>2. Snapshot(app.latestDB, app.dbType)' = Snapshot(app.latestDB, app.dbType)
    <3>1. Snap(log', app.latestDB, app.dbType) = Snap(log, app.latestDB, app.dbType)
      BY <1>5, <1>6 DEF Snap
    <3>2. Snapshot(app.latestDB, app.dbType)' = Snap(log', app'.latestDB, app'.dbType)
      BY DEF Snapshot, Version, Snap, V
    <3>3. Snapshot(app.latestDB, app.dbType) = Snap(log, app.latestDB, app.dbType)
      BY DEF Snapshot, Version, Snap, V
    <3> QED  BY <1>1, <3>1, <3>2, <3>3
  <2> QED  BY <1>1, <1>3, <2>1, <2>2 DEF IInv, DbInv
<1>11. Fresh' /\ Known'
  <2>1. Fresh /\ Known
    BY DEF IInv
  <2> DEFINE u == prefs.synclatest
             type == prefs.databasetype
  <2>2. Has(log, db, type, u) => Has(log', db, type, u)
    BY <1>5, <1>6 DEF Has
  <2> HIDE DEF u, type
  <2> QED  BY <1>1, <2>1, <2>2, FreshIs, FreshNext DEF Known, u, type
<1> QED  BY <1>7, <1>8, <1>9, <1>10, <1>11 DEF IInv

LEMMA CheckSyncStep == ASSUME IInv, CheckSync  PROVE IInv'
<1> DEFINE n == Len(log)
           latest == Max({ t \in 1 .. n : IsDb(t) })
           require == app.chunkRequire \/ NewChunks # <<>>
           next == IF app.at = "check" THEN "download"
                   ELSE IF prefs.synclatest # 0 /\ require THEN "fetch" ELSE "main"
<1>1. /\ app.at \in {"splash", "check"}
      /\ app' = [app EXCEPT !.at = next, !.chunks = NewChunks, !.latestDB = latest,
                            !.firstSync = @ \/ prefs.synclatest = 0, !.chunkRequire = require]
      /\ log' = log /\ db' = db /\ prefs' = prefs /\ torn' = torn
  BY DEF CheckSync
<1>2. app \in Apps /\ app.i = 0 /\ n \in Nat /\ n >= 1 /\ prefs.synclatest \in 0 .. n
  BY <1>1 DEF IInv, SyncType, Prefs, ListInv, Times
<1>3. latest \in 0 .. n /\ latest \in Nat
  <2>1. { t \in 1 .. n : IsDb(t) } # {} /\ { t \in 1 .. n : IsDb(t) } \subseteq 0 .. n
    BY <1>2 DEF IInv, SyncType
  <2>2. latest \in { t \in 1 .. n : IsDb(t) }
    BY <1>2, <2>1, MaxOfBounded
  <2> QED  BY <1>2, <2>2
<1>4. /\ NewChunks \in Seq(1 .. n) /\ NewChunks \in Seq(Nat)
      /\ \A k \in 1 .. Len(NewChunks) : NewChunks[k] \in NewTimes
      /\ \A k, l \in 1 .. Len(NewChunks) : k < l => NewChunks[k] > NewChunks[l]
      /\ \A t \in NewTimes : \E k \in 1 .. Len(NewChunks) : NewChunks[k] = t
  <2>1. NewTimes \subseteq 1 .. n /\ n \in Nat
    BY <1>2 DEF NewTimes
  <2> DEFINE T == NewTimes
  <2> HIDE DEF n, T
  <2>2. T \subseteq 1 .. n
    BY <2>1 DEF T
  <2>3. /\ NewestFirst(T) \in Seq(1 .. n) /\ NewestFirst(T) \in Seq(Nat)
        /\ \A k \in 1 .. Len(NewestFirst(T)) : NewestFirst(T)[k] \in T
        /\ \A k, l \in 1 .. Len(NewestFirst(T)) :
             k < l => NewestFirst(T)[k] > NewestFirst(T)[l]
        /\ \A t \in T : \E k \in 1 .. Len(NewestFirst(T)) : NewestFirst(T)[k] = t
    BY <2>1, <2>2, NewestFirstLists
  <2> QED  BY <2>3 DEF NewChunks, T
<1>5. next \in Pages /\ next \in {"download", "fetch", "main"}
  BY DEF Pages
<1>6. next = "fetch" => NewChunks # <<>>
  BY <1>1 DEF IInv, ChunkInv
<1>7. require \in BOOLEAN
  BY <1>2 DEF Apps
<1> HIDE DEF n, latest, require, next
<1>8. /\ app' \in Apps /\ app'.at = next /\ app'.chunks = NewChunks /\ app'.i = 0
      /\ app'.latestDB = latest
  <2>1. (app.firstSync \/ prefs.synclatest = 0) \in BOOLEAN
    BY <1>2 DEF Apps
  <2> DEFINE f == app.firstSync \/ prefs.synclatest = 0
  <2> HIDE DEF f
  <2>2. /\ app' = [app EXCEPT !.at = next, !.chunks = NewChunks, !.latestDB = latest,
                              !.firstSync = f, !.chunkRequire = require]
        /\ f \in BOOLEAN
    BY <1>1, <2>1 DEF f
  <2> QED  BY <1>2, <1>3, <1>4, <1>5, <1>7, <2>2 DEF Apps
<1>9. SyncType'
  <2>1. app'.latestDB <= Len(log')
    BY <1>1, <1>2, <1>3, <1>8 DEF n
  <2>2. Prefs' = Prefs
    BY <1>1 DEF Prefs
  <2> QED  BY <1>1, <1>8, <2>1, <2>2 DEF IInv, SyncType, IsDb
<1>10. ListInv'
  <2>1. Len(NewChunks) \in Nat
    BY <1>4
  <2> QED  BY <1>1, <1>4, <1>5, <1>8, <2>1 DEF ListInv, n
<1>11. ChunkInv'
  <2>1. Left' = { NewChunks[k] : k \in 1 .. Len(NewChunks) }
    <3>1. Len(NewChunks) \in Nat
      BY <1>4
    <3>2. Len(NewChunks) - 0 = Len(NewChunks)
      BY <3>1
    <3> QED  BY <1>8, <3>2 DEF Left
  <2>2. \A t \in Left' : t > prefs.synclatest
    BY <1>4, <2>1 DEF NewTimes
  <2>3. ASSUME NEW t \in 1 .. NewChunks[1], t > prefs.synclatest, ~IsDb(t), NewChunks # <<>>
        PROVE  t \in Left'
    <3>1. NewChunks[1] \in 1 .. n
      <4> DEFINE q == NewChunks
      <4> HIDE DEF q
      <4>1. q \in Seq(1 .. n) /\ q # <<>>
        BY <1>4, <2>3 DEF q
      <4>2. Len(q) \in Nat /\ Len(q) # 0
        BY <4>1, EmptySeq, LenProperties
      <4>3. 1 \in 1 .. Len(q)
        BY <4>2
      <4>4. q[1] \in 1 .. n
        BY <4>1, <4>3, ElementOfSeq
      <4> QED  BY <4>4 DEF q
    <3>2. t \in 1 .. n
      BY <1>2, <3>1
    <3>3. t \in NewTimes
      BY <2>3, <3>2 DEF NewTimes, n
    <3> QED  BY <1>4, <2>1, <3>3
  <2>4. \A t : IsDb(t)' <=> IsDb(t)
    BY <1>1 DEF IsDb
  <2> QED  BY <1>1, <1>5, <1>6, <1>8, <2>2, <2>3, <2>4 DEF ChunkInv
<1>12. DbInv'
  BY <1>5, <1>8 DEF DbInv
<1>13. Fresh' /\ Known'
  BY <1>1, FreshStep
<1> QED  BY <1>9, <1>10, <1>11, <1>12, <1>13 DEF IInv

LEMMA DownloadStep ==
  ASSUME IInv, NEW broken \in SUBSET Nat, Download(broken)
  PROVE  IInv'
<1>1. /\ app.at = "fetch" /\ app' = [app EXCEPT !.at = "apply", !.broken = broken]
      /\ log' = log /\ db' = db /\ prefs' = prefs /\ torn' = torn
  BY DEF Download
<1>2. /\ app' \in Apps /\ app'.at = "apply" /\ app'.chunks = app.chunks /\ app'.i = app.i
      /\ app'.latestDB = app.latestDB
  BY <1>1 DEF IInv, SyncType, Apps, Pages
<1>3. Left' = Left
  BY <1>2 DEF Left
<1>4. SyncType'
  <2>1. Prefs' = Prefs
    BY <1>1 DEF Prefs
  <2> QED  BY <1>1, <1>2, <2>1 DEF IInv, SyncType, IsDb
<1>5. ListInv'
  BY <1>1, <1>2 DEF IInv, ListInv
<1>6. ChunkInv' /\ DbInv'
  BY <1>1, <1>2, <1>3 DEF IInv, ChunkInv, DbInv, IsDb
<1>7. Fresh' /\ Known'
  BY <1>1, FreshStep
<1> QED  BY <1>4, <1>5, <1>6, <1>7 DEF IInv

\* The chunk that is applied is the oldest that is left.
LEMMA OldestLeft ==
  ASSUME IInv, app.at \in {"apply", "mark"}, app.i < Len(app.chunks)
  PROVE  LET t == Oldest(app.chunks, app.i)
         IN  /\ t \in 1 .. Len(log) /\ t \in Left /\ t > prefs.synclatest
             /\ t <= app.chunks[1]
             /\ \A s \in Left : s # t => s > t
<1> DEFINE k == Len(app.chunks) - app.i
           t == Oldest(app.chunks, app.i)
<1>1. /\ app.chunks \in Seq(1 .. Len(log)) /\ app.i \in Nat /\ Len(app.chunks) \in Nat
      /\ \A m, n \in 1 .. Len(app.chunks) : m < n => app.chunks[m] > app.chunks[n]
  BY DEF IInv, SyncType, Apps, ListInv
<1>2. k \in 1 .. Len(app.chunks) /\ k \in 1 .. k /\ t = app.chunks[k]
  BY <1>1 DEF Oldest
<1>3. t \in 1 .. Len(log) /\ t \in Left
  BY <1>1, <1>2 DEF Left
<1>4. t > prefs.synclatest
  BY <1>3 DEF IInv, ChunkInv
<1>5. t <= app.chunks[1]
  <2>1. 1 \in 1 .. Len(app.chunks) /\ app.chunks[1] \in 1 .. Len(log)
    BY <1>1, <1>2
  <2>2. k = 1 \/ 1 < k
    BY <1>1, <1>2
  <2> QED  BY <1>1, <1>2, <1>3, <2>1, <2>2
<1>6. ASSUME NEW s \in Left, s # t
      PROVE  s > t
  <2>1. PICK m \in 1 .. k : s = app.chunks[m]
    BY DEF Left
  <2>2. m < k /\ m \in 1 .. Len(app.chunks)
    BY <1>1, <1>2, <1>6, <2>1
  <2> QED  BY <1>1, <1>2, <2>1, <2>2
<1> QED  BY <1>3, <1>4, <1>5, <1>6

LEMMA ApplyStep == ASSUME IInv, Apply  PROVE IInv'
<1> DEFINE t == Oldest(app.chunks, app.i)
<1>1. /\ app.at = "apply" /\ app.i < Len(app.chunks) /\ db # NoDb
      /\ prefs.databasetype \in Types
      /\ db' = [r \in Records |-> IF r \in log[t] \cap prefs.databasetype THEN t ELSE db[r]]
      /\ log' = log /\ prefs' = prefs /\ torn' = torn /\ goto("mark")
  BY DEF Apply
<1>2. /\ app' \in Apps /\ app'.at = "mark" /\ app'.chunks = app.chunks /\ app'.i = app.i
      /\ app'.latestDB = app.latestDB
  BY <1>1, GotoEffect DEF IInv, SyncType, Pages
<1>3. t \in 1 .. Len(log) /\ t > prefs.synclatest /\ log[t] \subseteq Records
  BY <1>1, OldestLeft DEF IInv, SyncType
<1>4. Oldest(app'.chunks, app'.i) = t
  BY <1>2 DEF Oldest
<1> HIDE DEF t
<1>5. /\ Len(log) \in 1 .. MaxTime /\ MaxTime \in Nat /\ prefs.synclatest \in 0 .. Len(log)
      /\ db \in [Records -> Absent .. MaxTime]
  BY <1>1, SyncAssumption DEF IInv, SyncType, Prefs, Times
<1>6. db' \in [Records -> Absent .. MaxTime]
  <2>1. t \in Absent .. MaxTime
    BY <1>3, <1>5 DEF Absent
  <2> QED  BY <1>1, <1>5, <2>1
<1>7. SyncType'
  <2>1. Prefs' = Prefs
    BY <1>1 DEF Prefs
  <2> QED  BY <1>1, <1>2, <1>6, <2>1 DEF IInv, SyncType, IsDb
<1>8. ListInv'
  BY <1>1, <1>2 DEF IInv, ListInv
<1>9. ChunkInv'
  <2>1. Left' = Left
    BY <1>2 DEF Left
  <2> QED  BY <1>1, <1>2, <2>1 DEF IInv, ChunkInv, IsDb
<1>10. DbInv'
  <2>1. \A r \in log'[t] \cap prefs'.databasetype : db'[r] = t
    BY <1>1, <1>3
  <2> QED  BY <1>1, <1>2, <1>4, <1>6, <2>1 DEF DbInv
<1>11. Fresh' /\ Known'
  <2> DEFINE u == prefs.synclatest
             type == prefs.databasetype
  <2>1. ~torn => Has(log, db, type, u)
    BY <1>1, FreshIs DEF IInv
  <2>2. type \subseteq Records
    BY <1>1, SyncAssumption
  <2>3. Has(log, db, type, u) => Has(log, db', type, u)
    <3> SUFFICES ASSUME Has(log, db, type, u), NEW r \in type \ Excluded
                 PROVE  db'[r] >= V(log, r, u)
      BY DEF Has
    <3>1. V(log, r, u) \in 0 .. u
      BY <1>5, VProps
    <3>2. db[r] >= V(log, r, u) /\ r \in Records
      BY <2>2 DEF Has
    <3> QED  BY <1>1, <1>3, <1>5, <3>1, <3>2
  <2> HIDE DEF u
  <2> QED  BY <1>1, <2>1, <2>3, FreshNext DEF Known, u
<1> QED  BY <1>7, <1>8, <1>9, <1>10, <1>11 DEF IInv

LEMMA MarkStep == ASSUME IInv, Mark  PROVE IInv'
<1> DEFINE t == Oldest(app.chunks, app.i)
<1>1. /\ app.at = "mark" /\ log' = log /\ db' = db /\ torn' = torn
      /\ prefs' = [prefs EXCEPT !.synclatest = t]
      /\ app' = [app EXCEPT !.at = "apply", !.i = @ + 1]
  BY DEF Mark
<1>2. app.i < Len(app.chunks)
  BY <1>1 DEF IInv, ListInv
<1>3. /\ t \in 1 .. Len(log) /\ t \in Left /\ t > prefs.synclatest /\ t <= app.chunks[1]
      /\ \A s \in Left : s # t => s > t
  BY <1>1, <1>2, OldestLeft
<1>4. /\ prefs.databasetype \in Types /\ db \in [Records -> Absent .. MaxTime]
      /\ \A r \in log[t] \cap prefs.databasetype : db[r] = t
  BY <1>1 DEF IInv, DbInv
<1>5. /\ Len(app.chunks) \in Nat /\ app.i \in Nat /\ app \in Apps
      /\ t = app.chunks[Len(app.chunks) - app.i]
      /\ app.chunks \in Seq(1 .. Len(log)) /\ Len(log) \in Nat
      /\ prefs.synclatest \in 0 .. Len(log)
  BY DEF IInv, SyncType, Prefs, Apps, ListInv, Oldest
<1>6. /\ app' \in Apps /\ app'.at = "apply" /\ app'.chunks = app.chunks /\ app'.i = app.i + 1
      /\ app'.latestDB = app.latestDB
  <2> DEFINE j == app.i + 1
  <2>1. j \in Nat
    BY <1>5
  <2> HIDE DEF j
  <2>2. app' = [app EXCEPT !.at = "apply", !.i = j]
    BY <1>1 DEF j
  <2>3. /\ app' \in Apps /\ app'.at = "apply" /\ app'.chunks = app.chunks /\ app'.i = j
        /\ app'.latestDB = app.latestDB
    BY <1>5, <2>1, <2>2 DEF Apps, Pages
  <2> QED  BY <2>3 DEF j
<1> HIDE DEF t
<1>7. /\ prefs' \in Prefs' /\ prefs'.synclatest = t
      /\ prefs'.databasetype = prefs.databasetype
  <2>1. t \in 0 .. Len(log)
    BY <1>3, <1>5
  <2> QED  BY <1>1, <2>1 DEF IInv, SyncType, Prefs
<1>8. SyncType'
  BY <1>1, <1>6, <1>7 DEF IInv, SyncType, IsDb
<1>9. ListInv'
  BY <1>1, <1>2, <1>5, <1>6 DEF IInv, ListInv
<1>10. ChunkInv'
  <2>1. Left' = { app.chunks[n] : n \in 1 .. Len(app.chunks) - (app.i + 1) }
    BY <1>6 DEF Left
  <2>2. Left \subseteq Left' \cup {t}
    <3> SUFFICES ASSUME NEW n \in 1 .. Len(app.chunks) - app.i, app.chunks[n] # t
                 PROVE  app.chunks[n] \in Left'
      BY DEF Left
    <3>1. n \in 1 .. Len(app.chunks) - (app.i + 1)
      <4> DEFINE l == Len(app.chunks)
                 i == app.i
      <4>1. l \in Nat /\ i \in Nat /\ n \in 1 .. l - i /\ n # l - i
        BY <1>5
      <4> HIDE DEF l, i
      <4>2. n \in 1 .. l - (i + 1)
        BY <4>1, SMT
      <4> QED  BY <4>2 DEF l, i
    <3> QED  BY <2>1, <3>1
  <2>3. Left' \subseteq Left /\ t \notin Left'
    <3> SUFFICES ASSUME NEW n \in 1 .. Len(app.chunks) - (app.i + 1)
                 PROVE  app.chunks[n] \in Left /\ app.chunks[n] # t
      BY <2>1
    <3>1. /\ n \in 1 .. Len(app.chunks) - app.i /\ n \in 1 .. Len(app.chunks)
          /\ Len(app.chunks) - app.i \in 1 .. Len(app.chunks) /\ n < Len(app.chunks) - app.i
      <4> DEFINE l == Len(app.chunks)
                 i == app.i
      <4>1. l \in Nat /\ i \in Nat /\ i < l /\ n \in 1 .. l - (i + 1)
        BY <1>2, <1>5
      <4> HIDE DEF l, i
      <4>2. n \in 1 .. l - i /\ n \in 1 .. l /\ l - i \in 1 .. l /\ n < l - i
        BY <4>1, SMT
      <4> QED  BY <4>2 DEF l, i
    <3>2. app.chunks[n] > t
      BY <1>5, <3>1 DEF IInv, ListInv
    <3>3. app.chunks[n] \in Left
      BY <3>1 DEF Left
    <3> QED  BY <1>3, <3>2, <3>3
  <2>4. \A s \in Left' : s > t
    BY <1>3, <2>3
  <2>5. app.chunks # <<>> /\ app.chunks[1] \in 1 .. Len(log)
    BY <1>1, <1>5 DEF IInv, ChunkInv
  <2>6. ASSUME NEW s \in 1 .. app.chunks[1], s > t, ~IsDb(s)
        PROVE  s \in Left'
    <3>1. s > prefs.synclatest /\ s # t
      <4> DEFINE k == prefs.synclatest
      <4>1. k \in Nat /\ t \in Nat /\ t > k
        BY <1>3, <1>5
      <4>2. s \in Nat /\ s > t
        BY <2>5, <2>6
      <4> HIDE DEF k
      <4>3. s > k /\ s # t
        BY <4>1, <4>2, SMT
      <4> QED  BY <4>3 DEF k
    <3>2. s \in Left
      BY <1>1, <2>6, <3>1 DEF IInv, ChunkInv
    <3> QED  BY <2>2, <3>1, <3>2
  <2>7. \A s : IsDb(s)' <=> IsDb(s)
    BY <1>1 DEF IsDb
  <2> QED  BY <1>6, <1>7, <2>4, <2>5, <2>6, <2>7 DEF ChunkInv
<1>11. DbInv'
  BY <1>6 DEF DbInv
<1>12. Fresh'
  <2> SUFFICES ASSUME db' # NoDb, ~torn', NEW r \in prefs.databasetype \ Excluded
               PROVE  db'[r] >= V(log', r, prefs'.synclatest)
    BY <1>7, FreshNext DEF Has
  <2>1. db[r] >= V(log, r, prefs.synclatest) /\ r \in Records
    BY <1>1, <1>4, SyncAssumption, FreshIs DEF IInv, Has
  <2>2. /\ V(log, r, t) \in 0 .. t /\ V(log, r, prefs.synclatest) \in 0 .. prefs.synclatest
        /\ db[r] \in Int
    <3>1. t \in Nat /\ prefs.synclatest \in Nat
      BY <1>3, <1>5
    <3>2. db[r] \in Absent .. MaxTime /\ MaxTime \in Nat
      BY <1>4, <2>1, SyncAssumption
    <3>3. db[r] \in Int
      BY <3>2 DEF Absent
    <3> QED  BY <3>1, <3>3, VProps
  <2>3. CASE r \in log[t]
    BY <1>1, <1>4, <1>7, <2>2, <2>3
  <2>4. CASE r \notin log[t]
    <3>1. ASSUME NEW s \in prefs.synclatest + 1 .. t
          PROVE  r \notin log[s]
      <4>1. s = t \/ (s < t /\ s > prefs.synclatest /\ s \in 1 .. app.chunks[1])
        <5> DEFINE k == prefs.synclatest
                   c == app.chunks[1]
        <5>1. k \in Nat /\ t \in Nat /\ t <= c
          BY <1>3, <1>5
        <5>2. c \in Nat
          BY <1>1, <1>5 DEF IInv, ChunkInv
        <5>3. s \in k + 1 .. t
          OBVIOUS
        <5> HIDE DEF k, c
        <5>4. s = t \/ (s < t /\ s > k /\ s \in 1 .. c)
          BY <5>1, <5>2, <5>3, SMT
        <5> QED  BY <5>4 DEF k, c
      <4>2. CASE s < t /\ s > prefs.synclatest /\ s \in 1 .. app.chunks[1]
        <5>1. s \notin Left
          BY <1>3, <4>2
        <5>2. IsDb(s)
          BY <1>1, <4>2, <5>1 DEF IInv, ChunkInv
        <5> QED  BY <5>2 DEF IsDb
      <4> QED  BY <2>4, <4>1, <4>2
    <3>2. V(log, r, t) <= V(log, r, prefs.synclatest)
      <4> DEFINE k == prefs.synclatest
      <4> HIDE DEF k
      <4>1. k \in Nat /\ t \in Nat /\ k <= t /\ \A s \in k + 1 .. t : r \notin log[s]
        BY <1>3, <1>5, <3>1 DEF k
      <4>2. V(log, r, t) <= V(log, r, k)
        BY <4>1, VSkip
      <4> QED  BY <4>2 DEF k
    <3> QED  BY <1>1, <1>7, <2>1, <2>2, <3>2
  <2> QED  BY <2>3, <2>4
<1>13. Known'
  BY <1>4, <1>7 DEF Known
<1> QED  BY <1>8, <1>9, <1>10, <1>11, <1>12, <1>13 DEF IInv

LEMMA FilterStep == ASSUME IInv, Filter  PROVE IInv'
<1>1. /\ app.at = "apply" /\ db # NoDb
      /\ db' = [r \in Records |-> IF r \in Excluded THEN Absent ELSE db[r]]
      /\ app' = [app EXCEPT !.at = "main", !.i = 0]
      /\ log' = log /\ prefs' = prefs /\ torn' = torn
  BY DEF Filter, EndSync
<1>2. /\ app' \in Apps /\ app'.at = "main" /\ app'.chunks = app.chunks /\ app'.i = 0
      /\ app'.latestDB = app.latestDB
  BY <1>1 DEF IInv, SyncType, Apps, Pages
<1>3. db \in [Records -> Absent .. MaxTime] /\ MaxTime \in Nat
  BY <1>1, SyncAssumption DEF IInv, SyncType
<1>4. db' \in [Records -> Absent .. MaxTime] /\ \A r \in Records \ Excluded : db'[r] = db[r]
  BY <1>1, <1>3 DEF Absent
<1>5. SyncType'
  <2>1. Prefs' = Prefs
    BY <1>1 DEF Prefs
  <2> QED  BY <1>1, <1>2, <1>4, <2>1 DEF IInv, SyncType, IsDb
<1>6. ListInv'
  BY <1>1, <1>2 DEF IInv, ListInv, SyncType, Apps
<1>7. ChunkInv' /\ DbInv'
  BY <1>2 DEF ChunkInv, DbInv
<1>8. Fresh' /\ Known'
  <2> DEFINE u == prefs.synclatest
             type == prefs.databasetype
  <2>1. ~torn => Has(log, db, type, u) /\ type \in Types
    BY <1>1, FreshIs DEF IInv, Known
  <2>2. type \in Types => type \subseteq Records
    BY SyncAssumption
  <2>3. Has(log, db, type, u) /\ type \in Types => Has(log, db', type, u)
    BY <1>4, <2>2 DEF Has
  <2> HIDE DEF u, type
  <2> QED  BY <1>1, <2>1, <2>3, FreshNext DEF Known, u, type
<1> QED  BY <1>5, <1>6, <1>7, <1>8 DEF IInv

\* The download page, once the new database is unpacked.
LEMMA PageFacts ==
  ASSUME IInv
  PROVE  /\ app \in Apps /\ prefs \in Prefs /\ app.latestDB \in 0 .. Len(log) /\ Len(log) \in Nat
         /\ prefs.synclatest \in 0 .. Len(log) /\ prefs.own \in BOOLEAN
         /\ \A t, type : Snapshot(t, type) = Snap(log, t, type)
BY SnapshotIs, AppFields DEF IInv, SyncType, Prefs, Times

\* A step of the page that keeps the list of chunks; "file" is not of the download.
LEMMA PageStep ==
  ASSUME IInv, log' = log, app' \in Apps, app'.chunks = app.chunks, app'.i = app.i,
         app'.latestDB = app.latestDB, app'.dbType = app.dbType,
         app.at \notin {"apply", "mark"},
         app'.at \notin {"off", "splash", "fetch", "apply", "mark", "replace", "rename"},
         prefs' \in Prefs, torn' \in BOOLEAN,
         db' \in [Records -> Absent .. MaxTime] \cup {NoDb},
         DbInv', Known', Fresh'
  PROVE  IInv'
<1>1. SyncType'
  <2>1. Prefs' = Prefs
    BY DEF Prefs
  <2> QED  BY <2>1 DEF IInv, SyncType, IsDb
<1>2. ListInv'
  BY DEF IInv, ListInv
<1>3. ChunkInv'
  BY DEF ChunkInv
<1> QED  BY <1>1, <1>2, <1>3 DEF IInv

LEMMA RenameStep == ASSUME IInv, Rename  PROVE IInv'
<1>1. /\ app.at = "rename" /\ goto("exists") /\ log' = log /\ prefs' = prefs
      /\ IF prefs.own THEN Replaced(app.latestDB, app.dbType) ELSE UNCHANGED <<db, torn>>
  BY DEF Rename
<1>2. /\ app' \in Apps /\ app'.at = "exists" /\ app'.chunks = app.chunks /\ app'.i = app.i
      /\ app'.latestDB = app.latestDB /\ app'.dbType = app.dbType
  BY <1>1, GotoEffect DEF IInv, SyncType, Pages
<1>3. app.dbType \in Types
  BY <1>1 DEF IInv, DbInv
<1>4. /\ Fresh' /\ Known' /\ torn' \in BOOLEAN
      /\ db' \in [Records -> Absent .. MaxTime] \cup {NoDb}
      /\ prefs.own => db' = Snap(log, app.latestDB, app.dbType)
  <2>1. CASE prefs.own
    <3>1. Replaced(app.latestDB, app.dbType)
      BY <1>1, <2>1
    <3> QED  BY <1>1, <1>3, <3>1, PageFacts, ReplacedStep
  <2>2. CASE ~prefs.own
    BY <1>1, <2>2, FreshStep DEF IInv, SyncType
  <2> QED  BY <2>1, <2>2
<1>5. DbInv'
  <2>1. Snapshot(app.latestDB, app.dbType)' = Snap(log', app'.latestDB, app'.dbType)
    BY DEF Snapshot, Version, Snap, V
  <2> QED  BY <1>1, <1>2, <1>3, <1>4, <2>1 DEF DbInv
<1> QED  BY <1>1, <1>2, <1>4, <1>5, PageFacts, PageStep

LEMMA SetExistsStep == ASSUME IInv, SetExists  PROVE IInv'
<1>1. /\ app.at = "exists" /\ goto("path") /\ log' = log /\ db' = db /\ torn' = torn
      /\ prefs' = [prefs EXCEPT !.exists = TRUE]
  BY DEF SetExists
<1>2. /\ app' \in Apps /\ app'.at = "path" /\ app'.chunks = app.chunks /\ app'.i = app.i
      /\ app'.latestDB = app.latestDB /\ app'.dbType = app.dbType
  BY <1>1, GotoEffect DEF IInv, SyncType, Pages
<1>3. /\ prefs' \in Prefs /\ prefs'.synclatest = prefs.synclatest /\ prefs'.own = prefs.own
      /\ prefs'.databasetype = prefs.databasetype
  BY <1>1, PageFacts DEF Prefs
<1>4. Fresh' /\ Known'
  BY <1>1, <1>3, FreshStep
<1>5. DbInv'
  <2>1. Snapshot(app.latestDB, app.dbType)' = Snapshot(app.latestDB, app.dbType)
    BY <1>1, <1>2 DEF Snapshot, Version
  <2> QED  BY <1>1, <1>2, <1>3, <2>1 DEF IInv, DbInv
<1>6. torn' \in BOOLEAN /\ db' \in [Records -> Absent .. MaxTime] \cup {NoDb}
  BY <1>1 DEF IInv, SyncType
<1> QED  BY <1>1, <1>2, <1>3, <1>4, <1>5, <1>6, PageStep

LEMMA SetPathStep == ASSUME IInv, SetPath  PROVE IInv'
<1>1. /\ app.at = "path" /\ goto("type") /\ log' = log /\ prefs' = [prefs EXCEPT !.own = TRUE]
      /\ IF prefs.own THEN UNCHANGED <<db, torn>> ELSE Replaced(app.latestDB, app.dbType)
  BY DEF SetPath
<1>2. /\ app' \in Apps /\ app'.at = "type" /\ app'.chunks = app.chunks /\ app'.i = app.i
      /\ app'.latestDB = app.latestDB /\ app'.dbType = app.dbType
  BY <1>1, GotoEffect DEF IInv, SyncType, Pages
<1>3. app.dbType \in Types
  BY <1>1 DEF IInv, DbInv
<1>4. /\ prefs' \in Prefs /\ prefs'.synclatest = prefs.synclatest
      /\ prefs'.databasetype = prefs.databasetype
  BY <1>1, PageFacts DEF Prefs
<1>5. /\ Fresh' /\ Known' /\ torn' \in BOOLEAN
      /\ db' \in [Records -> Absent .. MaxTime] \cup {NoDb}
      /\ db' = Snap(log, app.latestDB, app.dbType)
  <2>1. CASE prefs.own
    <3>1. db = Snap(log, app.latestDB, app.dbType)
      BY <1>1, <2>1, PageFacts DEF IInv, DbInv
    <3> QED  BY <1>1, <1>4, <2>1, <3>1, FreshStep DEF IInv, SyncType
  <2>2. CASE ~prefs.own
    <3>1. Replaced(app.latestDB, app.dbType)
      BY <1>1, <2>2
    <3> QED  BY <1>1, <1>3, <1>4, <3>1, PageFacts, ReplacedStep
  <2> QED  BY <2>1, <2>2
<1>6. DbInv'
  <2>1. Snapshot(app.latestDB, app.dbType)' = Snap(log', app'.latestDB, app'.dbType)
    BY DEF Snapshot, Version, Snap, V
  <2> QED  BY <1>1, <1>2, <1>3, <1>5, <2>1 DEF DbInv
<1> QED  BY <1>1, <1>2, <1>4, <1>5, <1>6, PageStep

\* What is written of the type and of synclatest is what the database is.
LEMMA WrittenStep ==
  ASSUME IInv, log' = log, db' = db, torn' \in BOOLEAN,
         db = Snap(log, app.latestDB, app.dbType), app.dbType \in Types,
         prefs'.databasetype = app.dbType, prefs'.synclatest \in Nat,
         ~torn' => prefs'.synclatest <= app.latestDB
  PROVE  Fresh' /\ Known'
<1>1. ~torn' => Has(log', db', prefs'.databasetype, prefs'.synclatest)
  BY PageFacts, SnapHas
<1> QED  BY <1>1, FreshNext DEF Known

LEMMA SetTypeStep == ASSUME IInv, SetType  PROVE IInv'
<1>1. /\ app.at = "type" /\ goto("databasesync") /\ log' = log /\ db' = db
      /\ prefs' = [prefs EXCEPT !.databasetype = app.dbType]
      /\ torn' = (app.latestDB < prefs.synclatest)
  BY DEF SetType
<1>2. /\ app' \in Apps /\ app'.at = "databasesync" /\ app'.chunks = app.chunks /\ app'.i = app.i
      /\ app'.latestDB = app.latestDB /\ app'.dbType = app.dbType
  BY <1>1, GotoEffect DEF IInv, SyncType, Pages
<1>3. app.dbType \in Types /\ db = Snap(log, app.latestDB, app.dbType)
  BY <1>1, PageFacts DEF IInv, DbInv
<1>4. /\ prefs' \in Prefs /\ prefs'.synclatest = prefs.synclatest
      /\ prefs'.databasetype = app.dbType
  BY <1>1, <1>3, PageFacts DEF Prefs
<1>5. torn' \in BOOLEAN /\ (~torn' => prefs'.synclatest <= app.latestDB)
  <2> DEFINE o == app.latestDB < prefs.synclatest
  <2>1. o \in BOOLEAN
    OBVIOUS
  <2>2. ~o => prefs.synclatest <= app.latestDB
    BY PageFacts
  <2> HIDE DEF o
  <2>3. torn' = o
    BY <1>1 DEF o
  <2>4. torn' \in BOOLEAN
    BY <2>1, <2>3, Zenon
  <2> QED  BY <1>4, <2>2, <2>3, <2>4, Zenon
<1>6. Fresh' /\ Known'
  <2>1. prefs'.synclatest \in Nat
    BY <1>4, PageFacts
  <2> QED  BY <1>1, <1>3, <1>4, <1>5, <2>1, WrittenStep
<1>7. DbInv'
  <2>1. Snapshot(app.latestDB, app.dbType)' = Snap(log', app'.latestDB, app'.dbType)
    BY DEF Snapshot, Version, Snap, V
  <2> QED  BY <1>1, <1>2, <1>3, <1>4, <2>1 DEF DbInv
<1>8. db' \in [Records -> Absent .. MaxTime] \cup {NoDb}
  BY <1>1 DEF IInv, SyncType
<1> QED  BY <1>1, <1>2, <1>4, <1>5, <1>6, <1>7, <1>8, PageStep

LEMMA SetDateStep == ASSUME IInv, SetDate  PROVE IInv'
<1>1. /\ app.at = "databasesync" /\ goto("synclatest") /\ log' = log /\ db' = db /\ torn' = torn
      /\ prefs' = [prefs EXCEPT !.databasesync = app.latestDB]
  BY DEF SetDate
<1>2. /\ app' \in Apps /\ app'.at = "synclatest" /\ app'.chunks = app.chunks /\ app'.i = app.i
      /\ app'.latestDB = app.latestDB /\ app'.dbType = app.dbType
  BY <1>1, GotoEffect DEF IInv, SyncType, Pages
<1>3. /\ prefs' \in Prefs /\ prefs'.synclatest = prefs.synclatest
      /\ prefs'.databasetype = prefs.databasetype
  BY <1>1, PageFacts DEF Prefs
<1>4. Fresh' /\ Known'
  BY <1>1, <1>3, FreshStep
<1>5. DbInv'
  <2>1. Snapshot(app.latestDB, app.dbType)' = Snapshot(app.latestDB, app.dbType)
    BY <1>1, <1>2 DEF Snapshot, Version
  <2> QED  BY <1>1, <1>2, <1>3, <2>1 DEF IInv, DbInv
<1>6. torn' \in BOOLEAN /\ db' \in [Records -> Absent .. MaxTime] \cup {NoDb}
  BY <1>1 DEF IInv, SyncType
<1> QED  BY <1>1, <1>2, <1>3, <1>4, <1>5, <1>6, PageStep

LEMMA SetLatestStep == ASSUME IInv, SetLatest  PROVE IInv'
<1> DEFINE next == IF app.isSync THEN "main" ELSE "page"
<1>1. /\ app.at = "synclatest" /\ goto(next) /\ log' = log /\ db' = db /\ torn' = FALSE
      /\ prefs' = [prefs EXCEPT !.synclatest = app.latestDB]
  BY DEF SetLatest
<1>2. next \in Pages /\ next \in {"main", "page"}
  BY DEF Pages
<1> HIDE DEF next
<1>3. /\ app' \in Apps /\ app'.at = next /\ app'.chunks = app.chunks /\ app'.i = app.i
      /\ app'.latestDB = app.latestDB /\ app'.dbType = app.dbType
  BY <1>1, <1>2, GotoEffect DEF IInv, SyncType
<1>4. /\ app.dbType \in Types /\ db = Snap(log, app.latestDB, app.dbType)
      /\ prefs.databasetype = app.dbType
  BY <1>1, PageFacts DEF IInv, DbInv
<1>5. /\ prefs' \in Prefs /\ prefs'.synclatest = app.latestDB
      /\ prefs'.databasetype = app.dbType
  BY <1>1, <1>4, PageFacts DEF Prefs
<1>6. torn' \in BOOLEAN
  BY <1>1, Zenon
<1>7. Fresh' /\ Known'
  <2>1. prefs'.synclatest \in Nat /\ prefs'.synclatest <= app.latestDB
    BY <1>5, PageFacts
  <2> QED  BY <1>1, <1>4, <1>5, <1>6, <2>1, WrittenStep
<1>8. DbInv'
  BY <1>2, <1>3 DEF DbInv
<1>9. db' \in [Records -> Absent .. MaxTime] \cup {NoDb}
  BY <1>1 DEF IInv, SyncType
<1> QED  BY <1>1, <1>2, <1>3, <1>5, <1>6, <1>7, <1>8, <1>9, PageStep

LEMMA FilePathStep == ASSUME IInv, FilePath  PROVE IInv'
<1>1. /\ app.at = "file" /\ goto("choose") /\ log' = log
      /\ prefs' = [prefs EXCEPT !.own = FALSE]
      /\ \E t \in 1 .. Len(log), type \in Types : Replaced(t, type)
  BY DEF FilePath
<1>2. PICK t \in 1 .. Len(log), type \in Types : Replaced(t, type)
  BY <1>1
<1>3. /\ app' \in Apps /\ app'.at = "choose" /\ app'.chunks = app.chunks /\ app'.i = app.i
      /\ app'.latestDB = app.latestDB /\ app'.dbType = app.dbType
  BY <1>1, GotoEffect DEF IInv, SyncType, Pages
<1>4. /\ prefs' \in Prefs /\ prefs'.synclatest = prefs.synclatest
      /\ prefs'.databasetype = prefs.databasetype
  BY <1>1, PageFacts DEF Prefs
<1>5. /\ Fresh' /\ Known' /\ torn' \in BOOLEAN /\ db' \in [Records -> Absent .. MaxTime]
  <2>1. t \in 0 .. Len(log)
    OBVIOUS
  <2> QED  BY <1>1, <1>2, <1>4, <2>1, ReplacedStep
<1>6. DbInv'
  BY <1>3 DEF DbInv
<1> QED  BY <1>1, <1>3, <1>4, <1>5, <1>6, PageStep

-----------------------------------------------------------------------------
LEMMA IInvInit == Init => IInv
<1> SUFFICES ASSUME Init  PROVE IInv
  OBVIOUS
<1>1. /\ log = <<{}>> /\ db = NoDb /\ torn = FALSE /\ app = NoProcess
      /\ prefs.databasetype \in Types \cup {NoDb}
      /\ prefs = [exists |-> FALSE, own |-> FALSE, databasetype |-> prefs.databasetype,
                  databasesync |-> 0, synclatest |-> 0]
  BY DEF Init
<1>2. log \in Seq(SUBSET Records) /\ Len(log) = 1 /\ IsDb(1)
  BY <1>1 DEF IsDb
<1>3. /\ app \in Apps /\ app.at = "off" /\ app.chunks = <<>>
      /\ app.i = 0 /\ app.latestDB = 0 /\ app.chunkRequire = FALSE
  BY <1>1 DEF NoProcess, Apps, Pages
<1>4. prefs \in Prefs
  <2>1. 0 \in 0 .. Len(log)
    BY <1>2
  <2> DEFINE type == prefs.databasetype
  <2> HIDE DEF type
  <2>2. /\ type \in Types \cup {NoDb}
        /\ prefs = [exists |-> FALSE, own |-> FALSE, databasetype |-> type,
                    databasesync |-> 0, synclatest |-> 0]
    BY <1>1 DEF type
  <2> QED  BY <2>1, <2>2 DEF Prefs
<1>5. torn \in BOOLEAN
  BY <1>1, Zenon
<1>6. SyncType
  BY <1>1, <1>2, <1>3, <1>4, <1>5, SyncAssumption DEF SyncType, Times
<1>7. ListInv /\ ChunkInv /\ DbInv
  BY <1>3 DEF ListInv, ChunkInv, DbInv
<1>8. Fresh /\ Known
  BY <1>1 DEF Fresh, Known
<1> QED  BY <1>6, <1>7, <1>8 DEF IInv

LEMMA IInvNext == IInv /\ [Next]_vars => IInv'
<1> SUFFICES ASSUME IInv, [Next]_vars  PROVE IInv'
  OBVIOUS
<1>1. CASE UNCHANGED vars
  <2>1. log' = log /\ db' = db /\ prefs' = prefs /\ app' = app /\ torn' = torn
    BY <1>1 DEF vars
  <2>2. SyncType' /\ ListInv'
    <3>1. Prefs' = Prefs
      BY <2>1 DEF Prefs
    <3> QED  BY <2>1, <3>1 DEF IInv, SyncType, ListInv, IsDb
  <2>3. ChunkInv'
    BY <2>1 DEF IInv, ChunkInv, Left, IsDb
  <2>4. DbInv'
    BY <2>1 DEF IInv, DbInv, Snapshot, Version
  <2>5. Fresh' /\ Known'
    BY <2>1, FreshStep
  <2> QED  BY <2>2, <2>3, <2>4, <2>5 DEF IInv
<1>2. ASSUME NEW n \in 1 .. Len(app.chunks), Download({app.chunks[n]})
      PROVE  IInv'
  <2>1. app.chunks[n] \in Nat
    BY DEF IInv, SyncType, Apps
  <2> QED  BY <1>2, <2>1, DownloadStep
<1>3. ASSUME Download({})  PROVE IInv'
  BY <1>3, DownloadStep
<1> QED
  BY <1>1, <1>2, <1>3, StopStep, GoSteps, PublishStep, CheckSyncStep, ApplyStep, MarkStep,
     FilterStep, FilePathStep, RenameStep, SetExistsStep, SetPathStep, SetTypeStep,
     SetDateStep, SetLatestStep DEF Next

LEMMA SyncInvariant == Spec => []IInv
<1> QED  BY IInvInit, IInvNext, PTL DEF Spec

(***************************************************************************)
(* The log, the database, the preferences and the process are always as    *)
(* the code can make them; _rows is newest first.                          *)
(***************************************************************************)
THEOREM SyncTypeCorrect == Spec => []TypeOK
<1>1. IInv => TypeOK
  <2> SUFFICES ASSUME IInv  PROVE TypeOK
    OBVIOUS
  <2>1. Len(log) \in 1 .. MaxTime /\ MaxTime \in Nat
    BY SyncAssumption DEF IInv, SyncType, Times
  <2>2. \A z \in 0 .. Len(log) : z \in 0 .. MaxTime
    BY <2>1
  <2>3. \A z \in 1 .. Len(log) : z \in Times
    BY <2>1 DEF Times
  <2>4. prefs \in [exists : BOOLEAN, own : BOOLEAN, databasetype : Types \cup {NoDb},
                   databasesync : 0 .. MaxTime, synclatest : 0 .. MaxTime]
    BY <2>2 DEF IInv, SyncType, Prefs
  <2>5. app.at \in Pages /\ app.latestDB \in 0 .. MaxTime /\ app.i \in Nat
    BY <2>1 DEF IInv, SyncType, Apps
  <2>6. app.chunks \in Seq(Times) /\ Len(app.chunks) \in Nat
    BY <2>3 DEF IInv, ListInv
  <2>7. app.i \in 0 .. Len(app.chunks)
    BY <2>5, <2>6 DEF IInv, ListInv
  <2>8. \A i \in 1 .. Len(app.chunks) - 1 : app.chunks[i] > app.chunks[i + 1]
    BY <2>6 DEF IInv, ListInv
  <2> QED  BY <2>4, <2>5, <2>6, <2>7, <2>8 DEF IInv, SyncType, TypeOK
<1> QED  BY <1>1, SyncInvariant, PTL

(***************************************************************************)
(* synclatest never runs ahead of the database, wherever the process is    *)
(* ended, for any types of databases, except where torn says the database  *)
(* is of another type than databasetype, or older than synclatest.         *)
(***************************************************************************)
THEOREM FreshCorrect == Spec => []Fresh
<1>1. IInv => Fresh
  BY DEF IInv
<1> QED  BY <1>1, SyncInvariant, PTL
=============================================================================
