-------------------------------- MODULE Sync --------------------------------
(***************************************************************************)
(* The synchronisation of the article database (lib/version/sync.dart)     *)
(* with what the server publishes, a log of snapshots of the database and  *)
(* of chunks of changed records; the start of the application              *)
(* (splash_page.dart), which applies the chunks that came since the last   *)
(* one applied; and the download of a snapshot on Android                  *)
(* (database_download_page.dart), by the first start, by the choice of     *)
(* another database and by a manual synchronisation, in place of which the *)
(* user may point at a database file of his own.  The process may end      *)
(* between any two steps: the database and the preferences stay.           *)
(***************************************************************************)
EXTENDS Integers, Sequences, FiniteSetsExt

CONSTANTS
  Records,   \* the records the server knows
  Types,     \* the types of databases: one has all records, one those of a language
  Excluded,  \* the records the user's tags exclude
  MaxTime,   \* bound: what the server publishes
  NoDb

\* A type is the set of its records.
ASSUME SyncAssumption ==
  Types \subseteq SUBSET Records /\ Excluded \subseteq Records /\ MaxTime \in Nat \ {0}

\* A version of a record is the timestamp of the last chunk that held it, 0
\* before the first; a timestamp is a place in the log.
Absent == -1
Times == 1 .. MaxTime

VARIABLES
  log,    \* what is published: the records of a chunk, or {} for a snapshot
  db,     \* the version of every record in the database at db_path
  prefs,  \* db_exists, "is db_path that of the downloads?", databasetype,
          \* databasesync and synclatest, the last two 0 for null
  app,    \* the process
  torn    \* is the database not what databasetype and synclatest say?

\* torn is not in the code: it is TRUE from the replacement of the database by
\* one of another type than databasetype, or older than synclatest, until they
\* are written.  A download does so at once, if the process does not end; a
\* database file of the user's own has them never written.

vars == <<log, db, prefs, app, torn>>

IsDb(t) == log[t] = {}
Version(r, t) == Max({0} \cup { s \in 1 .. t : r \in log[s] })
Snapshot(t, type) == [r \in Records |-> IF r \in type THEN Version(r, t) ELSE Absent]

\* The statics of SyncManager: chunks and latestDB (0 for none) are the two
\* kinds of _rows, newest first; i counts the chunks
\* that doChunkSync has done; dbType and isSync are those of the download page.
NoProcess == [at |-> "off", chunks |-> <<>>, i |-> 0, latestDB |-> 0, firstSync |-> FALSE,
              chunkRequire |-> FALSE, broken |-> {}, databaseDecompressed |-> FALSE,
              dbType |-> NoDb, isSync |-> FALSE]

\* Settings.init: databasetype is the language of the device, one of those with a
\* database or not; later starts read it, before anything else can write it.
Init ==
  /\ log = <<{}>> /\ db = NoDb /\ torn = FALSE
  /\ \E type \in Types \cup {NoDb} :
       prefs = [exists |-> FALSE, own |-> FALSE, databasetype |-> type, databasesync |-> 0,
                synclatest |-> 0]
  /\ app = NoProcess

-----------------------------------------------------------------------------
(***************************************************************************)
(* The server and the system.                                              *)
(***************************************************************************)
Publish ==
  /\ Len(log) < MaxTime
  /\ \E e \in SUBSET Records : log' = Append(log, e)
  /\ UNCHANGED <<db, prefs, app, torn>>

\* The process is killed, or left.
Stop == app.at # "off" /\ app' = NoProcess /\ UNCHANGED <<log, db, prefs, torn>>

\* The splash page: the chunks are looked for once a database was downloaded.
Start ==
  /\ app.at = "off"
  /\ app' = [app EXCEPT !.at = IF prefs.exists THEN "splash" ELSE "choose"]
  /\ UNCHANGED <<log, db, prefs, torn>>

-----------------------------------------------------------------------------
(***************************************************************************)
(* checkSync and doChunkSync.                                              *)
(***************************************************************************)
goto(at) == app' = [app EXCEPT !.at = at]

\* The list of the times in S, the newest first, and the oldest first.
NewestFirst(S) ==
  CHOOSE f \in [1 .. Cardinality(S) -> S] : \A m, n \in DOMAIN f : m < n => f[m] > f[n]
OldestFirst(S) ==
  CHOOSE f \in [1 .. Cardinality(S) -> S] : \A m, n \in DOMAIN f : m < n => f[m] < f[n]

NewTimes == { t \in 1 .. Len(log) : ~IsDb(t) /\ t > prefs.synclatest }

\* Mutant: the file is read from the oldest line on.
NewChunks_forward == OldestFirst(NewTimes)

\* Mutant: a chunk older than the newest snapshot is left to the snapshot.
NewChunks_since ==
  NewestFirst({ t \in NewTimes : t > Max({ u \in 1 .. Len(log) : IsDb(u) }) })

\* The file has the oldest line first; it is read from the end.
NewChunks == NewestFirst(NewTimes)

\* DateTime.parse(lastDB) is for a synclatest that was set.
CheckSync ==
  LET first == prefs.synclatest = 0
      require == app.chunkRequire \/ NewChunks # <<>>
      next == IF app.at = "check" THEN "download"
              ELSE IF ~first /\ require THEN "fetch" ELSE "main"
  IN  /\ app.at \in {"splash", "check"}
      /\ first \/ prefs.databasesync # 0
      /\ app' = [app EXCEPT !.at = next, !.chunks = NewChunks,
                            !.latestDB = Max({ t \in 1 .. Len(log) : IsDb(t) }),
                            !.firstSync = @ \/ first, !.chunkRequire = require]
      /\ UNCHANGED <<log, db, prefs, torn>>

\* What checkSync throws it catches: _rows stays what it was if nothing comes, and
\* is empty if what comes is not the list.  A new process has no chunkRequire.
CheckFails ==
  LET next == IF app.at = "check" THEN "download" ELSE "main"
  IN  /\ app.at \in {"splash", "check"}
      /\ \/ goto(next)
         \/ app' = [app EXCEPT !.at = next, !.chunks = <<>>, !.latestDB = 0]
      /\ UNCHANGED <<log, db, prefs, torn>>

\* All chunks are downloaded before the first is applied; a body may not be
\* the json it should be.
Download(broken) ==
  /\ app.at = "fetch"
  /\ app' = [app EXCEPT !.at = "apply", !.broken = broken]
  /\ UNCHANGED <<log, db, prefs, torn>>

\* Mutant: the newest chunk is applied first.
Oldest_head(chunks, i) == chunks[i + 1]

\* Of the chunks that are not done yet.
Oldest(chunks, i) == chunks[Len(chunks) - i]

\* One transaction replaces the records of a chunk, those of databasetype's
\* language; translateToLanguage does not know every language of a device.
Apply ==
  /\ app.at = "apply" /\ app.i < Len(app.chunks) /\ db # NoDb
  /\ prefs.databasetype \in Types
  /\ LET t == Oldest(app.chunks, app.i)
     IN  /\ t \notin app.broken
         /\ db' = [r \in Records |-> IF r \in log[t] \cap prefs.databasetype THEN t ELSE db[r]]
  /\ goto("mark")
  /\ UNCHANGED <<log, prefs, torn>>

\* synclatest follows the transaction.
Mark ==
  /\ app.at = "mark"
  /\ prefs' = [prefs EXCEPT !.synclatest = Oldest(app.chunks, app.i)]
  /\ app' = [app EXCEPT !.at = "apply", !.i = @ + 1]
  /\ UNCHANGED <<log, db, torn>>

EndSync == app' = [app EXCEPT !.at = "main", !.i = 0]

\* After the last chunk (there was one) the excluded records are deleted.
Filter ==
  /\ app.at = "apply" /\ app.i = Len(app.chunks) /\ db # NoDb
  /\ db' = [r \in Records |-> IF r \in Excluded THEN Absent ELSE db[r]]
  /\ EndSync
  /\ UNCHANGED <<log, prefs, torn>>

\* A chunk that cannot be downloaded or read, a database that is missing or
\* cannot be written: the synchronisation stops, the main page comes anyway.
SyncFails ==
  /\ app.at \in {"fetch", "apply"} /\ EndSync
  /\ UNCHANGED <<log, db, prefs, torn>>

-----------------------------------------------------------------------------
(***************************************************************************)
(* The choice of a database.                                               *)
(***************************************************************************)

\* The button that synchronises stops if the newest snapshot is the one
\* downloaded.  It deletes the database, and so does checkDownload.
Redownload ==
  /\ app.at = "main" /\ ~app.databaseDecompressed
  /\ prefs.databasesync = 0 \/ app.latestDB > prefs.databasesync
  /\ app' = [app EXCEPT !.at = "check", !.dbType = prefs.databasetype, !.isSync = TRUE]
  /\ db' = NoDb
  /\ UNCHANGED <<log, prefs, torn>>

\* The other button shows the choice of the first start.
Switch ==
  /\ app.at = "main" /\ ~app.databaseDecompressed /\ goto("choose")
  /\ UNCHANGED <<log, db, prefs, torn>>

\* checkDownload deletes the database there is, also for a language that has none
\* (NoDb).
FirstDownload ==
  /\ app.at = "choose"
  /\ \E type \in Types \cup {NoDb} :
       app' = [app EXCEPT !.at = "check", !.dbType = type, !.isSync = FALSE]
  /\ db' = NoDb
  /\ UNCHANGED <<log, prefs, torn>>

\* "dbalready": the file the user has found is tested when the database there is
\* has been deleted.
PickFile ==
  /\ app.at = "choose" /\ goto("test") /\ db' = NoDb
  /\ UNCHANGED <<log, prefs, torn>>

TestFails == app.at = "test" /\ goto("page") /\ UNCHANGED <<log, db, prefs, torn>>

FileExists ==
  /\ app.at = "test" /\ goto("file")
  /\ prefs' = [prefs EXCEPT !.exists = TRUE]
  /\ UNCHANGED <<log, db, torn>>

\* The database is now another: of some type and time.
Replaced(t, type) ==
  /\ db' = Snapshot(t, type)
  /\ torn' = (t < prefs.synclatest \/ type # prefs.databasetype)

\* Neither databasetype nor synclatest is written; the splash page is below.
FilePath ==
  /\ app.at = "file" /\ goto("choose")
  /\ \E t \in 1 .. Len(log), type \in Types : Replaced(t, type)
  /\ prefs' = [prefs EXCEPT !.own = FALSE]
  /\ UNCHANGED log

-----------------------------------------------------------------------------
(***************************************************************************)
(* The download of a snapshot.                                             *)
(***************************************************************************)

\* getLatestDB has no url if no snapshot is known, and there is none of some
\* languages of a device.
Unpack ==
  /\ app.at = "download" /\ app.latestDB # 0 /\ app.dbType \in Types
  /\ app' = [app EXCEPT !.at = "replace", !.databaseDecompressed = TRUE]
  /\ UNCHANGED <<log, db, prefs, torn>>

\* data is deleted, then data2 renamed.
DeleteData ==
  /\ app.at = "replace" /\ db' = NoDb /\ goto("rename")
  /\ UNCHANGED <<log, prefs, torn>>

\* If db_path is that of the downloads, the new database is there at once.
Rename ==
  /\ app.at = "rename" /\ goto("exists")
  /\ IF prefs.own THEN Replaced(app.latestDB, app.dbType) ELSE UNCHANGED <<db, torn>>
  /\ UNCHANGED <<log, prefs>>

SetExists ==
  /\ app.at = "exists" /\ goto("path")
  /\ prefs' = [prefs EXCEPT !.exists = TRUE]
  /\ UNCHANGED <<log, db, torn>>

SetPath ==
  /\ app.at = "path" /\ goto("type")
  /\ IF prefs.own THEN UNCHANGED <<db, torn>> ELSE Replaced(app.latestDB, app.dbType)
  /\ prefs' = [prefs EXCEPT !.own = TRUE]
  /\ UNCHANGED log

SetType ==
  /\ app.at = "type" /\ goto("databasesync")
  /\ prefs' = [prefs EXCEPT !.databasetype = app.dbType]
  /\ torn' = (app.latestDB < prefs.synclatest)
  /\ UNCHANGED <<log, db>>

SetDate ==
  /\ app.at = "databasesync" /\ goto("synclatest")
  /\ prefs' = [prefs EXCEPT !.databasesync = app.latestDB]
  /\ UNCHANGED <<log, db, torn>>

\* A manual synchronisation goes back to the main page, another download stays.
SetLatest ==
  /\ app.at = "synclatest" /\ goto(IF app.isSync THEN "main" ELSE "page")
  /\ prefs' = [prefs EXCEPT !.synclatest = app.latestDB]
  /\ torn' = FALSE
  /\ UNCHANGED <<log, db>>

\* The page asks for another try, which is another start.
DownloadFails ==
  /\ app.at \in {"download", "replace", "rename"}
  /\ goto(IF app.isSync THEN "main" ELSE "page")
  /\ UNCHANGED <<log, db, prefs, torn>>

-----------------------------------------------------------------------------
Next ==
  \/ Publish \/ Stop \/ Start \/ CheckSync \/ CheckFails
  \/ Download({}) \/ \E n \in 1 .. Len(app.chunks) : Download({app.chunks[n]})
  \/ Apply \/ Mark \/ Filter \/ SyncFails
  \/ Redownload \/ Switch \/ FirstDownload \/ PickFile \/ TestFails \/ FileExists \/ FilePath
  \/ Unpack \/ DeleteData \/ Rename \/ SetExists \/ SetPath \/ SetType \/ SetDate \/ SetLatest
  \/ DownloadFails

\* The application is started and left again and again, and what can succeed
\* infinitely often succeeds; nothing makes the server publish, or the user
\* download.
Spec ==
  /\ Init /\ [][Next]_vars
  /\ WF_vars(Start) /\ WF_vars(Stop)
  /\ SF_vars(CheckSync) /\ SF_vars(Download({})) /\ SF_vars(Apply) /\ SF_vars(Mark)

-----------------------------------------------------------------------------
Pages == {"off", "splash", "choose", "check", "fetch", "apply", "mark", "main", "page",
          "download", "replace", "rename", "exists", "path", "type", "databasesync",
          "synclatest", "test", "file"}

(***************************************************************************)
(* The type invariant; _rows is kept "[latest ... old]".                   *)
(***************************************************************************)
TypeOK ==
  /\ log \in Seq(SUBSET Records) /\ Len(log) \in Times
  /\ db \in [Records -> Absent .. MaxTime] \cup {NoDb}
  /\ prefs \in [exists : BOOLEAN, own : BOOLEAN, databasetype : Types \cup {NoDb},
               databasesync : 0 .. MaxTime, synclatest : 0 .. MaxTime]
  /\ app.at \in Pages /\ app.chunks \in Seq(Times) /\ app.i \in 0 .. Len(app.chunks)
  /\ app.latestDB \in 0 .. MaxTime
  /\ \A i \in 1 .. Len(app.chunks) - 1 : app.chunks[i] > app.chunks[i + 1]
  /\ torn \in BOOLEAN

\* The database has what was published until t.
Holds(t) == \A r \in prefs.databasetype \ Excluded : db[r] >= Version(r, t)

(***************************************************************************)
(* synclatest never runs ahead of the database, wherever the process was   *)
(* ended: every record of databasetype has the version of the newest chunk *)
(* that holds it among those no later than synclatest, which are never     *)
(* asked for again (doChunkSync: "we need to update them in old order").   *)
(* The exceptions are torn: a download whose process ends between the      *)
(* rename and the writing of databasetype, if that changes, or synclatest, *)
(* if the snapshot is older; and a file of the user's own that is of       *)
(* another type or older, for which nothing is written at all.             *)
(***************************************************************************)
Fresh == db # NoDb /\ ~torn => Holds(prefs.synclatest)

(***************************************************************************)
(* If the database stays usable, the chunks bring it up to date with the   *)
(* server: a download that fails, a body that is not json and an end of    *)
(* the process between the chunks put it off only.  Not usable is a        *)
(* database that is missing or torn, and one with which no synclatest was  *)
(* written, by a first download that was ended or as it is the user's own: *)
(* its chunks are never applied.                                           *)
(***************************************************************************)
Usable == prefs.exists /\ prefs.synclatest # 0 /\ db # NoDb /\ ~torn
UpToDate == <>[]Usable => []<>(Usable /\ Holds(Len(log)))
=============================================================================
