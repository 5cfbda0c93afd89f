------------------------------ MODULE DataPlane ------------------------------
(***************************************************************************)
(* Backup and restore of a local installation, over the documents of        *)
(* DocumentStore.                                                            *)
(*                                                                          *)
(* create_backup takes a consistent copy of the database and then copies    *)
(* the files one after the other while requests go on.  stage_restore       *)
(* unpacks a backup and writes a marker; the next start of the API finds    *)
(* the marker and replaces the database and the files before it serves, a   *)
(* procedure that a crash may interrupt at every step and the next start    *)
(* repeats.                                                                  *)
(*                                                                          *)
(* Assumed: the worker is stopped while a restore is applied                *)
(* (docs/database-design.md).  The database of the cloud deployment is not a *)
(* file, and both operations refuse it.                                     *)
(***************************************************************************)
EXTENDS DocumentStore

CONSTANTS
  Zips,        \* backups
  MaxRequests, \* bound: upload, ingestion, finalization, deletion and backup requests
  MaxCrashes   \* bound: deaths of the API

ASSUME BackupAssumption ==
  /\ MaxRequests \in Nat /\ MaxCrashes \in Nat
  /\ None \notin Zips /\ "none" \notin Zips /\ "torn" \notin Zips

VARIABLES
  zip,       \* the backup directory
  staged,    \* the backups unpacked in .restore-staging
  marker,    \* pending_restore.json: "none", "torn" (half written) or the backup staged
  staging,   \* the stage_restore request under way: its backup, or None
  api,       \* "up", "down", or where apply_pending_restore is
  applying,  \* the backup it applies
  database,  \* "whole", or "torn" while a restore has replaced a part of the state
  requests, crashes  \* counters for the bounds

ZipState == {"listing", "copying", "written", "broken"}
Backup == [at : ZipState, doc : [Ids -> Document \cup {None}], index : SUBSET IndexEntry,
           objects : [ObjectKeys -> Contents \cup {None, Torn}], todo : SUBSET ObjectKeys,
           stale : SUBSET ObjectKeys, rewritten : SUBSET ObjectKeys]
Applying == {"log", "replace", "clear", "copy", "unmark", "clean"}

backupVars == <<zip, staged, marker, staging>>
restoreVars == <<api, applying, database>>
bounds == <<requests, crashes>>
vars == <<docVars, backupVars, restoreVars, bounds>>

-----------------------------------------------------------------------------
Init ==
  /\ StoreInit
  /\ zip = [z \in Zips |-> None]
  /\ staged = {}
  /\ marker = "none" /\ staging = None
  /\ api = "up" /\ applying = None /\ database = "whole"
  /\ requests = 0 /\ crashes = 0

NoObjects == [k \in ObjectKeys |-> None]
Present == {k \in ObjectKeys : objects[k] # None}
Zip(z, state) == zip[z] # None /\ zip[z].at = state

\* The bound on requests counts the steps that open one.
Opens == \E r \in Requests : req[r] = Idle /\ req'[r] # Idle
Counted == /\ requests' = requests + IF Opens THEN 1 ELSE 0
           /\ requests' <= MaxRequests

Serve ==
  /\ api = "up"
  /\ \E r \in Requests : ApiStep(r)
  /\ Counted
  /\ UNCHANGED <<backupVars, restoreVars, crashes>>

\* The worker ingests unless a restore is being applied or waits to be applied again.
Ingest ==
  /\ api \notin Applying /\ database = "whole"
  /\ \E r \in Requests, c \in Contents : StartIngest(r, c)
  /\ Counted
  /\ UNCHANGED <<backupVars, restoreVars, crashes>>

Store ==
  /\ \E r \in Requests : StoreStep(r)
  /\ UNCHANGED <<backupVars, restoreVars, bounds>>

Browse ==
  /\ api = "up"
  /\ BrowserStep
  /\ UNCHANGED <<backupVars, restoreVars, bounds>>

\* A file that is removed before a backup under way has copied it is missing there,
\* although the copy of the database may have its row.
Missed(z, k) == zip[z] # None /\ \/ zip[z].at = "listing"
                                 \/ zip[z].at = "copying" /\ k \in zip[z].todo
Unlink ==
  /\ api = "up"
  /\ \E r \in Requests :
       /\ RemoveObject(r)
       /\ zip' = [z \in Zips |-> IF Missed(z, req[r].key)
                                 THEN [zip[z] EXCEPT !.stale = @ \cup {req[r].key}] ELSE zip[z]]
  /\ UNCHANGED <<staged, marker, staging, restoreVars, bounds>>

StopWorker ==
  /\ WorkerDies
  /\ UNCHANGED <<backupVars, restoreVars, bounds>>

-----------------------------------------------------------------------------
\* create_backup: the database, the list of files, each file, the manifest.
CopyDatabase(z) ==
  /\ api = "up" /\ backend = "local" /\ zip[z] = None
  /\ zip' = [zip EXCEPT ![z] = [at |-> "listing", doc |-> doc, index |-> index,
                                objects |-> NoObjects, todo |-> {}, stale |-> stale,
                                rewritten |-> {}]]
  /\ requests < MaxRequests /\ requests' = requests + 1
  /\ UNCHANGED <<docVars, staged, marker, staging, restoreVars, crashes>>

ListFiles(z) ==
  /\ Zip(z, "listing")
  /\ zip' = [zip EXCEPT ![z].at = "copying", ![z].todo = Present]
  /\ UNCHANGED <<docVars, staged, marker, staging, restoreVars, bounds>>

\* A file that is gone by then is passed over, or the backup fails if it goes after the
\* check that it is there; one that is being written is copied as it is.
CopyFile(z, k) ==
  /\ Zip(z, "copying") /\ k \in zip[z].todo
  /\ zip' = [zip EXCEPT ![z].todo = @ \ {k}, ![z].objects[k] = objects[k],
                        ![z].rewritten = @ \cup ({k} \cap rewritten)]
  /\ UNCHANGED <<docVars, staged, marker, staging, restoreVars, bounds>>

CopyFails(z, k) ==
  /\ Zip(z, "copying") /\ k \in zip[z].todo /\ objects[k] = None
  /\ zip' = [zip EXCEPT ![z].at = "broken"]
  /\ UNCHANGED <<docVars, staged, marker, staging, restoreVars, bounds>>

\* Mutant: the manifest does not wait for the files.
WriteManifestEarly(z) ==
  /\ Zip(z, "copying")
  /\ zip' = [zip EXCEPT ![z].at = "written"]
  /\ UNCHANGED <<docVars, staged, marker, staging, restoreVars, bounds>>

WriteManifest(z) ==
  /\ Zip(z, "copying") /\ zip[z].todo = {}
  /\ zip' = [zip EXCEPT ![z].at = "written"]
  /\ UNCHANGED <<docVars, staged, marker, staging, restoreVars, bounds>>

\* Mutant: a backup without its manifest is accepted.
UnpackAny(z) ==
  /\ api = "up" /\ staging = None /\ zip[z] # None
  /\ staged' = staged \cup {z} /\ staging' = z
  /\ UNCHANGED <<docVars, zip, marker, restoreVars, bounds>>

\* stage_restore unpacks and validates; a backup without its manifest is refused.
Unpack(z) ==
  /\ api = "up" /\ staging = None /\ Zip(z, "written")
  /\ staged' = staged \cup {z} /\ staging' = z
  /\ UNCHANGED <<docVars, zip, marker, restoreVars, bounds>>

\* write_text truncates the marker, whatever it named before, and then fills it.
TruncateMarker ==
  /\ staging # None /\ marker # "torn"
  /\ marker' = "torn"
  /\ UNCHANGED <<docVars, zip, staged, staging, restoreVars, bounds>>

WriteMarker ==
  /\ staging # None /\ marker = "torn"
  /\ marker' = staging /\ staging' = None
  /\ UNCHANGED <<docVars, zip, staged, restoreVars, bounds>>

-----------------------------------------------------------------------------
\* The API dies, also while it applies a restore.  A backup it was writing stays
\* without its manifest.
Crash ==
  /\ api # "down" /\ crashes < MaxCrashes
  /\ ApiDies
  /\ api' = "down" /\ staging' = None /\ crashes' = crashes + 1
  /\ zip' = [z \in Zips |-> IF zip[z] # None /\ zip[z].at # "written"
                            THEN [zip[z] EXCEPT !.at = "broken"] ELSE zip[z]]
  /\ UNCHANGED <<staged, marker, applying, database, requests>>

\* The lifespan of the API: without a marker it serves.  A torn marker, or one whose
\* staging directory is gone, raises and the process ends.
Start ==
  /\ api = "down" /\ marker = "none"
  /\ api' = "up"
  /\ UNCHANGED <<docVars, backupVars, applying, database, bounds>>

\* Mutant: the marker is taken away before its restore is applied.
BeginApplyUnmarked ==
  /\ api = "down" /\ marker \in staged
  /\ api' = "log" /\ applying' = marker /\ marker' = "none"
  /\ Abandon({"ingest"})
  /\ UNCHANGED <<backend, doc, index, objects, claim, snapshot, stale, rewritten>>
  /\ UNCHANGED <<zip, staged, staging, database, bounds>>

\* Mutant: a marker is not checked.
BeginApplyAny ==
  /\ api = "down" /\ marker # "none"
  /\ api' = "log" /\ applying' = marker
  /\ Abandon({"ingest"})
  /\ UNCHANGED <<backend, doc, index, objects, claim, snapshot, stale, rewritten>>
  /\ UNCHANGED <<backupVars, database, bounds>>

\* apply_pending_restore reads the marker; the worker has been stopped.
BeginApply ==
  /\ api = "down" /\ marker \in staged
  /\ api' = "log" /\ applying' = marker
  /\ Abandon({"ingest"})
  /\ UNCHANGED <<backend, doc, index, objects, claim, snapshot, stale, rewritten>>
  /\ UNCHANGED <<backupVars, database, bounds>>

\* The write-ahead log goes first: until the next step the database may lack commits.
RemoveLog ==
  /\ api = "log"
  /\ api' = "replace" /\ database' = "torn"
  /\ UNCHANGED <<docVars, backupVars, applying, bounds>>

ReplaceDatabase ==
  /\ api = "replace"
  /\ doc' = zip[applying].doc /\ index' = zip[applying].index /\ stale' = zip[applying].stale
  /\ rewritten' = zip[applying].rewritten
  /\ api' = "clear"
  /\ UNCHANGED <<backend, objects, claim, snapshot, req>>
  /\ UNCHANGED <<backupVars, applying, database, bounds>>

RemoveFiles ==
  /\ api = "clear"
  /\ objects' = NoObjects
  /\ api' = "copy"
  /\ UNCHANGED <<backend, doc, index, claim, snapshot, req, stale, rewritten>>
  /\ UNCHANGED <<backupVars, applying, database, bounds>>

RestoreFile(k) ==
  /\ api = "copy" /\ objects[k] # zip[applying].objects[k]
  /\ objects' = [objects EXCEPT ![k] = zip[applying].objects[k]]
  /\ UNCHANGED <<backend, doc, index, claim, snapshot, req, stale, rewritten>>
  /\ UNCHANGED <<backupVars, restoreVars, bounds>>

\* Mutants: the files are not all copied; the marker is left behind.
SomeRestored ==
  /\ api = "copy"
  /\ api' = "unmark" /\ database' = "whole"
  /\ UNCHANGED <<docVars, backupVars, applying, bounds>>
AllRestoredMarked ==
  /\ api = "copy" /\ objects = zip[applying].objects
  /\ api' = "clean" /\ database' = "whole"
  /\ UNCHANGED <<docVars, backupVars, applying, bounds>>

AllRestored ==
  /\ api = "copy" /\ objects = zip[applying].objects
  /\ api' = "unmark" /\ database' = "whole"
  /\ UNCHANGED <<docVars, backupVars, applying, bounds>>

RemoveMarker ==
  /\ api = "unmark"
  /\ marker' = "none" /\ api' = "clean"
  /\ UNCHANGED <<docVars, zip, staged, staging, applying, database, bounds>>

RemoveStaging ==
  /\ api = "clean"
  /\ staged' = staged \ {applying} /\ applying' = None /\ api' = "up"
  /\ UNCHANGED <<docVars, zip, marker, staging, database, bounds>>

-----------------------------------------------------------------------------
Apply == \/ RemoveLog \/ ReplaceDatabase \/ RemoveFiles
         \/ \E k \in ObjectKeys : RestoreFile(k)
         \/ AllRestored \/ RemoveMarker \/ RemoveStaging

Next ==
  \/ Serve \/ Ingest \/ Store \/ Browse \/ Unlink \/ StopWorker
  \/ \E z \in Zips : CopyDatabase(z) \/ ListFiles(z) \/ WriteManifest(z) \/ Unpack(z)
  \/ \E z \in Zips, k \in ObjectKeys : CopyFile(z, k) \/ CopyFails(z, k)
  \/ TruncateMarker \/ WriteMarker
  \/ Crash \/ Start \/ BeginApply \/ Apply

\* The container is restarted when the API has ended (restart: unless-stopped), and
\* its start runs to the end unless it dies.
Fairness == WF_vars(Start \/ BeginApply) /\ WF_vars(Apply)
Spec == Init /\ [][Next]_vars /\ Fairness

-----------------------------------------------------------------------------
BackupTypeOK ==
  /\ zip \in [Zips -> Backup \cup {None}]
  /\ staged \subseteq Zips
  /\ marker \in Zips \cup {"none", "torn"} /\ staging \in Zips \cup {None}
  /\ api \in {"up", "down"} \cup Applying /\ applying \in Zips \cup {None}
  /\ database \in {"whole", "torn"}
  /\ requests \in 0..MaxRequests /\ crashes \in 0..MaxCrashes

\* Every document of the running installation has its file, also after a restore of a
\* backup that was written while documents came and went: the files are copied after
\* the database, so the backup lacks one only if it was deleted in between, and holds a torn
\* one only if it copied it while an upload of the same content wrote it again.
RestoredRowHasObject == database = "whole" => RowHasObject

\* The API never serves a state that is half old and half restored, wherever the
\* restore was interrupted and however often it was started again.
ServesWholeState == api = "up" => database = "whole"

\* A restore that ends has given the rows, the index and the files of its backup.
RestoredState ==
  api = "clean" => /\ doc = zip[applying].doc /\ index = zip[applying].index
                   /\ objects = zip[applying].objects

\* A marker names a backup that was finished and is still unpacked, so that the start
\* that finds it can apply it.
MarkerUsable == marker \in Zips => marker \in staged /\ zip[marker].at = "written"

\* What there is to see of backup and restore (module BackupPromise).
Seen(d, i, o) == [doc |-> d, index |-> i, objects |-> o]
Promise == INSTANCE BackupPromise WITH
  up <- api = "up",
  whole <- database = "whole",
  state <- Seen(doc, index, objects),
  saved <- {<<z, Seen(zip[z].doc, zip[z].index, zip[z].objects)>> :
              z \in {y \in Zips : Zip(y, "written")}},
  pending <- Zips \cap {marker}

\* Backup and restore keep what BackupPromise promises, wherever a crash interrupts them: a
\* restore that was begun is begun again and ends with the whole state of its backup,
\* which nothing has changed since it was finished.
KeepsBackupPromise == Promise!Spec

\* A stopped API comes back, through any number of interrupted restores, unless a crash
\* has left the marker half written.
ComesBack == (api # "up" /\ marker # "torn") ~> api = "up"
=============================================================================
