--------------------------- MODULE DataPlaneProofs ---------------------------
(***************************************************************************)
(* Proofs about backup and restore, for any contents, requests and backups   *)
(* and any number of crashes.                                               *)
(***************************************************************************)
EXTENDS DataPlane, DocumentStoreProofs

USE BackupAssumption

(* The inductive invariant. *)

\* A file with its content, or one that an upload of this content is writing again or has left
\* torn; in the installation and in a backup.
Here(k, c) == objects[k] = c \/ (k \in rewritten /\ objects[k] = Torn)
In(b, k, c) == b.objects[k] = c \/ (k \in b.rewritten /\ b.objects[k] = Torn)

\* The rows of a backup under way or finished, and their files: those that have been copied,
\* and until then those of the installation.
ZipRowsSound(b) ==
  \A i \in Ids : b.doc[i] # None =>
    LET k == b.doc[i].key c == b.doc[i].content IN
      /\ k.kind # "presigned" /\ k.of = c
      /\ \/ k \in b.stale
         \/ b.at = "broken"
         \/ b.at = "listing" /\ Here(k, c)
         \/ b.at = "copying" /\ k \in b.todo /\ Here(k, c)
         \/ b.at = "copying" /\ k \notin b.todo /\ In(b, k, c)
         \/ b.at = "written" /\ In(b, k, c)

ZipIndexed(b) ==
  /\ b.index = {[id |-> i, content |-> b.doc[i].content] : i \in {j \in Ids : b.doc[j] # None}}
  /\ \A i, j \in Ids : b.doc[i] # None /\ b.doc[j] # None /\ b.doc[i].content = b.doc[j].content
                         => i = j

ZipSound(b) ==
  /\ backend = "local"
  /\ ZipRowsSound(b) /\ ZipIndexed(b)
  /\ \A t \in Tokens : b.objects[PresignedKey(t)] = None
  /\ api # "up" => b.at \in {"written", "broken"}
ZipsSound == \A z \in Zips : zip[z] # None => ZipSound(zip[z])

Finished(z) == z \in staged /\ zip[z] # None /\ zip[z].at = "written"

MarkerSound ==
  /\ staging # None => api = "up" /\ Finished(staging)
  /\ marker \in Zips => Finished(marker)

RestoreSound ==
  /\ api \in Applying => applying \in Zips /\ Finished(applying)
  /\ api \in Applying \ {"clean"} => marker = applying
  /\ api = "clean" => marker = "none"
  /\ api \in {"up", "unmark", "clean"} => database = "whole"
  /\ api \in {"replace", "clear", "copy"} => database = "torn"
  /\ database = "torn" => marker \in Zips /\ backend = "local"
  /\ api \in {"clear", "copy", "unmark", "clean"} =>
       /\ doc = zip[applying].doc /\ index = zip[applying].index /\ stale = zip[applying].stale
       /\ rewritten = zip[applying].rewritten
  /\ api \in {"unmark", "clean"} => objects = zip[applying].objects

\* Nothing is under way while a restore is applied or waits to be applied again.
Quiet ==
  \A r \in Requests : req[r] # Idle =>
    /\ api # "up" => req[r].op = "ingest"
    /\ api \notin Applying /\ database = "whole"

\* The index and the rows are replaced together.
Indexed == IndexFollowsRows /\ StoredOnce

IInv ==
  /\ StoreCore /\ BackupTypeOK
  /\ Indexed
  /\ database = "whole" => StoreRows /\ RequestsSound
  /\ ZipsSound /\ MarkerSound /\ RestoreSound /\ Quiet

LEMMA InitInv == Init => IInv
<1> SUFFICES ASSUME Init PROVE IInv
  OBVIOUS
<1>1. StoreCore /\ StoreRows /\ RequestsSound
  BY StoreInitInv DEF Init, StoreInv
<1>2. BackupTypeOK
  BY DEF Init, BackupTypeOK
<1>3. ZipsSound /\ MarkerSound /\ RestoreSound
  BY DEF Init, ZipsSound, MarkerSound, RestoreSound, Applying
<1>4. Quiet
  BY DEF Init, StoreInit, Quiet
<1>5. Indexed
  BY <1>1 DEF StoreRows, Indexed
<1> QED BY <1>1, <1>2, <1>3, <1>4, <1>5 DEF IInv

-----------------------------------------------------------------------------
(* What a step leaves alone. *)

LEMMA DocsStay ==
  ASSUME UNCHANGED docVars
  PROVE  /\ StoreCore => StoreCore'
         /\ StoreRows => StoreRows'
         /\ RequestsSound => RequestsSound'
         /\ Indexed => Indexed'
<1>1. StoreCore => StoreCore'
  BY DEF docVars, StoreCore, StoreTypeOK
<1>2. StoreRows => StoreRows'
  BY DEF docVars, StoreRows, RowsKeyed, RowHasObject, IndexFollowsRows, StoredOnce, Rows, Keyed,
         Sent
<1>3. RequestsSound => RequestsSound'
  BY DEF docVars, RequestsSound, Sound, Keyed, Sent, Placed, Relies, Spares,
         HasFile
<1>4. Indexed => Indexed'
  BY DEF docVars, Indexed, IndexFollowsRows, StoredOnce, Rows
<1> QED BY <1>1, <1>2, <1>3, <1>4

\* The files a backup under way is going to copy stay as good as they are.
FilesStay ==
  \A k \in ObjectKeys : k.kind # "presigned" /\ Here(k, k.of) =>
    objects'[k] = k.of \/ (k \in rewritten' /\ objects'[k] = Torn)

LEMMA ZipStays ==
  ASSUME NEW b \in Backup, ZipSound(b), backend' = backend, api' = "up" \/ api' = api,
         FilesStay \/ b.at \in {"written", "broken"}
  PROVE  ZipSound(b)'
<1>1. ZipRowsSound(b)'
  <2> SUFFICES ASSUME NEW i \in Ids, b.doc[i] # None
               PROVE  LET k == b.doc[i].key c == b.doc[i].content IN
                        /\ k.kind # "presigned" /\ k.of = c
                        /\ \/ k \in b.stale
                           \/ b.at = "broken"
                           \/ b.at = "written" /\ In(b, k, c)
                           \/ b.at = "copying" /\ k \notin b.todo /\ In(b, k, c)
                           \/ /\ b.at = "listing" \/ (b.at = "copying" /\ k \in b.todo)
                              /\ objects'[k] = c \/ (k \in rewritten' /\ objects'[k] = Torn)
    BY DEF ZipRowsSound, Here, In
  <2>1. b.doc[i].key \in ObjectKeys
    BY DEF Backup, Document
  <2> QED BY <2>1 DEF ZipSound, ZipRowsSound, Here, In, FilesStay
<1>2. ZipIndexed(b)'
  BY DEF ZipSound, ZipIndexed
<1> QED BY <1>1, <1>2 DEF ZipSound

LEMMA ZipsStay ==
  ASSUME BackupTypeOK, ZipsSound, backend' = backend, zip' = zip, api' = "up" \/ api' = api,
         FilesStay \/ (api # "up" /\ api' # "up")
  PROVE  ZipsSound'
<1> SUFFICES ASSUME NEW z \in Zips, zip[z] # None PROVE ZipSound(zip[z])'
  BY DEF ZipsSound
<1>1. PICK b : b = zip[z]
  OBVIOUS
<1>2. b \in Backup /\ ZipSound(b)
  BY <1>1 DEF BackupTypeOK, ZipsSound
<1>3. ZipSound(b)'
  BY <1>2, ZipStays DEF ZipSound
<1>4. ZipRowsSound(zip[z])'
  BY <1>1, <1>3 DEF ZipSound, ZipRowsSound, Here, In
<1>5. ZipIndexed(zip[z])'
  BY <1>1, <1>3 DEF ZipSound, ZipIndexed
<1> QED BY <1>1, <1>3, <1>4, <1>5 DEF ZipSound

\* One backup moves on.
LEMMA ZipMoves ==
  ASSUME BackupTypeOK, ZipsSound, UNCHANGED <<backend, objects, rewritten, api>>, NEW z \in Zips,
         NEW b \in Backup, zip' = [zip EXCEPT ![z] = b], ZipSound(b)
  PROVE  ZipsSound' /\ zip' \in [Zips -> Backup \cup {None}]
<1>1. zip' \in [Zips -> Backup \cup {None}]
  BY DEF BackupTypeOK
<1> SUFFICES ASSUME NEW y \in Zips, zip'[y] # None PROVE ZipSound(zip[y])'
  BY <1>1 DEF ZipsSound
<1>2. PICK d : d = zip'[y]
  OBVIOUS
<1>3. ZipSound(d) /\ d \in Backup
  BY <1>2 DEF BackupTypeOK, ZipsSound
<1>4. ZipSound(d)'
  BY <1>3, ZipStays DEF FilesStay, Here
<1>5. ZipRowsSound(zip[y])'
  BY <1>2, <1>4 DEF ZipSound, ZipRowsSound, Here, In
<1>6. ZipIndexed(zip[y])'
  BY <1>2, <1>4 DEF ZipSound, ZipIndexed
<1> QED BY <1>2, <1>4, <1>5, <1>6 DEF ZipSound

\* Marker and staging stay as they are while finished backups stay finished.
LEMMA MarkerStays ==
  ASSUME MarkerSound, RestoreSound, api \notin Applying,
         UNCHANGED <<staged, marker, staging, restoreVars>>, backend' = backend,
         \A z \in Zips : Finished(z) => zip'[z] # None /\ zip'[z].at = "written",
         BackupTypeOK
  PROVE  MarkerSound' /\ RestoreSound'
<1>1. MarkerSound'
  BY DEF MarkerSound, Finished, restoreVars, BackupTypeOK
<1>2. RestoreSound'
  BY DEF RestoreSound, restoreVars, Applying
<1> QED BY <1>1, <1>2

-----------------------------------------------------------------------------
(* Requests, the worker and the browser. *)

\* A step of the documents while the installation is whole.
LEMMA DocumentsStep ==
  ASSUME IInv, StoreInv', api \notin Applying, FilesStay \/ api # "up",
         UNCHANGED <<backupVars, restoreVars, crashes>>, backend' = backend,
         requests' \in 0..MaxRequests, database = "whole", Quiet'
  PROVE  IInv'
<1>1. BackupTypeOK'
  BY DEF IInv, BackupTypeOK, backupVars, restoreVars
<1>2. ZipsSound'
  BY ZipsStay DEF IInv, backupVars, restoreVars
<1>3. MarkerSound' /\ RestoreSound'
  BY MarkerStays DEF IInv, backupVars, Finished
<1> QED BY <1>1, <1>2, <1>3 DEF IInv, StoreInv, StoreRows, Indexed

LEMMA WholeStore ==
  ASSUME IInv, database = "whole"
  PROVE  StoreInv
BY DEF IInv, StoreInv

LEMMA CountedType ==
  ASSUME BackupTypeOK, Counted
  PROVE  requests' \in 0..MaxRequests
BY DEF BackupTypeOK, Counted

LEMMA ServeInv ==
  ASSUME IInv, Serve
  PROVE  IInv'
<1>1. api = "up" /\ database = "whole" /\ api \notin Applying
  BY DEF Serve, IInv, RestoreSound, Applying
<1>2. PICK r \in Requests : ApiStep(r)
  BY DEF Serve
<1>3. StoreInv'
  BY <1>1, <1>2, WholeStore, ApiStepInv
<1>4. objects' = objects /\ backend' = backend /\ rewritten' = rewritten
  BY <1>2 DEF ApiStep, StartUpload, StartFinalize, StartDelete, Fetch, Look, Remember, DropRow,
              RemoveFails
<1>5. Quiet'
  BY <1>1 DEF Serve, restoreVars, Quiet, Applying
<1> QED BY <1>1, <1>3, <1>4, <1>5, DocumentsStep, CountedType DEF Serve, FilesStay, Here, IInv

LEMMA IngestInv ==
  ASSUME IInv, Ingest
  PROVE  IInv'
<1>1. PICK r \in Requests, c \in Contents : StartIngest(r, c)
  BY DEF Ingest
<1>2. database = "whole" /\ api \notin Applying
  BY DEF Ingest
<1>3. StoreInv'
  BY <1>1, <1>2, WholeStore, StartUploadInv
<1>4. objects' = objects /\ backend' = backend /\ rewritten' = rewritten
  BY <1>1 DEF StartIngest
<1>5. Quiet'
  <2> DEFINE m == New("ingest", "put", OaKey(c), c)
  <2>1. m.op = "ingest" /\ req' = [req EXCEPT ![r] = m]
    BY <1>1 DEF StartIngest, New
  <2> HIDE DEF m
  <2>2. req \in [Requests -> Request \cup {Idle}]
    BY DEF IInv, StoreCore, StoreTypeOK
  <2> QED BY <1>2, <2>1, <2>2 DEF Ingest, restoreVars, Quiet, IInv
<1> QED BY <1>2, <1>3, <1>4, <1>5, DocumentsStep, CountedType DEF Ingest, FilesStay, Here, IInv

LEMMA StoreInvStep ==
  ASSUME IInv, Store
  PROVE  IInv'
<1>1. PICK r \in Requests : StoreStep(r)
  BY DEF Store
<1>2. req[r] # Idle
  BY <1>1 DEF StoreStep, PutObject, Truncate, Fill, PutFails, Insert, Duplicate, At
<1>3. database = "whole" /\ api \notin Applying
  BY <1>2 DEF IInv, Quiet
<1>4. StoreInv /\ StoreInv'
  BY <1>1, <1>3, WholeStore, StoreStepInv
<1>5. backend' = backend /\ UNCHANGED <<backupVars, restoreVars, bounds>>
  BY <1>1 DEF Store, StoreStep, PutObject, Truncate, Fill, PutFails, Insert, Duplicate
<1>6. /\ req[r] \in Request /\ Sound(req[r]) /\ req[r].key \in ObjectKeys
      /\ StoreTypeOK
  BY <1>2, <1>4, RequestType DEF StoreInv, StoreCore, RequestsSound
<1>7. FilesStay
  <2>1. ASSUME NEW v, objects' = [objects EXCEPT ![req[r].key] = v],
               \A l \in ObjectKeys \ {req[r].key} : l \in rewritten' <=> l \in rewritten,
               Here(req[r].key, req[r].content) =>
                 v = req[r].content \/ (req[r].key \in rewritten' /\ v = Torn)
        PROVE  FilesStay
    <3>1. req[r].key.kind # "presigned" => req[r].content = req[r].key.of
      BY <1>6 DEF Sound, Keyed
    <3>2. \A k \in ObjectKeys : objects'[k] = IF k = req[r].key THEN v ELSE objects[k]
      BY <1>6, <2>1 DEF StoreTypeOK
    <3> QED BY <2>1, <3>1, <3>2 DEF FilesStay, Here
  <2>2. CASE PutObject(r)
    BY <2>1, <2>2 DEF PutObject
  <2>3. CASE Truncate(r)
    <3>1. req[r].content \in Contents
      BY <1>6 DEF Request
    <3> QED BY <2>1, <2>3, <3>1 DEF Truncate, Here
  <2>4. CASE Fill(r)
    <3> DEFINE v == IF objects[req[r].key] = None THEN None ELSE req[r].content
    <3>1. Here(req[r].key, req[r].content) => v = req[r].content
      BY <1>6, StoreAssumption DEF Here, Request
    <3>2. objects' = [objects EXCEPT ![req[r].key] = v] /\ rewritten' = rewritten \ {req[r].key}
      BY <2>4 DEF Fill
    <3> HIDE DEF v
    <3> QED BY <2>1, <3>1, <3>2
  <2>5. CASE Insert(r) \/ Duplicate(r) \/ PutFails(r)
    BY <2>5 DEF Insert, Duplicate, PutFails, FilesStay, Here
  <2> QED BY <1>1, <2>2, <2>3, <2>4, <2>5 DEF StoreStep
<1>8. Quiet'
  <2>1. \A d \in Requests : req'[d] # Idle => req[d] # Idle /\ req'[d].op = req[d].op
    <3>1. ASSUME NEW n, req' = [req EXCEPT ![r] = n], n = Idle \/ n.op = req[r].op
          PROVE  \A d \in Requests : req'[d] # Idle => req[d] # Idle /\ req'[d].op = req[d].op
      BY <1>2, <1>6, <3>1 DEF StoreTypeOK
    <3>2. CASE PutObject(r) \/ Truncate(r) \/ Fill(r)
      <4>1. PICK place \in Places : req' = [req EXCEPT ![r].at = place]
        BY <3>2 DEF PutObject, Truncate, Fill, Stored, Goto, Places
      <4> DEFINE n == [req[r] EXCEPT !.at = place]
      <4>2. req' = [req EXCEPT ![r] = n]
        BY <4>1
      <4>3. n.op = req[r].op
        BY <1>6, <4>1, MovedType
      <4> HIDE DEF n
      <4> QED BY <3>1, <4>2, <4>3
    <3>3. CASE Insert(r)
      <4>1. PICK i \in Ids :
              IF req[r].op = "finalize"
              THEN req' = [req EXCEPT ![r].at = "remember", ![r].id = i] ELSE Finish(r)
        BY <3>3 DEF Insert
      <4>2. CASE Finish(r)
        BY <3>1, <4>2 DEF Finish
      <4>3. CASE req' = [req EXCEPT ![r].at = "remember", ![r].id = i]
        <5> DEFINE m == [req[r] EXCEPT !.at = "remember", !.id = i]
        <5>1. m.op = req[r].op
          BY <1>6 DEF Request
        <5>2. DOMAIN req = Requests
          BY <1>6 DEF StoreTypeOK
        <5>3. [req EXCEPT ![r].at = "remember", ![r].id = i] = [req EXCEPT ![r] = m]
          BY <1>6, <5>2, TwoFields
        <5>4. req' = [req EXCEPT ![r] = m]
          BY <4>3, <5>3
        <5> HIDE DEF m
        <5> QED BY <3>1, <5>1, <5>4
      <4> QED BY <4>1, <4>2, <4>3
    <3>4. CASE Duplicate(r) \/ PutFails(r)
      BY <3>1, <3>4 DEF Duplicate, PutFails, Finish
    <3> QED BY <1>1, <3>2, <3>3, <3>4 DEF StoreStep
  <2> QED BY <1>3, <1>5, <2>1 DEF IInv, Quiet, restoreVars
<1>9. requests' \in 0..MaxRequests /\ UNCHANGED crashes
  BY <1>5 DEF IInv, BackupTypeOK, bounds
<1> QED BY <1>3, <1>4, <1>5, <1>7, <1>8, <1>9, DocumentsStep

LEMMA BrowseInv ==
  ASSUME IInv, Browse
  PROVE  IInv'
<1>1. api = "up" /\ database = "whole" /\ api \notin Applying
  BY DEF Browse, IInv, RestoreSound, Applying
<1>2. StoreInv /\ StoreInv'
  BY <1>1, WholeStore, BrowserStepInv DEF Browse
<1>3. PICK t \in Tokens, c \in Contents : Presign(t, c) \/ Send(t, c)
  BY DEF Browse, BrowserStep
<1>4. FilesStay
  <2>1. CASE Presign(t, c)
    BY <2>1 DEF Presign, FilesStay, Here
  <2>2. CASE Send(t, c)
    <3>1. \A k \in ObjectKeys : k.kind # "presigned" => k # PresignedKey(t)
      BY DEF PresignedKey
    <3>2. \A k \in ObjectKeys : k # PresignedKey(t) => objects'[k] = objects[k]
      BY <1>2, <2>2 DEF Send, StoreInv, StoreCore, StoreTypeOK
    <3> QED BY <2>2, <3>1, <3>2 DEF Send, FilesStay, Here
  <2> QED BY <1>3, <2>1, <2>2
<1>5. backend' = backend /\ UNCHANGED <<backupVars, restoreVars, bounds>>
  BY <1>3 DEF Browse, Presign, Send
<1>6. Quiet'
  BY <1>1, <1>5 DEF Quiet, restoreVars, Applying
<1>7. requests' \in 0..MaxRequests /\ UNCHANGED crashes
  BY <1>5 DEF IInv, BackupTypeOK, bounds
<1> QED BY <1>1, <1>2, <1>4, <1>5, <1>6, <1>7, DocumentsStep

LEMMA StopWorkerInv ==
  ASSUME IInv, StopWorker
  PROVE  IInv'
<1>1. PICK r \in Requests : req[r] # Idle
  BY DEF StopWorker, WorkerDies
<1>2. database = "whole" /\ api \notin Applying
  BY <1>1 DEF IInv, Quiet
<1>3. /\ UNCHANGED <<backend, doc, index, objects, claim, snapshot, stale, rewritten>>
      /\ UNCHANGED <<backupVars, restoreVars, bounds>> /\ Abandon({"ingest"})
  BY DEF StopWorker, WorkerDies
<1>4. StoreInv'
  BY <1>2, <1>3, WholeStore, AbandonInv
<1>5. Quiet'
  BY <1>3 DEF IInv, Quiet, Abandon, restoreVars
<1>6. requests' \in 0..MaxRequests /\ UNCHANGED crashes
  BY <1>3 DEF IInv, BackupTypeOK, bounds
<1> QED BY <1>2, <1>3, <1>4, <1>5, <1>6, DocumentsStep DEF FilesStay, Here

\* A file that is removed under a backup is stale there.
LEMMA UnlinkInv ==
  ASSUME IInv, Unlink
  PROVE  IInv'
<1>1. api = "up" /\ database = "whole" /\ api \notin Applying
  BY DEF Unlink, IInv, RestoreSound, Applying
<1>2. PICK r \in Requests :
        /\ RemoveObject(r)
        /\ zip' = [z \in Zips |-> IF Missed(z, req[r].key)
                                  THEN [zip[z] EXCEPT !.stale = @ \cup {req[r].key}] ELSE zip[z]]
  BY DEF Unlink
<1> DEFINE k == req[r].key
<1>3. StoreInv /\ StoreInv'
  BY <1>1, <1>2, WholeStore, RemoveObjectInv
<1>4. k \in ObjectKeys /\ StoreTypeOK
  BY <1>2, <1>3, RequestAt DEF RemoveObject
<1>5. /\ \A l \in ObjectKeys : objects'[l] = IF l = k THEN None ELSE objects[l]
      /\ rewritten' = rewritten \ {k}
      /\ backend' = backend
      /\ UNCHANGED <<staged, marker, staging, restoreVars, bounds>>
  BY <1>2, <1>4 DEF RemoveObject, StoreTypeOK, Unlink
<1> HIDE DEF k
<1>6. ASSUME NEW z \in Zips, zip[z] # None
      PROVE  /\ zip'[z] \in Backup /\ zip'[z].at = zip[z].at
             /\ ZipSound(zip[z])'
  <2> DEFINE b == zip[z]
             d == [b EXCEPT !.stale = @ \cup {k}]
  <2>1. b \in Backup /\ ZipSound(b)
    BY <1>6 DEF IInv, BackupTypeOK, ZipsSound
  <2>2. /\ d \in Backup /\ d.at = b.at /\ d.doc = b.doc /\ d.index = b.index
        /\ d.objects = b.objects /\ d.todo = b.todo /\ d.stale = b.stale \cup {k}
        /\ d.rewritten = b.rewritten
    BY <1>4, <2>1 DEF Backup, k
  <2>3. zip'[z] = IF Missed(z, k) THEN d ELSE b
    BY <1>2 DEF k
  <2>4. Missed(z, k) <=> (b.at = "listing" \/ (b.at = "copying" /\ k \in b.todo))
    BY <1>6 DEF Missed
  <2> HIDE DEF b, d
  <2>5. PICK e : e = zip'[z]
    OBVIOUS
  <2>6. /\ e \in Backup /\ e.at = b.at /\ e.doc = b.doc /\ e.index = b.index
        /\ e.objects = b.objects /\ e.todo = b.todo /\ e.rewritten = b.rewritten
        /\ e.stale = IF b.at = "listing" \/ (b.at = "copying" /\ k \in b.todo)
                     THEN b.stale \cup {k} ELSE b.stale
    BY <2>1, <2>2, <2>3, <2>4, <2>5
  <2>7. \A i \in Ids : b.doc[i] # None => b.doc[i].key \in ObjectKeys
    BY <2>1 DEF Backup, Document
  <2>8. ZipRowsSound(e)'
    BY <1>5, <2>1, <2>6, <2>7 DEF ZipSound, ZipRowsSound, Here, In
  <2>9. ZipIndexed(e)'
    BY <2>1, <2>6 DEF ZipSound, ZipIndexed
  <2>10. ZipSound(e)'
    BY <1>1, <1>5, <2>1, <2>6, <2>8, <2>9 DEF ZipSound, restoreVars
  <2> QED BY <2>5, <2>6, <2>10 DEF ZipSound, ZipRowsSound, Here, In, ZipIndexed, b
<1>7. \A z \in Zips : zip'[z] # None => zip[z] # None
  BY <1>2 DEF Missed
<1>8. ZipsSound'
  BY <1>6, <1>7 DEF ZipsSound
<1>9. BackupTypeOK'
  <2>1. \A z \in Zips : zip'[z] \in Backup \cup {None}
    BY <1>6, <1>7
  <2>2. zip' \in [Zips -> Backup \cup {None}]
    BY <1>2, <2>1
  <2> QED BY <1>5, <2>2 DEF IInv, BackupTypeOK, restoreVars, bounds
<1>10. MarkerSound' /\ RestoreSound'
  <2>1. \A z \in Zips : Finished(z) => zip'[z] # None /\ zip'[z].at = "written"
    <3> SUFFICES ASSUME NEW z \in Zips, Finished(z)
                 PROVE  zip'[z] # None /\ zip'[z].at = "written"
      OBVIOUS
    <3>1. ~Missed(z, req[r].key)
      BY DEF Finished, Missed
    <3> QED BY <1>2, <3>1 DEF Finished
  <2> QED BY <1>1, <1>5, <2>1, MarkerStays DEF IInv
<1>11. Quiet'
  BY <1>1, <1>5 DEF Quiet, restoreVars, Applying
<1> QED BY <1>3, <1>8, <1>9, <1>10, <1>11 DEF IInv, StoreInv, StoreRows, Indexed

-----------------------------------------------------------------------------
(* Backups. *)

\* One backup moves on and nothing else changes.
LEMMA BackupStep ==
  ASSUME IInv, NEW z \in Zips, NEW b \in Backup, zip' = [zip EXCEPT ![z] = b], ZipSound(b),
         zip[z] = None \/ zip[z].at # "written",
         UNCHANGED <<docVars, staged, marker, staging, restoreVars, crashes>>,
         requests' \in 0..MaxRequests
  PROVE  IInv'
<1>1. StoreCore' /\ Indexed' /\ (database' = "whole" => StoreRows' /\ RequestsSound')
  BY DocsStay DEF IInv, restoreVars
<1>2. ZipsSound' /\ zip' \in [Zips -> Backup \cup {None}]
  BY ZipMoves DEF IInv, docVars, restoreVars
<1>3. BackupTypeOK'
  BY <1>2 DEF IInv, BackupTypeOK, restoreVars, bounds
<1>4. \A y \in Zips : Finished(y) => zip'[y] = zip[y]
  BY DEF Finished, IInv, BackupTypeOK
<1>5. MarkerSound'
  BY <1>4 DEF IInv, MarkerSound, Finished, BackupTypeOK, restoreVars
<1>6. RestoreSound'
  BY <1>4 DEF IInv, RestoreSound, Finished, Applying, restoreVars, docVars
<1>7. Quiet'
  BY DEF IInv, Quiet, docVars, restoreVars
<1> QED BY <1>1, <1>2, <1>3, <1>5, <1>6, <1>7 DEF IInv

LEMMA CopyDatabaseInv ==
  ASSUME IInv, NEW z \in Zips, CopyDatabase(z)
  PROVE  IInv'
<1> DEFINE b == [at |-> "listing", doc |-> doc, index |-> index,
                 objects |-> NoObjects, todo |-> {}, stale |-> stale, rewritten |-> {}]
<1>1. /\ api = "up" /\ backend = "local" /\ zip[z] = None /\ zip' = [zip EXCEPT ![z] = b]
      /\ UNCHANGED <<docVars, staged, marker, staging, restoreVars, crashes>>
      /\ requests' \in 0..MaxRequests
  BY DEF CopyDatabase, IInv, BackupTypeOK
<1>2. StoreInv
  BY <1>1, WholeStore DEF IInv, RestoreSound
<1>3. NoObjects \in [ObjectKeys -> Contents \cup {None, Torn}]
  BY DEF NoObjects
<1>4. /\ b \in Backup /\ b.at = "listing" /\ b.doc = doc /\ b.index = index
      /\ b.objects = NoObjects /\ b.stale = stale
  BY <1>2, <1>3 DEF Backup, ZipState, StoreInv, StoreCore, StoreTypeOK
<1> HIDE DEF b
<1>5. ZipRowsSound(b)
  <2> SUFFICES ASSUME NEW i \in Ids, doc[i] # None
               PROVE  /\ doc[i].key.kind # "presigned" /\ doc[i].key.of = doc[i].content
                      /\ doc[i].key \in stale \/ Here(doc[i].key, doc[i].content)
    BY <1>4 DEF ZipRowsSound, Here, In
  <2>1. doc[i].key \in ObjectKeys
    BY <1>2 DEF StoreInv, StoreCore, StoreTypeOK, Document
  <2>2. Keyed(doc[i].key, doc[i].content)
    BY <1>2 DEF StoreInv, StoreRows, RowsKeyed
  <2>3. doc[i].key.kind # "presigned"
    BY <1>1, <1>2, <2>1, <2>2, KeyShape DEF Keyed, StoreInv, StoreCore
  <2> QED BY <1>2, <2>2, <2>3 DEF Keyed, StoreInv, StoreRows, RowHasObject, Rows, Here
<1>6. ZipIndexed(b)
  BY <1>1, <1>2, <1>4 DEF ZipIndexed, StoreInv, StoreRows, IndexFollowsRows, StoredOnce, Rows
<1>7. ZipSound(b)
  BY <1>1, <1>4, <1>5, <1>6 DEF ZipSound, NoObjects, PresignedKey, ObjectKeys
<1> QED BY <1>1, <1>4, <1>7, BackupStep

\* A backup that is under way, and the installation is up.
LEMMA ZipUnderWay ==
  ASSUME IInv, NEW z \in Zips, NEW state \in {"listing", "copying"}, Zip(z, state)
  PROVE  /\ zip[z] \in Backup /\ ZipSound(zip[z]) /\ api = "up" /\ zip[z].at = state
         /\ zip[z].at # "written" /\ DOMAIN zip = Zips
BY DEF IInv, BackupTypeOK, ZipsSound, ZipSound, Zip

LEMMA ListFilesInv ==
  ASSUME IInv, NEW z \in Zips, ListFiles(z)
  PROVE  IInv'
<1> DEFINE b == zip[z]
           d == [b EXCEPT !.at = "copying", !.todo = Present]
<1>1. b \in Backup /\ ZipSound(b) /\ api = "up" /\ b.at = "listing" /\ DOMAIN zip = Zips
  BY ZipUnderWay DEF ListFiles
<1>2. Present \in SUBSET ObjectKeys
  BY DEF Present
<1>3. /\ d \in Backup /\ d.doc = b.doc /\ d.index = b.index /\ d.stale = b.stale
      /\ d.objects = b.objects /\ d.at = "copying" /\ d.todo = Present
      /\ d.rewritten = b.rewritten
  BY <1>1, <1>2 DEF Backup, ZipState
<1>4. zip' = [zip EXCEPT ![z].at = "copying", ![z].todo = Present]
  BY DEF ListFiles
<1>5. zip' = [zip EXCEPT ![z] = d]
  <2> DEFINE g == [zip EXCEPT ![z].at = "copying"]
             m == [b EXCEPT !.at = "copying"]
  <2>1. g = [zip EXCEPT ![z] = m] /\ zip' = [g EXCEPT ![z].todo = Present]
    BY <1>4
  <2>2. g[z] = m /\ z \in DOMAIN g
    BY <1>1, <2>1
  <2> HIDE DEF g, m
  <2>3. zip' = [g EXCEPT ![z] = [m EXCEPT !.todo = Present]]
    BY <2>1, <2>2
  <2>4. zip' = [zip EXCEPT ![z] = [m EXCEPT !.todo = Present]]
    BY <2>1, <2>3
  <2> QED BY <2>4 DEF m
<1> HIDE DEF d
<1>6. ZipRowsSound(d)
  <2> SUFFICES ASSUME NEW i \in Ids, b.doc[i] # None
               PROVE  /\ b.doc[i].key.kind # "presigned" /\ b.doc[i].key.of = b.doc[i].content
                      /\ \/ b.doc[i].key \in b.stale
                         \/ b.doc[i].key \in Present /\ Here(b.doc[i].key, b.doc[i].content)
    BY <1>3 DEF ZipRowsSound, Here, In
  <2>1. b.doc[i].key \in ObjectKeys /\ b.doc[i].content # None
    BY <1>1, StoreAssumption DEF Backup, Document
  <2> QED BY <1>1, <2>1, StoreAssumption DEF ZipSound, ZipRowsSound, Here, In, Present
<1>7. ZipSound(d)
  BY <1>1, <1>3, <1>6 DEF ZipSound, ZipIndexed
<1>8. requests' \in 0..MaxRequests
  BY DEF ListFiles, bounds, IInv, BackupTypeOK
<1> QED BY <1>1, <1>3, <1>5, <1>7, <1>8, BackupStep DEF ListFiles, bounds

LEMMA CopyFileInv ==
  ASSUME IInv, NEW z \in Zips, NEW k \in ObjectKeys, CopyFile(z, k)
  PROVE  IInv'
<1> DEFINE b == zip[z]
           todo == b.todo \ {k}
           files == [b.objects EXCEPT ![k] = objects[k]]
           again == b.rewritten \cup ({k} \cap rewritten)
           d == [b EXCEPT !.todo = todo, !.objects = files, !.rewritten = again]
<1>1. b \in Backup /\ ZipSound(b) /\ api = "up" /\ b.at = "copying" /\ DOMAIN zip = Zips
  BY ZipUnderWay DEF CopyFile
<1>2. todo \in SUBSET ObjectKeys /\ again \in SUBSET ObjectKeys
  BY <1>1 DEF Backup, IInv, StoreCore, StoreTypeOK
<1>3. /\ files \in [ObjectKeys -> Contents \cup {None, Torn}]
      /\ \A l \in ObjectKeys : files[l] = IF l = k THEN objects[k] ELSE b.objects[l]
  BY <1>1 DEF Backup, IInv, StoreCore, StoreTypeOK
<1>4. /\ zip' = [zip EXCEPT ![z].todo = @ \ {k}, ![z].objects[k] = objects[k],
                            ![z].rewritten = @ \cup ({k} \cap rewritten)]
      /\ k \in b.todo
  BY DEF CopyFile
<1>5. zip' = [zip EXCEPT ![z] = d]
  <2> DEFINE g == [zip EXCEPT ![z].todo = @ \ {k}]
             m == [b EXCEPT !.todo = todo]
             h == [g EXCEPT ![z].objects[k] = objects[k]]
             p == [m EXCEPT !.objects = files]
  <2>1. g = [zip EXCEPT ![z] = m] /\ zip' = [h EXCEPT ![z].rewritten = @ \cup ({k} \cap rewritten)]
    BY <1>4
  <2>2. g[z] = m /\ z \in DOMAIN g /\ m.objects = b.objects
    BY <1>1, <2>1 DEF Backup
  <2> HIDE DEF g
  <2>3. h = [g EXCEPT ![z] = [m EXCEPT !.objects[k] = objects[k]]]
    BY <2>2
  <2>4. [m EXCEPT !.objects[k] = objects[k]] = p
    BY <2>2
  <2>5. p.rewritten = b.rewritten
    BY <1>1 DEF Backup
  <2> HIDE DEF m, files, p, h
  <2>6. h = [zip EXCEPT ![z] = p]
    BY <2>1, <2>3, <2>4
  <2>7. h[z] = p /\ z \in DOMAIN h
    BY <1>1, <2>6
  <2>8. zip' = [h EXCEPT ![z] = [p EXCEPT !.rewritten = again]]
    BY <2>1, <2>5, <2>7
  <2>9. zip' = [zip EXCEPT ![z] = [p EXCEPT !.rewritten = again]]
    BY <2>6, <2>8
  <2> QED BY <2>9 DEF m, p
<1> HIDE DEF todo, files, again
<1>6. /\ d \in Backup /\ d.doc = b.doc /\ d.index = b.index /\ d.stale = b.stale
      /\ d.objects = files /\ d.at = "copying" /\ d.todo = todo /\ d.rewritten = again
  BY <1>1, <1>2, <1>3 DEF Backup
<1> HIDE DEF d
<1>7. \A l \in ObjectKeys : l \in todo <=> l \in b.todo /\ l # k
  BY DEF todo
<1>8. ZipRowsSound(d)
  <2> SUFFICES ASSUME NEW i \in Ids, b.doc[i] # None
               PROVE  LET l == b.doc[i].key c == b.doc[i].content IN
                        /\ l.kind # "presigned" /\ l.of = c
                        /\ \/ l \in b.stale
                           \/ l \in todo /\ Here(l, c)
                           \/ l \notin todo /\ (files[l] = c \/ (l \in again /\ files[l] = Torn))
    BY <1>6 DEF ZipRowsSound, Here, In
  <2>1. b.doc[i].key \in ObjectKeys
    BY <1>1 DEF Backup, Document
  <2>2. PICK l, c : l = b.doc[i].key /\ c = b.doc[i].content
    OBVIOUS
  <2>3. /\ l.kind # "presigned" /\ l.of = c
        /\ \/ l \in b.stale
           \/ l \in b.todo /\ Here(l, c)
           \/ l \notin b.todo /\ In(b, l, c)
    BY <1>1, <2>2 DEF ZipSound, ZipRowsSound, Here, In
  <2>4. \/ l \in b.stale
        \/ l \in todo /\ Here(l, c)
        \/ l \notin todo /\ (files[l] = c \/ (l \in again /\ files[l] = Torn))
    BY <1>3, <1>4, <1>7, <2>1, <2>2, <2>3 DEF Here, In, again
  <2> QED BY <2>2, <2>3, <2>4
<1>9. \A t \in Tokens : files[PresignedKey(t)] = None
  <2> SUFFICES ASSUME NEW t \in Tokens PROVE files[PresignedKey(t)] = None
    OBVIOUS
  <2>1. PresignedKey(t) \in ObjectKeys
    BY DEF PresignedKey, ObjectKeys
  <2>2. objects[PresignedKey(t)] = None
    BY <1>1 DEF ZipSound, IInv, StoreCore
  <2> QED BY <1>1, <1>3, <2>1, <2>2 DEF ZipSound
<1>10. ZipSound(d)
  BY <1>1, <1>6, <1>8, <1>9 DEF ZipSound, ZipIndexed
<1>11. requests' \in 0..MaxRequests
  BY DEF CopyFile, bounds, IInv, BackupTypeOK
<1> QED BY <1>1, <1>5, <1>6, <1>10, <1>11, BackupStep DEF CopyFile, bounds

\* A backup that ends, with its manifest or without.
LEMMA EndBackup ==
  ASSUME IInv, NEW z \in Zips, NEW state \in {"written", "broken"}, Zip(z, "copying"),
         state = "written" => zip[z].todo = {}, zip' = [zip EXCEPT ![z].at = state],
         UNCHANGED <<docVars, staged, marker, staging, restoreVars, bounds>>
  PROVE  IInv'
<1> DEFINE b == zip[z]
           d == [b EXCEPT !.at = state]
<1>1. b \in Backup /\ ZipSound(b) /\ api = "up" /\ b.at = "copying" /\ DOMAIN zip = Zips
  BY ZipUnderWay
<1>2. /\ d \in Backup /\ d.doc = b.doc /\ d.index = b.index /\ d.stale = b.stale
      /\ d.objects = b.objects /\ d.at = state /\ d.todo = b.todo
      /\ d.rewritten = b.rewritten
  BY <1>1 DEF Backup, ZipState
<1>3. zip' = [zip EXCEPT ![z] = d]
  BY <1>1
<1> HIDE DEF d
<1>4. ZipRowsSound(d)
  BY <1>1, <1>2 DEF ZipSound, ZipRowsSound, Here, In
<1>5. ZipSound(d)
  BY <1>1, <1>2, <1>4 DEF ZipSound, ZipIndexed
<1>6. requests' \in 0..MaxRequests
  BY DEF bounds, IInv, BackupTypeOK
<1> QED BY <1>1, <1>2, <1>3, <1>5, <1>6, BackupStep DEF bounds

LEMMA EndBackupInv ==
  ASSUME IInv, NEW z \in Zips, WriteManifest(z) \/ \E k \in ObjectKeys : CopyFails(z, k)
  PROVE  IInv'
<1>1. CASE WriteManifest(z)
  BY <1>1, EndBackup DEF WriteManifest
<1>2. CASE \E k \in ObjectKeys : CopyFails(z, k)
  BY <1>2, EndBackup DEF CopyFails
<1> QED BY <1>1, <1>2

-----------------------------------------------------------------------------
(* Restores, from the request that stages one to the start that applies it. *)

\* The documents and the backups do not change.
LEMMA Kept ==
  ASSUME IInv, UNCHANGED docVars, zip' = zip, database' = database,
         api' = "up" \/ api' = api \/ api # "up"
  PROVE  /\ StoreCore' /\ Indexed' /\ (database' = "whole" => StoreRows' /\ RequestsSound')
         /\ ZipsSound'
<1>1. ZipsSound'
  <2> SUFFICES ASSUME NEW z \in Zips, zip[z] # None PROVE ZipSound(zip[z])'
    BY DEF ZipsSound
  <2>1. ZipSound(zip[z])
    BY DEF IInv, ZipsSound
  <2> QED BY <2>1 DEF ZipSound, ZipRowsSound, Here, In, ZipIndexed, docVars
<1> QED BY <1>1, DocsStay DEF IInv

LEMMA UnpackInv ==
  ASSUME IInv, NEW z \in Zips, Unpack(z)
  PROVE  IInv'
<1>1. /\ api = "up" /\ staging = None /\ zip[z] # None /\ zip[z].at = "written"
      /\ staged' = staged \cup {z} /\ staging' = z
      /\ UNCHANGED <<docVars, zip, marker, restoreVars, bounds>>
  BY DEF Unpack, Zip
<1>2. BackupTypeOK'
  BY <1>1 DEF IInv, BackupTypeOK, restoreVars, bounds
<1>3. MarkerSound'
  BY <1>1 DEF IInv, MarkerSound, Finished, restoreVars
<1>4. RestoreSound'
  BY <1>1 DEF IInv, RestoreSound, restoreVars, docVars, Applying
<1>5. Quiet'
  BY <1>1 DEF IInv, Quiet, restoreVars, docVars
<1> QED BY <1>1, <1>2, <1>3, <1>4, <1>5, Kept DEF IInv, restoreVars

LEMMA WriteMarkerInv ==
  ASSUME IInv, TruncateMarker \/ WriteMarker
  PROVE  IInv'
<1>1. /\ staging # None /\ UNCHANGED <<docVars, zip, staged, restoreVars, bounds>>
      /\ \/ marker' = "torn" /\ staging' = staging
         \/ marker' = staging /\ staging' = None
  BY DEF TruncateMarker, WriteMarker
<1>2. api = "up" /\ Finished(staging) /\ staging \in Zips
  BY <1>1 DEF IInv, MarkerSound, BackupTypeOK
<1>3. BackupTypeOK'
  BY <1>1, <1>2 DEF IInv, BackupTypeOK, restoreVars, bounds
<1>4. MarkerSound'
  BY <1>1, <1>2 DEF IInv, MarkerSound, Finished, restoreVars
<1>5. RestoreSound'
  BY <1>1, <1>2 DEF IInv, RestoreSound, restoreVars, docVars, Applying
<1>6. Quiet'
  BY <1>1 DEF IInv, Quiet, restoreVars, docVars
<1> QED BY <1>1, <1>3, <1>4, <1>5, <1>6, Kept DEF IInv, restoreVars

LEMMA CrashInv ==
  ASSUME IInv, Crash
  PROVE  IInv'
<1>1. /\ api # "down" /\ api' = "down" /\ staging' = None
      /\ UNCHANGED <<backend, doc, index, objects, claim, snapshot, stale, rewritten>> /\ Abandon(ApiOps)
      /\ UNCHANGED <<staged, marker, applying, database, requests>>
      /\ crashes < MaxCrashes /\ crashes' = crashes + 1
      /\ zip' = [z \in Zips |-> IF zip[z] # None /\ zip[z].at # "written"
                                THEN [zip[z] EXCEPT !.at = "broken"] ELSE zip[z]]
  BY DEF Crash, ApiDies
<1>2. \A d \in Requests : req'[d] = IF req[d] # Idle /\ req[d].op \in ApiOps THEN Idle ELSE req[d]
  BY <1>1 DEF Abandon
<1>3. StoreCore'
  <2>1. StoreTypeOK'
    BY <1>1 DEF IInv, StoreCore, StoreTypeOK, Abandon
  <2> QED BY <1>1, <2>1 DEF IInv, StoreCore
<1>4. database' = "whole" => StoreRows' /\ RequestsSound'
  <2>1. CASE database = "whole"
    <3>1. StoreInv'
      BY <1>1, <2>1, WholeStore, AbandonInv
    <3> QED BY <3>1 DEF StoreInv
  <2>2. CASE database # "whole"
    BY <1>1, <2>2
  <2> QED BY <2>1, <2>2
<1>5. ASSUME NEW z \in Zips, zip[z] # None
      PROVE  zip'[z] \in Backup /\ ZipSound(zip[z])'
  <2> DEFINE d == [zip[z] EXCEPT !.at = "broken"]
  <2>1. zip[z] \in Backup /\ ZipSound(zip[z])
    BY <1>5 DEF IInv, BackupTypeOK, ZipsSound
  <2>2. /\ d \in Backup /\ d.at = "broken" /\ d.doc = zip[z].doc /\ d.index = zip[z].index
        /\ d.objects = zip[z].objects
    BY <2>1 DEF Backup, ZipState
  <2>3. zip'[z] = IF zip[z].at # "written" THEN d ELSE zip[z]
    BY <1>1, <1>5
  <2> HIDE DEF d
  <2>4. PICK e : e = zip'[z]
    OBVIOUS
  <2>5. /\ e \in Backup /\ e.doc = zip[z].doc /\ e.index = zip[z].index
        /\ e.objects = zip[z].objects
        /\ e.at = "broken" \/ (e.at = "written" /\ e = zip[z])
    BY <2>1, <2>2, <2>3, <2>4
  <2>6. ZipRowsSound(e)'
    BY <2>1, <2>5 DEF ZipSound, ZipRowsSound, Here, In
  <2>7. ZipIndexed(e)'
    BY <2>1, <2>5 DEF ZipSound, ZipIndexed
  <2>8. ZipSound(e)'
    BY <1>1, <2>1, <2>5, <2>6, <2>7 DEF ZipSound
  <2> QED BY <2>4, <2>5, <2>8 DEF ZipSound, ZipRowsSound, Here, In, ZipIndexed
<1>6. \A z \in Zips : zip'[z] # None => zip[z] # None
  BY <1>1
<1>7. ZipsSound'
  BY <1>5, <1>6 DEF ZipsSound
<1>8. BackupTypeOK'
  <2>1. \A z \in Zips : zip'[z] \in Backup \cup {None}
    BY <1>5, <1>6
  <2>2. zip' \in [Zips -> Backup \cup {None}]
    BY <1>1, <2>1
  <2>3. crashes' \in 0..MaxCrashes
    BY <1>1 DEF IInv, BackupTypeOK
  <2> QED BY <1>1, <2>2, <2>3 DEF IInv, BackupTypeOK
<1>9. \A z \in Zips : Finished(z) => zip'[z] = zip[z]
  BY <1>1 DEF Finished
<1>10. MarkerSound'
  BY <1>1, <1>9 DEF IInv, MarkerSound, Finished
<1>11. RestoreSound'
  BY <1>1 DEF IInv, RestoreSound, Applying
<1>12. Quiet'
  <2>1. \A d \in Requests : req'[d] # Idle => req'[d].op = "ingest" /\ database = "whole"
    <3> SUFFICES ASSUME NEW d \in Requests, req'[d] # Idle
                 PROVE  req'[d].op = "ingest" /\ database = "whole"
      OBVIOUS
    <3>1. req[d] # Idle /\ req'[d] = req[d] /\ req[d].op \notin ApiOps
      BY <1>2
    <3>2. req[d].op \in Ops
      BY <3>1, RequestType DEF IInv, StoreCore
    <3> QED BY <3>1, <3>2 DEF ApiOps, Ops, IInv, Quiet
  <2> QED BY <1>1, <2>1 DEF Quiet, Applying
<1>13. Indexed'
  BY <1>1 DEF IInv, Indexed, IndexFollowsRows, StoredOnce, Rows
<1> QED BY <1>3, <1>4, <1>7, <1>8, <1>10, <1>11, <1>12, <1>13 DEF IInv

LEMMA StartInv ==
  ASSUME IInv, Start
  PROVE  IInv'
<1>1. /\ api = "down" /\ marker = "none" /\ api' = "up"
      /\ UNCHANGED <<docVars, backupVars, applying, database, bounds>>
  BY DEF Start
<1>2. database = "whole"
  BY <1>1 DEF IInv, RestoreSound, BackupTypeOK
<1>3. BackupTypeOK'
  BY <1>1 DEF IInv, BackupTypeOK, backupVars, bounds
<1>4. MarkerSound'
  BY <1>1 DEF IInv, MarkerSound, Finished, backupVars
<1>5. RestoreSound'
  BY <1>1, <1>2 DEF IInv, RestoreSound, Applying, docVars, backupVars
<1>6. Quiet'
  BY <1>1, <1>2 DEF IInv, Quiet, Applying, docVars
<1> QED BY <1>1, <1>3, <1>4, <1>5, <1>6, Kept DEF IInv, backupVars

LEMMA BeginApplyInv ==
  ASSUME IInv, BeginApply
  PROVE  IInv'
<1>1. /\ api = "down" /\ marker \in staged /\ api' = "log" /\ applying' = marker
      /\ Abandon({"ingest"})
      /\ UNCHANGED <<backend, doc, index, objects, claim, snapshot, stale, rewritten>>
      /\ UNCHANGED <<backupVars, database, bounds>>
  BY DEF BeginApply
<1>2. marker \in Zips
  BY <1>1 DEF IInv, BackupTypeOK
<1>3. \A d \in Requests : req'[d] = Idle
  BY <1>1 DEF Abandon, IInv, Quiet
<1>4. StoreCore'
  <2>1. StoreTypeOK'
    BY <1>1 DEF IInv, StoreCore, StoreTypeOK, Abandon
  <2> QED BY <1>1, <2>1 DEF IInv, StoreCore
<1>5. database' = "whole" => StoreRows' /\ RequestsSound'
  <2>1. CASE database = "whole"
    <3>1. StoreInv'
      BY <1>1, <2>1, WholeStore, AbandonInv
    <3> QED BY <3>1 DEF StoreInv
  <2>2. CASE database # "whole"
    BY <1>1, <2>2
  <2> QED BY <2>1, <2>2
<1>6. ZipsSound'
  <2> SUFFICES ASSUME NEW z \in Zips, zip[z] # None PROVE ZipSound(zip[z])'
    BY <1>1 DEF ZipsSound, backupVars
  <2>1. ZipSound(zip[z])
    BY DEF IInv, ZipsSound
  <2> QED BY <1>1, <2>1 DEF ZipSound, ZipRowsSound, Here, In, ZipIndexed, backupVars
<1>7. BackupTypeOK'
  BY <1>1, <1>2 DEF IInv, BackupTypeOK, backupVars, bounds, Applying
<1>8. MarkerSound'
  BY <1>1 DEF IInv, MarkerSound, Finished, backupVars
<1>9. RestoreSound'
  BY <1>1, <1>2 DEF IInv, RestoreSound, MarkerSound, Finished, Applying, backupVars
<1>10. Quiet'
  BY <1>3 DEF Quiet
<1>11. Indexed'
  BY <1>1 DEF IInv, Indexed, IndexFollowsRows, StoredOnce, Rows
<1> QED BY <1>4, <1>5, <1>6, <1>7, <1>8, <1>9, <1>10, <1>11 DEF IInv

\* While a restore is applied no request is under way and no backup is either.
LEMMA Applied ==
  ASSUME IInv, api \in Applying
  PROVE  /\ \A r \in Requests : req[r] = Idle
         /\ staging = None /\ applying \in Zips /\ Finished(applying)
         /\ zip[applying] \in Backup /\ ZipSound(zip[applying]) /\ zip[applying].at = "written"
         /\ api # "clean" => marker = applying
BY DEF IInv, Quiet, MarkerSound, RestoreSound, Applying, Finished, BackupTypeOK, ZipsSound

\* The files of the storage are replaced while nothing is copied from them.
LEMMA ZipsKept ==
  ASSUME IInv, api \in Applying, UNCHANGED <<backend, zip>>, api' \in Applying
  PROVE  ZipsSound'
<1> SUFFICES ASSUME NEW z \in Zips, zip[z] # None PROVE ZipSound(zip[z])'
  BY DEF ZipsSound
<1>1. ZipSound(zip[z]) /\ zip[z].at \in {"written", "broken"}
  BY DEF IInv, ZipsSound, ZipSound, Applying
<1> QED BY <1>1 DEF ZipSound, ZipRowsSound, Here, In, ZipIndexed

\* A step of the restore that leaves the requests alone.
LEMMA ApplyStep ==
  ASSUME IInv, api \in Applying, api' \in Applying,
         UNCHANGED <<backend, claim, snapshot, req>>,
         UNCHANGED <<zip, staged, staging, applying, bounds>>,
         marker' = marker \/ (api = "unmark" /\ marker' = "none"),
         doc' \in [Ids -> Document \cup {None}], index' \subseteq IndexEntry,
         objects' \in [ObjectKeys -> Contents \cup {None, Torn}], stale' \subseteq ObjectKeys,
         rewritten' \subseteq ObjectKeys,
         \A t \in Tokens : objects'[PresignedKey(t)] # None => objects[PresignedKey(t)] # None,
         database' \in {"whole", "torn"}, database' = "whole" => StoreRows', Indexed', RestoreSound'
  PROVE  IInv'
<1>1. StoreCore'
  <2>1. StoreTypeOK'
    BY DEF IInv, StoreCore, StoreTypeOK
  <2> QED BY <2>1 DEF IInv, StoreCore, PresignedKey
<1>2. RequestsSound' /\ Quiet'
  BY Applied DEF RequestsSound, Quiet
<1>3. BackupTypeOK'
  BY DEF IInv, BackupTypeOK, bounds, Applying
<1>4. MarkerSound'
  BY Applied DEF IInv, MarkerSound, Finished, BackupTypeOK
<1>5. ZipsSound'
  BY ZipsKept
<1> QED BY <1>1, <1>2, <1>3, <1>4, <1>5 DEF IInv

\* The rows and files of a finished backup are those of a whole installation.
LEMMA RestoredRows ==
  ASSUME IInv, api = "copy", AllRestored
  PROVE  StoreRows'
<1> DEFINE b == zip[applying]
<1>1. b \in Backup /\ ZipSound(b) /\ b.at = "written" /\ backend = "local"
  BY Applied DEF Applying, ZipSound
<1>2. /\ doc' = b.doc /\ index' = b.index /\ stale' = b.stale /\ objects' = b.objects
      /\ rewritten' = b.rewritten /\ backend' = "local" /\ claim' = claim
  BY <1>1 DEF AllRestored, docVars, IInv, RestoreSound
<1> HIDE DEF b
<1>3. ASSUME NEW i \in Ids, b.doc[i] # None
      PROVE  /\ b.doc[i].key.kind # "presigned" /\ b.doc[i].key.of = b.doc[i].content
             /\ In(b, b.doc[i].key, b.doc[i].content) \/ b.doc[i].key \in b.stale
  BY <1>1, <1>3 DEF ZipSound, ZipRowsSound
<1>4. RowsKeyed'
  BY <1>2, <1>3 DEF RowsKeyed, Keyed, Sent
<1>5. RowHasObject'
  BY <1>2, <1>3 DEF RowHasObject, Rows, In
<1>6. IndexFollowsRows' /\ StoredOnce'
  BY <1>1, <1>2 DEF ZipSound, ZipIndexed, IndexFollowsRows, StoredOnce, Rows
<1> QED BY <1>4, <1>5, <1>6 DEF StoreRows

LEMMA ApplyInv ==
  ASSUME IInv, Apply
  PROVE  IInv'
<1> USE DEF Applying
<1>t. /\ doc \in [Ids -> Document \cup {None}] /\ index \subseteq IndexEntry
      /\ objects \in [ObjectKeys -> Contents \cup {None, Torn}] /\ stale \subseteq ObjectKeys
      /\ rewritten \subseteq ObjectKeys
  BY DEF IInv, StoreCore, StoreTypeOK
<1>w. database = "whole" => StoreRows
  BY DEF IInv
<1>b. api \in Applying =>
        /\ zip[applying].doc \in [Ids -> Document \cup {None}]
        /\ zip[applying].index \subseteq IndexEntry
        /\ zip[applying].objects \in [ObjectKeys -> Contents \cup {None, Torn}]
        /\ zip[applying].stale \subseteq ObjectKeys /\ zip[applying].rewritten \subseteq ObjectKeys
        /\ \A t \in Tokens : zip[applying].objects[PresignedKey(t)] = None
        /\ backend = "local" /\ applying \in Zips
        /\ \A r \in Requests : req[r] = Idle
  BY Applied DEF Backup, ZipSound
<1>1. CASE RemoveLog
  <2>1. /\ api = "log" /\ api' = "replace" /\ database' = "torn"
        /\ UNCHANGED <<docVars, backupVars, applying, bounds>>
    BY <1>1 DEF RemoveLog
  <2>2. RestoreSound'
    BY <1>b, <2>1 DEF IInv, RestoreSound, Finished, backupVars, docVars
  <2>3. Indexed'
    BY <2>1, DocsStay DEF IInv
  <2> QED BY <1>t, <2>1, <2>2, <2>3, ApplyStep DEF docVars, backupVars
<1>2. CASE ReplaceDatabase
  <2>1. /\ api = "replace" /\ api' = "clear"
        /\ doc' = zip[applying].doc /\ index' = zip[applying].index
        /\ stale' = zip[applying].stale /\ rewritten' = zip[applying].rewritten
        /\ UNCHANGED <<backend, objects, claim, snapshot, req>>
        /\ UNCHANGED <<backupVars, applying, database, bounds>>
    BY <1>2 DEF ReplaceDatabase
  <2>2. RestoreSound'
    BY <1>b, <2>1 DEF IInv, RestoreSound, Finished, backupVars
  <2>3. database' = "torn"
    BY <2>1 DEF IInv, RestoreSound
  <2>4. Indexed'
    <3>1. ZipIndexed(zip[applying])
      BY <2>1, Applied DEF ZipSound
    <3> QED BY <2>1, <3>1 DEF ZipIndexed, Indexed, IndexFollowsRows, StoredOnce, Rows
  <2> QED BY <1>t, <1>b, <2>1, <2>2, <2>3, <2>4, ApplyStep DEF backupVars
<1>3. CASE RemoveFiles
  <2>1. /\ api = "clear" /\ api' = "copy" /\ objects' = NoObjects
        /\ UNCHANGED <<backend, doc, index, claim, snapshot, req, stale, rewritten>>
        /\ UNCHANGED <<backupVars, applying, database, bounds>>
    BY <1>3 DEF RemoveFiles
  <2>2. RestoreSound'
    BY <2>1 DEF IInv, RestoreSound, Finished, backupVars
  <2>3. database' = "torn"
    BY <2>1 DEF IInv, RestoreSound
  <2>4. /\ NoObjects \in [ObjectKeys -> Contents \cup {None, Torn}]
        /\ \A t \in Tokens : NoObjects[PresignedKey(t)] = None
    BY DEF NoObjects, PresignedKey, ObjectKeys
  <2>5. Indexed'
    BY <2>1 DEF IInv, Indexed, IndexFollowsRows, StoredOnce, Rows
  <2> QED BY <1>t, <2>1, <2>2, <2>3, <2>4, <2>5, ApplyStep DEF backupVars
<1>4. ASSUME NEW k \in ObjectKeys, RestoreFile(k) PROVE IInv'
  <2>1. /\ api = "copy" /\ objects' = [objects EXCEPT ![k] = zip[applying].objects[k]]
        /\ UNCHANGED <<backend, doc, index, claim, snapshot, req, stale, rewritten>>
        /\ UNCHANGED <<backupVars, restoreVars, bounds>>
    BY <1>4 DEF RestoreFile
  <2>2. RestoreSound'
    BY <2>1 DEF IInv, RestoreSound, Finished, backupVars, restoreVars
  <2>3. database' = "torn"
    BY <2>1 DEF IInv, RestoreSound, restoreVars
  <2>4. objects' \in [ObjectKeys -> Contents \cup {None, Torn}]
    BY <1>t, <1>b, <2>1
  <2>5. \A t \in Tokens : objects'[PresignedKey(t)] # None => objects[PresignedKey(t)] # None
    BY <1>t, <1>b, <2>1
  <2>6. Indexed'
    BY <2>1 DEF IInv, Indexed, IndexFollowsRows, StoredOnce, Rows
  <2> QED BY <1>t, <2>1, <2>2, <2>3, <2>4, <2>5, <2>6, ApplyStep DEF backupVars, restoreVars
<1>5. CASE AllRestored
  <2>1. /\ api = "copy" /\ api' = "unmark" /\ database' = "whole"
        /\ objects = zip[applying].objects
        /\ UNCHANGED <<docVars, backupVars, applying, bounds>>
    BY <1>5 DEF AllRestored
  <2>2. RestoreSound'
    BY <2>1 DEF IInv, RestoreSound, Finished, backupVars, docVars
  <2>3. StoreRows' /\ Indexed'
    BY <1>5, <2>1, RestoredRows DEF StoreRows, Indexed
  <2> QED BY <1>t, <2>1, <2>2, <2>3, ApplyStep DEF docVars, backupVars
<1>6. CASE RemoveMarker
  <2>1. /\ api = "unmark" /\ api' = "clean" /\ marker' = "none"
        /\ UNCHANGED <<docVars, zip, staged, staging, applying, database, bounds>>
    BY <1>6 DEF RemoveMarker
  <2>2. RestoreSound'
    BY <2>1 DEF IInv, RestoreSound, Finished, docVars
  <2>3. database' = "whole" /\ StoreRows' /\ Indexed'
    BY <1>w, <2>1, DocsStay DEF IInv, RestoreSound
  <2> QED BY <1>t, <2>1, <2>2, <2>3, ApplyStep DEF docVars
<1>7. CASE RemoveStaging
  <2>1. /\ api = "clean" /\ api' = "up" /\ staged' = staged \ {applying} /\ applying' = None
        /\ UNCHANGED <<docVars, zip, marker, staging, database, bounds>>
    BY <1>7 DEF RemoveStaging
  <2>2. database = "whole" /\ marker = "none" /\ staging = None
    BY <2>1, Applied DEF IInv, RestoreSound
  <2>3. BackupTypeOK'
    BY <2>1 DEF IInv, BackupTypeOK, bounds
  <2>4. MarkerSound' /\ RestoreSound'
    BY <2>1, <2>2, BackupAssumption DEF IInv, MarkerSound, RestoreSound
  <2>5. Quiet'
    BY <1>b, <2>1 DEF Quiet, docVars
  <2> QED BY <2>1, <2>3, <2>4, <2>5, Kept DEF IInv
<1> QED BY <1>1, <1>2, <1>3, <1>4, <1>5, <1>6, <1>7 DEF Apply

-----------------------------------------------------------------------------
(* The theorems. *)

LEMMA NextInv ==
  ASSUME IInv, [Next]_vars
  PROVE  IInv'
<1>1. CASE UNCHANGED vars
  <2>1. BackupTypeOK' /\ MarkerSound' /\ RestoreSound' /\ Quiet'
    BY <1>1 DEF vars, IInv, BackupTypeOK, MarkerSound, RestoreSound, Quiet, Finished, docVars,
                backupVars, restoreVars, bounds
  <2> QED BY <1>1, <2>1, Kept DEF IInv, vars, backupVars, restoreVars
<1>2. CASE Next
  BY <1>2, ServeInv, IngestInv, StoreInvStep, BrowseInv, UnlinkInv, StopWorkerInv,
     CopyDatabaseInv, ListFilesInv, EndBackupInv, CopyFileInv, UnpackInv, WriteMarkerInv,
     CrashInv, StartInv, BeginApplyInv, ApplyInv DEF Next
<1> QED BY <1>1, <1>2

\* The inductive invariant holds through any number of backups, restores and crashes.
THEOREM DataPlaneInvariant == Spec => []IInv
BY InitInv, NextInv, PTL DEF Spec

\* The documents, and backup and restore, are well typed.
THEOREM DataPlaneTypeCorrect == Spec => [](StoreTypeOK /\ BackupTypeOK)
<1>1. IInv => StoreTypeOK /\ BackupTypeOK
  BY DEF IInv, StoreCore
<1> QED BY <1>1, DataPlaneInvariant, PTL

\* The API serves only a state that is whole.
THEOREM NeverServesTorn == Spec => []ServesWholeState
<1>1. IInv => ServesWholeState
  BY DEF IInv, RestoreSound, ServesWholeState
<1> QED BY <1>1, DataPlaneInvariant, PTL

\* A whole installation, restored or not, has the file of every row, but for those whose file
\* a deletion removed under a request or under the backup, and those an upload of the same
\* content was writing again when it died or when the backup copied them.
THEOREM RestoreKeepsFiles == Spec => []RestoredRowHasObject
<1>1. IInv => RestoredRowHasObject
  BY DEF IInv, StoreRows, RestoredRowHasObject
<1> QED BY <1>1, DataPlaneInvariant, PTL

\* One row for a content, and the index is that of the rows, also in the middle of a restore.
THEOREM RowsIndexed == Spec => [](IndexFollowsRows /\ StoredOnce)
<1>1. IInv => IndexFollowsRows /\ StoredOnce
  BY DEF IInv, Indexed
<1> QED BY <1>1, DataPlaneInvariant, PTL

\* A restore that ends has restored its backup.
THEOREM RestoreIsExact == Spec => []RestoredState
<1>1. IInv => RestoredState
  BY DEF IInv, RestoreSound, RestoredState
<1> QED BY <1>1, DataPlaneInvariant, PTL

\* A marker that is not torn can be applied.
THEOREM MarkerIsUsable == Spec => []MarkerUsable
<1>1. IInv => MarkerUsable
  BY DEF IInv, MarkerSound, Finished, MarkerUsable
<1> QED BY <1>1, DataPlaneInvariant, PTL

-----------------------------------------------------------------------------
(* Backup and restore implement BackupPromise. *)

State == Seen(doc, index, objects)
KeptBy(z) == Seen(zip[z].doc, zip[z].index, zip[z].objects)
Saved == {<<z, KeptBy(z)>> : z \in {y \in Zips : Zip(y, "written")}}
Pending == Zips \cap {marker}

\* A backup that is finished stays as it is, and another may be finished.
LEMMA SavedStays ==
  ASSUME \A z \in Zips : /\ Zip(z, "written") <=> Zip(z, "written")'
                         /\ Zip(z, "written") => /\ zip'[z].doc = zip[z].doc
                                                 /\ zip'[z].index = zip[z].index
                                                 /\ zip'[z].objects = zip[z].objects
  PROVE  Saved' = Saved
<1>1. \A z \in Zips : Zip(z, "written") => KeptBy(z)' = KeptBy(z)
  BY DEF KeptBy
<1>2. {y \in Zips : Zip(y, "written")}' = {y \in Zips : Zip(y, "written")}
  OBVIOUS
<1> DEFINE W == {y \in Zips : Zip(y, "written")}
<1>3. \A z \in W : KeptBy(z)' = KeptBy(z)
  BY <1>1
<1>4. Saved = {<<z, KeptBy(z)>> : z \in W} /\ Saved' = {<<z, KeptBy(z)'>> : z \in W}
  BY <1>2 DEF Saved
<1> HIDE DEF W
<1> QED BY <1>3, <1>4

LEMMA SavedUnchanged == ASSUME UNCHANGED zip PROVE Saved' = Saved
BY DEF Saved, KeptBy, Zip

\* A step that neither starts nor stops the API and leaves state, backups and marker alone.
LEMMA Unseen ==
  ASSUME (api' = "up") = (api = "up"), database' = database, UNCHANGED <<doc, index, objects>>,
         Saved' = Saved, Pending' = Pending
  PROVE  UNCHANGED Promise!vars
BY DEF Promise!vars, State, Saved, KeptBy, Pending

\* Requests and ingestions find a whole state and change it.
LEMMA Changed ==
  ASSUME database = "whole", UNCHANGED <<api, database, marker>>, Saved' = Saved
  PROVE  Promise!Change
BY DEF Promise!Change, Saved, KeptBy

LEMMA RequestsKeep ==
  ASSUME IInv, Serve \/ Ingest \/ Store \/ Browse \/ Unlink \/ StopWorker
  PROVE  Promise!Change \/ UNCHANGED Promise!vars
<1>1. CASE Serve \/ Browse
  <2>1. database = "whole"
    BY <1>1 DEF Serve, Browse, IInv, RestoreSound
  <2> QED BY <1>1, <2>1, Changed, SavedUnchanged DEF Serve, Browse, backupVars, restoreVars
<1>2. CASE Ingest
  BY <1>2, Changed, SavedUnchanged DEF Ingest, backupVars, restoreVars
<1>3. CASE Store
  <2>1. PICK r \in Requests : StoreStep(r)
    BY <1>3 DEF Store
  <2>2. req[r] # Idle
    BY <2>1 DEF StoreStep, PutObject, Truncate, Fill, PutFails, Insert, Duplicate, At
  <2>3. database = "whole"
    BY <2>2 DEF IInv, Quiet
  <2> QED BY <1>3, <2>3, Changed, SavedUnchanged DEF Store, backupVars, restoreVars
<1>4. CASE Unlink
  <2>1. database = "whole" /\ UNCHANGED <<api, database, marker>>
    BY <1>4 DEF Unlink, IInv, RestoreSound, restoreVars
  <2>2. PICK r \in Requests :
          zip' = [z \in Zips |-> IF Missed(z, req[r].key)
                                 THEN [zip[z] EXCEPT !.stale = @ \cup {req[r].key}] ELSE zip[z]]
    BY <1>4 DEF Unlink
  <2>3. ASSUME NEW z \in Zips
        PROVE  /\ Zip(z, "written") <=> Zip(z, "written")'
               /\ Zip(z, "written") => zip'[z] = zip[z]
    <3>1. CASE Missed(z, req[r].key)
      <4>1. zip[z] \in Backup
        BY <3>1 DEF Missed, IInv, BackupTypeOK
      <4>2. zip'[z] = [zip[z] EXCEPT !.stale = @ \cup {req[r].key}]
        BY <2>2, <3>1
      <4>3. ~Zip(z, "written") /\ zip'[z].at = zip[z].at
        BY <3>1, <4>1, <4>2 DEF Missed, Zip, Backup
      <4>4. zip[z].at # "written"
        BY <3>1, <4>3 DEF Missed, Zip
      <4> QED BY <4>3, <4>4 DEF Zip
    <3>2. CASE ~Missed(z, req[r].key)
      BY <2>2, <3>2 DEF Zip
    <3> QED BY <3>1, <3>2
  <2> QED BY <2>1, <2>3, SavedStays, Changed
<1>5. CASE StopWorker
  <2>1. UNCHANGED <<doc, index, objects, backupVars, restoreVars>>
    BY <1>5 DEF StopWorker, WorkerDies
  <2> QED BY <2>1, Unseen, SavedUnchanged DEF backupVars, restoreVars, Pending
<1> QED BY <1>1, <1>2, <1>3, <1>4, <1>5

LEMMA BackupsKeep ==
  ASSUME IInv, NEW z \in Zips,
         \/ CopyDatabase(z) \/ ListFiles(z) \/ WriteManifest(z)
         \/ \E k \in ObjectKeys : CopyFile(z, k) \/ CopyFails(z, k)
  PROVE  Promise!Finish \/ UNCHANGED Promise!vars
<1>1. /\ UNCHANGED <<docVars, staged, marker, staging, restoreVars>>
      /\ \A y \in Zips \ {z} : zip'[y] = zip[y]
  BY DEF CopyDatabase, ListFiles, WriteManifest, CopyFile, CopyFails, IInv, BackupTypeOK
<1>2. ~Zip(z, "written")
  BY DEF CopyDatabase, ListFiles, WriteManifest, CopyFile, CopyFails, Zip
<1>3. CASE WriteManifest(z)
  <2>1. Saved \subseteq Saved' /\ \A b \in Saved' \ Saved : b[1] = z
    BY <1>1, <1>2 DEF Saved, KeptBy, Zip
  <2>2. \A b \in Saved : b[1] # z
    BY <1>2 DEF Saved
  <2> QED BY <1>1, <2>1, <2>2 DEF Promise!Finish, Saved, KeptBy, restoreVars, docVars
<1>4. CASE ~WriteManifest(z)
  <2>1. zip'[z] # None => zip'[z].at # "written"
    <3>1. CASE CopyDatabase(z)
      BY <3>1 DEF CopyDatabase, IInv, BackupTypeOK
    <3>2. CASE ListFiles(z)
      BY <3>2 DEF ListFiles, Zip, IInv, BackupTypeOK, Backup
    <3>3. ASSUME NEW k \in ObjectKeys, CopyFile(z, k)
          PROVE  zip'[z].at = zip[z].at /\ zip[z].at = "copying"
      BY <3>3 DEF CopyFile, Zip, IInv, BackupTypeOK, Backup
    <3>4. ASSUME NEW k \in ObjectKeys, CopyFails(z, k) PROVE zip'[z].at = "broken"
      BY <3>4 DEF CopyFails, Zip, IInv, BackupTypeOK, Backup
    <3> QED BY <1>4, <3>1, <3>2, <3>3, <3>4
  <2>2. Saved' = Saved
    <3>1. ~Zip(z, "written")'
      BY <2>1 DEF Zip
    <3>2. \A y \in Zips \ {z} : Zip(y, "written")' = Zip(y, "written")
      BY <1>1 DEF Zip
    <3> QED BY <1>1, <1>2, <3>1, <3>2, SavedStays
  <2> QED BY <1>1, <2>2, Unseen DEF restoreVars, docVars, Pending
<1> QED BY <1>3, <1>4

\* Staging a restore asks for it, with a gap while the marker is half written.
LEMMA StagingKeeps ==
  ASSUME IInv, TruncateMarker \/ WriteMarker \/ \E z \in Zips : Unpack(z)
  PROVE  Promise!Ask \/ UNCHANGED Promise!vars
<1>1. Saved' = Saved
  BY SavedUnchanged DEF TruncateMarker, WriteMarker, Unpack
<1>2. CASE \E z \in Zips : Unpack(z)
  BY <1>1, <1>2, Unseen DEF Unpack, docVars, restoreVars, Pending
<1>3. CASE TruncateMarker \/ WriteMarker
  <2>1. api = "up" /\ staging \in Zips /\ Finished(staging)
    BY <1>3 DEF IInv, BackupTypeOK, MarkerSound, TruncateMarker, WriteMarker
  <2>2. UNCHANGED <<doc, index, objects, api, database>>
    BY <1>3 DEF TruncateMarker, WriteMarker, docVars, restoreVars
  <2>3. Pending' = {} \/ Pending' = {staging}
    BY <1>3, <2>1 DEF TruncateMarker, WriteMarker, Pending
  <2>4. <<staging, KeptBy(staging)>> \in Saved /\ <<staging, KeptBy(staging)>>[1] = staging
    BY <2>1 DEF Saved, Finished, Zip
  <2>5. Pending' = {} \/ \E b \in Saved : Pending' = {b[1]}
    BY <2>3, <2>4
  <2> QED BY <1>1, <2>1, <2>2, <2>5 DEF Promise!Ask, Saved, KeptBy, Pending
<1> QED BY <1>2, <1>3

LEMMA EndsKeep ==
  ASSUME IInv, Crash \/ Start \/ BeginApply
  PROVE  Promise!Stop \/ Promise!Start \/ UNCHANGED Promise!vars
<1>1. CASE Crash
  <2>1. /\ UNCHANGED <<doc, index, objects, marker, database>> /\ api' = "down"
        /\ zip' = [z \in Zips |-> IF zip[z] # None /\ zip[z].at # "written"
                                  THEN [zip[z] EXCEPT !.at = "broken"] ELSE zip[z]]
    BY <1>1 DEF Crash, ApiDies
  <2>2. ASSUME NEW z \in Zips
        PROVE  /\ Zip(z, "written") <=> Zip(z, "written")'
               /\ Zip(z, "written") => zip'[z] = zip[z]
    <3>1. CASE zip[z] # None /\ zip[z].at # "written"
      <4>1. zip[z] \in Backup
        BY <3>1 DEF IInv, BackupTypeOK
      <4>2. zip'[z].at = "broken"
        BY <2>1, <3>1, <4>1 DEF Backup
      <4> QED BY <3>1, <4>2 DEF Zip
    <3>2. CASE ~(zip[z] # None /\ zip[z].at # "written")
      BY <2>1, <3>2 DEF Zip
    <3> QED BY <3>1, <3>2
  <2>3. Saved' = Saved
    BY <2>2, SavedStays
  <2>4. CASE api = "up"
    BY <2>1, <2>3, <2>4 DEF Promise!Stop, Saved, KeptBy
  <2>5. CASE api # "up"
    BY <2>1, <2>3, <2>5, Unseen DEF Pending
  <2> QED BY <2>4, <2>5
<1>2. CASE Start
  <2>1. database = "whole" /\ Pending = {} /\ Saved' = Saved
    BY <1>2, SavedUnchanged, BackupAssumption
    DEF Start, IInv, RestoreSound, BackupTypeOK, Pending, backupVars
  <2> QED BY <1>2, <2>1 DEF Start, Promise!Start, Saved, KeptBy, Pending, docVars, backupVars
<1>3. CASE BeginApply
  BY <1>3, Unseen, SavedUnchanged DEF BeginApply, backupVars, Pending
<1> QED BY <1>1, <1>2, <1>3

LEMMA ApplyKeeps ==
  ASSUME IInv, Apply
  PROVE  \/ Promise!Replace \/ Promise!Restore \/ Promise!Forget \/ Promise!Start
         \/ UNCHANGED Promise!vars
<1>1. /\ api \in Applying /\ api # "up" /\ applying \in Zips /\ Zip(applying, "written")
      /\ zip' = zip /\ Saved' = Saved
  <2>1. api \in Applying /\ zip' = zip
    BY DEF Apply, Applying, RemoveLog, ReplaceDatabase, RemoveFiles, RestoreFile, AllRestored,
           RemoveMarker, RemoveStaging, backupVars
  <2> QED BY <2>1, SavedUnchanged DEF IInv, RestoreSound, Finished, Zip, Applying
<1>2. <<applying, KeptBy(applying)>> \in Saved
  BY <1>1 DEF Saved
<1>3. CASE RemoveLog \/ ReplaceDatabase \/ RemoveFiles \/ \E k \in ObjectKeys : RestoreFile(k)
  <2>1. marker = applying /\ database' = "torn" /\ api' # "up" /\ UNCHANGED marker
    BY <1>3 DEF RemoveLog, ReplaceDatabase, RemoveFiles, RestoreFile, IInv, RestoreSound,
                Applying, backupVars, restoreVars
  <2>2. Pending = {applying} /\ Pending' = Pending
    BY <1>1, <2>1 DEF Pending
  <2> QED BY <1>1, <2>1, <2>2 DEF Promise!Replace, Saved, KeptBy, Pending
<1>4. CASE AllRestored
  <2>1. /\ marker = applying /\ database = "torn" /\ database' = "whole" /\ api' # "up"
        /\ UNCHANGED <<marker, doc, index, objects>>
    BY <1>4 DEF AllRestored, IInv, RestoreSound, Applying, docVars, backupVars
  <2>2. State' = KeptBy(applying)
    BY <1>4, <2>1 DEF AllRestored, IInv, RestoreSound, State, KeptBy
  <2>3. Pending = {applying} /\ Pending' = Pending
    BY <1>1, <2>1 DEF Pending
  <2>4. \E b \in Saved : Pending = {b[1]} /\ State' = b[2]
    BY <1>2, <2>2, <2>3
  <2> QED BY <1>1, <2>1, <2>3, <2>4 DEF Promise!Restore, Saved, KeptBy, Pending, State
<1>5. CASE RemoveMarker
  <2>1. /\ marker = applying /\ database = "whole" /\ api' # "up" /\ marker' = "none"
        /\ UNCHANGED <<database, doc, index, objects>>
    BY <1>5 DEF RemoveMarker, IInv, RestoreSound, Applying, docVars
  <2>2. State = KeptBy(applying)
    BY <1>5 DEF RemoveMarker, IInv, RestoreSound, State, KeptBy
  <2>3. Pending = {applying} /\ Pending' = {}
    BY <1>1, <2>1, BackupAssumption DEF Pending
  <2>4. \E b \in Saved : Pending = {b[1]} /\ State = b[2]
    BY <1>2, <2>2, <2>3
  <2> QED BY <1>1, <2>1, <2>3, <2>4 DEF Promise!Forget, Saved, KeptBy, Pending, State
<1>6. CASE RemoveStaging
  <2>1. /\ marker = "none" /\ database = "whole" /\ api' = "up"
        /\ UNCHANGED <<marker, database, doc, index, objects>>
    BY <1>6 DEF RemoveStaging, IInv, RestoreSound, docVars
  <2>2. Pending = {} /\ Pending' = Pending
    BY <2>1, BackupAssumption DEF Pending
  <2> QED BY <1>1, <2>1, <2>2 DEF Promise!Start, Saved, KeptBy, Pending
<1> QED BY <1>3, <1>4, <1>5, <1>6 DEF Apply

\* Whatever overlaps and whatever a crash interrupts, for any number of backups, requests and
\* crashes: a restore is one step, once begun it ends with its backup, and no start passes
\* over one that was asked for.
THEOREM BackupRefinement == Spec => KeepsBackupPromise
<1>1. Init => Promise!Init
  <2> SUFFICES ASSUME Init PROVE Promise!Init
    OBVIOUS
  <2>1. Saved = {} /\ Pending = {}
    BY BackupAssumption DEF Init, Saved, Pending, Zip
  <2> QED BY <2>1 DEF Init, Promise!Init, Saved, KeptBy, Pending
<1>2. IInv /\ [Next]_vars => [Promise!Next]_Promise!vars
  <2> SUFFICES ASSUME IInv, [Next]_vars PROVE Promise!Next \/ UNCHANGED Promise!vars
    OBVIOUS
  <2>1. CASE UNCHANGED vars
    BY <2>1, Unseen, SavedUnchanged DEF vars, docVars, backupVars, restoreVars, Pending
  <2>2. CASE Next
    BY <2>2, RequestsKeep, BackupsKeep, StagingKeeps, EndsKeep, ApplyKeeps
       DEF Next, Promise!Next
  <2> QED BY <2>1, <2>2
<1> QED BY <1>1, <1>2, DataPlaneInvariant, PTL DEF Spec, KeepsBackupPromise, Promise!Spec
=============================================================================
