---------------------------- MODULE DocumentStore ----------------------------
(***************************************************************************)
(* The documents of one user for one paper: rows and search index in the    *)
(* database, files or objects in the storage, and the requests that change  *)
(* both.  The two are never written together: an upload stores the file,    *)
(* looks for a row with the same content and only then inserts one, a       *)
(* deletion commits the row's removal and then removes the file.            *)
(*                                                                          *)
(* "local" is the default: SQLite and a directory.  "cloud" is Turso and R2,*)
(* where a browser may also send the file itself under a presigned URL and  *)
(* then finalize it.  Both databases speak the SQLite dialect.              *)
(*                                                                          *)
(* Abstracted: a content stands for the PDF and its SHA-256; a document has *)
(* one chunk; parsing, evidence levels and material binding are computed    *)
(* from the content; a request that is refused before its first write       *)
(* changes nothing and is not a step.                                       *)
(***************************************************************************)
EXTENDS Naturals, FiniteSets

CONSTANTS
  Contents,  \* PDF files
  Requests,  \* requests and worker stages under way at the same time
  Tokens,    \* completion tokens
  IdemKeys,  \* values of the Idempotency-Key header
  MaxId,     \* bound: row ids
  None,      \* an empty column, a missing object, no token
  Torn,      \* what a file holds that was opened for writing and not written to its end
  Idle       \* a request slot that is not in use

\* Where an object is stored: the upload's key is derived from the content, that of
\* an open-access copy too, and a presigned upload has a key of its own.
ObjectKeys == [kind : {"upload", "oa"}, of : Contents] \cup [kind : {"presigned"}, of : Tokens]
UploadKey(c) == [kind |-> "upload", of |-> c]
OaKey(c) == [kind |-> "oa", of |-> c]
PresignedKey(t) == [kind |-> "presigned", of |-> t]

Ids == 1..MaxId
Document == [content : Contents, key : ObjectKeys]
IndexEntry == [id : Ids, content : Contents]
Claim == [content : Contents, sent : BOOLEAN]
Snapshot == [token : Tokens, id : Ids]
Request ==
  [op : {"upload", "ingest", "finalize", "delete"},
   at : {"put", "fill", "fetch", "look", "insert", "remember", "drop", "remove"},
   key : ObjectKeys, content : Contents, id : Ids \cup {None}, idem : IdemKeys \cup {None}]

ASSUME StoreAssumption ==
  /\ MaxId \in Nat
  /\ None \notin Document \cup Contents \cup Claim \cup Snapshot \cup Ids \cup IdemKeys
  /\ Idle \notin Request
  /\ Torn \notin Contents \cup {None}

VARIABLES
  backend,   \* "local" or "cloud"
  doc,       \* paper_documents, with their chunks
  index,     \* paper_chunks_fts
  objects,   \* the upload directory or the R2 bucket
  claim,     \* the claims of the completion tokens issued, and whether the file was sent
  snapshot,  \* idempotency_records of upload_finalize
  req,       \* the requests under way
  stale,     \* history: keys whose object was removed while another request relied on it
  rewritten  \* history: keys whose complete file was opened to be written again, until it is

docVars == <<backend, doc, index, objects, claim, snapshot, req, stale, rewritten>>

-----------------------------------------------------------------------------
StoreInit ==
  /\ backend \in {"local", "cloud"}
  /\ doc = [i \in Ids |-> None]
  /\ index = {}
  /\ objects = [k \in ObjectKeys |-> None]
  /\ claim = [t \in Tokens |-> None]
  /\ snapshot = [i \in IdemKeys |-> None]
  /\ req = [r \in Requests |-> Idle]
  /\ stale = {} /\ rewritten = {}

Rows == {i \in Ids : doc[i] # None}
RowsOf(c) == {i \in Rows : doc[i].content = c}

\* The id SQLite gives a row: one more than the largest there is, so the id of the
\* last row is used again after its deletion.
NextId(i) == /\ i \notin Rows
             /\ \A j \in Rows : j < i
             /\ i = 1 \/ i - 1 \in Rows

At(r, place) == req[r] # Idle /\ req[r].at = place
Goto(r, place) == req' = [req EXCEPT ![r].at = place]
Finish(r) == req' = [req EXCEPT ![r] = Idle]
New(op, place, key, c) ==
  [op |-> op, at |-> place, key |-> key, content |-> c, id |-> None, idem |-> None]

\* Requests that are writing an object or have stored or checked it and not yet inserted
\* its row, and deletions that have read the row and not yet removed the object.
Relying(k) == {r \in Requests : /\ req[r] # Idle /\ req[r].key = k
                                /\ req[r].at \in {"fill", "look", "insert"}}
Removing(k) == {r \in Requests : /\ req[r] # Idle /\ req[r].key = k
                                 /\ req[r].at \in {"drop", "remove"}}

-----------------------------------------------------------------------------
\* upload_paper: after reading the file the handler never awaits, so one upload at a
\* time runs on the event loop; the other operations run in threads or in the worker.
StartUpload(r, c) ==
  /\ req[r] = Idle
  /\ \A q \in Requests : req[q] # Idle => req[q].op # "upload"
  /\ req' = [req EXCEPT ![r] = New("upload", "put", UploadKey(c), c)]
  /\ UNCHANGED <<backend, doc, index, objects, claim, snapshot, stale, rewritten>>

\* ingest_open_access_pdf looks for the content before it stores anything.
StartIngest(r, c) ==
  /\ req[r] = Idle
  /\ RowsOf(c) = {}
  /\ req' = [req EXCEPT ![r] = New("ingest", "put", OaKey(c), c)]
  /\ UNCHANGED <<backend, doc, index, objects, claim, snapshot, stale, rewritten>>

\* storage.put, of an upload or of an open-access copy.  R2 replaces an object at once;
\* LocalStorage opens the file, which truncates it, and then writes it, also when it is the
\* file of a document: an upload puts before it looks.
Stored(r) == IF req[r].op = "upload" THEN "look" ELSE "insert"
PutObject(r) ==
  /\ At(r, "put") /\ backend = "cloud"
  /\ objects' = [objects EXCEPT ![req[r].key] = req[r].content]
  /\ Goto(r, Stored(r))
  /\ UNCHANGED <<backend, doc, index, claim, snapshot, stale, rewritten>>

\* Mutant: the request goes on before its file is written.
TruncateOnly(r) ==
  /\ At(r, "put") /\ backend = "local"
  /\ objects' = [objects EXCEPT ![req[r].key] = Torn]
  /\ Goto(r, Stored(r))
  /\ UNCHANGED <<backend, doc, index, claim, snapshot, stale, rewritten>>

Truncate(r) ==
  /\ At(r, "put") /\ backend = "local"
  /\ objects' = [objects EXCEPT ![req[r].key] = Torn]
  /\ rewritten' = IF objects[req[r].key] \in Contents THEN rewritten \cup {req[r].key}
                  ELSE rewritten
  /\ Goto(r, "fill")
  /\ UNCHANGED <<backend, doc, index, claim, snapshot, stale>>

\* A file that was unlinked meanwhile is written where nobody finds it.
Fill(r) ==
  /\ At(r, "fill")
  /\ objects' = [objects EXCEPT ![req[r].key] = IF @ = None THEN None ELSE req[r].content]
  /\ rewritten' = rewritten \ {req[r].key}
  /\ Goto(r, Stored(r))
  /\ UNCHANGED <<backend, doc, index, claim, snapshot, stale>>

\* A full disk or an R2 failure; the file stays as it is.
PutFails(r) ==
  /\ At(r, "put") \/ At(r, "fill")
  /\ Finish(r)
  /\ UNCHANGED <<backend, doc, index, objects, claim, snapshot, stale, rewritten>>

\* Mutant: the document that was found is not the one remembered.
LookForgetful(r) ==
  /\ At(r, "look")
  /\ Goto(r, IF RowsOf(req[r].content) = {} THEN "insert" ELSE "remember")
  /\ UNCHANGED <<backend, doc, index, objects, claim, snapshot, stale, rewritten>>

\* The row with this content, if there is one, is the answer.
Look(r) ==
  /\ At(r, "look")
  /\ IF RowsOf(req[r].content) = {} THEN Goto(r, "insert")
     ELSE IF req[r].op = "upload" THEN Finish(r)
     ELSE \E i \in RowsOf(req[r].content) :
            req' = [req EXCEPT ![r].at = "remember", ![r].id = i]
  /\ UNCHANGED <<backend, doc, index, objects, claim, snapshot, stale, rewritten>>

\* The unique constraint uq_document_user_paper_hash; mutant: a table without it.
Unconstrained(c) == TRUE
Unique(c) == RowsOf(c) = {}

\* A second insert fails with 500.
Duplicate(r) ==
  /\ At(r, "insert")
  /\ ~Unique(req[r].content)
  /\ Finish(r)
  /\ UNCHANGED <<backend, doc, index, objects, claim, snapshot, stale, rewritten>>

\* The row, its chunks and their index entries, in one transaction.
Insert(r) ==
  /\ At(r, "insert")
  /\ Unique(req[r].content)
  /\ \E i \in Ids :
       /\ NextId(i)
       /\ doc' = [doc EXCEPT ![i] = [content |-> req[r].content, key |-> req[r].key]]
       /\ index' = index \cup {[id |-> i, content |-> req[r].content]}
       /\ IF req[r].op = "finalize"
          THEN req' = [req EXCEPT ![r].at = "remember", ![r].id = i] ELSE Finish(r)
  /\ stale' = IF Removing(req[r].key) = {} THEN stale ELSE stale \cup {req[r].key}
  /\ UNCHANGED <<backend, objects, claim, snapshot, rewritten>>

-----------------------------------------------------------------------------
\* presign_upload issues a token for a fresh key; the browser sends the file once,
\* possibly not the one it announced (uploadPdfDirect).
Presign(t, c) ==
  /\ backend = "cloud" /\ claim[t] = None
  /\ claim' = [claim EXCEPT ![t] = [content |-> c, sent |-> FALSE]]
  /\ UNCHANGED <<backend, doc, index, objects, snapshot, req, stale, rewritten>>

Send(t, c) ==
  /\ claim[t] # None /\ ~claim[t].sent
  /\ claim' = [claim EXCEPT ![t].sent = TRUE]
  /\ objects' = [objects EXCEPT ![PresignedKey(t)] = c]
  /\ UNCHANGED <<backend, doc, index, snapshot, req, stale, rewritten>>

\* finalize_upload with or without a key; a key that has a snapshot is answered from
\* it, or with 409 if it belongs to another upload.
StartFinalize(r, t, i) ==
  /\ req[r] = Idle
  /\ claim[t] # None
  /\ i # None => snapshot[i] = None
  /\ req' = [req EXCEPT ![r] =
              [New("finalize", "fetch", PresignedKey(t), claim[t].content) EXCEPT !.idem = i]]
  /\ UNCHANGED <<backend, doc, index, objects, claim, snapshot, stale, rewritten>>

\* Mutant: the hash of the object is not compared with the claim.
FetchUnchecked(r) ==
  /\ At(r, "fetch")
  /\ IF objects[req[r].key] # None THEN Goto(r, "look") ELSE Finish(r)
  /\ UNCHANGED <<backend, doc, index, objects, claim, snapshot, stale, rewritten>>

\* stat, get and the comparison with the claim; anything else is refused.
Fetch(r) ==
  /\ At(r, "fetch")
  /\ IF objects[req[r].key] = req[r].content THEN Goto(r, "look") ELSE Finish(r)
  /\ UNCHANGED <<backend, doc, index, objects, claim, snapshot, stale, rewritten>>

\* store_snapshot commits after the document; a key that was used meanwhile fails.
Remember(r) ==
  /\ At(r, "remember")
  /\ Finish(r)
  /\ snapshot' = IF req[r].idem # None /\ snapshot[req[r].idem] = None
                 THEN [snapshot EXCEPT ![req[r].idem] =
                         [token |-> req[r].key.of, id |-> req[r].id]]
                 ELSE snapshot
  /\ UNCHANGED <<backend, doc, index, objects, claim, stale, rewritten>>

-----------------------------------------------------------------------------
\* delete_document: select the row, remove it by id and commit, then the object.
StartDelete(r, i) ==
  /\ req[r] = Idle
  /\ i \in Rows
  /\ req' = [req EXCEPT ![r] = [New("delete", "drop", doc[i].key, doc[i].content)
                                EXCEPT !.id = i]]
  /\ UNCHANGED <<backend, doc, index, objects, claim, snapshot, stale, rewritten>>

\* Mutant: the index keeps the chunks of a deleted document.
DropRowOnly(r) ==
  /\ At(r, "drop")
  /\ doc' = [doc EXCEPT ![req[r].id] = None]
  /\ Goto(r, "remove")
  /\ UNCHANGED <<backend, index, objects, claim, snapshot, stale, rewritten>>

\* Only the local branch removes the index entries.
DropRow(r) ==
  /\ At(r, "drop")
  /\ doc' = [doc EXCEPT ![req[r].id] = None]
  /\ index' = IF backend = "local" THEN {e \in index : e.id # req[r].id} ELSE index
  /\ Goto(r, "remove")
  /\ UNCHANGED <<backend, objects, claim, snapshot, stale, rewritten>>

RemoveObject(r) ==
  /\ At(r, "remove")
  /\ objects' = [objects EXCEPT ![req[r].key] = None]
  /\ stale' = IF Relying(req[r].key) = {} THEN stale ELSE stale \cup {req[r].key}
  /\ rewritten' = rewritten \ {req[r].key}
  /\ Finish(r)
  /\ UNCHANGED <<backend, doc, index, claim, snapshot>>

\* An OSError or an R2 failure: the row is gone, the object stays.
RemoveFails(r) ==
  /\ At(r, "remove")
  /\ Finish(r)
  /\ UNCHANGED <<backend, doc, index, objects, claim, snapshot, stale, rewritten>>

\* The API dies with its requests; the worker with its ingestion.
Abandon(ops) == req' = [r \in Requests |->
                          IF req[r] # Idle /\ req[r].op \in ops THEN Idle ELSE req[r]]
ApiOps == {"upload", "finalize", "delete"}
WorkerDies ==
  /\ \E r \in Requests : req[r] # Idle /\ req[r].op = "ingest"
  /\ Abandon({"ingest"})
  /\ UNCHANGED <<backend, doc, index, objects, claim, snapshot, stale, rewritten>>
ApiDies ==
  /\ Abandon(ApiOps)
  /\ UNCHANGED <<backend, doc, index, objects, claim, snapshot, stale, rewritten>>

-----------------------------------------------------------------------------
\* What API requests do, but for the removal of an object, which a backup may notice.
ApiStep(r) ==
  \/ \E c \in Contents : StartUpload(r, c)
  \/ \E t \in Tokens, i \in IdemKeys \cup {None} : StartFinalize(r, t, i)
  \/ \E i \in Ids : StartDelete(r, i)
  \/ Fetch(r) \/ Look(r) \/ Remember(r) \/ DropRow(r) \/ RemoveFails(r)
\* What API and worker both do.
StoreStep(r) ==
  PutObject(r) \/ Truncate(r) \/ Fill(r) \/ PutFails(r) \/ Insert(r) \/ Duplicate(r)
BrowserStep == \E t \in Tokens, c \in Contents : Presign(t, c) \/ Send(t, c)

StoreNext ==
  \/ \E r \in Requests : ApiStep(r) \/ StoreStep(r) \/ RemoveObject(r)
  \/ \E r \in Requests, c \in Contents : StartIngest(r, c)
  \/ BrowserStep
  \/ WorkerDies
  \/ ApiDies

StoreSpec == StoreInit /\ [][StoreNext]_docVars

-----------------------------------------------------------------------------
StoreTypeOK ==
  /\ backend \in {"local", "cloud"}
  /\ doc \in [Ids -> Document \cup {None}]
  /\ index \subseteq IndexEntry
  /\ objects \in [ObjectKeys -> Contents \cup {None, Torn}]
  /\ claim \in [Tokens -> Claim \cup {None}]
  /\ snapshot \in [IdemKeys -> Snapshot \cup {None}]
  /\ req \in [Requests -> Request \cup {Idle}]
  /\ stale \subseteq ObjectKeys /\ rewritten \subseteq ObjectKeys

\* Every document has its file with its own content, whatever crashes, fails or is
\* retried.  It can lose it in two ways only: a deletion unlinks it, after its commit, under
\* a request that relies on it; or an upload of the same content, which writes the file again
\* in place, is cut off, and then the next such upload repairs it.
RowHasObject ==
  \A i \in Rows : LET k == doc[i].key IN
    \/ objects[k] = doc[i].content
    \/ k \in stale
    \/ k \in rewritten /\ objects[k] = Torn

\* The search index of a local installation holds the rows' chunks and no others, also
\* when an id is used again or two deletions of one document overlap.
IndexFollowsRows ==
  backend = "local" => index = {[id |-> i, content |-> doc[i].content] : i \in Rows}

\* A content has at most one document, whoever uploads, finalizes or ingests it, at
\* the same time or again after a crash or a deletion.
StoredOnce == \A i, j \in Rows : doc[i].content = doc[j].content => i = j
=============================================================================
