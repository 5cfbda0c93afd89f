------------------------- MODULE DocumentStoreProofs -------------------------
(***************************************************************************)
(* Proofs about the documents of a user, for any contents, requests, tokens  *)
(* and ids.                                                                 *)
(***************************************************************************)
EXTENDS DocumentStore, TLAPS

USE StoreAssumption

(* The inductive invariant. *)

\* The content a key stands for: an upload's or an open-access copy's is part of the key, a
\* presigned upload's is the one its token was issued for.
Keyed(k, c) ==
  IF k.kind = "presigned" THEN claim[k.of] # None /\ claim[k.of].content = c ELSE k.of = c
Sent(k) == k.kind = "presigned" => claim[k.of].sent

\* What holds also while a restore has replaced a part of the state.
StoreCore ==
  /\ StoreTypeOK
  /\ \A t \in Tokens : objects[PresignedKey(t)] # None => claim[t] # None /\ claim[t].sent
  /\ backend = "local" => \A t \in Tokens : claim[t] = None

RowsKeyed == \A i \in Ids : doc[i] # None => Keyed(doc[i].key, doc[i].content) /\ Sent(doc[i].key)

\* The places an operation goes through.
Placed(q) ==
  /\ q.op = "finalize" => q.key.kind = "presigned" /\ q.at \in {"fetch", "look", "insert", "remember"}
  /\ q.op \in {"upload", "ingest"} =>
       q.key.kind # "presigned" /\ q.at \in {"put", "fill", "look", "insert"}
  /\ q.op = "ingest" => q.at # "look"
  /\ q.op = "delete" => q.at \in {"drop", "remove"}
  /\ q.at \in {"remember", "drop", "remove"} => q.id \in Ids

\* The object under a key is the one its row needs, or was lost or torn as RowHasObject says.
HasFile(k, c) ==
  objects[k] = c \/ k \in stale \/ (k \in rewritten /\ objects[k] = Torn)

HasFileNext(k, c) ==
  objects'[k] = c \/ k \in stale' \/ (k \in rewritten' /\ objects'[k] = Torn)

\* A request that is going to insert a row has its object there; one that is writing it has
\* its file there unless a deletion took it.
Relies(q) ==
  /\ q.at \in {"look", "insert"} => Sent(q.key) /\ HasFile(q.key, q.content)
  /\ q.at = "fill" => objects[q.key] # None \/ q.key \in stale

\* A deletion takes away the object of no row but its own.
Spares(q) ==
  /\ q.at = "drop" =>
       \A i \in Ids : doc[i] # None /\ doc[i].key = q.key => i = q.id \/ q.key \in stale
  /\ q.at = "remove" => \A i \in Ids : doc[i] # None /\ doc[i].key = q.key => q.key \in stale

Sound(q) == Keyed(q.key, q.content) /\ Placed(q) /\ Relies(q) /\ Spares(q)
RequestsSound == \A r \in Requests : req[r] # Idle => Sound(req[r])

StoreRows == RowsKeyed /\ RowHasObject /\ IndexFollowsRows /\ StoredOnce
StoreInv == StoreCore /\ StoreRows /\ RequestsSound

\* The store begins empty.
LEMMA StoreInitInv == StoreInit => StoreInv
<1> SUFFICES ASSUME StoreInit PROVE StoreInv
  OBVIOUS
<1>1. StoreTypeOK
  BY DEF StoreInit, StoreTypeOK
<1>2. /\ \A i \in Ids : doc[i] = None
      /\ \A t \in Tokens : claim[t] = None
      /\ \A r \in Requests : req[r] = Idle
      /\ \A k \in ObjectKeys : objects[k] = None
      /\ index = {}
  BY DEF StoreInit
<1>3. StoreCore
  BY <1>1, <1>2 DEF StoreCore, PresignedKey, ObjectKeys
<1>4. StoreRows
  BY <1>2 DEF StoreRows, RowsKeyed, RowHasObject, IndexFollowsRows, StoredOnce, Rows
<1> QED BY <1>2, <1>3, <1>4 DEF StoreInv, RequestsSound

-----------------------------------------------------------------------------
(* What a step leaves alone. *)

Ops == {"upload", "ingest", "finalize", "delete"}
Places == {"put", "fill", "fetch", "look", "insert", "remember", "drop", "remove"}

\* Claims stay, and a file that was sent stays sent.
ClaimsStay ==
  \A t \in Tokens : claim[t] # None =>
    /\ claim'[t] # None /\ claim'[t].content = claim[t].content
    /\ claim[t].sent => claim'[t].sent

\* The object a request relies on stays, or its key is stale; and no row comes to the key of
\* a deletion, or it is stale.
RequestStays(q) ==
  /\ q.at \in {"look", "insert"} /\ HasFile(q.key, q.content) => HasFileNext(q.key, q.content)
  /\ q.at = "fill" /\ objects[q.key] # None => objects'[q.key] # None \/ q.key \in stale'
  /\ q.at \in {"drop", "remove"} =>
       \A i \in Ids : doc'[i] # None /\ doc'[i].key = q.key => doc'[i] = doc[i] \/ q.key \in stale'

LEMMA KeyShape ==
  ASSUME NEW k \in ObjectKeys
  PROVE  /\ k.kind = "presigned" => k.of \in Tokens /\ k = PresignedKey(k.of)
         /\ k.kind # "presigned" => k.of \in Contents
BY DEF ObjectKeys, PresignedKey

LEMMA KeyedStays ==
  ASSUME NEW k \in ObjectKeys, NEW c, ClaimsStay, Keyed(k, c)
  PROVE  Keyed(k, c)' /\ (Sent(k) => Sent(k)')
<1>1. CASE k.kind = "presigned"
  BY <1>1, KeyShape DEF Keyed, Sent, ClaimsStay
<1>2. CASE k.kind # "presigned"
  BY <1>2 DEF Keyed, Sent
<1> QED BY <1>1, <1>2

LEMMA SoundStays ==
  ASSUME NEW q \in Request, Sound(q), ClaimsStay, stale \subseteq stale', RequestStays(q)
  PROVE  Sound(q)'
<1>1. q.key \in ObjectKeys
  BY DEF Request
<1>2. Keyed(q.key, q.content)' /\ (Sent(q.key) => Sent(q.key)')
  BY <1>1, KeyedStays DEF Sound
<1>3. Placed(q)'
  BY DEF Sound, Placed
<1>4. Relies(q)'
  BY <1>2 DEF Sound, Relies, RequestStays, HasFile, HasFileNext
<1>5. Spares(q)'
  BY DEF Sound, Spares, RequestStays, HasFile, HasFileNext
<1> QED BY <1>2, <1>3, <1>4, <1>5 DEF Sound

\* A request whose record is known.
LEMMA SoundOf ==
  ASSUME NEW r, NEW q, q = req'[r], Sound(q)'
  PROVE  Sound(req[r])'
BY DEF Sound, Keyed, Sent, Placed, Relies, HasFile, HasFileNext, Spares

\* One request moves on.
LEMMA RequestsStay ==
  ASSUME StoreTypeOK, RequestsSound, NEW r \in Requests, NEW n,
         req' = [req EXCEPT ![r] = n], n # Idle => Sound(n)',
         ClaimsStay, stale \subseteq stale',
         \A d \in Requests : d # r /\ req[d] # Idle => RequestStays(req[d])
  PROVE  RequestsSound'
<1> SUFFICES ASSUME NEW d \in Requests, req'[d] # Idle PROVE Sound(req[d])'
  BY DEF RequestsSound
<1>1. CASE d = r
  BY <1>1, SoundOf DEF StoreTypeOK
<1>2. CASE d # r
  <2>1. req'[d] = req[d] /\ req[d] \in Request
    BY <1>2 DEF StoreTypeOK
  <2> DEFINE q == req[d]
  <2>2. Sound(q) /\ RequestStays(q)
    BY <1>2, <2>1 DEF RequestsSound
  <2> HIDE DEF q
  <2>3. PICK p : p = req[d]
    OBVIOUS
  <2>4. Sound(p) /\ RequestStays(p) /\ p \in Request
    BY <2>1, <2>2, <2>3 DEF q
  <2>5. Sound(p)'
    BY <2>4, SoundStays
  <2> QED BY <2>1, <2>3, <2>5, SoundOf
<1> QED BY <1>1, <1>2

\* The rows stay while only claims and requests change.
LEMMA RowsStay ==
  ASSUME StoreTypeOK, StoreRows, ClaimsStay, UNCHANGED <<backend, doc, index, objects, stale, rewritten>>
  PROVE  StoreRows'
<1>1. RowsKeyed'
  <2> SUFFICES ASSUME NEW i \in Ids, doc[i] # None
               PROVE  Keyed(doc[i].key, doc[i].content)' /\ Sent(doc[i].key)'
    BY DEF RowsKeyed
  <2>1. PICK k, c : k = doc[i].key /\ c = doc[i].content
    OBVIOUS
  <2>2. k \in ObjectKeys
    BY <2>1 DEF StoreTypeOK, Document
  <2>3. Keyed(k, c) /\ Sent(k)
    BY <2>1 DEF StoreRows, RowsKeyed
  <2>4. Keyed(k, c)' /\ Sent(k)'
    BY <2>2, <2>3, KeyedStays
  <2> QED BY <2>1, <2>4 DEF Keyed, Sent
<1>2. RowHasObject' /\ IndexFollowsRows' /\ StoredOnce'
  BY DEF StoreRows, RowHasObject, IndexFollowsRows, StoredOnce, Rows
<1> QED BY <1>1, <1>2 DEF StoreRows

\* A step that changes one request and nothing it depends on.
LEMMA OnlyRequest ==
  ASSUME StoreInv, NEW r \in Requests, NEW n \in Request \cup {Idle},
         req' = [req EXCEPT ![r] = n], n # Idle => Sound(n),
         UNCHANGED <<backend, doc, index, objects, claim, stale, rewritten>>,
         snapshot' \in [IdemKeys -> Snapshot \cup {None}]
  PROVE  StoreInv'
<1>1. StoreTypeOK'
  BY DEF StoreInv, StoreCore, StoreTypeOK
<1>2. StoreCore'
  BY <1>1 DEF StoreInv, StoreCore
<1>3. ClaimsStay
  BY DEF ClaimsStay
<1>4. StoreRows'
  BY <1>3, RowsStay DEF StoreInv, StoreCore
<1>5. n # Idle => Sound(n)'
  BY DEF Sound, Keyed, Sent, Placed, Relies, HasFile, HasFileNext, Spares
<1>6. \A d \in Requests : RequestStays(req[d])
  BY DEF RequestStays, HasFile, HasFileNext
<1>7. RequestsSound'
  BY <1>3, <1>5, <1>6, RequestsStay DEF StoreInv, StoreCore
<1> QED BY <1>2, <1>4, <1>7 DEF StoreInv

-----------------------------------------------------------------------------
(* Steps that change only a request. *)

LEMMA NewType ==
  ASSUME NEW op \in Ops, NEW place \in Places, NEW k \in ObjectKeys, NEW c \in Contents
  PROVE  /\ New(op, place, k, c) \in Request
         /\ New(op, place, k, c).op = op /\ New(op, place, k, c).at = place
         /\ New(op, place, k, c).key = k /\ New(op, place, k, c).content = c
BY DEF New, Request, Ops, Places

LEMMA RequestType ==
  ASSUME StoreTypeOK, NEW r \in Requests, req[r] # Idle
  PROVE  /\ req[r] \in Request /\ req[r].key \in ObjectKeys /\ req[r].content \in Contents
         /\ req[r].op \in Ops /\ req[r].at \in Places /\ req[r].id \in Ids \cup {None}
BY DEF StoreTypeOK, Request, Ops, Places

LEMMA MovedType ==
  ASSUME NEW q \in Request, NEW place \in Places
  PROVE  LET p == [q EXCEPT !.at = place] IN
         /\ p \in Request /\ p.op = q.op /\ p.key = q.key /\ p.content = q.content
         /\ p.at = place /\ p.id = q.id /\ p.idem = q.idem
BY DEF Request, Places

\* Two columns of one request are changed together.
LEMMA TwoFields ==
  ASSUME NEW f, NEW r \in DOMAIN f, f[r] \in Request, NEW place, NEW i
  PROVE  [f EXCEPT ![r].at = place, ![r].id = i]
           = [f EXCEPT ![r] = [f[r] EXCEPT !.at = place, !.id = i]]
<1> DEFINE g == [f EXCEPT ![r].at = place]
           m == [f[r] EXCEPT !.at = place]
<1>1. g = [f EXCEPT ![r] = m]
  OBVIOUS
<1>2. g[r] = m /\ r \in DOMAIN g
  BY <1>1
<1> HIDE DEF m, g
<1>3. [g EXCEPT ![r].id = i] = [g EXCEPT ![r] = [m EXCEPT !.id = i]]
  BY <1>2
<1>4. [g EXCEPT ![r] = [m EXCEPT !.id = i]] = [f EXCEPT ![r] = [m EXCEPT !.id = i]]
  BY <1>1
<1> QED BY <1>3, <1>4 DEF m, g

LEMMA FinishKeeps ==
  ASSUME StoreInv, NEW r \in Requests, Finish(r),
         UNCHANGED <<backend, doc, index, objects, claim, stale, rewritten>>,
         snapshot' \in [IdemKeys -> Snapshot \cup {None}]
  PROVE  StoreInv'
BY OnlyRequest DEF Finish

LEMMA StartUploadInv ==
  ASSUME StoreInv, NEW r \in Requests, NEW c \in Contents, StartUpload(r, c) \/ StartIngest(r, c)
  PROVE  StoreInv'
<1>1. UploadKey(c) \in ObjectKeys /\ UploadKey(c).kind = "upload" /\ UploadKey(c).of = c
  BY DEF UploadKey, ObjectKeys
<1>2. OaKey(c) \in ObjectKeys /\ OaKey(c).kind = "oa" /\ OaKey(c).of = c
  BY DEF OaKey, ObjectKeys
<1>3. PICK n : /\ req' = [req EXCEPT ![r] = n]
               /\ n = New("upload", "put", UploadKey(c), c) \/ n = New("ingest", "put", OaKey(c), c)
  BY DEF StartUpload, StartIngest
<1>4. /\ n \in Request /\ n.at = "put" /\ n.content = c /\ n.op \in {"upload", "ingest"}
      /\ n.key.kind # "presigned" /\ n.key.of = c
  BY <1>1, <1>2, <1>3, NewType DEF Ops, Places
<1>5. Sound(n)
  BY <1>4 DEF Sound, Keyed, Placed, Relies, Spares
<1>6. UNCHANGED <<backend, doc, index, objects, claim, snapshot, stale, rewritten>>
  BY DEF StartUpload, StartIngest
<1> QED BY <1>3, <1>4, <1>5, <1>6, OnlyRequest DEF StoreInv, StoreCore, StoreTypeOK

\* The facts about a request that is at a place.
LEMMA RequestAt ==
  ASSUME StoreInv, NEW r \in Requests, NEW place, At(r, place)
  PROVE  /\ req[r] \in Request /\ req[r].key \in ObjectKeys /\ req[r].content \in Contents
         /\ req[r].op \in Ops /\ req[r].at = place /\ req[r].id \in Ids \cup {None}
         /\ Sound(req[r]) /\ StoreTypeOK
BY RequestType DEF StoreInv, StoreCore, RequestsSound, At

LEMMA LookInv ==
  ASSUME StoreInv, NEW r \in Requests, Look(r)
  PROVE  StoreInv'
<1>1. /\ req[r] \in Request /\ req[r].at = "look" /\ Sound(req[r]) /\ req[r].op \in Ops
      /\ StoreTypeOK
  BY RequestAt DEF Look
<1>2. UNCHANGED <<backend, doc, index, objects, claim, snapshot, stale, rewritten>>
  BY DEF Look
<1>3. CASE Finish(r)
  BY <1>1, <1>2, <1>3, FinishKeeps DEF StoreTypeOK
<1>4. CASE Goto(r, "insert")
  <2> DEFINE n == [req[r] EXCEPT !.at = "insert"]
  <2>1. /\ n \in Request /\ n.op = req[r].op /\ n.key = req[r].key
        /\ n.content = req[r].content /\ n.at = "insert"
    BY <1>1, MovedType DEF Places
  <2>2. req' = [req EXCEPT ![r] = n]
    BY <1>4 DEF Goto
  <2> HIDE DEF n
  <2>3. Sound(n)
    BY <1>1, <2>1 DEF Sound, Placed, Relies, HasFile, HasFileNext, Spares, Ops
  <2> QED BY <1>1, <1>2, <2>1, <2>2, <2>3, OnlyRequest DEF StoreTypeOK
<1>5. ASSUME NEW i \in RowsOf(req[r].content), req[r].op # "upload",
             req' = [req EXCEPT ![r].at = "remember", ![r].id = i]
      PROVE  StoreInv'
  <2>1. i \in Ids
    BY DEF RowsOf, Rows
  <2> DEFINE n == [req[r] EXCEPT !.at = "remember", !.id = i]
  <2>2. /\ n \in Request /\ n.op = req[r].op /\ n.key = req[r].key
        /\ n.content = req[r].content /\ n.at = "remember" /\ n.id = i
    BY <1>1, <2>1 DEF Request
  <2>3. DOMAIN req = Requests
    BY <1>1 DEF StoreTypeOK
  <2>4. [req EXCEPT ![r].at = "remember", ![r].id = i] = [req EXCEPT ![r] = n]
    BY <1>1, <2>3, TwoFields
  <2>5. req' = [req EXCEPT ![r] = n]
    BY <1>5, <2>4
  <2> HIDE DEF n
  <2>6. Sound(n)
    BY <1>1, <1>5, <2>1, <2>2 DEF Sound, Placed, Relies, Spares, Ops
  <2> QED BY <1>1, <1>2, <2>2, <2>5, <2>6, OnlyRequest DEF StoreTypeOK
<1> QED BY <1>3, <1>4, <1>5 DEF Look

LEMMA StartFinalizeInv ==
  ASSUME StoreInv, NEW r \in Requests, NEW t \in Tokens, NEW i \in IdemKeys \cup {None},
         StartFinalize(r, t, i)
  PROVE  StoreInv'
<1>1. claim[t] \in Claim /\ StoreTypeOK
  BY DEF StoreInv, StoreCore, StoreTypeOK, StartFinalize
<1>2. /\ PresignedKey(t) \in ObjectKeys /\ claim[t].content \in Contents
      /\ PresignedKey(t).kind = "presigned" /\ PresignedKey(t).of = t
  BY <1>1 DEF PresignedKey, ObjectKeys, Claim
<1> DEFINE m == New("finalize", "fetch", PresignedKey(t), claim[t].content)
           n == [m EXCEPT !.idem = i]
<1>3. /\ m \in Request /\ m.op = "finalize" /\ m.at = "fetch" /\ m.key = PresignedKey(t)
      /\ m.content = claim[t].content
  BY <1>2, NewType DEF Ops, Places
<1>4. req' = [req EXCEPT ![r] = n] /\ claim[t] # None
  BY DEF StartFinalize
<1> HIDE DEF m
<1>5. /\ n \in Request /\ n.op = "finalize" /\ n.at = "fetch" /\ n.key = PresignedKey(t)
      /\ n.content = claim[t].content
  BY <1>3 DEF Request
<1> HIDE DEF n
<1>6. Sound(n)
  BY <1>2, <1>4, <1>5 DEF Sound, Keyed, Placed, Relies, Spares
<1>7. UNCHANGED <<backend, doc, index, objects, claim, snapshot, stale, rewritten>>
  BY DEF StartFinalize
<1> QED BY <1>1, <1>4, <1>5, <1>6, <1>7, OnlyRequest DEF StoreTypeOK

LEMMA FetchInv ==
  ASSUME StoreInv, NEW r \in Requests, Fetch(r)
  PROVE  StoreInv'
<1>1. /\ req[r] \in Request /\ req[r].at = "fetch" /\ Sound(req[r]) /\ req[r].op \in Ops
      /\ StoreTypeOK /\ req[r].key \in ObjectKeys /\ req[r].content \in Contents
  BY RequestAt DEF Fetch
<1>2. UNCHANGED <<backend, doc, index, objects, claim, snapshot, stale, rewritten>>
  BY DEF Fetch
<1>3. CASE Finish(r)
  BY <1>1, <1>2, <1>3, FinishKeeps DEF StoreTypeOK
<1>4. CASE Goto(r, "look") /\ objects[req[r].key] = req[r].content
  <2> DEFINE n == [req[r] EXCEPT !.at = "look"]
  <2>1. /\ n \in Request /\ n.op = req[r].op /\ n.key = req[r].key
        /\ n.content = req[r].content /\ n.at = "look"
    BY <1>1, MovedType DEF Places
  <2>2. req' = [req EXCEPT ![r] = n]
    BY <1>4 DEF Goto
  <2>3. req[r].op = "finalize" /\ req[r].key.kind = "presigned"
    BY <1>1 DEF Sound, Placed, Ops
  <2>4. objects[req[r].key] # None
    BY <1>1, <1>4
  <2>5. Sent(req[r].key)
    BY <1>1, <2>3, <2>4, KeyShape DEF StoreInv, StoreCore, Sent
  <2> HIDE DEF n
  <2>6. Sound(n)
    BY <1>1, <1>4, <2>1, <2>3, <2>5 DEF Sound, Placed, Relies, HasFile, HasFileNext, Spares
  <2> QED BY <1>1, <1>2, <2>1, <2>2, <2>6, OnlyRequest DEF StoreTypeOK
<1> QED BY <1>3, <1>4 DEF Fetch

LEMMA RememberInv ==
  ASSUME StoreInv, NEW r \in Requests, Remember(r)
  PROVE  StoreInv'
<1>1. /\ req[r] \in Request /\ req[r].at = "remember" /\ Sound(req[r]) /\ req[r].op \in Ops
      /\ StoreTypeOK /\ req[r].key \in ObjectKeys
  BY RequestAt DEF Remember
<1>2. req[r].key.of \in Tokens /\ req[r].id \in Ids
  BY <1>1, KeyShape DEF Sound, Placed, Ops
<1>3. [token |-> req[r].key.of, id |-> req[r].id] \in Snapshot
  BY <1>2 DEF Snapshot
<1>4. snapshot' \in [IdemKeys -> Snapshot \cup {None}]
  BY <1>1, <1>3 DEF Remember, StoreTypeOK
<1> QED BY <1>4, FinishKeeps DEF Remember

LEMMA StartDeleteInv ==
  ASSUME StoreInv, NEW r \in Requests, NEW i \in Ids, StartDelete(r, i)
  PROVE  StoreInv'
<1>1. doc[i] # None /\ doc[i] \in Document /\ StoreTypeOK
  BY DEF StartDelete, Rows, StoreInv, StoreCore, StoreTypeOK
<1>2. doc[i].key \in ObjectKeys /\ doc[i].content \in Contents
  BY <1>1 DEF Document
<1> DEFINE m == New("delete", "drop", doc[i].key, doc[i].content)
           n == [m EXCEPT !.id = i]
<1>3. /\ m \in Request /\ m.op = "delete" /\ m.at = "drop" /\ m.key = doc[i].key
      /\ m.content = doc[i].content
  BY <1>2, NewType DEF Ops, Places
<1>4. req' = [req EXCEPT ![r] = n]
  BY DEF StartDelete
<1> HIDE DEF m
<1>5. /\ n \in Request /\ n.op = "delete" /\ n.at = "drop" /\ n.key = doc[i].key
      /\ n.content = doc[i].content /\ n.id = i
  BY <1>3 DEF Request
<1> HIDE DEF n
<1>6. Keyed(n.key, n.content)
  BY <1>1, <1>5 DEF StoreInv, StoreRows, RowsKeyed
<1>7. ASSUME NEW j \in Ids, doc[j] # None, doc[j].key = n.key PROVE j = i
  <2>1. Keyed(doc[j].key, doc[j].content)
    BY <1>7 DEF StoreInv, StoreRows, RowsKeyed
  <2>2. doc[j].content = doc[i].content
    BY <1>5, <1>6, <1>7, <2>1 DEF Keyed
  <2> QED BY <1>1, <1>7, <2>2 DEF StoreInv, StoreRows, StoredOnce, Rows
<1>8. Sound(n)
  BY <1>5, <1>6, <1>7 DEF Sound, Placed, Relies, Spares
<1>9. UNCHANGED <<backend, doc, index, objects, claim, snapshot, stale, rewritten>>
  BY DEF StartDelete
<1> QED BY <1>1, <1>4, <1>5, <1>8, <1>9, OnlyRequest DEF StoreTypeOK

-----------------------------------------------------------------------------
(* Steps that change rows or objects. *)

\* Whoever sends or puts an object under a key has the content the key stands for.
LEMMA SameKey ==
  ASSUME NEW k, NEW c, NEW d, Keyed(k, c), Keyed(k, d)
  PROVE  c = d
BY DEF Keyed

\* A request writes its object: what others find there is as good as before.
LEMMA WriteInv ==
  ASSUME StoreInv, NEW r \in Requests, At(r, "put") \/ At(r, "fill"),
         NEW place \in {"fill", "look", "insert"}, req[r].op = "ingest" => place # "look",
         Goto(r, place), NEW v \in Contents \cup {None, Torn},
         objects' = [objects EXCEPT ![req[r].key] = v],
         rewritten' \subseteq ObjectKeys,
         \A l \in ObjectKeys \ {req[r].key} : l \in rewritten' <=> l \in rewritten,
         UNCHANGED <<backend, doc, index, claim, snapshot, stale>>,
         HasFile(req[r].key, req[r].content) => HasFileNext(req[r].key, req[r].content),
         objects[req[r].key] # None => v # None,
         place # "fill" => HasFileNext(req[r].key, req[r].content),
         place = "fill" => v # None
  PROVE  StoreInv'
<1> DEFINE k == req[r].key c == req[r].content
           n == [req[r] EXCEPT !.at = place]
<1>1. /\ req[r] \in Request /\ req[r].at \in {"put", "fill"} /\ Sound(req[r]) /\ req[r].op \in Ops
      /\ StoreTypeOK /\ k \in ObjectKeys /\ c \in Contents
  BY RequestAt
<1>2. req' = [req EXCEPT ![r] = n]
  BY DEF Goto
<1>3. req[r].op \in {"upload", "ingest"} /\ k.kind # "presigned"
  BY <1>1 DEF Sound, Placed, Ops
<1>4. place \in Places
  BY DEF Places
<1>5. n \in Request /\ n.op = req[r].op /\ n.key = k /\ n.content = c /\ n.at = place
  BY <1>1, <1>4, MovedType
<1> HIDE DEF n
<1>6. StoreCore'
  <2>1. StoreTypeOK'
    BY <1>1, <1>2, <1>5 DEF StoreTypeOK
  <2>2. \A t \in Tokens : PresignedKey(t) # k
    BY <1>3 DEF PresignedKey
  <2>3. \A t \in Tokens : objects'[PresignedKey(t)] = objects[PresignedKey(t)]
    BY <1>1, <2>2 DEF StoreTypeOK, PresignedKey, ObjectKeys
  <2> QED BY <2>1, <2>3 DEF StoreInv, StoreCore, PresignedKey
<1>7. ClaimsStay
  BY DEF ClaimsStay
<1>8. \A l \in ObjectKeys : objects'[l] = IF l = k THEN v ELSE objects[l]
  BY <1>1 DEF StoreTypeOK
<1>9. \A l \in ObjectKeys : \A d : (l = k => d = c) /\ HasFile(l, d) => HasFileNext(l, d)
  BY <1>8 DEF HasFile, HasFileNext
<1>m. PICK m : m = n
  OBVIOUS
<1>10. Sound(m)'
  <2>1. m.op = req[r].op /\ m.key = k /\ m.content = c /\ m.at = place
    BY <1>5, <1>m
  <2>2. Keyed(m.key, m.content)'
    BY <1>1, <2>1 DEF Sound, Keyed
  <2>3. Placed(m)' /\ Spares(m)'
    BY <1>3, <2>1 DEF Placed, Spares
  <2>4. HasFileNext(m.key, m.content) <=> HasFileNext(k, c)
    BY <2>1 DEF HasFile, HasFileNext
  <2>5. Relies(m)'
    BY <1>1, <1>3, <1>8, <2>1, <2>4 DEF Relies, Sent, HasFile, HasFileNext
  <2> QED BY <2>2, <2>3, <2>5 DEF Sound
<1>11. ASSUME NEW d \in Requests, d # r, req[d] # Idle PROVE RequestStays(req[d])
  <2>1. Sound(req[d]) /\ req[d].key \in ObjectKeys
    BY <1>1, <1>11, RequestType DEF StoreInv, RequestsSound
  <2>2. req[d].key = k => req[d].content = c
    BY <1>1, <2>1, SameKey DEF Sound
  <2>3. HasFile(req[d].key, req[d].content) => HasFileNext(req[d].key, req[d].content)
    BY <1>9, <2>1, <2>2 DEF HasFile, HasFileNext
  <2> QED BY <1>8, <2>1, <2>3 DEF RequestStays, HasFile, HasFileNext
<1>12. RequestsSound'
  BY <1>1, <1>2, <1>7, <1>m, <1>10, <1>11, RequestsStay DEF StoreInv
<1>13. RowsKeyed'
  BY DEF StoreInv, StoreRows, RowsKeyed, Keyed, Sent
<1>14. RowHasObject'
  <2> SUFFICES ASSUME NEW i \in Ids, doc[i] # None
               PROVE  HasFileNext(doc[i].key, doc[i].content)
    BY DEF RowHasObject, HasFile, HasFileNext, Rows
  <2>1. PICK l, d : l = doc[i].key /\ d = doc[i].content
    OBVIOUS
  <2>2. l \in ObjectKeys
    BY <1>1, <2>1 DEF StoreTypeOK, Document
  <2>3. l = k => d = c
    BY <1>1, <2>1, SameKey DEF Sound, StoreInv, StoreRows, RowsKeyed
  <2>4. HasFile(l, d)
    BY <2>1 DEF StoreInv, StoreRows, RowHasObject, HasFile, HasFileNext, Rows
  <2>5. HasFileNext(l, d)
    BY <1>9, <2>2, <2>3, <2>4
  <2> QED BY <2>1, <2>5 DEF HasFile, HasFileNext
<1>15. IndexFollowsRows' /\ StoredOnce'
  BY DEF StoreInv, StoreRows, IndexFollowsRows, StoredOnce, Rows
<1> QED BY <1>6, <1>12, <1>13, <1>14, <1>15 DEF StoreInv, StoreRows

\* Putting an object at once, or truncating its file and writing it.
LEMMA PutInv ==
  ASSUME StoreInv, NEW r \in Requests, PutObject(r) \/ Truncate(r) \/ Fill(r)
  PROVE  StoreInv'
<1> DEFINE k == req[r].key c == req[r].content
<1>1. At(r, "put") \/ At(r, "fill")
  BY DEF PutObject, Truncate, Fill
<1>2. /\ req[r] \in Request /\ Sound(req[r]) /\ StoreTypeOK /\ k \in ObjectKeys /\ c \in Contents
      /\ req[r].op \in {"upload", "ingest"}
  BY <1>1, RequestAt DEF Sound, Placed, Ops
<1>3. /\ Stored(r) \in {"fill", "look", "insert"} /\ Stored(r) # "fill"
      /\ req[r].op = "ingest" => Stored(r) # "look"
  BY DEF Stored
<1>4. \A v : objects' = [objects EXCEPT ![k] = v] => objects'[k] = v
  BY <1>2 DEF StoreTypeOK
<1>5. CASE PutObject(r)
  <2>1. HasFileNext(k, c)
    BY <1>4, <1>5 DEF PutObject, HasFile, HasFileNext
  <2> QED BY <1>2, <1>3, <1>5, <2>1, WriteInv DEF PutObject, StoreTypeOK
<1>6. CASE Truncate(r)
  <2>1. objects'[k] = Torn
    BY <1>4, <1>6 DEF Truncate
  <2>2. HasFile(k, c) => HasFileNext(k, c)
    BY <1>2, <1>6, <2>1 DEF Truncate, HasFile, HasFileNext
  <2>3. rewritten' \subseteq ObjectKeys
    BY <1>2, <1>6 DEF Truncate, StoreTypeOK
  <2>4. \A l \in ObjectKeys \ {k} : l \in rewritten' <=> l \in rewritten
    BY <1>6 DEF Truncate
  <2> QED BY <1>1, <1>6, <2>2, <2>3, <2>4, WriteInv DEF Truncate
<1>7. CASE Fill(r)
  <2> DEFINE v == IF objects[k] = None THEN None ELSE c
  <2>1. objects' = [objects EXCEPT ![k] = v]
    BY <1>7 DEF Fill
  <2>2. objects'[k] = v
    BY <1>4, <2>1
  <2>3. v \in Contents \cup {None, Torn} /\ (objects[k] # None => v # None)
    BY <1>2
  <2>4. HasFileNext(k, c)
    BY <1>2, <1>7, <2>2 DEF Fill, At, Sound, Relies, HasFile, HasFileNext
  <2>5. rewritten' \subseteq ObjectKeys /\ \A l \in ObjectKeys \ {k} : l \in rewritten' <=> l \in rewritten
    BY <1>2, <1>7 DEF Fill, StoreTypeOK
  <2> HIDE DEF v
  <2> QED BY <1>1, <1>3, <1>7, <2>1, <2>3, <2>4, <2>5, WriteInv DEF Fill
<1> QED BY <1>5, <1>6, <1>7

LEMMA PresignInv ==
  ASSUME StoreInv, NEW t \in Tokens, NEW c \in Contents, Presign(t, c)
  PROVE  StoreInv'
<1>1. /\ claim[t] = None /\ backend = "cloud"
      /\ claim' = [claim EXCEPT ![t] = [content |-> c, sent |-> FALSE]]
      /\ UNCHANGED <<backend, doc, index, objects, snapshot, req, stale, rewritten>>
  BY DEF Presign
<1>2. [content |-> c, sent |-> FALSE] \in Claim
  BY DEF Claim
<1>3. StoreTypeOK' /\ StoreTypeOK
  BY <1>1, <1>2 DEF StoreInv, StoreCore, StoreTypeOK
<1>4. \A u \in Tokens : u # t => claim'[u] = claim[u]
  BY <1>1, <1>3 DEF StoreTypeOK
<1>5. ClaimsStay
  BY <1>1, <1>4 DEF ClaimsStay
<1>6. StoreCore'
  BY <1>1, <1>3, <1>4 DEF StoreInv, StoreCore, PresignedKey
<1>7. StoreRows'
  BY <1>1, <1>3, <1>5, RowsStay DEF StoreInv
<1>8. ASSUME NEW d \in Requests, req[d] # Idle PROVE Sound(req[d])'
  <2>1. PICK q : q = req[d]
    OBVIOUS
  <2>2. q \in Request /\ Sound(q) /\ RequestStays(q)
    BY <1>1, <1>3, <1>8, <2>1, RequestType DEF StoreInv, RequestsSound, RequestStays, HasFile, HasFileNext
  <2>3. Sound(q)'
    BY <1>1, <1>5, <2>2, SoundStays
  <2> QED BY <1>1, <2>1, <2>3, SoundOf
<1> QED BY <1>1, <1>6, <1>7, <1>8 DEF StoreInv, RequestsSound

LEMMA SendInv ==
  ASSUME StoreInv, NEW t \in Tokens, NEW c \in Contents, Send(t, c)
  PROVE  StoreInv'
<1> DEFINE k == PresignedKey(t)
           new == [claim[t] EXCEPT !.sent = TRUE]
<1>1. /\ claim[t] # None /\ ~claim[t].sent
      /\ claim' = [claim EXCEPT ![t] = new] /\ objects' = [objects EXCEPT ![k] = c]
      /\ UNCHANGED <<backend, doc, index, snapshot, req, stale, rewritten>>
  BY DEF Send
<1>2. StoreTypeOK /\ claim[t] \in Claim
  BY <1>1 DEF StoreInv, StoreCore, StoreTypeOK
<1>3. new \in Claim /\ new.sent /\ new.content = claim[t].content
  BY <1>2 DEF Claim
<1> HIDE DEF new
<1>4. k \in ObjectKeys /\ k.kind = "presigned" /\ k.of = t
  BY DEF PresignedKey, ObjectKeys
<1>5. /\ \A l \in ObjectKeys : objects'[l] = IF l = k THEN c ELSE objects[l]
      /\ \A u \in Tokens : claim'[u] = IF u = t THEN new ELSE claim[u]
  BY <1>1, <1>2, <1>4 DEF StoreTypeOK
<1>6. StoreTypeOK'
  BY <1>1, <1>2, <1>3, <1>4 DEF StoreTypeOK
<1>7. ClaimsStay
  BY <1>3, <1>5 DEF ClaimsStay
<1>8. new # None
  BY <1>3
<1>9. StoreCore'
  <2>1. \A u \in Tokens : PresignedKey(u) \in ObjectKeys /\ (PresignedKey(u) = k => u = t)
    BY DEF PresignedKey, ObjectKeys
  <2>2. \A u \in Tokens : objects'[PresignedKey(u)] # None => claim'[u] # None /\ claim'[u].sent
    BY <1>3, <1>5, <1>8, <2>1 DEF StoreInv, StoreCore
  <2> QED BY <1>1, <1>6, <2>2 DEF StoreInv, StoreCore, PresignedKey
<1>10. ASSUME NEW l \in ObjectKeys, Sent(l) PROVE objects'[l] = objects[l]
  BY <1>1, <1>4, <1>5, <1>10 DEF Sent
<1>11. RowsKeyed' /\ RowHasObject'
  <2> SUFFICES ASSUME NEW i \in Ids, doc[i] # None
               PROVE  /\ Keyed(doc[i].key, doc[i].content)' /\ Sent(doc[i].key)'
                      /\ HasFileNext(doc[i].key, doc[i].content)
    BY <1>1 DEF RowsKeyed, RowHasObject, HasFile, HasFileNext, Rows
  <2>1. PICK l, b : l = doc[i].key /\ b = doc[i].content
    OBVIOUS
  <2>2. l \in ObjectKeys
    BY <1>2, <2>1 DEF StoreTypeOK, Document
  <2>3. Keyed(l, b) /\ Sent(l) /\ HasFile(l, b)
    BY <2>1 DEF StoreInv, StoreRows, RowsKeyed, RowHasObject, HasFile, HasFileNext, Rows
  <2>4. Keyed(l, b)' /\ Sent(l)'
    BY <1>7, <2>2, <2>3, KeyedStays
  <2> QED BY <1>1, <1>10, <2>1, <2>2, <2>3, <2>4 DEF Keyed, Sent, HasFile, HasFileNext
<1>12. IndexFollowsRows' /\ StoredOnce'
  BY <1>1 DEF StoreInv, StoreRows, IndexFollowsRows, StoredOnce, Rows
<1>13. ASSUME NEW d \in Requests, req[d] # Idle PROVE Sound(req[d])'
  <2>1. PICK q : q = req[d]
    OBVIOUS
  <2>2. q \in Request /\ Sound(q) /\ q.key \in ObjectKeys
    BY <1>2, <1>13, <2>1, RequestType DEF StoreInv, RequestsSound
  <2>3. RequestStays(q)
    <3>1. objects'[q.key] = objects[q.key] \/ objects'[q.key] # None
      BY <1>5, <2>2
    <3> QED BY <1>1, <1>10, <2>2, <3>1 DEF RequestStays, Sound, Relies, HasFile, HasFileNext
  <2>4. Sound(q)'
    BY <1>1, <1>7, <2>2, <2>3, SoundStays
  <2> QED BY <1>1, <2>1, <2>4, SoundOf
<1> QED BY <1>1, <1>9, <1>11, <1>12, <1>13 DEF StoreInv, StoreRows, RequestsSound

\* Inserting a row puts the key of every deletion under way among the stale ones.
LEMMA InsertInv ==
  ASSUME StoreInv, NEW r \in Requests, Insert(r)
  PROVE  StoreInv'
<1> DEFINE k == req[r].key c == req[r].content
<1>1. /\ req[r] \in Request /\ req[r].at = "insert" /\ Sound(req[r]) /\ req[r].op \in Ops
      /\ StoreTypeOK /\ k \in ObjectKeys /\ c \in Contents
  BY RequestAt DEF Insert
<1>2. PICK i \in Ids :
        /\ NextId(i)
        /\ doc' = [doc EXCEPT ![i] = [content |-> c, key |-> k]]
        /\ index' = index \cup {[id |-> i, content |-> c]}
        /\ IF req[r].op = "finalize"
           THEN req' = [req EXCEPT ![r].at = "remember", ![r].id = i] ELSE Finish(r)
  BY DEF Insert
<1> DEFINE row == [content |-> c, key |-> k]
<1>3. row \in Document /\ row.content = c /\ row.key = k
  BY <1>1 DEF Document
<1> HIDE DEF row
<1>4. \A j \in Ids : doc'[j] = IF j = i THEN row ELSE doc[j]
  BY <1>1, <1>2 DEF StoreTypeOK, row
<1>5. doc[i] = None /\ row # None
  BY <1>2, <1>3 DEF NextId, Rows
<1>6. /\ UNCHANGED <<backend, objects, claim, snapshot, rewritten>>
      /\ stale' = IF Removing(k) = {} THEN stale ELSE stale \cup {k}
      /\ RowsOf(c) = {}
  BY DEF Insert, Unique
<1>7. PICK n : /\ req' = [req EXCEPT ![r] = n]
               /\ n = Idle \/ /\ n \in Request /\ n.op = "finalize" /\ n.key = k /\ n.content = c
                              /\ n.at = "remember" /\ n.id = i /\ req[r].op = "finalize"
  <2>1. CASE req[r].op = "finalize"
    <3> DEFINE m == [req[r] EXCEPT !.at = "remember", !.id = i]
    <3>1. /\ m \in Request /\ m.op = req[r].op /\ m.key = k
          /\ m.content = c /\ m.at = "remember" /\ m.id = i
      BY <1>1 DEF Request
    <3>2. DOMAIN req = Requests
      BY <1>1 DEF StoreTypeOK
    <3>3. [req EXCEPT ![r].at = "remember", ![r].id = i] = [req EXCEPT ![r] = m]
      BY <1>1, <3>2, TwoFields
    <3>4. req' = [req EXCEPT ![r] = m]
      BY <1>2, <2>1, <3>3
    <3> HIDE DEF m
    <3> QED BY <2>1, <3>1, <3>4
  <2>2. CASE req[r].op # "finalize"
    BY <1>2, <2>2 DEF Finish
  <2> QED BY <2>1, <2>2
<1>8. stale \subseteq stale' /\ stale' \subseteq ObjectKeys
  BY <1>1, <1>6 DEF StoreTypeOK
<1>9. StoreTypeOK'
  <2>1. [id |-> i, content |-> c] \in IndexEntry
    BY <1>1 DEF IndexEntry
  <2>2. doc' \in [Ids -> Document \cup {None}]
    BY <1>1, <1>2, <1>3 DEF StoreTypeOK, row
  <2>3. req' \in [Requests -> Request \cup {Idle}]
    BY <1>1, <1>7 DEF StoreTypeOK
  <2> QED BY <1>1, <1>2, <1>6, <1>8, <2>1, <2>2, <2>3 DEF StoreTypeOK
<1>10. StoreCore'
  BY <1>6, <1>9 DEF StoreInv, StoreCore
<1>11. ClaimsStay
  BY <1>6 DEF ClaimsStay
<1>12. n # Idle => Sound(n)'
  <2> SUFFICES ASSUME n # Idle PROVE Sound(n)'
    OBVIOUS
  <2>1. n.key = k /\ n.content = c /\ n.at = "remember" /\ n.id = i /\ n.op = "finalize"
    BY <1>7
  <2>2. Keyed(n.key, n.content)'
    BY <1>1, <1>6, <2>1 DEF Sound, Keyed
  <2>3. k.kind = "presigned"
    BY <1>1, <1>7 DEF Sound, Placed
  <2> QED BY <2>1, <2>2, <2>3 DEF Sound, Placed, Relies, Spares
<1>13. ASSUME NEW d \in Requests, d # r, req[d] # Idle PROVE RequestStays(req[d])
  <2>1. req[d].at \in {"drop", "remove"} /\ req[d].key = k => k \in stale'
    BY <1>6, <1>13 DEF Removing
  <2> QED BY <1>3, <1>4, <1>6, <1>8, <2>1 DEF RequestStays, HasFile, HasFileNext
<1>14. RequestsSound'
  BY <1>1, <1>7, <1>8, <1>11, <1>12, <1>13, RequestsStay DEF StoreInv
<1>15. RowsKeyed'
  <2>1. Keyed(k, c) /\ Sent(k)
    BY <1>1 DEF Sound, Relies
  <2> SUFFICES ASSUME NEW j \in Ids, doc'[j] # None
               PROVE  /\ IF doc'[j].key.kind = "presigned"
                         THEN /\ claim[doc'[j].key.of] # None
                              /\ claim[doc'[j].key.of].content = doc'[j].content
                         ELSE doc'[j].key.of = doc'[j].content
                      /\ doc'[j].key.kind = "presigned" => claim[doc'[j].key.of].sent
    BY <1>6 DEF RowsKeyed, Keyed, Sent
  <2>2. CASE j = i
    BY <1>3, <1>4, <2>1, <2>2 DEF Keyed, Sent
  <2>3. CASE j # i
    BY <1>4, <2>3 DEF StoreInv, StoreRows, RowsKeyed, Keyed, Sent
  <2> QED BY <2>2, <2>3
<1>16. RowHasObject'
  <2> SUFFICES ASSUME NEW j \in Ids, doc'[j] # None
               PROVE  HasFileNext(doc'[j].key, doc'[j].content)
    BY <1>6 DEF RowHasObject, HasFile, HasFileNext, Rows
  <2>1. CASE j = i
    BY <1>1, <1>3, <1>4, <1>6, <1>8, <2>1 DEF Sound, Relies, HasFile, HasFileNext
  <2>2. CASE j # i
    BY <1>4, <1>6, <1>8, <2>2 DEF StoreInv, StoreRows, RowHasObject, HasFile, HasFileNext, Rows
  <2> QED BY <2>1, <2>2
<1>17. IndexFollowsRows'
  <2> SUFFICES ASSUME backend = "local"
               PROVE  index' = {[id |-> j, content |-> doc'[j].content] :
                                  j \in {l \in Ids : doc'[l] # None}}
    BY <1>6 DEF IndexFollowsRows, Rows
  <2>1. index = {[id |-> j, content |-> doc[j].content] : j \in {l \in Ids : doc[l] # None}}
    BY DEF StoreInv, StoreRows, IndexFollowsRows, Rows
  <2>2. {l \in Ids : doc'[l] # None} = {l \in Ids : doc[l] # None} \cup {i}
    BY <1>4, <1>5
  <2>3. \A j \in {l \in Ids : doc[l] # None} : doc'[j].content = doc[j].content
    BY <1>4, <1>5
  <2>4. doc'[i].content = c
    BY <1>3, <1>4
  <2> QED BY <1>2, <2>1, <2>2, <2>3, <2>4
<1>18. StoredOnce'
  <2> SUFFICES ASSUME NEW j \in Ids, NEW l \in Ids, doc'[j] # None, doc'[l] # None,
                      doc'[j].content = doc'[l].content
               PROVE  j = l
    BY DEF StoredOnce, Rows
  <2>1. \A m \in Ids : doc[m] # None => doc[m].content # c
    BY <1>6 DEF RowsOf, Rows
  <2> QED BY <1>3, <1>4, <2>1 DEF StoreInv, StoreRows, StoredOnce, Rows
<1> QED BY <1>10, <1>14, <1>15, <1>16, <1>17, <1>18 DEF StoreInv, StoreRows

LEMMA DropRowInv ==
  ASSUME StoreInv, NEW r \in Requests, DropRow(r)
  PROVE  StoreInv'
<1> DEFINE i == req[r].id
<1>1. /\ req[r] \in Request /\ req[r].at = "drop" /\ Sound(req[r]) /\ req[r].op \in Ops
      /\ StoreTypeOK
  BY RequestAt DEF DropRow
<1>2. i \in Ids
  BY <1>1 DEF Sound, Placed
<1>3. /\ doc' = [doc EXCEPT ![i] = None]
      /\ index' = IF backend = "local" THEN {e \in index : e.id # i} ELSE index
      /\ UNCHANGED <<backend, objects, claim, snapshot, stale, rewritten>>
  BY DEF DropRow
<1>4. \A j \in Ids : doc'[j] = IF j = i THEN None ELSE doc[j]
  BY <1>1, <1>2, <1>3 DEF StoreTypeOK
<1>5. PICK n : /\ req' = [req EXCEPT ![r] = n] /\ n \in Request /\ n.op = req[r].op
               /\ n.key = req[r].key /\ n.content = req[r].content /\ n.at = "remove" /\ n.id = i
  <2> DEFINE m == [req[r] EXCEPT !.at = "remove"]
  <2>1. /\ m \in Request /\ m.op = req[r].op /\ m.key = req[r].key
        /\ m.content = req[r].content /\ m.at = "remove" /\ m.id = i
    BY <1>1, MovedType DEF Places
  <2>2. req' = [req EXCEPT ![r] = m]
    BY DEF DropRow, Goto
  <2> HIDE DEF m
  <2> QED BY <2>1, <2>2
<1> HIDE DEF i
<1>6. StoreTypeOK'
  <2>1. req' \in [Requests -> Request \cup {Idle}]
    BY <1>1, <1>5 DEF StoreTypeOK
  <2>2. index' \subseteq IndexEntry
    BY <1>1, <1>3 DEF StoreTypeOK
  <2> QED BY <1>1, <1>2, <1>3, <2>1, <2>2 DEF StoreTypeOK
<1>7. StoreCore'
  BY <1>3, <1>6 DEF StoreInv, StoreCore
<1>8. ClaimsStay
  BY <1>3 DEF ClaimsStay
<1>9. Sound(n)'
  <2>1. Keyed(n.key, n.content)'
    BY <1>1, <1>3, <1>5 DEF Sound, Keyed
  <2>2. Placed(n)'
    BY <1>1, <1>2, <1>5 DEF Sound, Placed
  <2>3. Spares(n)'
    BY <1>1, <1>3, <1>4, <1>5 DEF Sound, Spares, i
  <2> QED BY <1>5, <2>1, <2>2, <2>3 DEF Sound, Relies
<1>10. \A d \in Requests : RequestStays(req[d])
  BY <1>3, <1>4 DEF RequestStays, HasFile, HasFileNext
<1>11. RequestsSound'
  BY <1>1, <1>3, <1>5, <1>8, <1>9, <1>10, RequestsStay DEF StoreInv
<1>12. RowsKeyed' /\ RowHasObject' /\ StoredOnce'
  BY <1>3, <1>4 DEF StoreInv, StoreRows, RowsKeyed, RowHasObject, StoredOnce, Rows, Keyed, Sent
<1>13. IndexFollowsRows'
  <2> SUFFICES ASSUME backend = "local"
               PROVE  index' = {[id |-> j, content |-> doc'[j].content] :
                                  j \in {l \in Ids : doc'[l] # None}}
    BY <1>3 DEF IndexFollowsRows, Rows
  <2>1. index = {[id |-> j, content |-> doc[j].content] : j \in {l \in Ids : doc[l] # None}}
    BY DEF StoreInv, StoreRows, IndexFollowsRows, Rows
  <2>2. {l \in Ids : doc'[l] # None} = {l \in Ids : doc[l] # None} \ {i}
    BY <1>4
  <2>3. \A j \in {l \in Ids : doc'[l] # None} : doc'[j].content = doc[j].content
    BY <1>4
  <2>4. \A j \in Ids : [id |-> j, content |-> doc[j].content].id = j
    OBVIOUS
  <2> QED BY <1>3, <2>1, <2>2, <2>3, <2>4
<1> QED BY <1>7, <1>11, <1>12, <1>13 DEF StoreInv, StoreRows

LEMMA RemoveObjectInv ==
  ASSUME StoreInv, NEW r \in Requests, RemoveObject(r)
  PROVE  StoreInv'
<1> DEFINE k == req[r].key
<1>1. /\ req[r] \in Request /\ req[r].at = "remove" /\ Sound(req[r]) /\ k \in ObjectKeys
      /\ StoreTypeOK
  BY RequestAt DEF RemoveObject
<1>2. /\ objects' = [objects EXCEPT ![k] = None] /\ req' = [req EXCEPT ![r] = Idle]
      /\ stale' = IF Relying(k) = {} THEN stale ELSE stale \cup {k}
      /\ rewritten' = rewritten \ {k}
      /\ UNCHANGED <<backend, doc, index, claim, snapshot>>
  BY DEF RemoveObject, Finish
<1>3. \A l \in ObjectKeys : objects'[l] = IF l = k THEN None ELSE objects[l]
  BY <1>1, <1>2 DEF StoreTypeOK
<1>4. stale \subseteq stale' /\ stale' \subseteq ObjectKeys
  BY <1>1, <1>2 DEF StoreTypeOK
<1>5. StoreTypeOK'
  BY <1>1, <1>2, <1>4 DEF StoreTypeOK
<1>6. StoreCore'
  BY <1>2, <1>3, <1>5 DEF StoreInv, StoreCore, PresignedKey, ObjectKeys
<1>7. ClaimsStay
  BY <1>2 DEF ClaimsStay
<1>8. ASSUME NEW d \in Requests, d # r, req[d] # Idle PROVE RequestStays(req[d])
  <2>1. req[d].key \in ObjectKeys
    BY <1>1, <1>8, RequestType
  <2>2. req[d].at \in {"fill", "look", "insert"} /\ req[d].key = k => k \in stale'
    BY <1>2, <1>8 DEF Relying
  <2> QED BY <1>2, <1>3, <1>4, <2>1, <2>2 DEF RequestStays, HasFile, HasFileNext
<1>9. RequestsSound'
  BY <1>1, <1>2, <1>4, <1>7, <1>8, RequestsStay DEF StoreInv
<1>10. RowsKeyed' /\ StoredOnce' /\ IndexFollowsRows'
  BY <1>2 DEF StoreInv, StoreRows, RowsKeyed, StoredOnce, IndexFollowsRows, Rows, Keyed, Sent
<1>11. RowHasObject'
  <2> SUFFICES ASSUME NEW j \in Ids, doc[j] # None
               PROVE  HasFileNext(doc[j].key, doc[j].content)
    BY <1>2 DEF RowHasObject, HasFile, HasFileNext, Rows
  <2>1. doc[j].key \in ObjectKeys
    BY <1>1 DEF StoreTypeOK, Document
  <2>2. CASE doc[j].key = k
    BY <1>1, <1>4, <2>2 DEF Sound, Spares, HasFile, HasFileNext
  <2>3. CASE doc[j].key # k
    BY <1>2, <1>3, <1>4, <2>1, <2>3 DEF StoreInv, StoreRows, RowHasObject, HasFile, HasFileNext, Rows
  <2> QED BY <2>2, <2>3
<1> QED BY <1>6, <1>9, <1>10, <1>11 DEF StoreInv, StoreRows

LEMMA AbandonInv ==
  ASSUME StoreInv, NEW ops, Abandon(ops),
         UNCHANGED <<backend, doc, index, objects, claim, snapshot, stale, rewritten>>
  PROVE  StoreInv'
<1>1. \A d \in Requests : req'[d] = IF req[d] # Idle /\ req[d].op \in ops THEN Idle ELSE req[d]
  BY DEF Abandon
<1>2. StoreTypeOK'
  BY DEF StoreInv, StoreCore, StoreTypeOK, Abandon
<1>3. StoreCore'
  BY <1>2 DEF StoreInv, StoreCore
<1>4. StoreRows'
  BY RowsStay DEF StoreInv, StoreCore, ClaimsStay
<1>5. RequestsSound'
  BY <1>1 DEF StoreInv, RequestsSound, Sound, Keyed, Sent, Placed, Relies, HasFile, HasFileNext, Spares
<1> QED BY <1>3, <1>4, <1>5 DEF StoreInv

-----------------------------------------------------------------------------
(* The steps of the store together. *)

LEMMA ApiStepInv ==
  ASSUME StoreInv, NEW r \in Requests, ApiStep(r)
  PROVE  StoreInv'
<1>1. CASE RemoveFails(r)
  BY <1>1, FinishKeeps DEF RemoveFails, StoreInv, StoreCore, StoreTypeOK
<1> QED BY <1>1, StartUploadInv, StartFinalizeInv, StartDeleteInv, FetchInv, LookInv,
           RememberInv, DropRowInv DEF ApiStep

LEMMA StoreStepInv ==
  ASSUME StoreInv, NEW r \in Requests, StoreStep(r)
  PROVE  StoreInv'
<1>1. CASE Duplicate(r)
  BY <1>1, FinishKeeps DEF Duplicate, StoreInv, StoreCore, StoreTypeOK
<1>2. CASE PutFails(r)
  BY <1>2, FinishKeeps DEF PutFails, StoreInv, StoreCore, StoreTypeOK
<1> QED BY <1>1, <1>2, PutInv, InsertInv DEF StoreStep

LEMMA BrowserStepInv ==
  ASSUME StoreInv, BrowserStep
  PROVE  StoreInv'
BY PresignInv, SendInv DEF BrowserStep

LEMMA StoreNextInv ==
  ASSUME StoreInv, [StoreNext]_docVars
  PROVE  StoreInv'
<1>1. CASE WorkerDies
  BY <1>1, AbandonInv DEF WorkerDies
<1>2. CASE ApiDies
  BY <1>2, AbandonInv DEF ApiDies
<1>3. CASE UNCHANGED docVars
  BY <1>3 DEF docVars, StoreInv, StoreCore, StoreTypeOK, StoreRows, RowsKeyed, RowHasObject,
              IndexFollowsRows, StoredOnce, Rows, RequestsSound, Sound, Keyed, Sent, Placed,
              Relies, HasFile, HasFileNext, Spares
<1> QED BY <1>1, <1>2, <1>3, ApiStepInv, StoreStepInv, BrowserStepInv, RemoveObjectInv,
           StartUploadInv DEF StoreNext

\* The invariant of the store holds in every state.
THEOREM StoreInvariant == StoreSpec => []StoreInv
BY StoreInitInv, StoreNextInv, PTL DEF StoreSpec

\* Rows, objects and requests are well typed; a snapshot names a token and a row id.
THEOREM StoreTypeCorrect == StoreSpec => []StoreTypeOK
<1>1. StoreInv => StoreTypeOK
  BY DEF StoreInv, StoreCore
<1> QED BY <1>1, StoreInvariant, PTL

\* However uploads, finalizations, ingestions and deletions overlap, fail or die, a row has
\* the object of its own content unless a deletion removed it under a request that relied on it
\* or an upload of that content is writing it again, or died while it did; a content has one
\* row, and the index of a local installation is that of the rows.
THEOREM StoreConsistent == StoreSpec => [](RowHasObject /\ IndexFollowsRows /\ StoredOnce)
<1>1. StoreInv => RowHasObject /\ IndexFollowsRows /\ StoredOnce
  BY DEF StoreInv, StoreRows
<1> QED BY <1>1, StoreInvariant, PTL
=============================================================================
