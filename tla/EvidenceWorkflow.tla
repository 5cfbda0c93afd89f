--------------------------- MODULE EvidenceWorkflow ---------------------------
(***************************************************************************)
(* Evidence workflows of one user for one paper: jobs that look for an       *)
(* abstract, look for an open-access copy, fetch and index it, and analyse   *)
(* the text the paper then has, while the user uploads and deletes           *)
(* documents, searches change the paper, and jobs are cancelled.             *)
(*                                                                          *)
(* Every stage commits on its own, and a job whose worker died starts again  *)
(* from the first stage with whatever the earlier attempt left behind.       *)
(* One polling worker executes them, one after the other.  Several executors *)
(* of a job are JobQueue's subject; claiming, retrying and recovering are    *)
(* kept here as far as the stages need them, and keep to the same lifecycle. *)
(*                                                                          *)
(* The worker's session holds on to the Paper it loaded (expire_on_commit is *)
(* off): what a search changes meanwhile is seen only after a refresh or a   *)
(* rollback.                                                                *)
(*                                                                          *)
(* Abstracted: a document's text, its chunks and its index entries are there *)
(* or not (indexed); of the paper's identity, whether it has a DOI (always   *)
(* the same) and what is known of its arXiv version, which is the one every  *)
(* PDF prints; events and warnings are kept as far as they decide the end.   *)
(***************************************************************************)
EXTENDS Naturals, Sequences, FiniteSets, SequencesExt

CONSTANTS
  Jobs,         \* evidence workflows of the paper
  Created,      \* identities the record that created the paper may have given it
  Confirmed,    \* those that confirm limited licenses
  Contents,     \* PDF files
  Coverage,     \* the text coverage parse_pdf finds in each of them
  MaxAttempts,  \* max_attempts of a job
  MaxChanges,   \* bound: uploads and deletions by the user
  MaxFaults,    \* bound: deaths of the worker
  MaxLocked,    \* bound: terminal commits that fail with "database is locked"
  None          \* nothing found, nothing stored

Coverages == {"succeeded", "partial", "failed"}
Levels == {"metadata", "abstract", "partial", "full"}
Identities == [version : {"unknown", "known", "conflict"}, doi : BOOLEAN]
Decisions == {"auto_ingest", "requires_user_confirmation", "link_only"}
Stages == {"idle", "identity", "search", "sufficient", "locate", "retrieve", "ingest",
           "store", "analyse", "finish"}
Statuses == {"pending", "running", "succeeded", "partial", "failed", "cancelled"}
Document == [content : Contents, bound : Identities, indexed : BOOLEAN]
Analysis == [level : Levels, empty : BOOLEAN]
Execution == [at : Stages, paper : Identities \cup {None}, warned : BOOLEAN,
              fetched : Contents \cup {None}, analysis : Analysis \cup {None},
              moved : BOOLEAN,    \* history: documents changed since it last looked
              drifted : BOOLEAN]  \* history: identity changed since its acquisition

ASSUME EvidenceAssumption ==
  /\ Coverage \in [Contents -> Coverages]
  /\ Created \subseteq {i \in Identities : i.version # "conflict"}
  /\ MaxAttempts \in Nat \ {0} /\ MaxChanges \in Nat /\ MaxFaults \in Nat
  /\ MaxLocked \in Nat
  /\ Confirmed \subseteq Jobs
  /\ None \notin Contents \cup Decisions \cup Analysis \cup Identities

VARIABLES
  docs,      \* the documents, newest last
  verified,  \* the paper has an abstract of a real source
  identity,  \* its identity in the database
  status, attempts,  \* the job
  cancelled, \* its cancelled_at is set
  openRuns,  \* the attempts whose acquisition's AgentRun is "running"
  up,        \* the worker is running
  exec,      \* what it holds in memory while it executes the job
  recovered, \* history: how often the job was recovered
  cutOff,    \* history: the attempts whose acquisition a death of the worker cut off
  unsaved,   \* history: the job's end met a locked database, and no worker started since
  halfStored,  \* history: a failed ingestion was committed without its index
  cancelledIn, \* history: the part of the execution the last cancellation fell into
  changes, faults, locked  \* counters for the bounds

paperVars == <<docs, verified, identity, halfStored>>
jobVars == <<status, attempts, cancelled, recovered, cancelledIn>>
runVars == <<openRuns, cutOff>>
workerVars == <<up, unsaved>>
bounds == <<changes, faults, locked>>
vars == <<paperVars, jobVars, runVars, workerVars, exec, bounds>>

-----------------------------------------------------------------------------
Fresh == [at |-> "idle", paper |-> None, warned |-> FALSE, fetched |-> None,
          analysis |-> None, moved |-> FALSE, drifted |-> FALSE]

\* Only the record that created the paper can tell its arXiv version.
Init ==
  /\ docs = <<>> /\ verified = FALSE /\ halfStored = FALSE
  /\ identity \in Created
  /\ status = [j \in Jobs |-> "pending"] /\ attempts = [j \in Jobs |-> 0]
  /\ cancelled = [j \in Jobs |-> FALSE]
  /\ openRuns = [j \in Jobs |-> {}] /\ cutOff = [j \in Jobs |-> {}]
  /\ up = TRUE /\ unsaved = [j \in Jobs |-> FALSE]
  /\ exec = [j \in Jobs |-> Fresh]
  /\ recovered = [j \in Jobs |-> 0]
  /\ cancelledIn = [j \in Jobs |-> 0]
  /\ changes = 0 /\ faults = 0 /\ locked = 0

\* upsert_paper adds a DOI the paper lacks, and a record of another version makes the
\* version a conflict for good.
Later(i) ==
  {k \in Identities :
     /\ i.doi => k.doi
     /\ k.version = i.version \/ (i.version = "known" /\ k.version = "conflict")}

\* A content is stored once; mutant: the hash is not compared.
NeverStored(c) == FALSE
Stored(c) == \E i \in DOMAIN docs : docs[i].content = c

\* A document counts while its PDF was readable and the paper still has the identity it
\* was bound to, which must have told the version.
Readable(d) == Coverage[d.content] # "failed"
Current(d, i) == d.bound = i /\ i.version = "known"

\* accessible_text, asked with identity i, looks at the newest document only, then at the
\* abstract.
Newest == Last(docs)
HasText(i) == docs # <<>> /\ Readable(Newest) /\ Current(Newest, i)
Evidence(i) ==
  IF HasText(i) THEN IF Coverage[Newest.content] = "succeeded" THEN "full" ELSE "partial"
  ELSE IF verified THEN "abstract" ELSE "metadata"

\* The parts of the workflow; at the end of each of the first three it asks whether it was
\* cancelled.
Part(stage) == CASE stage = "idle" -> 0
                 [] stage = "identity" -> 1
                 [] stage \in {"search", "sufficient", "locate"} -> 2
                 [] stage \in {"retrieve", "ingest", "store", "analyse"} -> 3
                 [] OTHER -> 4

At(j, stage) == exec[j].at = stage
Becomes(j, e) == exec' = [exec EXCEPT ![j] = e]
Goto(j, stage) == Becomes(j, [exec[j] EXCEPT !.at = stage])

\* The Paper the session holds, loaded if it was expired.
Seen(j) == IF exec[j].paper = None THEN identity ELSE exec[j].paper

\* The documents changed under the jobs that are being executed.
Moved == exec' = [j \in Jobs |->
                    IF At(j, "idle") THEN exec[j] ELSE [exec[j] EXCEPT !.moved = TRUE]]

-----------------------------------------------------------------------------
\* The worker claims a job when it is not executing one.
Claim(j) ==
  /\ up /\ \A k \in Jobs : At(k, "idle")
  /\ status[j] = "pending"
  /\ status' = [status EXCEPT ![j] = "running"]
  /\ attempts' = [attempts EXCEPT ![j] = @ + 1]
  /\ Becomes(j, [Fresh EXCEPT !.at = "identity"])
  /\ UNCHANGED <<paperVars, cancelled, recovered, cancelledIn, runVars, workerVars, bounds>>

\* The end of an execution, written over whatever status the job has.
End(j, s) ==
  /\ status' = [status EXCEPT ![j] = s]
  /\ Becomes(j, Fresh)
  /\ cancelledIn' = [cancelledIn EXCEPT ![j] = 0]
  /\ UNCHANGED <<attempts, cancelled, recovered>>

\* Mutants: the job is not read again; only its status is looked at.
NeverCancelled(j) == FALSE
CancelledByStatus(j) == status[j] = "cancelled"

\* _cancelled refreshes the job.
Cancelled(j) == status[j] = "cancelled" \/ cancelled[j]
Stop(j) == End(j, "cancelled")

\* identity_resolution loads the paper.  One with full text needs no acquisition; otherwise
\* acquire_paper_evidence commits its run, and asks the sources unless the abstract is
\* verified already.
ResolveIdentity(j) ==
  /\ At(j, "identity")
  /\ IF Cancelled(j) THEN Stop(j) /\ UNCHANGED openRuns
     ELSE LET full == Evidence(identity) = "full"
          IN /\ Becomes(j, [exec[j] EXCEPT !.paper = identity,
                               !.at = IF full THEN "locate"
                                      ELSE IF verified THEN "sufficient" ELSE "search"])
             /\ openRuns' = IF full THEN openRuns
                            ELSE [openRuns EXCEPT ![j] = @ \cup {attempts[j]}]
             /\ UNCHANGED jobVars
  /\ UNCHANGED <<paperVars, cutOff, workerVars, bounds>>

CloseRun(j) == openRuns' = [openRuns EXCEPT ![j] = @ \ {attempts[j]}]

\* Mutant: the Paper is not refreshed.
EndAcquisitionStale(j) ==
  /\ At(j, "search")
  /\ CloseRun(j)
  /\ UNCHANGED <<verified, identity>>
  /\ Goto(j, "locate")
  /\ UNCHANGED <<docs, halfStored, jobVars, cutOff, workerVars, bounds>>

\* The answers of the sources, the paper they complete, an analysis and the end of the
\* run are one transaction, after which the Paper is refreshed.
EndAcquisition(j) ==
  /\ exec[j].at \in {"search", "sufficient"}
  /\ CloseRun(j)
  /\ \/ UNCHANGED <<verified, identity>>
     \/ /\ At(j, "search")
        /\ verified' = TRUE
        /\ identity' \in Later(identity)
  /\ Becomes(j, [exec[j] EXCEPT !.at = "locate", !.paper = identity'])
  /\ UNCHANGED <<docs, halfStored, jobVars, cutOff, workerVars, bounds>>

\* Mutant: a failed acquisition leaves its run as it is.
FailAcquisitionSilently(j) ==
  /\ exec[j].at \in {"search", "sufficient"}
  /\ Becomes(j, [exec[j] EXCEPT !.at = "locate", !.paper = None, !.warned = TRUE])
  /\ UNCHANGED <<paperVars, jobVars, runVars, workerVars, bounds>>

\* _finish_failed_run rolls the transaction back, which expires the Paper, and commits the
\* end of the run (if the database is locked the worker dies: Crash); the workflow goes on
\* with a warning.
FailAcquisition(j) ==
  /\ exec[j].at \in {"search", "sufficient"}
  /\ CloseRun(j)
  /\ Becomes(j, [exec[j] EXCEPT !.at = "locate", !.paper = None, !.warned = TRUE])
  /\ UNCHANGED <<paperVars, jobVars, cutOff, workerVars, bounds>>

-----------------------------------------------------------------------------
\* Mutant: an open-access copy is looked for in any case.
LocateAlways(j) ==
  /\ At(j, "locate")
  /\ Becomes(j, [exec[j] EXCEPT !.paper = Seen(j), !.at = "retrieve", !.moved = FALSE])
  /\ UNCHANGED <<paperVars, jobVars, runVars, workerVars, bounds>>

\* The second question whether the job is cancelled, and whether to look for a copy:
\* allow_oa_fulltext may be off.
Locate(j) ==
  /\ At(j, "locate")
  /\ IF Cancelled(j) THEN Stop(j)
     ELSE /\ UNCHANGED jobVars
          /\ \E next \in {"analyse", "retrieve"} :
               /\ next = "retrieve" => Evidence(Seen(j)) # "full"
               /\ Becomes(j, [exec[j] EXCEPT !.paper = Seen(j), !.at = next,
                                             !.moved = FALSE])
  /\ UNCHANGED <<paperVars, runVars, workerVars, bounds>>

\* The clients answer or fail one by one, and the best candidate decides: it is fetched,
\* or there is none, or it may not be stored or its fetch is refused, with a warning.
Permitted(j, d) == d = "auto_ingest" \/ (d = "requires_user_confirmation" /\ j \in Confirmed)
Retrieve(j) ==
  /\ At(j, "retrieve")
  /\ \/ Goto(j, "analyse")
     \/ \E d \in Decisions, c \in Contents :
          Becomes(j, [exec[j] EXCEPT !.at = IF Permitted(j, d) THEN "ingest" ELSE "analyse",
                                     !.warned = @ \/ ~Permitted(j, d),
                                     !.fetched = IF Permitted(j, d) THEN c ELSE None])
  /\ UNCHANGED <<paperVars, jobVars, runVars, workerVars, bounds>>

\* A resolver, a fetch or a check of the PDF that raises is a warning.
StageFails(j) ==
  /\ exec[j].at \in {"retrieve", "ingest"}
  /\ Becomes(j, [exec[j] EXCEPT !.at = "analyse", !.fetched = None, !.warned = TRUE])
  /\ UNCHANGED <<paperVars, jobVars, runVars, workerVars, bounds>>

\* ingest_open_access_pdf: a content that is there already is the answer, and one that
\* could not be read completely is a warning.
Ingest(j) ==
  /\ At(j, "ingest")
  /\ IF Stored(exec[j].fetched)
     THEN Becomes(j, [exec[j] EXCEPT !.at = "analyse", !.fetched = None,
                        !.warned = @ \/ Coverage[exec[j].fetched] # "succeeded"])
     ELSE Goto(j, "store")
  /\ UNCHANGED <<paperVars, jobVars, runVars, workerVars, bounds>>

NewDocument(c, i, complete) ==
  [content |-> c, bound |-> i, indexed |-> complete]

\* The row, its chunks and its index entries, bound to the identity the worker holds.
Store(j) ==
  /\ At(j, "store") /\ ~Stored(exec[j].fetched)
  /\ docs' = Append(docs, NewDocument(exec[j].fetched, Seen(j), TRUE))
  /\ Becomes(j, [exec[j] EXCEPT !.at = "analyse", !.fetched = None, !.moved = TRUE,
                    !.warned = @ \/ Coverage[exec[j].fetched] # "succeeded"])
  /\ UNCHANGED <<verified, identity, halfStored, jobVars, runVars, workerVars, bounds>>

\* The index fails after the row was flushed: the handler records a warning and commits,
\* and the row with it.
StoreHalf(j) ==
  /\ At(j, "store") /\ ~Stored(exec[j].fetched) /\ Coverage[exec[j].fetched] # "failed"
  /\ docs' = Append(docs, NewDocument(exec[j].fetched, Seen(j), FALSE))
  /\ halfStored' = TRUE
  /\ Becomes(j, [exec[j] EXCEPT !.at = "analyse", !.fetched = None, !.moved = TRUE,
                                !.warned = TRUE])
  /\ UNCHANGED <<verified, identity, jobVars, runVars, workerVars, bounds>>

-----------------------------------------------------------------------------
\* The third question, and run_paper_analysis on the text there is now; a provider's
\* answer is merged or, if it is refused or does not come, replaced.
Analyse(j) ==
  /\ At(j, "analyse")
  /\ IF Cancelled(j) THEN Stop(j)
     ELSE /\ Becomes(j, [exec[j] EXCEPT !.at = "finish", !.moved = FALSE,
                           !.analysis = [level |-> Evidence(Seen(j)),
                                         empty |-> HasText(Seen(j)) /\ ~Newest.indexed]])
          /\ UNCHANGED jobVars
  /\ UNCHANGED <<paperVars, runVars, workerVars, bounds>>

\* Mutant: a workflow without warnings has succeeded.
TerminalByWarnings(j, i) == IF exec[j].warned THEN "partial" ELSE "succeeded"
Terminal(j, i) == IF Evidence(i) = "full" /\ ~exec[j].warned THEN "succeeded" ELSE "partial"

\* Author and dataset cards are refreshed, and a failure there rolled back, which reloads
\* the Paper.
Finish(j) ==
  /\ At(j, "finish")
  /\ \E i \in {Seen(j), identity} : End(j, Terminal(j, i))
  /\ UNCHANGED <<paperVars, runVars, workerVars, bounds>>

\* Mutant: the attempt that failed is not counted.
RetriesOnceMore(j) == attempts[j] <= MaxAttempts

\* The worker tries again while attempts are left.
Retries(j) == attempts[j] < MaxAttempts

\* An exception in a stage that is not prepared for one: retried or failed.
Fail(j) ==
  /\ exec[j].at \in {"identity", "locate", "analyse", "finish"}
  /\ End(j, IF Retries(j) THEN "pending" ELSE "failed")
  /\ UNCHANGED <<paperVars, runVars, workerVars, bounds>>

-----------------------------------------------------------------------------
\* The commit that ends an execution meets a locked database: the worker goes on polling,
\* and the row stays as it is until a worker starts.
CommitLocked(j) ==
  /\ exec[j].at \in {"identity", "locate", "analyse", "finish"}
  /\ locked < MaxLocked /\ locked' = locked + 1
  /\ Becomes(j, Fresh)
  /\ cancelledIn' = [cancelledIn EXCEPT ![j] = 0]
  /\ unsaved' = [unsaved EXCEPT ![j] = TRUE]
  /\ UNCHANGED <<paperVars, status, attempts, cancelled, recovered, runVars, up, changes, faults>>

\* The worker's process ends and the execution under way with it.
Die ==
  /\ up /\ up' = FALSE
  /\ exec' = [j \in Jobs |-> Fresh]
  /\ cutOff' = [j \in Jobs |-> IF exec[j].at \in {"search", "sufficient"}
                               THEN cutOff[j] \cup {attempts[j]} ELSE cutOff[j]]
  /\ cancelledIn' = [j \in Jobs |-> IF At(j, "idle") THEN cancelledIn[j] ELSE 0]
  /\ UNCHANGED <<paperVars, status, attempts, cancelled, recovered, openRuns, unsaved,
                 changes, locked>>

\* The unique constraint refuses a content that was stored since the question: neither
\* the handler's warning nor the worker's retry can commit, and the worker ends.
Conflict(j) ==
  /\ At(j, "store") /\ Stored(exec[j].fetched)
  /\ Die
  /\ UNCHANGED faults

\* A crash, or a commit inside an execution that fails: the session takes no further
\* statement, the attempt to record the error raises, and the worker ends.
Crash ==
  /\ faults < MaxFaults /\ faults' = faults + 1
  /\ Die

\* Mutant: a restarted worker leaves the jobs it finds running.
StartWithoutRecovery ==
  /\ ~up /\ up' = TRUE
  /\ UNCHANGED <<paperVars, jobVars, runVars, unsaved, exec, bounds>>

\* A worker starts and runs recover_interrupted_jobs, and never again.
Start ==
  /\ ~up /\ up' = TRUE
  /\ status' = [j \in Jobs |-> IF status[j] = "running" THEN "pending" ELSE status[j]]
  /\ recovered' = [j \in Jobs |->
                     IF status[j] = "running" THEN recovered[j] + 1 ELSE recovered[j]]
  /\ unsaved' = [j \in Jobs |-> FALSE]
  /\ UNCHANGED <<paperVars, attempts, cancelled, cancelledIn, runVars, exec, bounds>>

-----------------------------------------------------------------------------
Change == changes < MaxChanges /\ changes' = changes + 1

\* An upload reads the paper when its file is complete.
Upload(c) ==
  /\ Change
  /\ ~Stored(c)
  /\ docs' = Append(docs, NewDocument(c, identity, TRUE))
  /\ Moved
  /\ UNCHANGED <<verified, identity, halfStored, jobVars, runVars, workerVars, faults,
                 locked>>

Delete(i) ==
  /\ Change
  /\ docs' = RemoveAt(docs, i)
  /\ Moved
  /\ UNCHANGED <<verified, identity, halfStored, jobVars, runVars, workerVars, faults,
                 locked>>

\* A search of another request finds the paper: it may add the DOI, record a conflict of
\* versions or verify the abstract.
Search ==
  /\ verified' \in {verified, TRUE}
  /\ identity' \in Later(identity)
  /\ <<verified, identity>>' # <<verified, identity>>
  /\ exec' = IF identity' = identity THEN exec
             ELSE [j \in Jobs |->
                     IF exec[j].at \in {"idle", "identity", "search", "sufficient"}
                     THEN exec[j] ELSE [exec[j] EXCEPT !.drifted = TRUE]]
  /\ UNCHANGED <<docs, halfStored, jobVars, runVars, workerVars, bounds>>

Cancel(j) ==
  /\ status[j] \in {"pending", "running"}
  /\ status' = [status EXCEPT ![j] = "cancelled"]
  /\ cancelled' = [cancelled EXCEPT ![j] = TRUE]
  /\ cancelledIn' = [cancelledIn EXCEPT ![j] = Part(exec[j].at)]
  /\ UNCHANGED <<paperVars, attempts, recovered, runVars, workerVars, exec, bounds>>

-----------------------------------------------------------------------------
Execute(j) ==
  \/ ResolveIdentity(j) \/ EndAcquisition(j) \/ FailAcquisition(j) \/ Locate(j)
  \/ Retrieve(j) \/ StageFails(j) \/ Ingest(j) \/ Store(j) \/ StoreHalf(j) \/ Conflict(j)
  \/ Analyse(j) \/ Finish(j) \/ Fail(j)

Next ==
  \/ \E j \in Jobs : Claim(j) \/ Execute(j) \/ CommitLocked(j) \/ Cancel(j)
  \/ Crash \/ Start
  \/ \E c \in Contents : Upload(c)
  \/ \E i \in DOMAIN docs : Delete(i)
  \/ Search

\* A worker polls for jobs, runs a claimed one to its end and is restarted when it died.
Spec == Init /\ [][Next]_vars /\ WF_vars(Start)
             /\ \A j \in Jobs : WF_vars(Claim(j)) /\ WF_vars(Execute(j))

-----------------------------------------------------------------------------
EvTypeOK ==
  /\ docs \in Seq(Document) /\ Len(docs) <= Cardinality(Contents)
  /\ verified \in BOOLEAN /\ identity \in Identities /\ halfStored \in BOOLEAN
  /\ status \in [Jobs -> Statuses] /\ attempts \in [Jobs -> Nat]
  /\ cancelled \in [Jobs -> BOOLEAN]
  /\ recovered \in [Jobs -> Nat]
  /\ openRuns \in [Jobs -> SUBSET Nat] /\ cutOff \in [Jobs -> SUBSET Nat]
  /\ up \in BOOLEAN /\ unsaved \in [Jobs -> BOOLEAN]
  /\ exec \in [Jobs -> Execution]
  /\ cancelledIn \in [Jobs -> 0..4]
  /\ changes \in 0..MaxChanges /\ faults \in 0..MaxFaults /\ locked \in 0..MaxLocked

\* A workflow that ends as succeeded has read full text, and the paper has full text then,
\* not only in the worker's old copy of it.  It can be wrong only if the documents changed
\* since the analysis, if a search changed the identity since the acquisition, and about an
\* empty text if some ingestion was committed by the handler of its own failure.
SuccessRestsOnText ==
  [][\A j \in Jobs : (At(j, "finish") /\ exec'[j] = Fresh /\ status'[j] = "succeeded") =>
       /\ exec[j].analysis.level = "full" \/ exec[j].moved \/ exec[j].drifted
       /\ Evidence(identity) = "full" \/ exec[j].drifted
       /\ ~exec[j].analysis.empty \/ halfStored]_vars

\* A user's full text takes precedence: no open-access copy is stored over a full text,
\* unless that came after the job asked for it, or a search changed the identity after the
\* job's acquisition and the worker asked with its old copy of the paper.
UserTextFirst ==
  [][\A j \in Jobs : (At(j, "store") /\ docs' # docs /\ exec'[j].at # "store") =>
       Evidence(identity) # "full" \/ exec[j].moved \/ exec[j].drifted]_vars

\* Cancellation is checked between the parts: a cancelled execution does not get into a
\* later part than the one the cancellation fell into, and an execution of a cancelled job
\* that a retry or a restart begins ends in its first.
CancelledStops ==
  \A j \in Jobs : cancelled[j] => Part(exec[j].at) <= 1 \/ Part(exec[j].at) <= cancelledIn[j]

\* The run of an acquisition is open only while the attempt that opened it is searching,
\* unless the worker died in it: a failed search, a retry or the end of the workflow leave
\* none, and nothing closes the run of an attempt that died.
RunsClosed ==
  \A j \in Jobs : openRuns[j] = cutOff[j] \cup
    (IF exec[j].at \in {"search", "sufficient"} THEN {attempts[j]} ELSE {})

\* Every workflow that waits or runs comes to an end, whatever fails and however often
\* its worker dies, unless the commit of its end met a locked database: then it waits for
\* the next start of a worker.
Ends == \A j \in Jobs : (status[j] \in {"pending", "running"}) ~>
          (status[j] \in {"succeeded", "partial", "failed", "cancelled"} \/ unsaved[j])

\* A job as the queue sees it: whether a worker executes it, and the executions it was
\* given so far; and the lifecycle JobQueue implements too (module JobLifecycle).
Open == [j \in Jobs |-> ~At(j, "idle")]
Budget == [j \in Jobs |-> MaxAttempts + recovered[j]]
Lifecycle == INSTANCE JobLifecycle WITH open <- Open, starts <- attempts, budget <- Budget

\* Whatever stage a workflow is in when it fails, is cancelled or loses its worker, its job
\* keeps to the lifecycle of the queue: each execution uses an attempt, only a recovered one
\* is given back, and nothing but an execution ends the job.
FollowsLifecycle == Lifecycle!Spec
=============================================================================
