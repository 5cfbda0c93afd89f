# ResearchNavigator: TLA+ models and proofs

ResearchNavigator is a FastAPI service over one SQLite database (WAL), a polling
worker process, a React front end and MCP wrappers.  This directory models the
parts whose correctness depends on the order of steps, and the pure algorithms
those parts decide with: TLC checks small instances of every module, TLAPS
proves the theorems for all values of the constants.

Paths below are relative to `src/`; `api/` stands for
`apps/api/research_navigator/`.

## 1. Inventory

| part | state | operations | hard behaviour | what makes it correct | module |
|---|---|---|---|---|---|
| job queue, worker (`services/worker/main.py`, `api/routes/system.py`) | `jobs`, `job_events`; the ORM copy each executor holds | create, claim, execute, retry, fail, cancel, recover | workers, triggers and requests on one row; crash and restart; locked database; partial column writes | exclusive execution, bounded retries, rows and events that agree, every job ends | `JobQueue` |
| evidence workflow (`api/evidence/workflow.py`, `api/routes/evidence.py`), acquisition (`api/analysis/acquisition.py`), open access (`api/open_access`) | the job, acquisition runs, documents, analyses | `/run`, `/cancel`, ten stages with commits in between | cancellation between stages, a failing stage, re-execution after a crash, documents and an identity that change meanwhile | success rests on text, a cancelled job stops, only a death leaves a run open, user text comes first | `EvidenceWorkflow` |
| abstract backfill (`api/evidence/backfill.py`) | a job with a batch of papers | refresh before each paper | cancel, retry from the start | resumes or repeats harmlessly | endpoints in `JobQueue` |
| research gaps (`api/gaps/*`, `api/routes/gaps.py`) | candidate, challenge evidence, fingerprints | generate, challenge, confirm or reject | a challenge awaits three searches while the user decides | nothing is confirmed that was not challenged on current evidence | `GapReview` |
| research plans (`api/plans`, `api/routes/plans.py`) | plan, items, versions | create, update item, review | the gap changes after the plan exists | plans only from confirmed gaps | `GapReview` |
| arXiv lease (`api/scholarly/coordinator.py`) | one row: owner, expiry, next allowed time | acquire, release, run | lease expiry, crash, two processes | one request at a time, spaced | `ArxivLease` |
| documents (`api/routes/documents.py`, `api/uploads.py`, `api/data_plane/storage.py`, `api/open_access/ingestion.py`), idempotency (`api/idempotency.py`) | document rows, chunks, index, files, claims, snapshots | upload, presign, finalize, ingest, delete, replay | file and row change in two systems; same content twice; ids used again | a row has its file, the index its rows, a content one document | `DocumentStore` |
| backup and restore (`api/backups/service.py`) | database file, uploads, index, marker, staging directory | create, validate, stage, apply at start | crash in the middle of applying; requests during a backup | the restored state is all old or all new whenever it is served | `DataPlane` |
| federated search, paper catalog (`api/scholarly/*`) | papers, sources | search, merge, match, upsert | records of several sources for one work; two writers of one paper | the source that is marked wrote the abstract | `PaperCatalog` |
| source cooldown (`api/scholarly/runtime.py`, `api/routes/system.py`) | cooldown per source | before_call, after_call, status page, source test | answers of calls that began before a 429 | a cooldown lasts | `SourceCooldown` |
| paper analysis (`api/analysis/*`) | analyses, the evidence they read | extract, call a provider, validate, merge, score | evidence changes under the call; the provider answers anything | no claim beyond the evidence | `PaperAnalysis` |
| evaluations (`api/evaluations/service.py`, `api/routes/evaluations.py`) | study, assignments, ratings, result | create, freeze, assign, start, submit, aggregate | overlapping aggregations; simulated raters | only real ratings validate | `EvaluationStudy` |
| database schema (`api/models.py`, `apps/api/alembic`, `api/db.py`, `deployment/cloud/parity`) | tables and columns, recorded revision | upgrade, downgrade, create_all, bootstrap, audit, stamp | statements that are durable one by one | references resolve, a recorded revision is there | `SchemaMigrations` |
| translation cache (`api/translation/service.py`) | cached translations | lookup, translate | failing provider | a cached text belongs to its source | - |
| web workspace (`apps/web/src/lib/searchWorkspace.ts`) | stored searches, generation | save, restore, clear | late responses, identity change | no result of another user or query | - |
| backend gate (`apps/web/.../BackendAvailabilityGate.tsx`) | availability | check | overlapping checks | the newest answer wins | - |
| authentication, library, projects, settings, paper sets, comparisons, clustering, authors, datasets, recommendations, export, MCP servers, scripts | rows or nothing | single transactions, pure computations | none of order | not modelled | - |

Interactions: every HTTP handler and the worker share the database; executors
hold ORM copies across commits (`autoflush=False, expire_on_commit=False`,
`api/db.py:49`), so a later commit writes the columns that differ from a copy
that may be old.  The worker calls the workflow, backfill, analysis, gap and
recommendation code in its own process; the API calls the same functions from
its `/run` handlers.  The front end talks only to the API.

## 2. Plan

Done, in this order, with the proofs that go with each:

1. `JobQueue`, the abstract `JobLifecycle`, `JobQueueProofs`.
2. `GapReview`, `GapReviewProofs`: gap, challenge, confirmation, plan.
3. `ArxivLease`, `ArxivLeaseProofs`: the lease and the send gate.
4. `DocumentStore`, `DocumentStoreProofs`: rows, files, index, snapshots.
5. `DataPlane`, which EXTENDS `DocumentStore`, the abstract `BackupPromise` it
   implements, and `DataPlaneProofs`: backup, and a restore that can be interrupted
   anywhere.
6. `EvidenceWorkflow`, `EvidenceProofs`: the stages between two checks of
   `JobQueue`, with failure, cancellation and re-execution, shown to keep to the
   `JobLifecycle` that `JobQueue` implements.
7. `EvaluationStudy`, `SchemaMigrations`, `PaperCatalog`, `SourceCooldown`,
   `PaperAnalysis`, put together in `Services`; `EvaluationProofs`,
   `ServiceProofs`.

Left, in this order:

1. The web search workspace and the backend gate: overlapping responses in one
   page.
2. The command-line restore (`scripts/restore.py`), over the files of `DataPlane`.
3. The translation cache, and the batch of the abstract backfill.

## 3. The job queue

`JobQueue.tla` is the table `jobs` with everybody who touches it.

| model | code |
|---|---|
| `job[j]` | a row: status, attempt_count, locked_by, and whether cancelled_at, finished_at and error are set |
| `started`, `recovered`, `last` | the lifecycle rows of `job_events` |
| `pc`, `task`, `snap`, `checks` | an executor: where it is, its job, its ORM copy, the cancellation checks passed |
| `seen` | the rows a restarting worker has selected and not yet flushed |
| `asked` | a cancel request that has validated the row and not yet written |
| `Claim` | the conditional `UPDATE ... RETURNING` and the load that follows it in one transaction |
| `RunRead`, `RunStart` | the two transactions of the `/run` handlers |
| `Checkpoint`, `Reload` | `session.refresh` in `_cancelled`; a rollback, after which the copy is loaded again |
| `Complete`, `Retry`, `Fail`, `RunComplete`, `RunFail` | the terminal commits, flushed against the copy (`Flush`) |
| `CancelRead`, `CancelWrite` | the three cancel handlers |
| `Crash`, `Start`, `Recover` | process death, `recover_interrupted_jobs` (select, then commit) |
| `CommitLocked` | `OperationalError` on the terminal commit |

Abstractions: payloads and results; timestamps are set or not; the stages of an
execution are one span with the points where the copy is reloaded.  Ids are
created in order, which is the order of `created_at, id`.  The public-demo
limit of active jobs and the idempotency snapshot of `POST /jobs` are not in
this module.

`JobLifecycle.tla` is what the queue promises about one job: executions are
serial, each start uses one unit of budget, only a recovered interruption gives
one back.  `EvidenceWorkflow` (section 7) implements it too.

### Runs

| run | instance | shows |
|---|---|---|
| `JobQueue_parallel` | 2 workers, 1 trigger, 1 canceller, 2 jobs, 2 attempts, 1 locked commit | exclusive claims, finished jobs stay finished, refinement of `JobLifecycle` |
| `JobQueue_restart` | 1 worker, 2 crashes, 1 canceller, a workflow and a backfill, 2 attempts | exact and bounded attempts, consistent rows, explained status, termination |
| `JobQueue_contended` | one workflow, 1 worker, 1 `/run` request, 1 canceller, 2 attempts, 2 crashes | a cancelled workflow never reports a result |
| `JobQueue_cancelled` | violation | a cancelled job becomes something else |
| `JobQueue_runrace` | violation | `/run` executes a job that a worker has claimed |

Two jobs are enough for the choice of the oldest job and for a recovery that
rewrites several rows; two attempts are the smallest number with a retry and a
last attempt; two crashes allow a crash during or after a recovery.  Deadlock
checking is off: the system rests when all jobs have ended.

Fairness (`Fairness`, used by `EventuallyTerminal` only): a live worker polls
(`main`, the loop), its execution ends or fails, and a dead worker is restarted
(`infra/docker-compose.yml`, `restart: unless-stopped`).  Requests, triggers,
crashes and locked commits are not fair.  `JobQueue_restart` has no locked commit
(`MaxLocked = 0`): after one the live worker polls on and the row stays `running`
until a worker starts, so `EventuallyTerminal` does not hold with them.  `Ends` in
section 7 says what does.

### Proofs

`JobQueueProofs.tla` proves type correctness in every environment, and the
safety properties in a `SerialEnvironment`: no `/run` requests, every worker up
before the queue is used, and a process that crashes is alone.  Outside it the
code does not keep them: `JobQueue_runrace` shows `/run`, and a second worker
that starts later resets running rows (see findings).

The inductive invariant `IInv` has a part per executor, per worker, per job and
per request.  `RowConsistent` alone is not inductive: what a terminal commit
leaves in the row depends on how the copy relates to the row.  `HolderOK` says
that the two differ at most by a cancellation; then a flush writes every column
it means to write (`CommitRow`), and the row, the event log and the counts stay
in step (`StatusOK`, `CountOK`).  `RecoveryOK` and `SelectedOK` say that a
recovery happens while nobody executes, so the rows it selected are still
interrupted ones.  From `IInv` follow exclusive execution, the bounds on
attempts, consistent rows and events; the refinement of `JobLifecycle` is
proved step by step under the same invariant, and `FinishedStays` from it.

`CancelledForGood` needs no serial environment: that a cancelled workflow never
reports a result is proved with `/run` requests, late workers and crashes of one
process among many.  Liveness is only model-checked.

## 4. Research gaps

`GapReview.tla` is one row of `gap_candidates` with the requests on it.  Rows of
different gaps share nothing but the evidence context, so one is enough.

| model | code |
|---|---|
| `ctx` | everything `context_fingerprint` hashes: direction, profile, selection, evidence matrix; `Edit` changes it |
| `gap` | status, context fingerprint, queries and counter-evidence, whether `challenge_completed_at` is set, challenge fingerprint |
| `Generate` | `generate_gap`, blocked unless the context is `Eligible` |
| `StartChallenge`, `EndChallenge`, `AbortChallenge` | `run_gap_challenge` before and after its awaited searches; `Save` is its UPDATE, column by column against the copy loaded first |
| `ReadDecision`, `WriteDecision` | `confirm_gap`: the checks, and the later commit |
| `CheckPlan`, `CreatePlan`, `UpdateItem` | `create_plan` and `update_plan_item`: the gate, and the later commit |
| `challenge`, `decision`, `planning` | requests under way with the copy they loaded |
| `found`, `reviewed`, `overtaken` | histories for the properties |

Abstractions: a fingerprint is the value it hashes; source names and source
failures go with the counter-evidence and completeness; one reading of the
context is one step; `Eligible` is the set of contexts for which
`evaluate_evidence` allows a gap; notes, `confirmed_at`, explanations and audit
rows are left out.  A replayed confirmation changes nothing and is not a step.
Plans without a gap have no gate.  Every request is made once; several
challenges are several requests.

| run | instance | shows |
|---|---|---|
| `GapReview_parallel` | 3 challenges, 2 decisions, 2 planners, 2 contexts (one eligible), 2 query lists, 1 finding or none | a confirmation is for what one complete challenge found; a confirmed gap and its plans rest on it unless a challenge and a decision overlap |
| `GapReview_race` | violation | a challenge that was under way during the decision replaces the evidence under a confirmed gap |

Three challenges are the smallest number in which two tear a row that a third
has completed; a second decision can follow a re-challenge; the ineligible
context makes both reasons for staleness happen.  The symmetry sets are
requests and query lists, which no definition tells apart.  Deadlock checking is off:
the requests run out.

`ReviewedWasFound` is the point of the fingerprint.  Overlapping challenges leave
rows with the queries of one and the counter-evidence of another; they also
leave a fingerprint that does not match, and `assert_current_gap` refuses the
confirmation.  It does not cover what happens after the check:
`ConfirmedIsReviewed` fails when a challenge and a decision overlap (`overtaken`).

`GapReviewProofs.tla` proves all four for any number of requests, contexts,
queries and findings.  `ReviewedWasFound` needs two strengthenings: the stored
fingerprint, if it claims completeness, is the fingerprint of something found
(`FingerprintFound`), and a decision under way carries evidence that was found
(`DecisionOK`).  The plan gate needs the same of plan requests (`PlanningOK`) and
that a confirmed gap had a confirmation (`ConfirmedHasReview`).  The assumption
`ReviewAssumption` says only that the eligible contexts are contexts and that an
empty column is no fingerprint.

## 5. The arXiv lease

`ArxivLease.tla` is the row `arxiv` of `source_runtime_states` and the calls of
`ArxivRequestCoordinator.run`, in any number of processes.

| model | code |
|---|---|
| `row` | `lease_owner`, `lease_expires_at`, `next_allowed_at`; a gate of NULL is a gate that is always open, 0 |
| `Owner` | the process of a call: the coordinator and its `owner_id` are made once per process |
| `ReadClock`, `Acquire`, `Poll` | `try_acquire`: the clock is read, then the conditional UPDATE commits, perhaps much later |
| `GiveUp` | the wait times out or the database fails |
| `EndOperation`, `Release` | the `finally` of `run`: the clock is read, then the lease is freed if the process still owns it |
| `Lose` | the process dies, or `release` raises |
| `LoopFree` | the database calls are synchronous and block the event loop of their process |
| `lapsed`, `overtaken`, `ends`, `lease` | histories: a takeover after expiry, a process that was granted the lease while an earlier request of its own was still in flight, when operations ended, the expiry each call was granted |

The clock is an integer and the same for all processes.  A request may last
longer than its lease (the client's timeout is per phase, not in total), so
`Tick` is not restricted.  The polling interval and the creation of the row are
left out; calls that were built without a coordinator (the worker's, see
findings) are not calls of this module.

| run | instance | shows |
|---|---|---|
| `ArxivLease_processes` | 4 calls of 3 processes, two of which share their owner id, lease 2, interval 2, clock up to 4 | one request within its lease, until a process overtakes a request of its own; one at all, and properly spaced, until a lease has to be taken over |
| `ArxivLease_sharedowner` | violation; 3 calls, two of one process | a late release frees the lease of another call of the same process |

With a lease of 2 and a clock to 4 a lease can expire and be taken over, and the
second one expires too; an interval passes between two requests.  Of four calls two
belong to one process and two to others, which is a late one, a holder and a third
that slips in, with a shared owner id or without.  Deadlock checking is off: calls
end and the clock stops at its bound.

`OneInLease`, that two requests within their leases are one, is what the lease is
for, and the code does not keep it (`ArxivLease_sharedowner`).  `AloneWithinLease`
is the exact extent of that: it can be lost only after a process was granted the lease
before it had released an earlier request of its own (`overtaken`).  Other processes
may lapse, take over, crash and release late as they like.

`ArxivLeaseProofs.tla` proves these for any number of calls, any durations and any
sharing of owner ids.  The invariant `IInv` says that, while no lease has lapsed, the
row names the process of the one call in flight (`HolderInRow`), that a call about to
release was the last to end (`LastToEnd`), and that a free row carries the gate it has
set (`GateIsSet`).  `AloneWithinLease` has an invariant of its own that holds through
lapses and crashes as well: until a process overtakes itself it has one call in flight
(`OneEach`), and a call within its lease is the one the row names (`LeaseInRow`).

## 6. Documents, backup and restore

`DocumentStore.tla` is the documents of one user for one paper.  The database and
the storage are two systems that no code writes together, and the module keeps
every point between the two writes.

| model | code |
|---|---|
| `backend` | SQLite with a directory, or Turso with R2 |
| `doc`, `index`, `objects` | `paper_documents` with chunks, `paper_chunks_fts`, the stored files by key |
| `claim`, `snapshot` | completion tokens of presigned uploads; `idempotency_records` |
| `req` | the requests under way, with the step each is at |
| `stale` | history: keys whose object a deletion removed while another request relied on it |
| `rewritten` | history: keys whose complete file was opened to be written again, until it is |
| `StartUpload`, `StartIngest`, `Look`, `Insert`, `Duplicate` | `upload_paper` and `ingest_open_access_pdf`: file, look for the content, insert or fail on the unique key |
| `PutObject`, `Truncate`, `Fill`, `PutFails` | `storage.put`: R2 replaces an object at once; a local file is truncated and then filled, and holds `Torn` in between |
| `Presign`, `Send`, `StartFinalize`, `Fetch`, `Remember` | the presigned upload and `finalize_upload`; the snapshot is committed after the document |
| `StartDelete`, `DropRow`, `RemoveObject`, `RemoveFails` | `delete_document`: row and commit, then the file |
| `ApiDies`, `WorkerDies` | the requests of a process are gone, what they wrote stays |

`NextId` is SQLite's rowid: one more than the largest, so the id of a deleted last
row is used again, by a snapshot and by a deletion under way as well.

`DataPlane.tla` EXTENDS it with the backup directory (`zip`), the staging directory
(`staged`), the marker `pending_restore.json` (`marker`) and the life of the API
(`api`).  `CopyDatabase`, `ListFiles`, `CopyFile`, `CopyFails`, `WriteManifest` are
`create_backup`, with requests going on in between; `Unpack`, `TruncateMarker`,
`WriteMarker` are `stage_restore`; `BeginApply`, `RemoveLog`, `ReplaceDatabase`,
`RemoveFiles`, `RestoreFile`, `AllRestored`, `RemoveMarker`, `RemoveStaging` are
`apply_pending_restore`, step by step; `Crash` may come between any two.

`BackupPromise.tla` is what a user is promised of it, without files, markers or
steps: there is one `state`, and `saved` copies of earlier ones.  While the service
is up, requests `Change` the state and a backup may be `Finish`ed; a restore of a
finished one can be asked for (`Ask`) or given up for another.  A stopped service that
is started (`Start`) has no restore pending.  A restore begins by putting `whole`
to FALSE (`Replace`) and ends with exactly the saved state (`Restore`); while it is not
whole the service is not up.  `DataPlane` maps `state` to what the database, the index
and the uploads hold together, `saved` to the zip files, `pending` to the marker, and
`whole` to the absence of a half applied restore (`Promise`, `KeepsBackupPromise`).

| run | instance | shows |
|---|---|---|
| `DataPlane_restore` | 2 contents, 2 requests at a time and 3 in all, 1 token, 1 idempotency key, 1 backup, 3 row ids, 2 deaths of the API | a document has its file, before and after a restore; index and rows agree; a content is stored once; a half restored state is never served; a restore gives exactly its backup; the API comes back |

Two requests overlap in every pair of steps, and the third finds what the two have
left; one backup can be unpacked again, replaced in the marker and applied again
after each of two deaths, one of which can hit the repetition of the other; three
ids are one more than the contents, so that an id is used again.  Deadlock
checking is off: requests and deaths run out, and a torn marker stops the API for
good (see findings).

Fairness is for `ComesBack` only: `WF(Start \/ BeginApply)`, since the container is
restarted when the API has ended (`restart: unless-stopped`), and `WF(Apply)`, since
a start runs to its end unless the process dies.  `ComesBack` excludes a torn
marker, from which the code does not recover.

What the properties leave open is what the code loses.  `RowHasObject` excludes the
keys in `stale`, a deletion that unlinks after its commit; and a torn file under a key
in `rewritten`: an upload stores its file before it looks for the content, so that
uploading a content again writes the file of the existing document in place, and a
death of the API in between leaves it torn until the next such upload.  A file that
nobody rewrites is never torn.  A backup inherits the keys a deletion removed between
its copy of the database and its copy of the file, and those it copied while they were
being rewritten.  `IndexFollowsRows` is for the local backend: with R2 `delete_document`
leaves the index entries.  That the worker is stopped while a restore is applied is
the operator's duty (`docs/database-design.md`) and an assumption of the module.

`DocumentStoreProofs.tla` proves `StoreInv` for `StoreSpec`: types and index
(`StoreCore`), rows with their objects (`StoreRows`), and what every request may
rely on (`RequestsSound`: a request about to insert has stored or checked its
object, or the key is stale or torn by another upload that rewrites it; a deletion
takes the object of no row but its own, or the key is stale).  `DataPlaneProofs.tla`
shows that `StoreInv` survives the steps of backup and restore, for any number of
backups, requests and crashes.  Its invariant adds that a backup has, for every row
it copied, the object or has noticed its removal or rewriting (`ZipsSound`), that a marker names
a complete staging (`MarkerSound`), that the state is torn only while the marker is
there to repair it (`RestoreSound`), and that no request runs while a
restore is applied or waits to be repeated (`Quiet`).  `ServesWholeState`,
`RestoredState`, `MarkerUsable`, `RestoredRowHasObject` and the store's properties
follow, and under the same invariant every step is a step of `BackupPromise` or changes
nothing it speaks of (`BackupRefinement`).  That refinement contains what
`RestoredState` and `MarkerUsable` say, so the run checks it in their place.
`ComesBack` is model-checked.

## 7. The evidence workflow

`EvidenceWorkflow.tla` is the evidence workflows of one paper and what changes the
paper under them.

| model | code |
|---|---|
| `docs`, `verified`, `identity` | the paper's documents in order with the identity each was bound to, a verified abstract, and in the database the DOI and what is known of the arXiv version |
| `status`, `attempts`, `cancelled` | the job |
| `recovered` | history: how often the job was recovered, the budget of `JobLifecycle` |
| `up` | the worker's process runs |
| `exec` | the stage an execution is at and what it holds in memory, the loaded `Paper` included (`paper`, `None` when it is expired) |
| `openRuns` | the `AgentRun`s of acquisitions that are `running`, by attempt |
| `moved`, `drifted`, `cutOff`, `unsaved`, `halfStored`, `cancelledIn` | histories for the properties |
| `ResolveIdentity`, `EndAcquisition`, `FailAcquisition` | identity and `acquire_paper_evidence`: the run is committed before the search, and the `Paper` is refreshed after it or expired by the rollback |
| `Locate`, `Retrieve`, `StageFails`, `Ingest`, `Store`, `StoreHalf`, `Conflict` | policy, fetch and `ingest_open_access_pdf`, with the failures the handler turns into warnings and the one that ends the worker |
| `Analyse`, `Finish`, `Fail` | the analysis and the end of the job; `Retries` is the worker's decision to try again |
| `CommitLocked` | the commit of that end meets a locked database: the row stays `running`, the worker polls on |
| `Claim`, `Crash`, `Start`, `Cancel` | what the queue does, as far as the stages need it: recovery happens in `Start` and nowhere else |
| `Upload`, `Delete`, `Search` | other requests on the same paper; a search may add the DOI, record a conflict of versions or verify the abstract |

The session keeps the `Paper` it loaded (`expire_on_commit=False`, `api/db.py:49`), so
the worker asks for full text, binds its copy and ends with the identity it saw last
(`Seen`), while `Evidence(identity)` is what the database says.  `Current` compares a
document's identity with the paper's: text that was verified under the arXiv version
stops counting when a search adds the DOI or records a version conflict.  `Crash`
includes the commits inside an execution that fail on a locked database, among them the
one that ends a failed acquisition: the worker cannot record the error either and ends.

| run | instance | shows |
|---|---|---|
| `Evidence_workflow` | 1 job that confirms licences, 2 contents of which one cannot be read, a paper with an arXiv version or with a DOI, 2 attempts, 1 upload or deletion, 1 death, 1 locked commit | a success rests on full text that was indexed and that the paper has; a cancelled job stops at the next question; a run is left open by a death in the search only; a copy is not stored over the user's text; every workflow ends or waits for a start; its job keeps to `JobLifecycle` |

One unreadable content is what makes the newest document weaker than an older one.  One
upload or deletion falls between any two stages; the earlier attempt provides the
documents it meets.  An identity changes at most twice (a DOI, then a conflict, or both
at once), and every such change is explored.  One death and one locked commit with two
attempts reach the last attempt after a recovery.

Fairness is `WF(Claim(j))`, `WF(Execute(j))` and `WF(Start)`: the worker polls, runs
what it has claimed and is restarted when its process has ended.  It serves `Ends`.
`Start` is the only recovery, so a row that a locked commit left `running` under a live
worker waits, perhaps for ever (`unsaved`); that is the exception in `Ends`.

`SuccessRestsOnText` and `UserTextFirst` except the documents that changed since the
job last looked (`moved`), and a paper whose identity changed since the acquisition
refreshed it (`drifted`): the workflow asks once before the fetch and once for the
analysis, and with its own copy of the paper.  `halfStored` excepts the ingestion whose
failure is committed with the document.  `RunsClosed` says which runs stay open: those
of the attempts that a death cut off in their search (`cutOff`); no claim, `/run`,
retry or later acquisition closes them.  All of these exceptions are findings.

`FollowsLifecycle` is the link to section 3: an execution is open while a worker is at
some stage, `attempts` are the starts, and the budget is `MaxAttempts` plus the
recoveries.  In whatever stage a workflow fails, is cancelled or loses its worker, and
whether or not its job is then recovered, the job goes through the lifecycle that
`JobQueue` implements.

`EvidenceProofs.tla` proves these for any number of jobs, contents, searches and deaths.
The inductive invariant `IInv` says that one job is executed at a time (`Single`), that
cut-off attempts are past ones (`CutOffPast`), that a document without its index entries
implies `halfStored` (`DocumentsSound`), and what is known at each stage (`StageSound`):
unless the identity drifted, the copy of the paper is expired or as the database has it;
from the fetch on there is no full text unless documents moved or the identity drifted;
and the analysis a job is about to name was made of text with an index, and is of full
text if there still is any and nothing moved or drifted.  `StoredOnce` (no content is
stored twice) bounds the documents in `EvTypeOK` by the contents, which must be finitely
many.  `WorkflowRefinement` proves `FollowsLifecycle` action by action; it needs
`Budgeted`: attempts stay within the budget, a waiting job has one left, and a job
that is found running has used one, so that recovering it gives back no more than it
took.  Its base is `MaxAttempts >= 1`, which `api/schemas/settings.py:23` enforces.
The liveness property `Ends` is only model-checked.

## 8. Five services

These share no variable and no row.  `Services.tla` is their sum: one of them runs
and the others rest, so the states of a run are the sum of theirs and one run
explores them all.

- `EvaluationStudy`: a blinded study.  Requests read rows and later write the
  columns that differ from what they read (`Written`); an assignment loads the study,
  then the rows of its tasks, and takes the lock with its first insert.  `Aggregate`
  computes the result from the ratings it has seen, which need not be all.
  `ratedAsReal` records which ratings were given as real ones.  `ValidatedByExperts`
  and `ValidationKept`: only ratings that were real when they were given, of enough
  experts, validate a study, and no late aggregation takes that back.  An assignment is
  therefore never reclassified, in neither direction.
- `SchemaMigrations`: the nine revisions as sequences of statements, one per table and
  one per column, each durable when it returns; a table that `create_all` makes has the
  columns of every revision.  `create_all` of API and worker; bootstrap, audit and
  stamp of a remote database; a stamp uses the receipt of an audit however many
  migrations were tried since.  `SchemaSound`: foreign keys refer to tables that are
  there, the recorded revision claims no table or column that is missing, and the
  migrations make the tables of the models.  Two histories except what the code does not
  survive: a migration that began on tables other than its revision's (`misled`), and a
  downgrade cut off inside a revision (`cutOff`).
- `PaperCatalog`: what the adapters return, deduplication, matching, upsert by two
  processes whose papers are matched without a lock up to the first one that changes.  A
  challenge looks up one paper after the other and passes those it does not change
  (`PassUnchanged`).  A `paper_sources` row is known by its source and the source's id
  (`Origins`).  `MarkedSourceWroteAbstract`: the row marked as the abstract's provider is
  the one that supplied it, not another source or another version of it.  The two-writer
  case the code loses is in the findings (`raced`).
- `SourceCooldown`: searches, the status page and the source test on the event
  loop.  `CooldownLasts`: a cooldown that has not passed is lifted only by a request
  that was let through before it was recorded.
- `PaperAnalysis`: evidence, extraction, the provider's answer, validation, merge
  and score, with the write lock held during the provider's call.
  `AnalysisWithinEvidence`: no field, citation, state or score goes beyond the
  evidence the analysis was made from, whatever the provider answers.

| run | instance |
|---|---|
| `Services_all` | study: 1 task, 2 experts, 2 needed, 2 requests; schema: API and worker, 2 migrations or starts; catalog: a work with both identifiers, fixtures and arXiv with 2 versions, 2 writers, 2 papers, 3 searches; cooldown: 2 sources, 2 requests, 2 cooldowns of each; analysis: API and worker, 1 change of the evidence |

Two overlapping requests are enough for a study because every request is reads
followed by one write: a third can only repeat what the second does to the first.
With two experts needed, one is not enough and one of two may be simulated.  Three
searches are a paper that is created, an abstract that is replaced and one that is
replaced again or at the same time, by a longer version or by a real source.  Two
migrations are one that is cut off and its repetition, or an upgrade with a
downgrade.  arXiv answers with or without the DOI, so its records match by either
identifier, and the fixture without any, so it matches by title.  Two cooldowns of
a source are an old one and the one recorded over it.  Deadlock checking is off:
each service runs out of requests, migrations or changes.  No fairness is assumed.

`EvaluationProofs.tla` proves the study's two properties for any tasks and experts
and any number of requests, by `StudyInv`: what a request has seen is rated, an
assignment keeps the kind its rating was given as (`KindIsKept`), and a validation it
holds or has stored is covered by what was seen, which later ratings can only add to.  `ServiceProofs.tla` proves the rest:

- `CooldownIsKept`, from `CooldownInv`: what a request remembers of a source never
  exceeds what was recorded.
- `AnalysisIsWithinEvidence`, from the shape of a stored row at each step that writes
  one, with its types.
- `SchemaIsSound`, for any servers and any number of migrations.  `SchemaInv` says
  which statements of a migration under way have been done (`ProgressSound`), what
  the recorded revision leaves standing while one is undone (`RecordedKept`), what is
  given up once a migration began on the wrong tables (`misled`, `NotMisled`), that a
  server in `create_all` makes a table after those it refers to (`ServersSound`), and
  that what a receipt names is still there when it is stamped: as long as it waits, no
  upgrade, bootstrap or downgrade has a statement it can run (`ReceiptSound`).  A stamp on
  an audit that has gone stale is therefore excluded by proof, not by the model.  That the nine revisions order their statements by the foreign
  keys is proved first, statement by statement.
- `MarkedSourceWrote`: a marked source wrote the abstract, for any records in any
  order and any writers.  Deduplicating and upserting a list of records are recursive
  functions over the list.  Two lemmas, by the well-foundedness of `<` on the
  naturals, do the induction once for all of them: a function that is computed by
  steps exists (`Iterated`), and what every step keeps holds of every value
  (`Iterates`); what is left to prove of each is its one step.
- `ServicesImplementEach`: a behaviour of the sum is a behaviour of each service, so
  that what is proved of one holds in the run, and `ServicesTypeCorrect`, for any
  natural `MaxEvidence`.

## 9. Findings

`PROJECT.json` has each with its line and the sentence of the repository it
contradicts.  Four are shown by a run whose property TLC finds violated
(`JobQueue_cancelled`, `JobQueue_runrace`, `GapReview_race`,
`ArxivLease_sharedowner`).  The others were met while a definition was translated;
the model has the behaviour where a property had to be weakened for it, and a
comment at the property names the exception.

- Queue: a second worker resets rows that the first executes; a locked database
  inside a stage ends the worker.
- Gaps: a challenge reopens a decided gap.
- Sources: the worker's arXiv calls take no lease; a 429 that a second query
  answers is forgotten, three callers ask no cooldown, and the status page resets
  the failure count.
- Catalog: different DOIs merged by title; two identifiers of different papers
  violate a unique key; two processes can mark the wrong source.
- Documents: a deletion can take the file of a new upload; uploading a content again
  rewrites the file of its document in place, and a death in between leaves it torn; R2
  deletions leave index entries; a failed ingestion is committed without chunks; the
  newest document decides even if an older one is better; a copy can follow the user's
  own upload.
- Evidence workflow: a run that a death cut off stays `running` for ever; the worker
  asks, binds and ends with an old copy of the paper.
- Backup: a torn marker keeps the API from starting; `scripts/restore.py` leaves
  the write-ahead log of the replaced database.
- Evaluation: an older aggregation can overwrite the metrics; late requests turn
  statuses back.
- Schema: an interrupted revision cannot be repeated; `create_all` leaves a
  database no upgrade accepts; two servers can collide in it; the remote bootstrap
  never verifies.
- Analysis: the write lock is held during the provider's call, longer than the
  busy timeout (30 s in the code, 5 s in the design document); a field recognised
  by an abbreviation has no citation.
- Backfill: each one starts with the same papers.

## 10. Limits and what is not modelled

Only model-checked: the liveness properties `EventuallyTerminal`, `ComesBack` and
`Ends`, since liveness under fairness is beyond the provers.  Every safety property a
passing run checks is also a theorem.  The theorems rest on the named assumptions of
the modules; the queue's on `SerialEnvironment`, except types and cancellation;
`EvidenceTypes` on finitely many contents and `ServicesTypeCorrect` on
`MaxEvidence \in Nat`, which appear as hypotheses.  Some properties are proved of
parts no run lists, such as `RestoreIsExact` and `MarkerIsUsable`.

The modules do not call each other: `EvidenceWorkflow` repeats the queue's claim and
recovery instead of composing with it, held to the same `JobLifecycle`, and treats documents as `DocumentStore` does
when nothing fails between file and row.  Composition of all three is beyond what
TLC explores in minutes.

Four hazards have no property.  A second worker that starts later, and the
public-demo limit that is counted before the insert, are races the code has no
defence against, so there is nothing that holds.  The transaction a gap challenge
keeps open while it searches, and the lock an analysis keeps during its provider's
call, are questions of seconds against the busy timeout; the models treat waiting
for a lock as delay, with its failure as a possible outcome.

Not modelled:

- the translation cache: keyed by the text it translates, so it cannot be stale;
  two first translations of one text race for a unique key and one request fails;
- the web search workspace and the backend gate: state of one browser page, left
  for later (section 2);
- authentication, library, projects, settings, profiles: handlers of one
  transaction each, with no order to get wrong;
- paper sets, comparisons, clustering, authors, datasets, recommendations:
  computed from committed rows in one transaction; that a gap built on them goes
  stale is part of `GapReview`;
- MCP servers and export: stateless or read-only;
- delivery and deployment scripts, except the schema bootstrap: they check and
  report, their effects are those of the operations modelled;
- the other routes that use idempotency snapshots: they replay and store as
  `finalize_upload` does;
- of the modelled parts: PDF parsing, wording, ranking, HTTP of the source
  clients, the failure count of a cooldown, explanations and audit rows.
