------------------------------ MODULE JobQueue ------------------------------
(***************************************************************************)
(* The durable job queue of ResearchNavigator: rows of the `jobs` table,    *)
(* the polling worker, the bounded executor used by triggers, the `/run`    *)
(* request handlers of the API and the cancel handlers.                     *)
(*                                                                          *)
(* A database transaction is one step.  What makes the queue hard is what    *)
(* happens between transactions: an executor keeps an ORM copy of the row    *)
(* (expire_on_commit is off), and its next commit writes only the columns    *)
(* that differ from that copy, whatever the row holds by then.               *)
(*                                                                          *)
(* Abstracted: payloads, results and timestamps (a timestamp is "set" or     *)
(* "not set"); the stages of one execution (see EvidenceWorkflow).           *)
(***************************************************************************)
EXTENDS Naturals, FiniteSets

CONSTANTS
  Jobs,         \* job ids; created in increasing order
  Workflow,     \* the jobs of type evidence_workflow_v1
  Backfill,     \* the jobs of type abstract_provenance_backfill_v1
  Workers,      \* polling worker processes
  LateWorkers,  \* the workers that start after the queue is in use
  Triggers,     \* callers of execute_job, which never run recovery
  Runners,      \* API request handlers of the two /run endpoints
  Clients,      \* API request handlers of the cancel endpoints
  MaxAttempts,  \* jobs.max_attempts
  MaxCrashes,   \* bound: process crashes in a behaviour
  MaxLocked     \* bound: terminal commits that fail with "database is locked"

WorkflowChecks == 3   \* calls of _cancelled in one execution of a workflow

Cooperative == Workflow \cup Backfill
Executors == Workers \cup Triggers \cup Runners

ASSUME QueueAssumption ==
  /\ Jobs \subseteq Nat \ {0}
  /\ Workflow \subseteq Jobs /\ Backfill \subseteq Jobs
  /\ Workflow \cap Backfill = {}
  /\ LateWorkers \subseteq Workers
  /\ Workers \cap Triggers = {} /\ Workers \cap Runners = {}
  /\ Triggers \cap Runners = {}
  /\ MaxAttempts \in Nat \ {0}
  /\ MaxCrashes \in Nat /\ MaxLocked \in Nat

NoJob == 0
NoOne == "no one"      \* locked_by IS NULL
ASSUME NoOneAssumption == NoOne \notin Executors

Active == {"pending", "running"}
Finished == {"succeeded", "partial", "failed"}
Terminal == Finished \cup {"cancelled"}

Row == [status : {"absent"} \cup Active \cup Terminal,
        attempts : Nat,
        lockedBy : Executors \cup {NoOne},
        cancelled : BOOLEAN,     \* cancelled_at is set
        finished : BOOLEAN,      \* finished_at is set
        error : BOOLEAN]         \* error is set

AbsentRow == [status |-> "absent", attempts |-> 0, lockedBy |-> NoOne,
              cancelled |-> FALSE, finished |-> FALSE, error |-> FALSE]

EventType == {"none", "created", "started", "recovered", "retry_scheduled"}
               \cup Terminal

VARIABLES
  job,        \* the jobs table
  started,    \* number of "started" rows of job_events, per job
  recovered,  \* number of "recovered" rows of job_events, per job
  last,       \* type of the newest lifecycle row of job_events, per job
  pc,         \* where each executor is
  task,       \* the job each executor holds
  snap,       \* the ORM copy of that job's row
  checks,     \* cancellation checks the execution has passed
  seen,       \* the rows a recovering worker has selected
  asked,      \* the job whose cancellation a client request has validated
  crashes, locked   \* faults so far

rows == <<job, started, recovered, last>>
execs == <<pc, task, snap, checks>>
vars == <<rows, execs, seen, asked, crashes, locked>>

NoTable == [j \in Jobs |-> AbsentRow]

Init ==
  /\ job = NoTable
  /\ started = [j \in Jobs |-> 0]
  /\ recovered = [j \in Jobs |-> 0]
  /\ last = [j \in Jobs |-> "none"]
  /\ pc = [e \in Executors |-> IF e \in LateWorkers THEN "down" ELSE "idle"]
  /\ task = [e \in Executors |-> NoJob]
  /\ snap = [e \in Executors |-> AbsentRow]
  /\ checks = [e \in Executors |-> 0]
  /\ seen = [w \in Workers |-> NoTable]
  /\ asked = [c \in Clients |-> NoJob]
  /\ crashes = 0
  /\ locked = 0

-----------------------------------------------------------------------------
(* Helpers.                                                                 *)

\* A flush of an ORM row: the columns whose value differs from the loaded
\* copy are written, every other column keeps what the database holds.
Flush(row, copy, new) ==
  [f \in DOMAIN row |-> IF new[f] # copy[f] THEN new[f] ELSE row[f]]

Executing(e) == pc[e] \in {"exec", "abort"}

Hold(e, where, j, copy) ==
  /\ pc' = [pc EXCEPT ![e] = where]
  /\ task' = [task EXCEPT ![e] = j]
  /\ snap' = [snap EXCEPT ![e] = copy]
  /\ checks' = [checks EXCEPT ![e] = 0]

\* Mutant: the executor forgets to drop the job it held.
LetGoKeepsJob(e, where) == Hold(e, where, task[e], AbsentRow)

LetGo(e, where) == Hold(e, where, NoJob, AbsentRow)

Record(j, event) == last' = [last EXCEPT ![j] = event]

CountStart(j) == started' = [started EXCEPT ![j] = @ + 1]

-----------------------------------------------------------------------------
(* POST /jobs, POST /papers/{id}/evidence-workflows and                      *)
(* POST /admin/backfills/abstract-provenance: insert the row and its event.  *)
Create(j) ==
  /\ job[j].status = "absent"
  /\ \A i \in Jobs : i < j => job[i].status # "absent"
  /\ job' = [job EXCEPT ![j].status = "pending"]
  /\ Record(j, "created")
  /\ UNCHANGED <<started, recovered, execs, seen, asked, crashes, locked>>

(* The claim is one conditional UPDATE ... RETURNING, and the row is loaded   *)
(* afterwards in the same transaction.                                       *)
ClaimIf(e, j, claimable) ==
  /\ pc[e] = "idle"
  /\ job[j].status \in claimable
  /\ LET new == [job[j] EXCEPT !.status = "running", !.lockedBy = e,
                               !.attempts = @ + 1]
     IN /\ job' = [job EXCEPT ![j] = new]
        /\ Hold(e, "exec", j, new)
  /\ CountStart(j)
  /\ Record(j, "started")
  /\ UNCHANGED <<recovered, seen, asked, crashes, locked>>

\* Mutants: the UPDATE does not repeat the condition of its subquery; the
\* condition also admits failed rows.
ClaimUnguarded(e, j) == ClaimIf(e, j, Active)
ClaimFailed(e, j) == ClaimIf(e, j, {"pending", "failed"})

Claim(e, j) == ClaimIf(e, j, {"pending"})

\* _claim_job: the oldest pending row.
ClaimOldest(w) ==
  \E j \in Jobs :
    /\ \A i \in Jobs : i < j => job[i].status # "pending"
    /\ Claim(w, j)

\* _claim_job_by_id: the row the trigger names.
ClaimById(t, j) == Claim(t, j)

(* The /run endpoints validate the row in one transaction ...               *)
RunRead(r, j) ==
  /\ pc[r] = "idle"
  /\ j \in Cooperative
  /\ job[j].status = "pending"
  /\ Hold(r, "read", j, job[j])
  /\ UNCHANGED <<rows, seen, asked, crashes, locked>>

(* ... and flush "running" in the next one, with no condition on the row.    *)
RunStart(r) ==
  /\ pc[r] = "read"
  /\ LET j == task[r]
         new == [snap[r] EXCEPT !.status = "running", !.attempts = @ + 1]
     IN /\ job' = [job EXCEPT ![j] = Flush(job[j], snap[r], new)]
        /\ Hold(r, "exec", j, new)
        /\ CountStart(j)
        /\ Record(j, "started")
  /\ UNCHANGED <<recovered, seen, asked, crashes, locked>>

-----------------------------------------------------------------------------
(* Execution.                                                               *)

\* Mutant: a check looks at the status alone.
CheckpointOfStatus(e) ==
  /\ pc[e] = "exec"
  /\ task[e] \in Cooperative
  /\ checks[e] < WorkflowChecks
  /\ snap' = [snap EXCEPT ![e] = job[task[e]]]
  /\ pc' = [pc EXCEPT ![e] =
              IF job[task[e]].status = "cancelled" THEN "abort" ELSE "exec"]
  /\ checks' = [checks EXCEPT ![e] = IF task[e] \in Workflow THEN @ + 1 ELSE @]
  /\ UNCHANGED <<rows, task, seen, asked, crashes, locked>>

\* _cancelled(session, job) of the workflow and the refresh before each paper
\* of a backfill: reload the row and stop if it is cancelled.
Checkpoint(e) ==
  /\ pc[e] = "exec"
  /\ task[e] \in Cooperative
  /\ checks[e] < WorkflowChecks
  /\ LET row == job[task[e]]
     IN /\ snap' = [snap EXCEPT ![e] = row]
        /\ pc' = [pc EXCEPT ![e] =
                    IF row.status = "cancelled" \/ row.cancelled
                    THEN "abort" ELSE "exec"]
        /\ checks' = [checks EXCEPT ![e] =
                        IF task[e] \in Workflow THEN @ + 1 ELSE @]
  /\ UNCHANGED <<rows, task, seen, asked, crashes, locked>>

\* A failed abstract acquisition (after the first check of a workflow, or in a
\* backfill) and a failed research-card refresh (after the last check) roll the
\* session back, which reloads the row without looking at its status.
Reload(e) ==
  /\ pc[e] = "exec"
  /\ \/ task[e] \in Workflow /\ checks[e] \in {1, WorkflowChecks}
     \/ task[e] \in Backfill
  /\ snap' = [snap EXCEPT ![e] = job[task[e]]]
  /\ UNCHANGED <<rows, pc, task, checks, seen, asked, crashes, locked>>

\* The terminal statuses an execution without an exception can return.  The
\* workflow passes its checks before it can report a result; a backfill with
\* no paper left passes none.
Outcomes(e) ==
  IF pc[e] = "abort" THEN {"cancelled"}
  ELSE IF task[e] \in Workflow
       THEN IF checks[e] = WorkflowChecks THEN {"succeeded", "partial"} ELSE {}
       ELSE {"succeeded"}

Commit(e, new, event) ==
  LET j == task[e]
  IN /\ job' = [job EXCEPT ![j] = Flush(job[j], snap[e], new)]
     /\ Record(j, event)
     /\ LetGo(e, "idle")
     /\ UNCHANGED <<started, recovered, seen, asked, crashes, locked>>

\* Mutant: success leaves the error of an earlier attempt in the row.
CompleteKeepsError(e, outcome) ==
  /\ e \in Workers \cup Triggers
  /\ Executing(e) /\ outcome \in Outcomes(e)
  /\ Commit(e, [snap[e] EXCEPT !.status = outcome, !.finished = TRUE,
                               !.lockedBy = NoOne],
            outcome)

\* _complete_claimed_job, no exception.
Complete(e, outcome) ==
  /\ e \in Workers \cup Triggers
  /\ Executing(e) /\ outcome \in Outcomes(e)
  /\ Commit(e, [snap[e] EXCEPT !.status = outcome, !.finished = TRUE,
                               !.error = FALSE, !.lockedBy = NoOne],
            outcome)

\* Mutant: the last attempt is retried as well.
RetryOffByOne(e) ==
  /\ e \in Workers \cup Triggers
  /\ pc[e] = "exec"
  /\ snap[e].attempts <= MaxAttempts
  /\ Commit(e, [snap[e] EXCEPT !.status = "pending", !.error = TRUE,
                               !.lockedBy = NoOne],
            "retry_scheduled")

\* _complete_claimed_job, exception: retry while attempts are left.
Retry(e) ==
  /\ e \in Workers \cup Triggers
  /\ pc[e] = "exec"
  /\ snap[e].attempts < MaxAttempts
  /\ Commit(e, [snap[e] EXCEPT !.status = "pending", !.error = TRUE,
                               !.lockedBy = NoOne],
            "retry_scheduled")

Fail(e) ==
  /\ e \in Workers \cup Triggers
  /\ pc[e] = "exec"
  /\ snap[e].attempts >= MaxAttempts
  /\ Commit(e, [snap[e] EXCEPT !.status = "failed", !.error = TRUE,
                               !.finished = TRUE, !.lockedBy = NoOne],
            "failed")

\* The /run endpoints: finalize_execution for a workflow; the backfill route
\* leaves error and locked_by alone.
RunComplete(r, outcome) ==
  /\ r \in Runners
  /\ Executing(r) /\ outcome \in Outcomes(r)
  /\ LET done == [snap[r] EXCEPT !.status = outcome, !.finished = TRUE]
     IN Commit(r, IF task[r] \in Workflow
                  THEN [done EXCEPT !.error = FALSE, !.lockedBy = NoOne]
                  ELSE done,
               outcome)

\* The /run endpoints, exception: failed at once, never retried.
RunFail(r) ==
  /\ r \in Runners
  /\ pc[r] = "exec"
  /\ Commit(r, [snap[r] EXCEPT !.status = "failed", !.error = TRUE,
                               !.finished = TRUE],
            "failed")

-----------------------------------------------------------------------------
(* The cancel endpoints: validate, then flush, in two transactions.          *)

CancelRead(c, j) ==
  /\ asked[c] = NoJob
  /\ job[j].status \in Active
  /\ asked' = [asked EXCEPT ![c] = j]
  /\ UNCHANGED <<rows, execs, seen, crashes, locked>>

\* Mutant: the cancellation is not recorded as an event.
CancelWriteSilent(c, stamp) ==
  /\ asked[c] # NoJob
  /\ stamp => asked[c] \in Cooperative
  /\ job' = [job EXCEPT ![asked[c]].status = "cancelled",
                        ![asked[c]].cancelled = TRUE,
                        ![asked[c]].finished = @ \/ stamp]
  /\ asked' = [asked EXCEPT ![c] = NoJob]
  /\ UNCHANGED <<last, started, recovered, execs, seen, crashes, locked>>

\* status and cancelled_at always differ from the copy the request validated,
\* so they are always written.  The generic endpoint leaves finished_at alone;
\* the endpoints of the two cooperative types set it.
CancelWrite(c, stamp) ==
  /\ asked[c] # NoJob
  /\ stamp => asked[c] \in Cooperative
  /\ job' = [job EXCEPT ![asked[c]].status = "cancelled",
                        ![asked[c]].cancelled = TRUE,
                        ![asked[c]].finished = @ \/ stamp]
  /\ Record(asked[c], "cancelled")
  /\ asked' = [asked EXCEPT ![c] = NoJob]
  /\ UNCHANGED <<started, recovered, execs, seen, crashes, locked>>

-----------------------------------------------------------------------------
(* Faults and recovery.                                                     *)

\* The process dies, or an exception other than OperationalError leaves the
\* worker's loop: what was not committed is lost, the row is not.
Crash(w) ==
  /\ pc[w] # "down"
  /\ crashes < MaxCrashes
  /\ crashes' = crashes + 1
  /\ LetGo(w, "down")
  /\ seen' = [seen EXCEPT ![w] = NoTable]
  /\ UNCHANGED <<rows, asked, locked>>

\* Mutant: a starting worker polls without recovering anything.
StartWithoutRecovery(w) ==
  /\ pc[w] = "down"
  /\ pc' = [pc EXCEPT ![w] = "idle"]
  /\ UNCHANGED <<rows, task, snap, checks, seen, asked, crashes, locked>>

\* recover_interrupted_jobs, run once by a starting worker: select every
\* running row, whoever runs it ...
Start(w) ==
  /\ pc[w] = "down"
  /\ pc' = [pc EXCEPT ![w] = "recover"]
  /\ seen' = [seen EXCEPT ![w] = job]
  /\ UNCHANGED <<rows, task, snap, checks, asked, crashes, locked>>

\* Mutant: the recovery gives the interrupted attempt back.
RecoverRefunds(w) ==
  LET found == {j \in Jobs : seen[w][j].status = "running"}
  IN /\ pc[w] = "recover"
     /\ job' = [j \in Jobs |->
                  IF j \in found
                  THEN [job[j] EXCEPT !.status = "pending", !.lockedBy = NoOne,
                                      !.attempts = @ - 1]
                  ELSE job[j]]
     /\ recovered' = [j \in Jobs |->
                        recovered[j] + IF j \in found THEN 1 ELSE 0]
     /\ last' = [j \in Jobs |-> IF j \in found THEN "recovered" ELSE last[j]]
     /\ pc' = [pc EXCEPT ![w] = "idle"]
     /\ seen' = [seen EXCEPT ![w] = NoTable]
     /\ UNCHANGED <<started, task, snap, checks, asked, crashes, locked>>

\* ... and flush them as pending and unlocked.
Recover(w) ==
  LET found == {j \in Jobs : seen[w][j].status = "running"}
  IN /\ pc[w] = "recover"
     /\ job' = [j \in Jobs |->
                  IF j \in found
                  THEN Flush(job[j], seen[w][j],
                             [seen[w][j] EXCEPT !.status = "pending",
                                                !.lockedBy = NoOne])
                  ELSE job[j]]
     /\ recovered' = [j \in Jobs |->
                        recovered[j] + IF j \in found THEN 1 ELSE 0]
     /\ last' = [j \in Jobs |-> IF j \in found THEN "recovered" ELSE last[j]]
     /\ pc' = [pc EXCEPT ![w] = "idle"]
     /\ seen' = [seen EXCEPT ![w] = NoTable]
     /\ UNCHANGED <<started, task, snap, checks, asked, crashes, locked>>

\* The terminal commit meets a locked database.  main() catches the
\* OperationalError and polls on; a trigger or a request handler just ends.
\* In every case the row stays as the last commit left it.
CommitLocked(e) ==
  /\ Executing(e)
  /\ locked < MaxLocked
  /\ locked' = locked + 1
  /\ LetGo(e, "idle")
  /\ UNCHANGED <<rows, seen, asked, crashes>>

-----------------------------------------------------------------------------
Execute(e) ==
  \/ Checkpoint(e)
  \/ Reload(e)
  \/ \E outcome \in Terminal : Complete(e, outcome) \/ RunComplete(e, outcome)
  \/ Retry(e)
  \/ Fail(e)
  \/ RunFail(e)
  \/ CommitLocked(e)

Next ==
  \/ \E j \in Jobs : Create(j)
  \/ \E w \in Workers : ClaimOldest(w) \/ Start(w) \/ Recover(w) \/ Crash(w)
  \/ \E t \in Triggers, j \in Jobs : ClaimById(t, j)
  \/ \E r \in Runners : RunStart(r) \/ \E j \in Jobs : RunRead(r, j)
  \/ \E e \in Executors : Execute(e)
  \/ \E c \in Clients : \/ \E j \in Jobs : CancelRead(c, j)
                        \/ \E stamp \in BOOLEAN : CancelWrite(c, stamp)

Spec == Init /\ [][Next]_vars

\* A live worker keeps polling, an execution ends, a dead worker is started
\* again (restart: unless-stopped).  Nothing is assumed of requests.
Ends(e) ==
  \/ \E outcome \in Terminal : Complete(e, outcome) \/ RunComplete(e, outcome)
  \/ Retry(e)
  \/ Fail(e)

Fairness ==
  \A w \in Workers :
    /\ WF_vars(ClaimOldest(w))
    /\ WF_vars(Start(w)) /\ WF_vars(Recover(w))
    /\ WF_vars(task[w] \in Workflow /\ Checkpoint(w))
    /\ WF_vars(Ends(w))

FairSpec == Spec /\ Fairness

-----------------------------------------------------------------------------
(* Properties.                                                              *)

\* The environment in which executions of one job are meant to be serial: no
\* /run request competes with the workers, every worker was up before the
\* queue was used, and a process that restarts is the only executor.
SerialEnvironment ==
  /\ Runners = {} /\ LateWorkers = {}
  /\ MaxCrashes = 0 \/ (Triggers = {} /\ \E w \in Workers : Workers = {w})

\* Types of all variables; the ids an executor or a request holds are jobs.
TypeOK ==
  /\ job \in [Jobs -> Row]
  /\ started \in [Jobs -> Nat] /\ recovered \in [Jobs -> Nat]
  /\ last \in [Jobs -> EventType]
  /\ pc \in [Executors -> {"down", "recover", "idle", "read", "exec", "abort"}]
  /\ task \in [Executors -> Jobs \cup {NoJob}]
  /\ \A e \in Executors : task[e] = NoJob <=> pc[e] \in {"down", "recover", "idle"}
  /\ snap \in [Executors -> Row]
  /\ checks \in [Executors -> 0..WorkflowChecks]
  /\ seen \in [Workers -> [Jobs -> Row]]
  /\ asked \in [Clients -> Jobs \cup {NoJob}]
  /\ crashes \in 0..MaxCrashes /\ locked \in 0..MaxLocked

\* Two executors never run the same job at the same time: the claim of
\* _claim_job / _claim_job_by_id is exclusive until the terminal commit, also
\* when cancel requests flip the row under the executor.
ExclusiveExecution ==
  \A e, f \in Executors :
    Executing(e) /\ Executing(f) /\ task[e] = task[f] => e = f

\* While an executor runs a job, the row names it in locked_by, and the row is
\* running or was cancelled meanwhile; it is never back in the queue.
OwnerIsRecorded ==
  \A e \in Executors : Executing(e) =>
    /\ job[task[e]].lockedBy = e
    /\ job[task[e]].status \in {"running", "cancelled"}

\* "Bounded retry": a job is started at most max_attempts times, plus once for
\* each recovery of an interrupted execution.
StartsBounded == \A j \in Jobs : started[j] <= MaxAttempts + recovered[j]

\* attempt_count is the number of executions the event log shows: no start is
\* lost and none is counted twice.
AttemptsAreStarts == \A j \in Jobs : job[j].attempts = started[j]

\* The columns a client reads together agree although each flush writes only
\* some of them: a succeeded or partial job shows no error of an earlier
\* attempt, a failed one shows its error, both are stamped finished, and a row
\* that is queued or running is stamped finished only by a cancellation.
RowConsistent ==
  \A j \in Jobs :
    /\ job[j].status \in {"succeeded", "partial"} => ~job[j].error /\ job[j].finished
    /\ job[j].status = "failed" => job[j].error /\ job[j].finished
    /\ job[j].status \in Active /\ job[j].finished => job[j].cancelled
    /\ job[j].status = "cancelled" => job[j].cancelled

\* The newest lifecycle event of a job explains its status, so the audit trail
\* never ends in an event the row contradicts.
AuditExplainsStatus ==
  \A j \in Jobs :
    CASE job[j].status = "absent"  -> last[j] = "none"
      [] job[j].status = "pending" -> last[j] \in {"created", "retry_scheduled", "recovered"}
      [] job[j].status = "running" -> last[j] = "started"
      [] OTHER -> last[j] = job[j].status

\* A job that succeeded, ended partially or failed is never executed again: the
\* only thing that can still happen to it is a cancel request that was
\* validated before the job finished.
FinishedStays ==
  [][\A j \in Jobs : job[j].status \in Finished =>
       job'[j].status \in {job[j].status, "cancelled"}]_vars

\* A workflow whose cancellation is on record and that nobody is executing
\* never reports a result later, even if a retry or a recovery revives it.
CancelledWorkflowStaysCancelled ==
  \A j \in Workflow :
    []( (/\ job[j].cancelled /\ job[j].status \in Active \cup {"cancelled"}
         /\ \A e \in Executors : task[e] # j)
        => [](job[j].status \notin {"succeeded", "partial"}) )

\* Every accepted job reaches a terminal status.
EventuallyTerminal ==
  \A j \in Jobs : job[j].status = "pending" ~> job[j].status \in Terminal

\* A cancelled job keeps that status.
CancelledIsTerminal ==
  [][\A j \in Jobs : job[j].status = "cancelled" => job'[j].status = "cancelled"]_vars

\* No job is started more often than max_attempts.
AttemptsBounded == \A j \in Jobs : started[j] <= MaxAttempts

\* The lifecycle a job promises (module JobLifecycle).
Lifecycle == INSTANCE JobLifecycle WITH
  status <- [j \in Jobs |-> job[j].status],
  open <- [j \in Jobs |-> \E e \in Executors : Executing(e) /\ task[e] = j],
  starts <- started,
  budget <- [j \in Jobs |-> MaxAttempts + recovered[j]]

\* The queue implements the lifecycle: executions of one job are serial, each
\* start uses up an attempt, and only a start that was interrupted is given back.
ImplementsLifecycle == Lifecycle!Spec
=============================================================================
