--------------------------- MODULE JobQueueProofs ---------------------------
(***************************************************************************)
(* Proofs about the job queue, for any number of jobs, workers, triggers    *)
(* and cancel requests.  Type correctness, and that a cancelled workflow      *)
(* stays cancelled, hold in every environment; the other invariants hold in *)
(* a SerialEnvironment and follow from IInv.                                *)
(***************************************************************************)
EXTENDS JobQueue, TLAPS

USE QueueAssumption, NoOneAssumption DEF NoJob

\* What a flush leaves in each column, and that the result is a row.
LEMMA FlushFields ==
  ASSUME NEW row \in Row, NEW copy \in Row, NEW new \in Row
  PROVE  LET r == Flush(row, copy, new)
         IN /\ r \in Row
            /\ r.status = IF new.status # copy.status THEN new.status ELSE row.status
            /\ r.attempts = IF new.attempts # copy.attempts THEN new.attempts ELSE row.attempts
            /\ r.lockedBy = IF new.lockedBy # copy.lockedBy THEN new.lockedBy ELSE row.lockedBy
            /\ r.cancelled = IF new.cancelled # copy.cancelled THEN new.cancelled ELSE row.cancelled
            /\ r.finished = IF new.finished # copy.finished THEN new.finished ELSE row.finished
            /\ r.error = IF new.error # copy.error THEN new.error ELSE row.error
<1>1. DOMAIN row = {"status", "attempts", "lockedBy", "cancelled", "finished", "error"}
  BY DEF Row
<1> QED BY <1>1 DEF Flush, Row

\* The rows of a claim and of a /run start.
LEMMA StartedIsRow ==
  ASSUME NEW row \in Row, NEW e \in Executors
  PROVE  /\ [row EXCEPT !.status = "running", !.lockedBy = e, !.attempts = @ + 1] \in Row
         /\ [row EXCEPT !.status = "running", !.attempts = @ + 1] \in Row
<1> DEFINE n == row.attempts + 1
<1>1. n \in Nat
  BY DEF Row
<1> HIDE DEF n
<1>2. /\ [row EXCEPT !.status = "running", !.lockedBy = e, !.attempts = n] \in Row
      /\ [row EXCEPT !.status = "running", !.attempts = n] \in Row
  BY <1>1 DEF Row, Active
<1> QED BY <1>2 DEF n

LEMMA AbsentIsRow == AbsentRow \in Row
BY DEF AbsentRow, Row

-----------------------------------------------------------------------------
(* Type correctness.                                                        *)

\* The terminal commit of an execution keeps the types.
LEMMA CommitType ==
  ASSUME TypeOK, NEW e \in Executors, Executing(e),
         NEW new \in Row, NEW event \in EventType, Commit(e, new, event)
  PROVE  TypeOK'
<1>1. /\ task[e] \in Jobs /\ job[task[e]] \in Row /\ snap[e] \in Row
      /\ 0 \in 0..WorkflowChecks
  <2>1. task[e] \in Jobs \cup {NoJob} /\ task[e] # NoJob
    BY DEF TypeOK, Executing
  <2>2. 0 \in 0..WorkflowChecks
    BY DEF WorkflowChecks
  <2> QED BY <2>1, <2>2 DEF TypeOK
<1>2. Flush(job[task[e]], snap[e], new) \in Row
  BY <1>1, FlushFields
<1>3. job' \in [Jobs -> Row] /\ last' \in [Jobs -> EventType]
  BY <1>1, <1>2 DEF Commit, Record, TypeOK
<1>4. /\ pc' = [pc EXCEPT ![e] = "idle"]
      /\ task' = [task EXCEPT ![e] = NoJob]
      /\ snap' = [snap EXCEPT ![e] = AbsentRow]
      /\ checks' = [checks EXCEPT ![e] = 0]
      /\ UNCHANGED <<started, recovered, seen, asked, crashes, locked>>
  BY DEF Commit, LetGo, Hold
<1> HIDE DEF Commit
<1> QED BY <1>1, <1>3, <1>4, AbsentIsRow DEF TypeOK

LEMMA ExecuteType ==
  ASSUME TypeOK, NEW e \in Executors, Execute(e)
  PROVE  TypeOK'
<1>1. CASE Checkpoint(e)
  <2>1. task[e] \in Jobs /\ job[task[e]] \in Row
    BY <1>1 DEF Checkpoint, Cooperative, TypeOK
  <2>2. checks[e] \in 0..WorkflowChecks /\ checks[e] < WorkflowChecks
    BY <1>1 DEF Checkpoint, TypeOK
  <2>3. (IF task[e] \in Workflow THEN checks[e] + 1 ELSE checks[e]) \in 0..WorkflowChecks
    BY <2>2 DEF WorkflowChecks
  <2> QED BY <1>1, <2>1, <2>3 DEF Checkpoint, TypeOK, rows
<1>2. CASE Reload(e)
  <2>1. task[e] \in Jobs /\ job[task[e]] \in Row
    BY <1>2 DEF Reload, TypeOK
  <2> QED BY <1>2, <2>1 DEF Reload, TypeOK, rows
<1>3. ASSUME NEW outcome \in Terminal, Complete(e, outcome) PROVE TypeOK'
  <2>1. snap[e] \in Row BY DEF TypeOK
  <2>2. [snap[e] EXCEPT !.status = outcome, !.finished = TRUE,
                        !.error = FALSE, !.lockedBy = NoOne] \in Row
    BY <2>1 DEF Row
  <2> QED BY <1>3, <2>2, CommitType DEF Complete, EventType
<1>4. ASSUME NEW outcome \in Terminal, RunComplete(e, outcome) PROVE TypeOK'
  <2>1. snap[e] \in Row BY DEF TypeOK
  <2>2. /\ [snap[e] EXCEPT !.status = outcome, !.finished = TRUE] \in Row
        /\ [[snap[e] EXCEPT !.status = outcome, !.finished = TRUE]
              EXCEPT !.error = FALSE, !.lockedBy = NoOne] \in Row
    BY <2>1 DEF Row
  <2> QED BY <1>4, <2>2, CommitType DEF RunComplete, EventType
<1>5. CASE Retry(e)
  <2>1. snap[e] \in Row BY DEF TypeOK
  <2>2. [snap[e] EXCEPT !.status = "pending", !.error = TRUE,
                        !.lockedBy = NoOne] \in Row
    BY <2>1 DEF Row, Active
  <2> QED BY <1>5, <2>2, CommitType DEF Retry, EventType, Executing
<1>6. CASE Fail(e)
  <2>1. snap[e] \in Row BY DEF TypeOK
  <2>2. [snap[e] EXCEPT !.status = "failed", !.error = TRUE,
                        !.finished = TRUE, !.lockedBy = NoOne] \in Row
    BY <2>1 DEF Row, Terminal, Finished
  <2> QED BY <1>6, <2>2, CommitType DEF Fail, EventType, Executing, Terminal, Finished
<1>7. CASE RunFail(e)
  <2>1. snap[e] \in Row BY DEF TypeOK
  <2>2. [snap[e] EXCEPT !.status = "failed", !.error = TRUE, !.finished = TRUE] \in Row
    BY <2>1 DEF Row, Terminal, Finished
  <2> QED BY <1>7, <2>2, CommitType DEF RunFail, EventType, Executing, Terminal, Finished
<1>8. CASE CommitLocked(e)
  BY <1>8, AbsentIsRow, SMTT(30)
  DEF CommitLocked, LetGo, Hold, TypeOK, rows, WorkflowChecks
<1> QED BY <1>1, <1>2, <1>3, <1>4, <1>5, <1>6, <1>7, <1>8 DEF Execute

\* The claim of a pending row keeps the types.
LEMMA ClaimType ==
  ASSUME TypeOK, NEW e \in Executors, NEW j \in Jobs, Claim(e, j)
  PROVE  TypeOK'
<1> DEFINE new == [job[j] EXCEPT !.status = "running", !.lockedBy = e,
                                 !.attempts = @ + 1]
<1>1. new \in Row /\ 0 \in 0..WorkflowChecks
  <2>1. job[j] \in Row BY DEF TypeOK
  <2>2. new \in Row BY <2>1, StartedIsRow
  <2>3. 0 \in 0..WorkflowChecks BY DEF WorkflowChecks
  <2> QED BY <2>2, <2>3
<1>2. /\ job' = [job EXCEPT ![j] = new]
      /\ pc' = [pc EXCEPT ![e] = "exec"]
      /\ task' = [task EXCEPT ![e] = j]
      /\ snap' = [snap EXCEPT ![e] = new]
      /\ checks' = [checks EXCEPT ![e] = 0]
      /\ started' = [started EXCEPT ![j] = @ + 1]
      /\ last' = [last EXCEPT ![j] = "started"]
      /\ UNCHANGED <<recovered, seen, asked, crashes, locked>>
  BY DEF Claim, ClaimIf, Hold, CountStart, Record
<1> HIDE DEF new
<1> QED BY <1>1, <1>2 DEF TypeOK, EventType

\* The requests of the /run endpoints keep the types.
LEMMA RunType ==
  ASSUME TypeOK, NEW r \in Runners,
         RunStart(r) \/ \E j \in Jobs : RunRead(r, j)
  PROVE  TypeOK'
<1> r \in Executors /\ 0 \in 0..WorkflowChecks
  BY DEF Executors, WorkflowChecks
<1>1. CASE RunStart(r)
  <2> DEFINE j == task[r]
             new == [snap[r] EXCEPT !.status = "running", !.attempts = @ + 1]
  <2>1. j \in Jobs
    BY <1>1 DEF RunStart, TypeOK
  <2>2. new \in Row /\ job[j] \in Row /\ snap[r] \in Row
    <3>1. job[j] \in Row /\ snap[r] \in Row BY <2>1 DEF TypeOK
    <3> QED BY <3>1, StartedIsRow
  <2>3. Flush(job[j], snap[r], new) \in Row
    BY <2>2, FlushFields
  <2>4. /\ job' = [job EXCEPT ![j] = Flush(job[j], snap[r], new)]
        /\ pc' = [pc EXCEPT ![r] = "exec"]
        /\ task' = [task EXCEPT ![r] = j]
        /\ snap' = [snap EXCEPT ![r] = new]
        /\ checks' = [checks EXCEPT ![r] = 0]
        /\ started' = [started EXCEPT ![j] = @ + 1]
        /\ last' = [last EXCEPT ![j] = "started"]
        /\ UNCHANGED <<recovered, seen, asked, crashes, locked>>
    BY <1>1 DEF RunStart, Hold, CountStart, Record
  <2> HIDE DEF new, j
  <2> QED BY <2>1, <2>2, <2>3, <2>4 DEF TypeOK, EventType
<1>2. ASSUME NEW j \in Jobs, RunRead(r, j) PROVE TypeOK'
  BY <1>2 DEF RunRead, Hold, TypeOK, rows
<1> QED BY <1>1, <1>2

\* Start, recovery and crash of a worker keep the types.
LEMMA WorkerType ==
  ASSUME TypeOK, NEW w \in Workers, Start(w) \/ Recover(w) \/ Crash(w)
  PROVE  TypeOK'
<1> w \in Executors /\ 0 \in 0..WorkflowChecks /\ NoTable \in [Jobs -> Row]
  BY AbsentIsRow DEF Executors, WorkflowChecks, NoTable
<1>1. CASE Start(w)
  BY <1>1 DEF Start, TypeOK, rows
<1>2. CASE Recover(w)
  <2> DEFINE found == {j \in Jobs : seen[w][j].status = "running"}
             again(j) == [seen[w][j] EXCEPT !.status = "pending", !.lockedBy = NoOne]
  <2>1. ASSUME NEW j \in Jobs
        PROVE  Flush(job[j], seen[w][j], again(j)) \in Row
    <3>1. job[j] \in Row /\ seen[w][j] \in Row
      BY DEF TypeOK
    <3>2. again(j) \in Row
      BY <3>1 DEF Row, Active
    <3> QED BY <3>1, <3>2, FlushFields
  <2>2. /\ job' = [j \in Jobs |-> IF j \in found
                                  THEN Flush(job[j], seen[w][j], again(j)) ELSE job[j]]
        /\ recovered' = [j \in Jobs |-> recovered[j] + IF j \in found THEN 1 ELSE 0]
        /\ last' = [j \in Jobs |-> IF j \in found THEN "recovered" ELSE last[j]]
        /\ pc[w] = "recover"
        /\ pc' = [pc EXCEPT ![w] = "idle"]
        /\ seen' = [seen EXCEPT ![w] = NoTable]
        /\ UNCHANGED <<started, task, snap, checks, asked, crashes, locked>>
    BY <1>2 DEF Recover
  <2>3. job' \in [Jobs -> Row]
    BY <2>1, <2>2 DEF TypeOK
  <2>4. recovered' \in [Jobs -> Nat]
    <3>1. \A j \in Jobs : recovered[j] \in Nat BY DEF TypeOK
    <3>2. \A j \in Jobs : recovered[j] + (IF j \in found THEN 1 ELSE 0) \in Nat
      BY <3>1
    <3> HIDE DEF found
    <3> QED BY <2>2, <3>2
  <2>5. last' \in [Jobs -> EventType]
    <3>1. \A j \in Jobs : last[j] \in EventType BY DEF TypeOK
    <3> HIDE DEF found
    <3> QED BY <2>2, <3>1 DEF EventType
  <2> QED BY <2>2, <2>3, <2>4, <2>5 DEF TypeOK
<1>3. CASE Crash(w)
  BY <1>3, AbsentIsRow DEF Crash, LetGo, Hold, TypeOK, rows
<1> QED BY <1>1, <1>2, <1>3

\* Creating a job and cancelling one keep the types.
LEMMA ClientType ==
  ASSUME TypeOK,
         \/ \E j \in Jobs : Create(j)
         \/ \E c \in Clients : \/ \E j \in Jobs : CancelRead(c, j)
                               \/ \E stamp \in BOOLEAN : CancelWrite(c, stamp)
  PROVE  TypeOK'
<1>1. ASSUME NEW j \in Jobs, Create(j) PROVE TypeOK'
  <2>1. [job[j] EXCEPT !.status = "pending"] \in Row
    <3>1. job[j] \in Row BY DEF TypeOK
    <3> QED BY <3>1 DEF Row, Active
  <2>2. job' = [job EXCEPT ![j] = [job[j] EXCEPT !.status = "pending"]]
    BY <1>1 DEF Create, TypeOK
  <2> QED BY <1>1, <2>1, <2>2 DEF Create, Record, execs, TypeOK, EventType
<1>2. ASSUME NEW c \in Clients, NEW j \in Jobs, CancelRead(c, j) PROVE TypeOK'
  BY <1>2 DEF CancelRead, TypeOK, rows, execs
<1>3. ASSUME NEW c \in Clients, NEW stamp \in BOOLEAN, CancelWrite(c, stamp)
      PROVE  TypeOK'
  <2> DEFINE j == asked[c]
             new == [job[j] EXCEPT !.status = "cancelled", !.cancelled = TRUE,
                                   !.finished = @ \/ stamp]
  <2>1. j \in Jobs
    BY <1>3 DEF CancelWrite, TypeOK
  <2>2. new \in Row
    <3>1. job[j] \in Row BY <2>1 DEF TypeOK
    <3> QED BY <3>1 DEF Row, Terminal
  <2>3. job' = [job EXCEPT ![j] = new]
    BY <1>3, <2>1 DEF CancelWrite, TypeOK
  <2>4. /\ last' = [last EXCEPT ![j] = "cancelled"]
        /\ asked' = [asked EXCEPT ![c] = NoJob]
        /\ UNCHANGED <<started, recovered, execs, seen, crashes, locked>>
    BY <1>3 DEF CancelWrite, Record
  <2> HIDE DEF new, j
  <2> QED BY <2>1, <2>2, <2>3, <2>4 DEF TypeOK, EventType, Terminal, execs
<1> QED BY <1>1, <1>2, <1>3

LEMMA TypeInit == Init => TypeOK
<1> SUFFICES ASSUME Init PROVE TypeOK
  OBVIOUS
<1>1. NoTable \in [Jobs -> Row] /\ 0 \in 0..WorkflowChecks
  BY AbsentIsRow DEF NoTable, WorkflowChecks
<1>2. 0 \in 0..MaxCrashes /\ 0 \in 0..MaxLocked
  OBVIOUS
<1> QED BY <1>1, <1>2, AbsentIsRow DEF Init, TypeOK, EventType

LEMMA TypeStep == TypeOK /\ [Next]_vars => TypeOK'
<1> SUFFICES ASSUME TypeOK, [Next]_vars PROVE TypeOK'
  OBVIOUS
<1>1. ASSUME NEW w \in Workers, ClaimOldest(w) PROVE TypeOK'
  BY <1>1, ClaimType DEF ClaimOldest, Executors
<1>2. ASSUME NEW t \in Triggers, NEW j \in Jobs, ClaimById(t, j) PROVE TypeOK'
  BY <1>2, ClaimType DEF ClaimById, Executors
<1>3. CASE UNCHANGED vars
  BY <1>3 DEF vars, rows, execs, TypeOK
<1> QED BY <1>1, <1>2, <1>3, ExecuteType, RunType, WorkerType, ClientType DEF Next

\* Every reachable state is well typed, whatever the environment: any number of
\* workers, triggers, /run requests and crashes.
THEOREM TypeCorrect == Spec => []TypeOK
<1> QED BY TypeInit, TypeStep, PTL DEF Spec

-----------------------------------------------------------------------------
(* The inductive invariant of a SerialEnvironment.  RowConsistent and        *)
(* ExclusiveExecution are not inductive alone: what a commit leaves in the   *)
(* row depends on how the copy relates to the row (HolderOK), and a recovery *)
(* is harmless only because nobody else is alive (RecoveryOK).               *)

\* The copy of an execution differs from its row at most by a cancellation.
HolderOK(e) ==
  Executing(e) =>
    LET row == job[task[e]]
    IN /\ row.lockedBy = e
       /\ row.status \in {"running", "cancelled"}
       /\ snap[e].status \in {"running", "cancelled"}
       /\ snap[e].status = "cancelled" => row.status = "cancelled"
       /\ snap[e].attempts = row.attempts
       /\ snap[e].error = row.error
       /\ snap[e].finished => row.finished
       /\ pc[e] = "abort" => row.cancelled

\* Nobody reads before a /run, and a restarting worker is alone.
RecoveryOK(e) ==
  /\ pc[e] # "read"
  /\ pc[e] \in {"down", "recover"} => Executors = {e}

\* What a recovery has selected is still interrupted, or was cancelled.
SelectedOK(w) ==
  \A j \in Jobs : pc[w] = "recover" /\ seen[w][j].status = "running" =>
    job[j].status \in {"running", "cancelled"} /\ started[j] > 0

\* A job that is queued, or not yet created, has an attempt left.
CountOK(j) ==
  /\ job[j].attempts = started[j]
  /\ started[j] <= MaxAttempts + recovered[j]
  /\ job[j].status \in {"absent", "pending"} => started[j] < MaxAttempts + recovered[j]
  /\ job[j].status = "running" => started[j] > 0

\* RowConsistent and AuditExplainsStatus, for one job.
StatusOK(j) ==
  /\ job[j].status \in {"succeeded", "partial"} => ~job[j].error /\ job[j].finished
  /\ job[j].status = "failed" => job[j].error /\ job[j].finished
  /\ job[j].status \in Active /\ job[j].finished => job[j].cancelled
  /\ job[j].status = "cancelled" => job[j].cancelled
  /\ job[j].status = "absent" => last[j] = "none" /\ ~job[j].finished
  /\ job[j].status = "pending" => last[j] \in {"created", "retry_scheduled", "recovered"}
  /\ job[j].status = "running" => last[j] = "started"
  /\ job[j].status \in Terminal => last[j] = job[j].status

AskedOK(c) == asked[c] # NoJob => job[asked[c]].status # "absent"

IInv ==
  /\ TypeOK
  /\ \A e \in Executors : HolderOK(e) /\ RecoveryOK(e)
  /\ \A w \in Workers : SelectedOK(w)
  /\ \A j \in Jobs : CountOK(j) /\ StatusOK(j)
  /\ \A c \in Clients : AskedOK(c)
\* The row of a claim, column by column.
LEMMA ClaimFields ==
  ASSUME NEW row \in Row, NEW e \in Executors
  PROVE  LET new == [row EXCEPT !.status = "running", !.lockedBy = e, !.attempts = @ + 1]
         IN /\ new.status = "running" /\ new.lockedBy = e
            /\ new.attempts = row.attempts + 1
            /\ new.cancelled = row.cancelled /\ new.finished = row.finished
            /\ new.error = row.error
BY DEF Row

\* Serial environments have no /run request, and their executors are workers
\* and triggers.
LEMMA SerialExecutors ==
  ASSUME SerialEnvironment
  PROVE  /\ Runners = {} /\ LateWorkers = {}
         /\ Executors = Workers \cup Triggers
         /\ MaxCrashes # 0 => \A e \in Executors : Executors = {e}
BY DEF SerialEnvironment, Executors

\* An executor that a step leaves alone keeps its part of the invariant.
LEMMA HolderKept ==
  ASSUME NEW e \in Executors, HolderOK(e), RecoveryOK(e),
         pc'[e] = pc[e], task'[e] = task[e], snap'[e] = snap[e],
         Executing(e) => job'[task[e]] = job[task[e]]
  PROVE  HolderOK(e)' /\ RecoveryOK(e)'
<1>1. RecoveryOK(e)' /\ (Executing(e)' <=> Executing(e))
  BY DEF RecoveryOK, Executing
<1>2. CASE Executing(e)
  <2>1. job'[task'[e]] = job[task[e]]
    BY <1>2
  <2> QED BY <2>1, <1>1, <1>2 DEF HolderOK
<1>3. CASE ~Executing(e)
  BY <1>1, <1>3 DEF HolderOK
<1> QED BY <1>1, <1>2, <1>3

LEMMA ClaimInv ==
  ASSUME SerialEnvironment, IInv, TypeOK',
         NEW e \in Executors, NEW j \in Jobs, Claim(e, j)
  PROVE  IInv'
<1> DEFINE new == [job[j] EXCEPT !.status = "running", !.lockedBy = e,
                                 !.attempts = @ + 1]
<1>1. /\ pc[e] = "idle" /\ job[j].status = "pending"
      /\ job' = [job EXCEPT ![j] = new]
      /\ pc' = [pc EXCEPT ![e] = "exec"]
      /\ task' = [task EXCEPT ![e] = j]
      /\ snap' = [snap EXCEPT ![e] = new]
      /\ started' = [started EXCEPT ![j] = started[j] + 1]
      /\ last' = [last EXCEPT ![j] = "started"]
      /\ UNCHANGED <<recovered, seen, asked, crashes, locked>>
  BY DEF Claim, ClaimIf, Hold, CountStart, Record
<1>2. /\ job[j] \in Row /\ started[j] \in Nat /\ recovered[j] \in Nat
      /\ DOMAIN job = Jobs
      /\ DOMAIN task = Executors /\ DOMAIN snap = Executors
      /\ DOMAIN started = Jobs /\ DOMAIN last = Jobs /\ DOMAIN pc = Executors
  BY DEF IInv, TypeOK
<1>3. /\ new.status = "running" /\ new.lockedBy = e
      /\ new.attempts = job[j].attempts + 1
      /\ new.cancelled = job[j].cancelled /\ new.finished = job[j].finished
      /\ new.error = job[j].error
  BY <1>2, ClaimFields
<1> HIDE DEF new
<1>4. /\ job'[j] = new /\ \A i \in Jobs \ {j} : job'[i] = job[i]
      /\ pc'[e] = "exec" /\ task'[e] = j /\ snap'[e] = new
      /\ \A f \in Executors \ {e} :
           pc'[f] = pc[f] /\ task'[f] = task[f] /\ snap'[f] = snap[f]
      /\ started'[j] = started[j] + 1 /\ last'[j] = "started"
      /\ \A i \in Jobs \ {j} : started'[i] = started[i] /\ last'[i] = last[i]
  BY <1>1, <1>2
<1>5. ASSUME NEW f \in Executors PROVE HolderOK(f)' /\ RecoveryOK(f)'
  <2>1. CASE f = e
    BY <2>1, <1>3, <1>4 DEF HolderOK, RecoveryOK, Executing
  <2>2. CASE f # e
    <3>1. HolderOK(f) /\ RecoveryOK(f)
      BY DEF IInv
    <3>2. Executing(f) => task[f] \in Jobs \ {j}
      BY <1>1, <3>1 DEF HolderOK, IInv, TypeOK, Executing
    <3> QED BY <2>2, <1>4, <3>1, <3>2, HolderKept
  <2> QED BY <2>1, <2>2
<1>6. ASSUME NEW w \in Workers PROVE SelectedOK(w)'
  <2>1. w \in Executors /\ (pc'[w] = "recover" => Executors = {w})
    BY <1>5 DEF RecoveryOK, Executors
  <2> QED BY <2>1, <1>4 DEF SelectedOK
<1>7. ASSUME NEW i \in Jobs PROVE CountOK(i)' /\ StatusOK(i)'
  <2>1. CountOK(i) /\ StatusOK(i) BY DEF IInv
  <2>2. CASE i = j
    BY <2>1, <2>2, <1>1, <1>2, <1>3, <1>4 DEF CountOK, StatusOK, Active, Terminal, Finished
  <2>3. CASE i # j
    BY <2>1, <2>3, <1>1, <1>4 DEF CountOK, StatusOK
  <2> QED BY <2>2, <2>3
<1>8. ASSUME NEW c \in Clients PROVE AskedOK(c)'
  <2>1. asked[c] \in Jobs \cup {NoJob} /\ AskedOK(c) BY DEF IInv, TypeOK
  <2> QED BY <2>1, <1>1, <1>3, <1>4 DEF AskedOK
<1> QED BY <1>5, <1>6, <1>7, <1>8 DEF IInv
\* What a terminal commit asks of the copy it flushes.
TerminalCopy(e, new, event) ==
  /\ new \in Row
  /\ new.attempts = snap[e].attempts /\ new.cancelled = snap[e].cancelled
  /\ \/ /\ new.status = "pending" /\ event = "retry_scheduled"
        /\ new.finished = snap[e].finished
        /\ snap[e].attempts < MaxAttempts
     \/ /\ new.status \in Terminal /\ event = new.status /\ new.finished
        /\ new.status \in {"succeeded", "partial"} => ~new.error
        /\ new.status = "failed" => new.error
        /\ new.status = "cancelled" => pc[e] = "abort"

\* Such a flush writes the status it means to write, although a cancel request
\* may have changed the row: no column is lost between copy and row.
LEMMA CommitRow ==
  ASSUME IInv, NEW e \in Executors, Executing(e),
         NEW new, NEW event, TerminalCopy(e, new, event)
  PROVE  LET j == task[e]
             r == Flush(job[j], snap[e], new)
         IN /\ j \in Jobs /\ job[j].status \in {"running", "cancelled"}
            /\ r.status = new.status /\ r.error = new.error
            /\ r.attempts = job[j].attempts
            /\ r.cancelled = job[j].cancelled
            /\ new.status = "pending" => r.finished = job[j].finished
            /\ new.status # "pending" => r.finished
            /\ new.status = "cancelled" => r.cancelled
            /\ new.status = "pending" => r.attempts < MaxAttempts
<1> DEFINE j == task[e]
<1>1. j \in Jobs
  BY DEF IInv, TypeOK, Executing
<1>2. job[j] \in Row /\ snap[e] \in Row /\ new \in Row
  BY <1>1 DEF IInv, TypeOK, TerminalCopy
<1>3. HolderOK(e)
  BY DEF IInv
<1>4. /\ job[j].cancelled \in BOOLEAN /\ job[j].finished \in BOOLEAN
      /\ snap[e].cancelled \in BOOLEAN /\ snap[e].finished \in BOOLEAN
      /\ new.finished \in BOOLEAN /\ new.error \in BOOLEAN
      /\ snap[e].error \in BOOLEAN /\ job[j].error \in BOOLEAN
  BY <1>2 DEF Row
<1> DEFINE r == Flush(job[j], snap[e], new)
<1>5. /\ r.status = IF new.status # snap[e].status THEN new.status ELSE job[j].status
      /\ r.attempts = IF new.attempts # snap[e].attempts THEN new.attempts ELSE job[j].attempts
      /\ r.cancelled = IF new.cancelled # snap[e].cancelled THEN new.cancelled ELSE job[j].cancelled
      /\ r.finished = IF new.finished # snap[e].finished THEN new.finished ELSE job[j].finished
      /\ r.error = IF new.error # snap[e].error THEN new.error ELSE job[j].error
  BY <1>2, FlushFields
<1> HIDE DEF r, j
<1>6. /\ job[j].status \in {"running", "cancelled"}
      /\ snap[e].status \in {"running", "cancelled"}
      /\ snap[e].status = "cancelled" => job[j].status = "cancelled"
      /\ snap[e].attempts = job[j].attempts /\ snap[e].error = job[j].error
      /\ snap[e].finished => job[j].finished
      /\ pc[e] = "abort" => job[j].cancelled
  BY <1>3 DEF HolderOK, j
<1>7. r.status = new.status
  BY <1>5, <1>6 DEF TerminalCopy, Terminal, Finished
<1>8. r.error = new.error
  BY <1>4, <1>5, <1>6
<1>9. r.attempts = job[j].attempts /\ r.cancelled = job[j].cancelled
  BY <1>5, <1>6 DEF TerminalCopy
<1>10. /\ new.status = "pending" => r.finished = job[j].finished
       /\ new.status # "pending" => r.finished
  BY <1>4, <1>5, <1>6 DEF TerminalCopy, Terminal, Finished
<1>11. /\ new.status = "cancelled" => r.cancelled
       /\ new.status = "pending" => r.attempts < MaxAttempts
  BY <1>6, <1>9 DEF TerminalCopy, Terminal, Finished
<1> QED BY <1>1, <1>6, <1>7, <1>8, <1>9, <1>10, <1>11 DEF r, j

\* An executor that lets its job go, while every row stays or is its own.
LEMMA LetGoHolders ==
  ASSUME SerialEnvironment, IInv, NEW e \in Executors, NEW where,
         LetGo(e, where), where = "idle" \/ (where = "down" /\ Executors = {e}),
         \A i \in Jobs : job'[i] = job[i] \/ (Executing(e) /\ i = task[e])
  PROVE  \A f \in Executors : HolderOK(f)' /\ RecoveryOK(f)'
<1> SUFFICES ASSUME NEW f \in Executors PROVE HolderOK(f)' /\ RecoveryOK(f)'
  OBVIOUS
<1>1. /\ pc' = [pc EXCEPT ![e] = where] /\ task' = [task EXCEPT ![e] = NoJob]
      /\ snap' = [snap EXCEPT ![e] = AbsentRow]
      /\ DOMAIN pc = Executors /\ DOMAIN task = Executors /\ DOMAIN snap = Executors
  BY DEF LetGo, Hold, IInv, TypeOK
<1>2. CASE f = e
  BY <1>1, <1>2 DEF HolderOK, RecoveryOK, Executing
<1>3. CASE f # e
  <2>1. pc'[f] = pc[f] /\ task'[f] = task[f] /\ snap'[f] = snap[f]
    BY <1>1, <1>3
  <2>2. HolderOK(f) /\ RecoveryOK(f) /\ HolderOK(e)
    BY DEF IInv
  <2>3. Executing(f) => job'[task[f]] = job[task[f]]
    <3>1. Executing(f) => task[f] \in Jobs
      BY DEF IInv, TypeOK, Executing
    <3>2. Executing(f) /\ Executing(e) => task[f] # task[e]
      BY <1>3, <2>2 DEF HolderOK
    <3> QED BY <3>1, <3>2
  <2> QED BY <2>1, <2>2, <2>3, HolderKept
<1> QED BY <1>2, <1>3

LEMMA CommitInv ==
  ASSUME SerialEnvironment, IInv, TypeOK', NEW e \in Executors, Executing(e),
         NEW new, NEW event, TerminalCopy(e, new, event), Commit(e, new, event)
  PROVE  IInv'
<1> DEFINE j == task[e]
           r == Flush(job[j], snap[e], new)
<1>1. /\ job' = [job EXCEPT ![j] = r]
      /\ last' = [last EXCEPT ![j] = event]
      /\ LetGo(e, "idle")
      /\ UNCHANGED <<started, recovered, seen, asked, crashes, locked>>
  BY DEF Commit, Record
<1>2. /\ j \in Jobs /\ job[j].status \in {"running", "cancelled"}
      /\ r.status = new.status /\ r.error = new.error
      /\ r.attempts = job[j].attempts /\ r.cancelled = job[j].cancelled
      /\ new.status = "pending" => r.finished = job[j].finished
      /\ new.status # "pending" => r.finished
      /\ new.status = "cancelled" => r.cancelled
      /\ new.status = "pending" => r.attempts < MaxAttempts
  BY CommitRow
<1> HIDE DEF j, r
<1>3. /\ job'[j] = r /\ last'[j] = event
      /\ \A i \in Jobs \ {j} : job'[i] = job[i] /\ last'[i] = last[i]
  BY <1>1, <1>2 DEF IInv, TypeOK
<1>4. \A f \in Executors : HolderOK(f)' /\ RecoveryOK(f)'
  BY <1>1, <1>3, LetGoHolders DEF j
<1>5. ASSUME NEW w \in Workers PROVE SelectedOK(w)'
  <2>1. w \in Executors /\ (pc'[w] = "recover" => Executors = {w})
    BY <1>4 DEF RecoveryOK, Executors
  <2>2. pc'[e] = "idle"
    BY <1>1 DEF LetGo, Hold, IInv, TypeOK
  <2> QED BY <2>1, <2>2 DEF SelectedOK
<1>6. ASSUME NEW i \in Jobs PROVE CountOK(i)' /\ StatusOK(i)'
  <2>1. CountOK(i) /\ StatusOK(i) BY DEF IInv
  <2>2. CASE i = j
    <3>1. started[j] \in Nat /\ recovered[j] \in Nat
      BY <1>2 DEF IInv, TypeOK
    <3>2. new.status \in {"pending"} \cup Terminal
      BY DEF TerminalCopy
    <3>3. CountOK(i)'
      BY <2>1, <2>2, <3>1, <3>2, <1>1, <1>2, <1>3 DEF CountOK, Terminal, Finished
    <3>4. StatusOK(i)'
      BY <2>1, <2>2, <1>2, <1>3
      DEF StatusOK, TerminalCopy, Active, Terminal, Finished
    <3> QED BY <3>3, <3>4
  <2>3. CASE i # j
    BY <2>1, <2>3, <1>1, <1>3 DEF CountOK, StatusOK
  <2> QED BY <2>2, <2>3
<1>7. ASSUME NEW c \in Clients PROVE AskedOK(c)'
  <2>1. asked[c] \in Jobs \cup {NoJob} /\ AskedOK(c) BY DEF IInv, TypeOK
  <2>2. new.status # "absent" BY DEF TerminalCopy, Terminal, Finished
  <2> QED BY <2>1, <2>2, <1>1, <1>2, <1>3 DEF AskedOK
<1> QED BY <1>4, <1>5, <1>6, <1>7 DEF IInv
\* Every way an execution ends in a serial environment is a terminal copy.
Result(e, outcome) == [snap[e] EXCEPT !.status = outcome, !.finished = TRUE,
                                      !.error = FALSE, !.lockedBy = NoOne]
Again(e) == [snap[e] EXCEPT !.status = "pending", !.error = TRUE, !.lockedBy = NoOne]
Failed(e) == [snap[e] EXCEPT !.status = "failed", !.error = TRUE,
                             !.finished = TRUE, !.lockedBy = NoOne]

EndsBy(e, new, event) ==
  /\ Executing(e) /\ TerminalCopy(e, new, event) /\ Commit(e, new, event)

LEMMA EndCopies ==
  ASSUME TypeOK, NEW e \in Executors
  PROVE  /\ \A outcome \in Terminal :
              Complete(e, outcome) => EndsBy(e, Result(e, outcome), outcome)
         /\ Retry(e) => EndsBy(e, Again(e), "retry_scheduled")
         /\ Fail(e) => EndsBy(e, Failed(e), "failed")
<1>1. snap[e] \in Row
  BY DEF TypeOK
<1>2. ASSUME NEW outcome \in Terminal, Complete(e, outcome)
      PROVE  EndsBy(e, Result(e, outcome), outcome)
  <2> DEFINE new == Result(e, outcome)
  <2>1. /\ new \in Row /\ new.status = outcome /\ new.finished = TRUE
        /\ new.error = FALSE
        /\ new.attempts = snap[e].attempts /\ new.cancelled = snap[e].cancelled
    BY <1>1 DEF Row, Result
  <2>2. Executing(e) /\ Commit(e, new, outcome) /\ outcome \in Outcomes(e)
    BY <1>2 DEF Complete, Result
  <2>3. outcome # "failed" /\ (outcome = "cancelled" => pc[e] = "abort")
    BY <2>2 DEF Outcomes
  <2>4. TerminalCopy(e, new, outcome)
    <3> HIDE DEF new
    <3> QED BY <2>1, <2>3 DEF TerminalCopy, Terminal, Finished
  <2> QED BY <2>2, <2>4 DEF EndsBy
<1>3. ASSUME Retry(e) PROVE EndsBy(e, Again(e), "retry_scheduled")
  <2> DEFINE new == Again(e)
  <2>1. /\ new \in Row /\ new.status = "pending" /\ new.finished = snap[e].finished
        /\ new.attempts = snap[e].attempts /\ new.cancelled = snap[e].cancelled
    BY <1>1 DEF Row, Again, Active
  <2>2. Executing(e) /\ Commit(e, new, "retry_scheduled") /\ snap[e].attempts < MaxAttempts
    BY <1>3 DEF Retry, Again, Executing
  <2> HIDE DEF new
  <2>3. TerminalCopy(e, new, "retry_scheduled")
    BY <2>1, <2>2 DEF TerminalCopy
  <2> QED BY <2>2, <2>3 DEF EndsBy, new
<1>4. ASSUME Fail(e) PROVE EndsBy(e, Failed(e), "failed")
  <2> DEFINE new == Failed(e)
  <2>1. /\ new \in Row /\ new.status = "failed" /\ new.finished = TRUE /\ new.error = TRUE
        /\ new.attempts = snap[e].attempts /\ new.cancelled = snap[e].cancelled
    BY <1>1 DEF Row, Failed, Terminal, Finished
  <2>2. Executing(e) /\ Commit(e, new, "failed")
    BY <1>4 DEF Fail, Failed, Executing
  <2> HIDE DEF new
  <2>3. TerminalCopy(e, new, "failed")
    BY <2>1 DEF TerminalCopy, Terminal, Finished
  <2> QED BY <2>2, <2>3 DEF EndsBy, new
<1> QED BY <1>2, <1>3, <1>4

\* A step that reloads the copy of an execution, or only lets the job go.
LEMMA CopyInv ==
  ASSUME SerialEnvironment, IInv, TypeOK', NEW e \in Executors,
         Checkpoint(e) \/ Reload(e) \/ CommitLocked(e)
  PROVE  IInv'
<1>1. UNCHANGED <<job, started, recovered, last, seen, asked, crashes>>
  BY DEF Checkpoint, Reload, CommitLocked, rows
<1>2. CASE Checkpoint(e) \/ Reload(e)
  <2>1. /\ pc[e] = "exec" /\ pc'[e] \in {"exec", "abort"} /\ task' = task
        /\ snap' = [snap EXCEPT ![e] = job[task[e]]]
        /\ \A f \in Executors \ {e} : pc'[f] = pc[f]
        /\ DOMAIN snap = Executors /\ task[e] \in Jobs
        /\ pc'[e] = "abort" => job[task[e]].status = "cancelled" \/ job[task[e]].cancelled
    BY <1>2 DEF Checkpoint, Reload, Cooperative, IInv, TypeOK
  <2>2. ASSUME NEW f \in Executors PROVE HolderOK(f)' /\ RecoveryOK(f)'
    <3>1. HolderOK(f) /\ RecoveryOK(f) BY DEF IInv
    <3>2. CASE f = e
      <4>1. StatusOK(task[e]) BY <2>1 DEF IInv
      <4>2. /\ job[task[e]].lockedBy = e
            /\ job[task[e]].status \in {"running", "cancelled"}
        BY <2>1, <3>1, <3>2 DEF HolderOK, Executing
      <4>3. snap'[e] = job[task[e]] /\ task'[e] = task[e] /\ job' = job
        BY <1>1, <2>1
      <4>4. pc'[e] = "abort" => job[task[e]].cancelled
        BY <2>1, <4>1 DEF StatusOK
      <4>5. RecoveryOK(e)'
        BY <2>1 DEF RecoveryOK
      <4>6. HolderOK(e)'
        BY <4>2, <4>3, <4>4 DEF HolderOK
      <4> QED BY <3>2, <4>5, <4>6
    <3>3. CASE f # e
      BY <1>1, <2>1, <3>1, <3>3, HolderKept
    <3> QED BY <3>2, <3>3
  <2>3. ASSUME NEW w \in Workers PROVE SelectedOK(w)'
    <3>1. SelectedOK(w) /\ w \in Executors BY DEF IInv, Executors
    <3>2. pc'[w] = "recover" => pc[w] = "recover" BY <2>1, <3>1
    <3> QED BY <1>1, <3>1, <3>2 DEF SelectedOK
  <2> QED BY <1>1, <2>2, <2>3 DEF IInv, CountOK, StatusOK, AskedOK
<1>3. CASE CommitLocked(e)
  <2>1. \A f \in Executors : HolderOK(f)' /\ RecoveryOK(f)'
    BY <1>1, <1>3, LetGoHolders DEF CommitLocked
  <2>2. \A w \in Workers : pc'[w] = "recover" => pc[w] = "recover"
    BY <1>3 DEF CommitLocked, LetGo, Hold, IInv, TypeOK, Executors
  <2> QED BY <1>1, <2>1, <2>2 DEF IInv, SelectedOK, CountOK, StatusOK, AskedOK
<1> QED BY <1>2, <1>3

LEMMA ExecuteInv ==
  ASSUME SerialEnvironment, IInv, TypeOK', NEW e \in Executors, Execute(e)
  PROVE  IInv'
<1>1. TypeOK BY DEF IInv
<1>2. ASSUME NEW outcome \in Terminal, Complete(e, outcome) PROVE IInv'
  BY <1>1, <1>2, EndCopies, CommitInv DEF EndsBy
<1>3. CASE Retry(e)
  BY <1>1, <1>3, EndCopies, CommitInv DEF EndsBy
<1>4. CASE Fail(e)
  BY <1>1, <1>4, EndCopies, CommitInv DEF EndsBy
<1>5. Runners = {}
  BY DEF SerialEnvironment
<1> QED BY <1>2, <1>3, <1>4, <1>5, CopyInv DEF Execute, RunComplete, RunFail
LEMMA WorkerInv ==
  ASSUME SerialEnvironment, IInv, TypeOK', NEW w \in Workers,
         Start(w) \/ Recover(w) \/ Crash(w)
  PROVE  IInv'
<1>1. w \in Executors /\ RecoveryOK(w) /\ HolderOK(w) /\ SelectedOK(w)
  BY DEF IInv, Executors
<1>2. CASE Start(w)
  <2>1. /\ pc[w] = "down" /\ pc' = [pc EXCEPT ![w] = "recover"]
        /\ seen' = [seen EXCEPT ![w] = job]
        /\ UNCHANGED <<job, started, recovered, last, task, snap, asked>>
    BY <1>2 DEF Start, rows
  <2>2. Executors = {w}
    BY <1>1, <2>1 DEF RecoveryOK
  <2>3. HolderOK(w)' /\ RecoveryOK(w)'
    BY <2>1, <2>2, <1>1 DEF HolderOK, RecoveryOK, Executing, IInv, TypeOK
  <2>4. \A v \in Workers : v = w
    BY <2>2 DEF Executors
  <2>5. SelectedOK(w)'
    <3>1. seen'[w] = job
      BY <2>1 DEF IInv, TypeOK
    <3>2. \A j \in Jobs : CountOK(j) BY DEF IInv
    <3> QED BY <2>1, <3>1, <3>2 DEF SelectedOK, CountOK
  <2>6. \A e \in Executors : HolderOK(e)' /\ RecoveryOK(e)'
    BY <2>2, <2>3
  <2>7. /\ \A j \in Jobs : CountOK(j)' /\ StatusOK(j)'
        /\ \A c \in Clients : AskedOK(c)'
    BY <2>1 DEF IInv, CountOK, StatusOK, AskedOK
  <2> QED BY <2>4, <2>5, <2>6, <2>7 DEF IInv
<1>3. CASE Recover(w)
  <2> DEFINE found == {j \in Jobs : seen[w][j].status = "running"}
             again(j) == [seen[w][j] EXCEPT !.status = "pending", !.lockedBy = NoOne]
             row(j) == Flush(job[j], seen[w][j], again(j))
  <2>1. /\ job' = [j \in Jobs |-> IF j \in found THEN row(j) ELSE job[j]]
        /\ recovered' = [j \in Jobs |-> recovered[j] + IF j \in found THEN 1 ELSE 0]
        /\ last' = [j \in Jobs |-> IF j \in found THEN "recovered" ELSE last[j]]
        /\ pc[w] = "recover" /\ pc' = [pc EXCEPT ![w] = "idle"]
        /\ UNCHANGED <<started, task, snap, asked>>
    BY <1>3 DEF Recover
  <2>2. ASSUME NEW j \in Jobs, j \in found
        PROVE  /\ row(j).status = "pending" /\ row(j).attempts = job[j].attempts
               /\ row(j).cancelled = job[j].cancelled
               /\ row(j).finished = job[j].finished
               /\ job[j].status \in {"running", "cancelled"} /\ started[j] > 0
    <3>1. job[j] \in Row /\ seen[w][j] \in Row
      BY DEF IInv, TypeOK
    <3>2. /\ again(j) \in Row /\ again(j).status = "pending"
          /\ again(j).attempts = seen[w][j].attempts
          /\ again(j).cancelled = seen[w][j].cancelled
          /\ again(j).finished = seen[w][j].finished
      BY <3>1 DEF Row, Active
    <3>3. seen[w][j].status = "running"
      BY <2>2
    <3> HIDE DEF again
    <3>4. /\ row(j).status = IF again(j).status # seen[w][j].status THEN again(j).status ELSE job[j].status
          /\ row(j).attempts = IF again(j).attempts # seen[w][j].attempts THEN again(j).attempts ELSE job[j].attempts
          /\ row(j).cancelled = IF again(j).cancelled # seen[w][j].cancelled THEN again(j).cancelled ELSE job[j].cancelled
          /\ row(j).finished = IF again(j).finished # seen[w][j].finished THEN again(j).finished ELSE job[j].finished
      BY <3>1, <3>2, FlushFields
    <3> HIDE DEF row, found
    <3>5. job[j].status \in {"running", "cancelled"} /\ started[j] > 0
      BY <1>1, <2>1, <3>3 DEF SelectedOK
    <3> QED BY <3>2, <3>3, <3>4, <3>5
  <2> HIDE DEF found, row, again
  <2>3. Executors = {w} /\ Workers = {w}
    BY <1>1, <2>1 DEF RecoveryOK, Executors
  <2>4. HolderOK(w)' /\ RecoveryOK(w)' /\ SelectedOK(w)'
    BY <1>1, <2>1 DEF HolderOK, RecoveryOK, SelectedOK, Executing, IInv, TypeOK
  <2>5. ASSUME NEW j \in Jobs PROVE CountOK(j)' /\ StatusOK(j)'
    <3>1. /\ CountOK(j) /\ StatusOK(j)
          /\ started[j] \in Nat /\ recovered[j] \in Nat
      BY DEF IInv, TypeOK
    <3>2. CASE j \in found
      <4>1. /\ job'[j] = row(j) /\ recovered'[j] = recovered[j] + 1
            /\ last'[j] = "recovered" /\ started' = started
        BY <2>1, <3>2
      <4>2. CountOK(j)'
        BY <2>2, <3>1, <3>2, <4>1 DEF CountOK
      <4>3. StatusOK(j)'
        BY <2>2, <3>1, <3>2, <4>1 DEF StatusOK, Active, Terminal, Finished
      <4> QED BY <4>2, <4>3
    <3>3. CASE j \notin found
      <4>1. /\ job'[j] = job[j] /\ recovered'[j] = recovered[j]
            /\ last'[j] = last[j] /\ started' = started
        BY <2>1, <3>1, <3>3
      <4> QED BY <3>1, <4>1 DEF CountOK, StatusOK
    <3> QED BY <3>2, <3>3
  <2>6. ASSUME NEW c \in Clients PROVE AskedOK(c)'
    <3>1. asked[c] \in Jobs \cup {NoJob} /\ AskedOK(c) BY DEF IInv, TypeOK
    <3> QED BY <2>1, <2>2, <3>1 DEF AskedOK
  <2> QED BY <2>3, <2>4, <2>5, <2>6 DEF IInv
<1>4. CASE Crash(w)
  <2>1. MaxCrashes # 0 /\ LetGo(w, "down") /\ seen' = [seen EXCEPT ![w] = NoTable]
        /\ UNCHANGED <<job, started, recovered, last, asked>>
    BY <1>4 DEF Crash, rows, IInv, TypeOK
  <2>2. Executors = {w} /\ Workers = {w}
    BY <2>1, SerialExecutors, <1>1 DEF Executors
  <2>3. \A e \in Executors : HolderOK(e)' /\ RecoveryOK(e)'
    BY <2>1, <2>2, <1>1, LetGoHolders
  <2>4. SelectedOK(w)'
    BY <1>1, <2>1 DEF LetGo, Hold, SelectedOK, IInv, TypeOK
  <2> QED BY <2>1, <2>2, <2>3, <2>4 DEF IInv, CountOK, StatusOK, AskedOK
<1> QED BY <1>2, <1>3, <1>4
LEMMA ClientInv ==
  ASSUME SerialEnvironment, IInv, TypeOK',
         \/ \E j \in Jobs : Create(j)
         \/ \E c \in Clients : \/ \E j \in Jobs : CancelRead(c, j)
                               \/ \E stamp \in BOOLEAN : CancelWrite(c, stamp)
  PROVE  IInv'
<1>1. ASSUME NEW j \in Jobs, Create(j) PROVE IInv'
  <2> DEFINE new == [job[j] EXCEPT !.status = "pending"]
  <2>1. /\ job[j].status = "absent" /\ job' = [job EXCEPT ![j] = new]
        /\ last' = [last EXCEPT ![j] = "created"]
        /\ UNCHANGED <<started, recovered, pc, task, snap, seen, asked>>
    BY <1>1 DEF Create, Record, execs, IInv, TypeOK
  <2>2. /\ new.status = "pending" /\ new.attempts = job[j].attempts
        /\ new.finished = job[j].finished /\ new.cancelled = job[j].cancelled
    <3>1. job[j] \in Row BY DEF IInv, TypeOK
    <3> QED BY <3>1 DEF Row
  <2> HIDE DEF new
  <2>3. /\ job'[j] = new /\ last'[j] = "created"
        /\ \A i \in Jobs \ {j} : job'[i] = job[i] /\ last'[i] = last[i]
    BY <2>1 DEF IInv, TypeOK
  <2>4. ASSUME NEW e \in Executors PROVE HolderOK(e)' /\ RecoveryOK(e)'
    <3>1. HolderOK(e) /\ RecoveryOK(e) BY DEF IInv
    <3>2. Executing(e) => task[e] \in Jobs \ {j}
      BY <2>1, <3>1 DEF HolderOK, Executing, IInv, TypeOK
    <3> QED BY <2>1, <2>3, <3>1, <3>2, HolderKept
  <2>5. ASSUME NEW w \in Workers PROVE SelectedOK(w)'
    <3>1. SelectedOK(w) BY DEF IInv
    <3> QED BY <2>1, <2>3, <3>1 DEF SelectedOK
  <2>6. ASSUME NEW i \in Jobs PROVE CountOK(i)' /\ StatusOK(i)'
    <3>1. /\ CountOK(i) /\ StatusOK(i)
          /\ started[i] \in Nat /\ recovered[i] \in Nat
      BY DEF IInv, TypeOK
    <3>2. CASE i # j
      BY <2>1, <2>3, <3>1, <3>2 DEF CountOK, StatusOK
    <3>3. CASE i = j
      <4>1. StatusOK(i)'
        BY <2>1, <2>2, <2>3, <3>1, <3>3 DEF StatusOK, Active, Terminal, Finished
      <4> QED BY <2>1, <2>2, <2>3, <3>1, <3>3, <4>1 DEF CountOK
    <3> QED BY <3>2, <3>3
  <2>7. ASSUME NEW c \in Clients PROVE AskedOK(c)'
    <3>1. asked[c] \in Jobs \cup {NoJob} /\ AskedOK(c) BY DEF IInv, TypeOK
    <3> QED BY <2>1, <2>2, <2>3, <3>1 DEF AskedOK
  <2> QED BY <2>4, <2>5, <2>6, <2>7 DEF IInv
<1>2. ASSUME NEW c \in Clients, NEW j \in Jobs, CancelRead(c, j) PROVE IInv'
  <2>1. /\ UNCHANGED <<job, started, recovered, last, pc, task, snap, seen>>
        /\ asked' = [asked EXCEPT ![c] = j] /\ job[j].status # "absent"
    BY <1>2 DEF CancelRead, rows, execs, Active
  <2>2. ASSUME NEW d \in Clients PROVE AskedOK(d)'
    <3>1. AskedOK(d) /\ asked'[d] = IF d = c THEN j ELSE asked[d]
      BY <2>1 DEF IInv, TypeOK
    <3> QED BY <2>1, <3>1 DEF AskedOK
  <2>3. \A e \in Executors : HolderOK(e)' /\ RecoveryOK(e)'
    BY <2>1, HolderKept DEF IInv
  <2> QED BY <2>1, <2>2, <2>3 DEF IInv, SelectedOK, CountOK, StatusOK
<1>3. ASSUME NEW c \in Clients, NEW stamp \in BOOLEAN, CancelWrite(c, stamp)
      PROVE  IInv'
  <2> DEFINE j == asked[c]
             new == [job[j] EXCEPT !.status = "cancelled", !.cancelled = TRUE,
                                   !.finished = @ \/ stamp]
  <2>1. j \in Jobs /\ job[j].status # "absent"
    BY <1>3 DEF CancelWrite, AskedOK, IInv, TypeOK
  <2>2. /\ job' = [job EXCEPT ![j] = new] /\ last' = [last EXCEPT ![j] = "cancelled"]
        /\ asked' = [asked EXCEPT ![c] = NoJob]
        /\ UNCHANGED <<started, recovered, pc, task, snap, seen>>
    <3>1. job' = [job EXCEPT ![j] = new]
      <4>1. DOMAIN job = Jobs /\ job[j] \in Row BY <2>1 DEF IInv, TypeOK
      <4> QED BY <1>3, <2>1, <4>1 DEF CancelWrite, Row
    <3> QED BY <1>3, <3>1 DEF CancelWrite, Record, execs
  <2>3. /\ new.status = "cancelled" /\ new.cancelled = TRUE
        /\ job[j].finished => new.finished
        /\ new.lockedBy = job[j].lockedBy /\ new.attempts = job[j].attempts
        /\ new.error = job[j].error
    <3>1. job[j] \in Row BY <2>1 DEF IInv, TypeOK
    <3> QED BY <3>1 DEF Row
  <2> HIDE DEF new, j
  <2>4. /\ job'[j] = new /\ last'[j] = "cancelled"
        /\ \A i \in Jobs \ {j} : job'[i] = job[i] /\ last'[i] = last[i]
    BY <2>1, <2>2 DEF IInv, TypeOK
  <2>5. ASSUME NEW e \in Executors PROVE HolderOK(e)' /\ RecoveryOK(e)'
    <3>1. HolderOK(e) /\ RecoveryOK(e) /\ (Executing(e) => task[e] \in Jobs)
      BY DEF IInv, TypeOK, Executing
    <3>2. RecoveryOK(e)' /\ (Executing(e)' <=> Executing(e))
      BY <2>2, <3>1 DEF RecoveryOK, Executing
    <3>3. HolderOK(e)'
      <4>1. CASE ~Executing(e)
        BY <3>2, <4>1 DEF HolderOK
      <4>2. CASE Executing(e) /\ task[e] = j
        <5>1. job'[task'[e]] = new /\ snap' = snap /\ pc' = pc
          BY <2>2, <2>4, <4>2
        <5> QED BY <5>1, <2>3, <3>1, <4>2 DEF HolderOK
      <4>3. CASE Executing(e) /\ task[e] # j
        <5>1. job'[task[e]] = job[task[e]]
          BY <2>4, <3>1, <4>3
        <5> QED BY <5>1, <2>2, <3>1, HolderKept
      <4> QED BY <4>1, <4>2, <4>3
    <3> QED BY <3>2, <3>3
  <2>6. ASSUME NEW w \in Workers PROVE SelectedOK(w)'
    <3>1. SelectedOK(w) BY DEF IInv
    <3> QED BY <2>2, <2>3, <2>4, <3>1 DEF SelectedOK
  <2>7. ASSUME NEW i \in Jobs PROVE CountOK(i)' /\ StatusOK(i)'
    <3>1. CountOK(i) /\ StatusOK(i) BY DEF IInv
    <3>2. CASE i # j
      BY <2>2, <2>4, <3>1, <3>2 DEF CountOK, StatusOK
    <3>3. CASE i = j
      BY <2>2, <2>3, <2>4, <3>1, <3>3 DEF CountOK, StatusOK, Active, Terminal, Finished
    <3> QED BY <3>2, <3>3
  <2>8. ASSUME NEW d \in Clients PROVE AskedOK(d)'
    <3>1. asked[d] \in Jobs \cup {NoJob} /\ AskedOK(d) BY DEF IInv, TypeOK
    <3>2. asked'[d] = NoJob \/ asked'[d] = asked[d]
      BY <2>2 DEF IInv, TypeOK
    <3> QED BY <2>3, <2>4, <3>1, <3>2 DEF AskedOK
  <2> QED BY <2>5, <2>6, <2>7, <2>8 DEF IInv
<1> QED BY <1>1, <1>2, <1>3
-----------------------------------------------------------------------------
(* What the invariant gives.                                                *)

LEMMA InvInit == SerialEnvironment /\ Init => IInv
<1> SUFFICES ASSUME SerialEnvironment, Init PROVE IInv
  OBVIOUS
<1>1. TypeOK
  BY TypeInit
<1>2. \A e \in Executors : pc[e] = "idle"
  BY DEF Init, SerialEnvironment
<1>3. /\ \A e \in Executors : HolderOK(e) /\ RecoveryOK(e)
      /\ \A w \in Workers : SelectedOK(w)
  BY <1>2 DEF HolderOK, RecoveryOK, SelectedOK, Executing, Executors
<1>4. \A j \in Jobs : /\ job[j] = AbsentRow /\ started[j] = 0
                      /\ recovered[j] = 0 /\ last[j] = "none"
  BY DEF Init, NoTable
<1>5. \A j \in Jobs : CountOK(j)
  BY <1>4 DEF CountOK, AbsentRow
<1>6. \A j \in Jobs : StatusOK(j)
  BY <1>4 DEF StatusOK, AbsentRow, Active, Terminal, Finished
<1>7. \A c \in Clients : AskedOK(c)
  BY DEF Init, AskedOK
<1> QED BY <1>1, <1>3, <1>5, <1>6, <1>7 DEF IInv

LEMMA InvStep == SerialEnvironment /\ IInv /\ [Next]_vars => IInv'
<1> SUFFICES ASSUME SerialEnvironment, IInv, [Next]_vars PROVE IInv'
  OBVIOUS
<1>1. TypeOK' /\ Runners = {}
  BY TypeStep DEF IInv, SerialEnvironment
<1>2. ASSUME NEW w \in Workers, ClaimOldest(w) PROVE IInv'
  BY <1>1, <1>2, ClaimInv DEF ClaimOldest, Executors
<1>3. ASSUME NEW t \in Triggers, NEW j \in Jobs, ClaimById(t, j) PROVE IInv'
  BY <1>1, <1>3, ClaimInv DEF ClaimById, Executors
<1>4. CASE UNCHANGED vars
  BY <1>4 DEF vars, rows, execs, IInv, TypeOK, HolderOK, RecoveryOK, SelectedOK,
              CountOK, StatusOK, AskedOK, Executing
<1> QED BY <1>1, <1>2, <1>3, <1>4, ExecuteInv, WorkerInv, ClientInv DEF Next

\* In a serial environment the inductive invariant always holds.
THEOREM Invariance == SerialEnvironment => (Spec => []IInv)
<1> SUFFICES ASSUME SerialEnvironment PROVE Spec => []IInv
  OBVIOUS
<1>1. Init => IInv
  BY InvInit
<1>2. IInv /\ [Next]_vars => IInv'
  BY InvStep
<1> QED BY <1>1, <1>2, PTL DEF Spec
LEMMA InvImplies ==
  ASSUME IInv
  PROVE  /\ ExclusiveExecution /\ OwnerIsRecorded
         /\ StartsBounded /\ AttemptsAreStarts
         /\ RowConsistent /\ AuditExplainsStatus
<1>1. ExclusiveExecution /\ OwnerIsRecorded
  BY DEF IInv, HolderOK, ExclusiveExecution, OwnerIsRecorded
<1>2. StartsBounded /\ AttemptsAreStarts
  BY DEF IInv, CountOK, StartsBounded, AttemptsAreStarts
<1>3. RowConsistent
  BY DEF IInv, StatusOK, RowConsistent
<1>4. AuditExplainsStatus
  <2> SUFFICES ASSUME NEW j \in Jobs
               PROVE CASE job[j].status = "absent"  -> last[j] = "none"
                       [] job[j].status = "pending" -> last[j] \in {"created", "retry_scheduled", "recovered"}
                       [] job[j].status = "running" -> last[j] = "started"
                       [] OTHER -> last[j] = job[j].status
    BY DEF AuditExplainsStatus
  <2>1. StatusOK(j) /\ job[j].status \in {"absent"} \cup Active \cup Terminal
    BY DEF IInv, TypeOK, Row
  <2> QED BY <2>1 DEF StatusOK, Active
<1> QED BY <1>1, <1>2, <1>3, <1>4

\* The claim is exclusive: two executors never run one job, whatever cancel
\* requests do to the row meanwhile.
THEOREM Exclusive == SerialEnvironment => (Spec => []ExclusiveExecution)
BY Invariance, InvImplies, PTL

\* Retries are bounded by max_attempts and the recovered interruptions.
THEOREM BoundedStarts == SerialEnvironment => (Spec => []StartsBounded)
BY Invariance, InvImplies, PTL

\* attempt_count counts exactly the executions the event log shows.
THEOREM ExactAttempts == SerialEnvironment => (Spec => []AttemptsAreStarts)
BY Invariance, InvImplies, PTL

\* The partial writes of several transactions never leave a row whose columns
\* contradict each other.
THEOREM ConsistentRows == SerialEnvironment => (Spec => []RowConsistent)
BY Invariance, InvImplies, PTL

\* The newest lifecycle event always explains the status.
THEOREM ExplainedStatus == SerialEnvironment => (Spec => []AuditExplainsStatus)
BY Invariance, InvImplies, PTL
-----------------------------------------------------------------------------
(* The queue implements JobLifecycle: each step of the queue is a step of    *)
(* the lifecycle under the refinement mapping of Lifecycle, or a stutter.    *)

Held(j) == \E e \in Executors : Executing(e) /\ task[e] = j
Status == [j \in Jobs |-> job[j].status]
Open == [j \in Jobs |-> Held(j)]
Budget == [j \in Jobs |-> MaxAttempts + recovered[j]]

\* A step that changes one job at most, seen through the mapping.
LEMMA OneJobStep ==
  ASSUME NEW j \in Jobs, NEW s, NEW b \in BOOLEAN,
         job'[j].status = s, Held(j)' = b,
         \A i \in Jobs \ {j} : job'[i].status = job[i].status /\ Held(i)' = Held(i)
  PROVE  /\ Status' = [Status EXCEPT ![j] = s]
         /\ Open' = [Open EXCEPT ![j] = b]
<1>1. Status' = [Status EXCEPT ![j] = s]
  BY DEF Status
<1>2. Open' = [Open EXCEPT ![j] = b]
  BY DEF Open
<1> QED BY <1>1, <1>2

\* Nobody but e executes the job of an executing e, and only a running or
\* cancelled job is held.
LEMMA HeldByOne ==
  ASSUME IInv
  PROVE  /\ \A j \in Jobs : Held(j) => job[j].status \in {"running", "cancelled"}
         /\ \A e, f \in Executors :
              Executing(e) /\ Executing(f) /\ task[e] = task[f] => e = f
BY InvImplies DEF Held, OwnerIsRecorded, ExclusiveExecution

LEMMA ClaimSimulates ==
  ASSUME IInv, NEW e \in Executors, NEW j \in Jobs, Claim(e, j)
  PROVE  Lifecycle!Begin(j)
<1> DEFINE new == [job[j] EXCEPT !.status = "running", !.lockedBy = e,
                                 !.attempts = @ + 1]
<1>1. /\ pc[e] = "idle" /\ job[j].status = "pending"
      /\ job' = [job EXCEPT ![j] = new]
      /\ pc' = [pc EXCEPT ![e] = "exec"] /\ task' = [task EXCEPT ![e] = j]
      /\ started' = [started EXCEPT ![j] = started[j] + 1]
      /\ UNCHANGED recovered
  BY DEF Claim, ClaimIf, Hold, CountStart
<1>2. new.status = "running"
  <2>1. job[j] \in Row BY DEF IInv, TypeOK
  <2> QED BY <2>1, ClaimFields
<1> HIDE DEF new
<1>3. job'[j].status = "running" /\ \A i \in Jobs \ {j} : job'[i] = job[i]
  BY <1>1, <1>2 DEF IInv, TypeOK
<1>4. Held(j)' /\ \A i \in Jobs \ {j} : Held(i)' = Held(i)
  BY <1>1 DEF Held, Executing, IInv, TypeOK
<1>5. ~Held(j)
  BY <1>1, HeldByOne
<1>6. CountOK(j) BY DEF IInv
<1>7. started[j] < MaxAttempts + recovered[j]
  BY <1>1, <1>6 DEF CountOK
<1>8. /\ Status' = [Status EXCEPT ![j] = "running"]
      /\ Open' = [Open EXCEPT ![j] = TRUE]
  BY <1>3, <1>4, OneJobStep
<1> QED BY <1>1, <1>5, <1>7, <1>8 DEF Lifecycle!Begin, Status, Open, Held, Budget

\* When e lets its job go, exactly that job is no longer held.
LEMMA LetGoHeld ==
  ASSUME IInv, NEW e \in Executors, Executing(e), NEW where \in {"idle", "down"},
         LetGo(e, where), NEW j \in Jobs, j = task[e]
  PROVE  /\ Held(j) /\ Held(j)' = FALSE
         /\ \A i \in Jobs \ {j} : Held(i)' = Held(i)
<1>1. /\ pc' = [pc EXCEPT ![e] = where] /\ task' = [task EXCEPT ![e] = NoJob]
      /\ DOMAIN pc = Executors /\ DOMAIN task = Executors
  BY DEF LetGo, Hold, IInv, TypeOK
<1>2. /\ ~Executing(e)'
      /\ \A f \in Executors \ {e} : task'[f] = task[f] /\ (Executing(f)' <=> Executing(f))
  BY <1>1 DEF Executing
<1>3. \A f \in Executors \ {e} : Executing(f) => task[f] # j
  BY HeldByOne
<1>4. ASSUME NEW i \in Jobs \ {j} PROVE Held(i)' = Held(i)
  BY <1>2, <1>4 DEF Held
<1> QED BY <1>2, <1>3, <1>4 DEF Held

LEMMA EndSimulates ==
  ASSUME IInv, NEW e \in Executors, NEW new, NEW event, EndsBy(e, new, event)
  PROVE  \E j \in Jobs : Lifecycle!End(j, new.status)
<1>0. PICK j \in Jobs : j = task[e]
  BY DEF EndsBy, IInv, TypeOK, Executing
<1> DEFINE r == Flush(job[j], snap[e], new)
<1>1. /\ job' = [job EXCEPT ![j] = r] /\ LetGo(e, "idle") /\ Executing(e)
      /\ UNCHANGED <<started, recovered>>
  BY <1>0 DEF EndsBy, Commit
<1>2. /\ r.status = new.status
      /\ r.attempts = job[j].attempts
      /\ new.status = "pending" => r.attempts < MaxAttempts
  BY <1>0, CommitRow DEF EndsBy
<1>3. Held(j) /\ Held(j)' = FALSE /\ \A i \in Jobs \ {j} : Held(i)' = Held(i)
  BY <1>0, <1>1, LetGoHeld
<1> HIDE DEF r
<1>4. job'[j].status = new.status /\ \A i \in Jobs \ {j} : job'[i] = job[i]
  BY <1>1, <1>2 DEF IInv, TypeOK
<1>5. /\ Status' = [Status EXCEPT ![j] = new.status]
      /\ Open' = [Open EXCEPT ![j] = FALSE]
  BY <1>3, <1>4, OneJobStep
<1>6. new.status = "pending" => started[j] < MaxAttempts + recovered[j]
  <2>1. CountOK(j) /\ recovered[j] \in Nat /\ started[j] \in Nat
    BY <1>2 DEF IInv, TypeOK
  <2> QED BY <2>1, <1>2 DEF CountOK
<1>7. new.status \in Terminal \/ new.status = "pending"
  BY DEF EndsBy, TerminalCopy
<1>8. Lifecycle!End(j, new.status)
  BY <1>1, <1>2, <1>3, <1>5, <1>6, <1>7
  DEF Lifecycle!End, Lifecycle!Ends, Status, Open, Held, Budget, Terminal, Finished
<1> QED BY <1>8
\* A step that changes no status, no holder and no count is a stutter.
LEMMA Stutters ==
  ASSUME UNCHANGED <<job, started, recovered>>,
         \A j \in Jobs : Held(j)' = Held(j)
  PROVE  UNCHANGED Lifecycle!vars
<1>1. Open' = Open BY DEF Open
<1> QED BY <1>1 DEF Lifecycle!vars, Open, Held

LEMMA ExecuteSimulates ==
  ASSUME SerialEnvironment, IInv, NEW e \in Executors, Execute(e)
  PROVE  [Lifecycle!Next]_Lifecycle!vars
<1>0. TypeOK BY DEF IInv
<1>1. ASSUME NEW new, NEW event, EndsBy(e, new, event) PROVE Lifecycle!Next
  <2>1. PICK j \in Jobs : Lifecycle!End(j, new.status)
    BY <1>1, EndSimulates
  <2>2. new.status \in Lifecycle!Ends \cup {"pending"}
    BY <1>1 DEF EndsBy, TerminalCopy, Lifecycle!Ends, Terminal, Finished
  <2> QED BY <2>1, <2>2 DEF Lifecycle!Next
<1>2. ASSUME NEW outcome \in Terminal, Complete(e, outcome) PROVE Lifecycle!Next
  BY <1>0, <1>1, <1>2, EndCopies
<1>3. CASE Retry(e) \/ Fail(e)
  BY <1>0, <1>1, <1>3, EndCopies
<1>4. CASE Checkpoint(e) \/ Reload(e)
  <2>1. /\ UNCHANGED <<job, started, recovered, task>>
        /\ \A f \in Executors : Executing(f)' <=> Executing(f)
    BY <1>4 DEF Checkpoint, Reload, rows, Executing, IInv, TypeOK
  <2>2. \A j \in Jobs : Held(j)' = Held(j)
    BY <2>1 DEF Held
  <2> QED BY <2>1, <2>2, Stutters
<1>5. CASE CommitLocked(e)
  <2>1. LetGo(e, "idle") /\ Executing(e) /\ UNCHANGED <<job, started, recovered>>
    BY <1>5 DEF CommitLocked, rows
  <2>2. PICK j \in Jobs : j = task[e]
    BY <2>1 DEF IInv, TypeOK, Executing
  <2>3. /\ Held(j) /\ Held(j)' = FALSE
        /\ \A i \in Jobs \ {j} : Held(i)' = Held(i)
    BY <2>1, <2>2, LetGoHeld
  <2>4. Open' = [Open EXCEPT ![j] = FALSE]
    BY <2>1, <2>3, OneJobStep
  <2>5. Lifecycle!Vanish(j)
    BY <2>1, <2>3, <2>4 DEF Lifecycle!Vanish, Open, Held
  <2> QED BY <2>5 DEF Lifecycle!Next
<1>6. Runners = {}
  BY DEF SerialEnvironment
<1> QED BY <1>2, <1>3, <1>4, <1>5, <1>6 DEF Execute, RunComplete, RunFail

LEMMA WorkerSimulates ==
  ASSUME SerialEnvironment, IInv, NEW w \in Workers,
         Start(w) \/ Recover(w) \/ Crash(w)
  PROVE  [Lifecycle!Next]_Lifecycle!vars
<1>1. w \in Executors /\ RecoveryOK(w) /\ SelectedOK(w)
  BY DEF IInv, Executors
<1>2. CASE Start(w)
  <2>1. /\ UNCHANGED <<job, started, recovered, task>>
        /\ \A f \in Executors : Executing(f)' <=> Executing(f)
    BY <1>1, <1>2 DEF Start, rows, Executing, IInv, TypeOK
  <2>2. \A j \in Jobs : Held(j)' = Held(j)
    BY <2>1 DEF Held
  <2> QED BY <2>1, <2>2, Stutters
<1>3. CASE Recover(w)
  <2> DEFINE found == {j \in Jobs : seen[w][j].status = "running"}
             again(j) == [seen[w][j] EXCEPT !.status = "pending", !.lockedBy = NoOne]
             row(j) == Flush(job[j], seen[w][j], again(j))
  <2>1. /\ job' = [j \in Jobs |-> IF j \in found THEN row(j) ELSE job[j]]
        /\ recovered' = [j \in Jobs |-> recovered[j] + IF j \in found THEN 1 ELSE 0]
        /\ pc[w] = "recover" /\ pc' = [pc EXCEPT ![w] = "idle"]
        /\ UNCHANGED <<started, task>>
    BY <1>3 DEF Recover
  <2>2. ASSUME NEW j \in Jobs, j \in found PROVE row(j).status = "pending"
    <3>1. job[j] \in Row /\ seen[w][j] \in Row
      BY DEF IInv, TypeOK
    <3>2. again(j) \in Row /\ again(j).status = "pending"
      BY <3>1 DEF Row, Active
    <3>3. seen[w][j].status = "running"
      BY <2>2
    <3> HIDE DEF again
    <3> QED BY <3>1, <3>2, <3>3, FlushFields
  <2>3. \A j \in found : started[j] > 0 /\ job[j].status \in {"running", "cancelled"}
    BY <1>1, <2>1 DEF SelectedOK
  <2>10. PICK S \in SUBSET Jobs : S = found
    OBVIOUS
  <2> HIDE DEF found, row, again
  <2>4. Executors = {w}
    BY <1>1, <2>1 DEF RecoveryOK
  <2>5. \A j \in Jobs : Held(j) = FALSE /\ Held(j)' = FALSE
    BY <2>1, <2>4 DEF Held, Executing, IInv, TypeOK
  <2>6. Status' = [j \in Jobs |-> IF j \in found THEN "pending" ELSE Status[j]]
    BY <2>1, <2>2 DEF Status
  <2>7. Budget' = [j \in Jobs |-> IF j \in found THEN Budget[j] + 1 ELSE Budget[j]]
    <3>1. ASSUME NEW j \in Jobs
          PROVE  Budget'[j] = IF j \in found THEN Budget[j] + 1 ELSE Budget[j]
      <4>1. recovered[j] \in Nat /\ recovered'[j] = recovered[j] + IF j \in found THEN 1 ELSE 0
        BY <2>1 DEF IInv, TypeOK
      <4>2. Budget'[j] = MaxAttempts + recovered'[j] /\ Budget[j] = MaxAttempts + recovered[j]
        BY DEF Budget
      <4> QED BY <4>1, <4>2
    <3>2. Budget' = [j \in Jobs |-> Budget'[j]]
      BY DEF Budget
    <3> QED BY <3>1, <3>2
  <2>8. Open' = Open /\ \A j \in Jobs : Open[j] = FALSE
    BY <2>5 DEF Open
  <2>9. Lifecycle!Requeue(S)
    BY <2>1, <2>3, <2>10, <2>6, <2>7, <2>8 DEF Lifecycle!Requeue, Status, Budget, Open, Held
  <2> QED BY <2>9 DEF Lifecycle!Next
<1>4. CASE Crash(w)
  <2>1. LetGo(w, "down") /\ UNCHANGED <<job, started, recovered>>
    BY <1>4 DEF Crash, rows
  <2>2. CASE Executing(w)
    <3>1. PICK j \in Jobs : j = task[w]
      BY <1>1, <2>2 DEF IInv, TypeOK, Executing
    <3>2. /\ Held(j) /\ Held(j)' = FALSE
          /\ \A i \in Jobs \ {j} : Held(i)' = Held(i)
      BY <1>1, <2>1, <2>2, <3>1, LetGoHeld
    <3>3. Open' = [Open EXCEPT ![j] = FALSE]
      BY <2>1, <3>2, OneJobStep
    <3>4. Lifecycle!Vanish(j)
      BY <2>1, <3>2, <3>3 DEF Lifecycle!Vanish, Open, Held
    <3> QED BY <3>4 DEF Lifecycle!Next
  <2>3. CASE ~Executing(w)
    <3>1. ~Executing(w)' /\ \A f \in Executors \ {w} :
            (Executing(f)' <=> Executing(f)) /\ task'[f] = task[f]
      BY <1>1, <2>1, <2>3 DEF LetGo, Hold, Executing, IInv, TypeOK
    <3>2. \A j \in Jobs : Held(j)' = Held(j)
      BY <2>3, <3>1 DEF Held
    <3> QED BY <2>1, <3>2, Stutters
  <2> QED BY <2>2, <2>3
<1> QED BY <1>2, <1>3, <1>4
LEMMA ClientSimulates ==
  ASSUME IInv,
         \/ \E j \in Jobs : Create(j)
         \/ \E c \in Clients : \/ \E j \in Jobs : CancelRead(c, j)
                               \/ \E stamp \in BOOLEAN : CancelWrite(c, stamp)
  PROVE  [Lifecycle!Next]_Lifecycle!vars
<1>1. ASSUME NEW j \in Jobs, Create(j) PROVE Lifecycle!Next
  <2>1. /\ job[j].status = "absent"
        /\ job' = [job EXCEPT ![j] = [job[j] EXCEPT !.status = "pending"]]
        /\ UNCHANGED <<started, recovered, pc, task>>
    BY <1>1 DEF Create, execs, IInv, TypeOK
  <2>2. job'[j].status = "pending" /\ \A i \in Jobs \ {j} : job'[i] = job[i]
    <3>1. job[j] \in Row /\ DOMAIN job = Jobs BY DEF IInv, TypeOK
    <3> QED BY <2>1, <3>1 DEF Row
  <2>3. Status' = [Status EXCEPT ![j] = "pending"] /\ Open' = Open
    <3>1. \A i \in Jobs : Held(i)' = Held(i)
      BY <2>1 DEF Held, Executing
    <3> QED BY <2>2, <3>1 DEF Status, Open
  <2>4. Lifecycle!Submit(j)
    BY <2>1, <2>3 DEF Lifecycle!Submit, Status, Open, Held
  <2> QED BY <2>4 DEF Lifecycle!Next
<1>2. ASSUME NEW c \in Clients, NEW j \in Jobs, CancelRead(c, j)
      PROVE  UNCHANGED Lifecycle!vars
  <2>1. UNCHANGED <<job, started, recovered, pc, task>>
    BY <1>2 DEF CancelRead, rows, execs
  <2>2. \A i \in Jobs : Held(i)' = Held(i)
    BY <2>1 DEF Held, Executing
  <2> QED BY <2>1, <2>2, Stutters
<1>3. ASSUME NEW c \in Clients, NEW stamp \in BOOLEAN, CancelWrite(c, stamp)
      PROVE  Lifecycle!Next
  <2>1. PICK j \in Jobs : j = asked[c] /\ job[j].status # "absent"
    BY <1>3 DEF CancelWrite, AskedOK, IInv, TypeOK
  <2>2. /\ job'[j].status = "cancelled" /\ \A i \in Jobs \ {j} : job'[i] = job[i]
        /\ UNCHANGED <<started, recovered, pc, task>>
    <3>1. job[j] \in Row /\ DOMAIN job = Jobs BY DEF IInv, TypeOK
    <3>2. job' = [job EXCEPT ![j] = [job[j] EXCEPT !.status = "cancelled",
                    !.cancelled = TRUE, !.finished = @ \/ stamp]]
      BY <1>3, <2>1, <3>1 DEF CancelWrite
    <3>3. job'[j].status = "cancelled"
      BY <3>1, <3>2 DEF Row
    <3> QED BY <1>3, <3>1, <3>2, <3>3 DEF CancelWrite, execs
  <2>3. Status' = [Status EXCEPT ![j] = "cancelled"] /\ Open' = Open
    <3>1. \A i \in Jobs : Held(i)' = Held(i)
      BY <2>2 DEF Held, Executing
    <3> QED BY <2>2, <3>1 DEF Status, Open
  <2>4. Lifecycle!Cancel(j)
    BY <2>1, <2>2, <2>3 DEF Lifecycle!Cancel, Status, Open, Held
  <2> QED BY <2>4 DEF Lifecycle!Next
<1> QED BY <1>1, <1>2, <1>3

LEMMA StepSimulates ==
  SerialEnvironment /\ IInv /\ [Next]_vars => [Lifecycle!Next]_Lifecycle!vars
<1> SUFFICES ASSUME SerialEnvironment, IInv, [Next]_vars
             PROVE  [Lifecycle!Next]_Lifecycle!vars
  OBVIOUS
<1>1. ASSUME NEW e \in Executors, NEW j \in Jobs, Claim(e, j) PROVE Lifecycle!Next
  BY <1>1, ClaimSimulates DEF Lifecycle!Next
<1>2. ASSUME NEW w \in Workers, ClaimOldest(w) PROVE Lifecycle!Next
  BY <1>1, <1>2 DEF ClaimOldest, Executors
<1>3. ASSUME NEW t \in Triggers, NEW j \in Jobs, ClaimById(t, j) PROVE Lifecycle!Next
  BY <1>1, <1>3 DEF ClaimById, Executors
<1>4. CASE UNCHANGED vars
  <2>1. UNCHANGED <<job, started, recovered, pc, task>>
    BY <1>4 DEF vars, rows, execs
  <2>2. \A i \in Jobs : Held(i)' = Held(i)
    BY <2>1 DEF Held, Executing
  <2> QED BY <2>1, <2>2, Stutters
<1>5. Runners = {}
  BY DEF SerialEnvironment
<1> QED BY <1>2, <1>3, <1>4, <1>5, ExecuteSimulates, WorkerSimulates, ClientSimulates
    DEF Next

\* In a serial environment the queue with its ORM copies, claims, recovery and
\* cancel requests implements the lifecycle of JobLifecycle.
THEOREM Refinement == SerialEnvironment => (Spec => ImplementsLifecycle)
<1> SUFFICES ASSUME SerialEnvironment PROVE Spec => Lifecycle!Spec
  BY DEF ImplementsLifecycle
<1>1. Init => Lifecycle!Init
  <2> SUFFICES ASSUME Init PROVE Lifecycle!Init
    OBVIOUS
  <2>1. \A e \in Executors : ~Executing(e)
    BY DEF Init, Executing
  <2>2. /\ Open = [j \in Jobs |-> FALSE] /\ Status = [j \in Jobs |-> "absent"]
        /\ Budget = [j \in Jobs |-> MaxAttempts]
    BY <2>1 DEF Init, Open, Held, Status, Budget, NoTable, AbsentRow
  <2> QED BY <2>2 DEF Init, Lifecycle!Init, Open, Held, Status, Budget
<1>2. Init => IInv
  BY InvInit
<1>3. IInv /\ [Next]_vars => IInv'
  BY InvStep
<1>4. IInv /\ [Next]_vars => [Lifecycle!Next]_Lifecycle!vars
  BY StepSimulates
<1> QED BY <1>1, <1>2, <1>3, <1>4, PTL DEF Spec, Lifecycle!Spec

\* A finished job is never executed again.
THEOREM FinishedForGood == SerialEnvironment => (Spec => FinishedStays)
<1> SUFFICES ASSUME SerialEnvironment PROVE Spec => FinishedStays
  OBVIOUS
<1> DEFINE Stay == \A j \in Jobs : job[j].status \in Finished =>
                     job'[j].status \in {job[j].status, "cancelled"}
<1>1. Init => IInv
  BY InvInit
<1>2. IInv /\ [Next]_vars => IInv'
  BY InvStep
<1>3. IInv /\ [Next]_vars => [Stay]_vars
  <2> SUFFICES ASSUME IInv, [Next]_vars, NEW j \in Jobs, job[j].status \in Finished
               PROVE  job'[j].status \in {job[j].status, "cancelled"}
    OBVIOUS
  <2>1. Lifecycle!Next \/ UNCHANGED Lifecycle!vars
    BY StepSimulates
  <2>2. Open[j] = FALSE
    BY HeldByOne DEF Open, Finished, Held
  <2>3. Status[j] \in Finished
    BY DEF Status
  <2>4. CASE UNCHANGED Lifecycle!vars
    BY <2>3, <2>4 DEF Lifecycle!vars, Status
  <2>5. ASSUME NEW i \in Jobs,
               \/ Lifecycle!Submit(i) \/ Lifecycle!Begin(i)
               \/ Lifecycle!Vanish(i) \/ Lifecycle!Cancel(i)
        PROVE  job'[j].status \in {job[j].status, "cancelled"}
    BY <2>3, <2>5 DEF Lifecycle!Submit, Lifecycle!Begin, Lifecycle!Vanish,
                      Lifecycle!Cancel, Status, Finished
  <2>6. ASSUME NEW i \in Jobs, NEW s \in Lifecycle!Ends \cup {"pending"}, Lifecycle!End(i, s)
        PROVE  job'[j].status \in {job[j].status, "cancelled"}
    BY <2>2, <2>3, <2>6 DEF Lifecycle!End, Status, Open, Held
  <2>7. ASSUME NEW S \in SUBSET Jobs, Lifecycle!Requeue(S)
        PROVE  job'[j].status \in {job[j].status, "cancelled"}
    BY <2>3, <2>7 DEF Lifecycle!Requeue, Status, Finished
  <2>8. CASE Lifecycle!Next
    BY <2>5, <2>6, <2>7, <2>8 DEF Lifecycle!Next
  <2> QED BY <2>1, <2>4, <2>8
<1> QED BY <1>1, <1>2, <1>3, PTL DEF Spec, FinishedStays

-----------------------------------------------------------------------------
(* A cancelled workflow. No environment is assumed here.                    *)

\* The workflow j is cancelled for good: its cancellation is on record, it has no result,
\* and whoever holds it has a check of the row still before it, or is giving up.
Stopped(j) ==
  /\ job[j].cancelled
  /\ job[j].status \notin {"succeeded", "partial"}
  /\ \A e \in Executors : task[e] = j =>
       pc[e] \in {"read", "abort"} \/ (pc[e] = "exec" /\ checks[e] = 0)

\* A terminal commit whose copy leaves the cancellation alone, and that is no result for j.
LEMMA CommitStopped ==
  ASSUME TypeOK, NEW j \in Workflow, Stopped(j),
         NEW e \in Executors, Executing(e), NEW new \in Row, NEW event,
         new.cancelled = snap[e].cancelled,
         task[e] = j => new.status \notin {"succeeded", "partial"},
         Commit(e, new, event)
  PROVE  Stopped(j)'
<1> j \in Jobs
  OBVIOUS
<1>1. task[e] \in Jobs /\ job[task[e]] \in Row /\ snap[e] \in Row
  BY DEF TypeOK, Executing
<1> DEFINE r == Flush(job[task[e]], snap[e], new)
<1>2. /\ job' = [job EXCEPT ![task[e]] = r]
      /\ task' = [task EXCEPT ![e] = NoJob]
      /\ pc' = [pc EXCEPT ![e] = "idle"]
      /\ checks' = [checks EXCEPT ![e] = 0]
  BY DEF Commit, LetGo, Hold
<1>3. /\ r.cancelled = job[task[e]].cancelled
      /\ r.status \in {new.status, job[task[e]].status}
  BY <1>1, FlushFields
<1>4. job[j].cancelled' /\ job[j].status' \notin {"succeeded", "partial"}
  <2> HIDE DEF r
  <2> QED BY <1>1, <1>2, <1>3 DEF TypeOK, Stopped
<1>5. \A x \in Executors : task'[x] = j => x # e /\ task[x] = j
  BY <1>2 DEF TypeOK
<1> QED BY <1>2, <1>4, <1>5 DEF TypeOK, Stopped

LEMMA ExecuteStopped ==
  ASSUME TypeOK, NEW j \in Workflow, Stopped(j), NEW e \in Executors, Execute(e)
  PROVE  Stopped(j)'
<1> j \in Jobs /\ j \in Cooperative /\ snap[e] \in Row
  BY DEF Cooperative, TypeOK
<1>1. \A outcome : Executing(e) /\ outcome \in Outcomes(e) /\ task[e] = j =>
                   outcome \notin {"succeeded", "partial"}
  BY DEF Stopped, Outcomes, Executing, WorkflowChecks
<1>2. CASE Checkpoint(e)
  <2>1. /\ job' = job /\ task' = task
        /\ pc' = [pc EXCEPT ![e] = IF job[task[e]].status = "cancelled" \/ job[task[e]].cancelled
                                   THEN "abort" ELSE "exec"]
        /\ checks' = [checks EXCEPT ![e] = IF task[e] \in Workflow THEN @ + 1 ELSE @]
    BY <1>2 DEF Checkpoint, rows
  <2>2. ASSUME NEW x \in Executors, task[x] = j
        PROVE  pc'[x] \in {"read", "abort"} \/ (pc'[x] = "exec" /\ checks'[x] = 0)
    <3>1. CASE x = e
      BY <2>1, <2>2, <3>1 DEF TypeOK, Stopped
    <3>2. CASE x # e
      BY <2>1, <2>2, <3>2 DEF TypeOK, Stopped
    <3> QED BY <3>1, <3>2
  <2> QED BY <2>1, <2>2 DEF Stopped
<1>3. CASE Reload(e)
  BY <1>3 DEF Reload, Stopped, rows
<1>4. ASSUME NEW outcome \in Terminal, Complete(e, outcome) PROVE Stopped(j)'
  <2> DEFINE new == [snap[e] EXCEPT !.status = outcome, !.finished = TRUE,
                                    !.error = FALSE, !.lockedBy = NoOne]
  <2>1. new \in Row /\ new.cancelled = snap[e].cancelled /\ new.status = outcome
    BY DEF Row
  <2>2. Executing(e) /\ outcome \in Outcomes(e) /\ Commit(e, new, outcome)
    BY <1>4 DEF Complete
  <2> HIDE DEF new
  <2> QED BY <1>1, <2>1, <2>2, CommitStopped
<1>5. ASSUME NEW outcome \in Terminal, RunComplete(e, outcome) PROVE Stopped(j)'
  <2> DEFINE done == [snap[e] EXCEPT !.status = outcome, !.finished = TRUE]
             new == IF task[e] \in Workflow
                    THEN [done EXCEPT !.error = FALSE, !.lockedBy = NoOne] ELSE done
  <2>1. new \in Row /\ new.cancelled = snap[e].cancelled /\ new.status = outcome
    BY DEF Row
  <2>2. Executing(e) /\ outcome \in Outcomes(e) /\ Commit(e, new, outcome)
    BY <1>5 DEF RunComplete
  <2> HIDE DEF new
  <2> QED BY <1>1, <2>1, <2>2, CommitStopped
<1>6. CASE Retry(e)
  <2> DEFINE new == [snap[e] EXCEPT !.status = "pending", !.error = TRUE, !.lockedBy = NoOne]
  <2>1. new \in Row /\ new.cancelled = snap[e].cancelled /\ new.status = "pending"
    BY DEF Row, Active
  <2>2. Executing(e) /\ Commit(e, new, "retry_scheduled")
    BY <1>6 DEF Retry, Executing
  <2> HIDE DEF new
  <2> QED BY <2>1, <2>2, CommitStopped
<1>7. CASE Fail(e)
  <2> DEFINE new == [snap[e] EXCEPT !.status = "failed", !.error = TRUE,
                                    !.finished = TRUE, !.lockedBy = NoOne]
  <2>1. new \in Row /\ new.cancelled = snap[e].cancelled /\ new.status = "failed"
    BY DEF Row, Terminal, Finished
  <2>2. Executing(e) /\ Commit(e, new, "failed")
    BY <1>7 DEF Fail, Executing
  <2> HIDE DEF new
  <2> QED BY <2>1, <2>2, CommitStopped
<1>8. CASE RunFail(e)
  <2> DEFINE new == [snap[e] EXCEPT !.status = "failed", !.error = TRUE, !.finished = TRUE]
  <2>1. new \in Row /\ new.cancelled = snap[e].cancelled /\ new.status = "failed"
    BY DEF Row, Terminal, Finished
  <2>2. Executing(e) /\ Commit(e, new, "failed")
    BY <1>8 DEF RunFail, Executing
  <2> HIDE DEF new
  <2> QED BY <2>1, <2>2, CommitStopped
<1>9. CASE CommitLocked(e)
  BY <1>9 DEF CommitLocked, LetGo, Hold, rows, TypeOK, Stopped
<1> QED BY <1>2, <1>3, <1>4, <1>5, <1>6, <1>7, <1>8, <1>9 DEF Execute

\* A claim and a /run start leave the cancellation on record and begin before the first check.
LEMMA BeginStopped ==
  ASSUME TypeOK, NEW j \in Workflow, Stopped(j), NEW e \in Executors,
         \/ \E i \in Jobs : Claim(e, i) \/ RunRead(e, i)
         \/ RunStart(e)
  PROVE  Stopped(j)'
<1> j \in Jobs
  OBVIOUS
<1>1. ASSUME NEW i \in Jobs, Claim(e, i) PROVE Stopped(j)'
  <2> DEFINE new == [job[i] EXCEPT !.status = "running", !.lockedBy = e, !.attempts = @ + 1]
  <2>1. /\ job' = [job EXCEPT ![i] = new] /\ task' = [task EXCEPT ![e] = i]
        /\ pc' = [pc EXCEPT ![e] = "exec"] /\ checks' = [checks EXCEPT ![e] = 0]
    BY <1>1 DEF Claim, ClaimIf, Hold
  <2>2. new.cancelled = job[i].cancelled /\ new.status = "running"
    <3>1. job[i] \in Row BY DEF TypeOK
    <3> QED BY <3>1 DEF Row
  <2> HIDE DEF new
  <2> QED BY <2>1, <2>2 DEF TypeOK, Stopped
<1>2. ASSUME NEW i \in Jobs, RunRead(e, i) PROVE Stopped(j)'
  BY <1>2 DEF RunRead, Hold, rows, TypeOK, Stopped
<1>3. CASE RunStart(e)
  <2> DEFINE i == task[e]
             new == [snap[e] EXCEPT !.status = "running", !.attempts = @ + 1]
             r == Flush(job[i], snap[e], new)
  <2>1. i \in Jobs /\ job[i] \in Row /\ snap[e] \in Row
    BY <1>3 DEF RunStart, TypeOK
  <2>2. new \in Row /\ new.cancelled = snap[e].cancelled /\ new.status = "running"
    BY <2>1, StartedIsRow DEF Row
  <2>3. /\ job' = [job EXCEPT ![i] = r] /\ task' = [task EXCEPT ![e] = i]
        /\ pc' = [pc EXCEPT ![e] = "exec"] /\ checks' = [checks EXCEPT ![e] = 0]
    BY <1>3 DEF RunStart, Hold
  <2> HIDE DEF new
  <2>4. r.cancelled = job[i].cancelled /\ r.status \in {"running", job[i].status}
    BY <2>1, <2>2, FlushFields
  <2> HIDE DEF r, i
  <2> QED BY <2>1, <2>3, <2>4 DEF TypeOK, Stopped
<1> QED BY <1>1, <1>2, <1>3

LEMMA WorkerStopped ==
  ASSUME TypeOK, NEW j \in Workflow, Stopped(j), NEW w \in Workers,
         Start(w) \/ Recover(w) \/ Crash(w)
  PROVE  Stopped(j)'
<1> j \in Jobs /\ w \in Executors
  BY DEF Executors
<1>1. CASE Start(w)
  BY <1>1 DEF Start, rows, TypeOK, Stopped
<1>2. CASE Recover(w)
  <2> DEFINE again == [seen[w][j] EXCEPT !.status = "pending", !.lockedBy = NoOne]
             r == Flush(job[j], seen[w][j], again)
  <2>1. /\ job'[j] \in {r, job[j]}
        /\ pc[w] = "recover" /\ pc' = [pc EXCEPT ![w] = "idle"]
        /\ task' = task /\ checks' = checks
    BY <1>2 DEF Recover
  <2>2. job[j] \in Row /\ seen[w][j] \in Row
    BY DEF TypeOK
  <2>3. again \in Row /\ again.cancelled = seen[w][j].cancelled /\ again.status = "pending"
    BY <2>2 DEF Row, Active
  <2> HIDE DEF again
  <2>4. r.cancelled = job[j].cancelled /\ r.status \in {"pending", job[j].status}
    BY <2>2, <2>3, FlushFields
  <2> HIDE DEF r
  <2>5. task[w] # j
    BY <2>1 DEF TypeOK
  <2> QED BY <2>1, <2>4, <2>5 DEF TypeOK, Stopped
<1>3. CASE Crash(w)
  BY <1>3 DEF Crash, LetGo, Hold, rows, TypeOK, Stopped
<1> QED BY <1>1, <1>2, <1>3

LEMMA ClientStopped ==
  ASSUME TypeOK, NEW j \in Workflow, Stopped(j),
         \/ \E i \in Jobs : Create(i)
         \/ \E c \in Clients : \/ \E i \in Jobs : CancelRead(c, i)
                               \/ \E stamp \in BOOLEAN : CancelWrite(c, stamp)
  PROVE  Stopped(j)'
<1> j \in Jobs /\ job[j] \in Row
  BY DEF TypeOK
<1>1. ASSUME NEW i \in Jobs, Create(i) PROVE Stopped(j)'
  BY <1>1 DEF Create, execs, TypeOK, Stopped, Row
<1>2. ASSUME NEW c \in Clients, NEW i \in Jobs, CancelRead(c, i) PROVE Stopped(j)'
  BY <1>2 DEF CancelRead, rows, execs, Stopped
<1>3. ASSUME NEW c \in Clients, NEW stamp \in BOOLEAN, CancelWrite(c, stamp)
      PROVE  Stopped(j)'
  <2>1. /\ job'[j].cancelled = (IF j = asked[c] THEN TRUE ELSE job[j].cancelled)
        /\ job'[j].status = IF j = asked[c] THEN "cancelled" ELSE job[j].status
    BY <1>3 DEF CancelWrite, TypeOK, Row
  <2>2. job'[j].cancelled /\ job'[j].status \notin {"succeeded", "partial"}
    BY <2>1 DEF Stopped
  <2>3. UNCHANGED <<pc, task, checks>>
    BY <1>3 DEF CancelWrite, execs
  <2> QED BY <2>2, <2>3 DEF Stopped
<1> QED BY <1>1, <1>2, <1>3

LEMMA StoppedStep ==
  ASSUME NEW j \in Workflow
  PROVE  TypeOK /\ Stopped(j) /\ [Next]_vars => Stopped(j)'
<1> SUFFICES ASSUME TypeOK, Stopped(j), [Next]_vars PROVE Stopped(j)'
  OBVIOUS
<1>1. ASSUME NEW w \in Workers, ClaimOldest(w) PROVE Stopped(j)'
  BY <1>1, BeginStopped DEF ClaimOldest, Executors
<1>2. ASSUME NEW t \in Triggers, NEW i \in Jobs, ClaimById(t, i) PROVE Stopped(j)'
  BY <1>2, BeginStopped DEF ClaimById, Executors
<1>3. ASSUME NEW r \in Runners, RunStart(r) \/ \E i \in Jobs : RunRead(r, i) PROVE Stopped(j)'
  BY <1>3, BeginStopped DEF Executors
<1>4. CASE UNCHANGED vars
  BY <1>4 DEF vars, rows, execs, Stopped
<1> QED BY <1>1, <1>2, <1>3, <1>4, ExecuteStopped, WorkerStopped, ClientStopped DEF Next

\* A workflow whose cancellation is on record and that nobody holds never reports a result
\* later, in every environment: also when /run requests, late workers or crashes revive it.
THEOREM CancelledForGood == Spec => CancelledWorkflowStaysCancelled
<1> DEFINE Idle(j) == /\ job[j].cancelled /\ job[j].status \in Active \cup {"cancelled"}
                      /\ \A e \in Executors : task[e] # j
           NoResult(j) == job[j].status \notin {"succeeded", "partial"}
<1>1. ASSUME NEW j \in Workflow PROVE Spec => [](Idle(j) => []NoResult(j))
  <2>1. Idle(j) => Stopped(j)
    BY DEF Stopped, Active
  <2>2. Stopped(j) => NoResult(j)
    BY DEF Stopped
  <2>3. TypeOK /\ Stopped(j) /\ [Next]_vars => Stopped(j)'
    BY StoppedStep
  <2> HIDE DEF Idle, NoResult
  <2> QED BY <2>1, <2>2, <2>3, TypeCorrect, PTL DEF Spec
<1> QED BY <1>1 DEF CancelledWorkflowStaysCancelled
=============================================================================
