---------------------------- MODULE JobLifecycle ----------------------------
(***************************************************************************)
(* What the job queue promises about one job, without workers, ORM copies   *)
(* or claims, and what the stages of a workflow keep to: a job is queued,   *)
(* executed by one execution at a time, and ends.  Each start uses one unit *)
(* of the job's budget; an interruption that is recovered gives one back.   *)
(*                                                                          *)
(* A cancellation is a request, not a verdict: the handler marks the row,    *)
(* and an execution that is under way may still end the job its own way.     *)
(***************************************************************************)
EXTENDS Naturals

CONSTANTS Jobs, MaxAttempts

VARIABLES
  status,   \* what a client reads
  open,     \* an execution of the job is under way
  starts,   \* executions begun so far
  budget    \* executions allowed so far

vars == <<status, open, starts, budget>>

Ends == {"succeeded", "partial", "failed", "cancelled"}

\* Jobs are submitted later or wait already.
Init ==
  /\ status \in [Jobs -> {"absent", "pending"}]
  /\ open = [j \in Jobs |-> FALSE]
  /\ starts = [j \in Jobs |-> 0]
  /\ budget = [j \in Jobs |-> MaxAttempts]

Submit(j) ==
  /\ status[j] = "absent"
  /\ status' = [status EXCEPT ![j] = "pending"]
  /\ UNCHANGED <<open, starts, budget>>

Begin(j) ==
  /\ status[j] = "pending" /\ ~open[j]
  /\ starts[j] < budget[j]
  /\ status' = [status EXCEPT ![j] = "running"]
  /\ open' = [open EXCEPT ![j] = TRUE]
  /\ starts' = [starts EXCEPT ![j] = @ + 1]
  /\ UNCHANGED budget

\* An execution ends the job, or puts it back while budget is left.
End(j, s) ==
  /\ open[j]
  /\ s \in Ends \/ (s = "pending" /\ starts[j] < budget[j])
  /\ status' = [status EXCEPT ![j] = s]
  /\ open' = [open EXCEPT ![j] = FALSE]
  /\ UNCHANGED <<starts, budget>>

\* An execution disappears and leaves no trace in the row.
Vanish(j) ==
  /\ open[j]
  /\ open' = [open EXCEPT ![j] = FALSE]
  /\ UNCHANGED <<status, starts, budget>>

\* Interrupted jobs are queued again together.
Requeue(S) ==
  /\ \A j \in S : /\ ~open[j] /\ starts[j] > 0
                  /\ status[j] \in {"running", "cancelled"}
  /\ status' = [j \in Jobs |-> IF j \in S THEN "pending" ELSE status[j]]
  /\ budget' = [j \in Jobs |-> IF j \in S THEN budget[j] + 1 ELSE budget[j]]
  /\ UNCHANGED <<open, starts>>

Cancel(j) ==
  /\ status[j] # "absent"
  /\ status' = [status EXCEPT ![j] = "cancelled"]
  /\ UNCHANGED <<open, starts, budget>>

Next ==
  \/ \E j \in Jobs : \/ Submit(j) \/ Begin(j) \/ Vanish(j) \/ Cancel(j)
                     \/ \E s \in Ends \cup {"pending"} : End(j, s)
  \/ \E S \in SUBSET Jobs : Requeue(S)

Spec == Init /\ [][Next]_vars
=============================================================================
