----------------------------- MODULE GapReview -----------------------------
(***************************************************************************)
(* A research gap candidate under review: its row in `gap_candidates`, the  *)
(* challenge searches of the API and the worker, the user's decisions and   *)
(* the plans that rest on it.                                               *)
(*                                                                          *)
(* Every request loads the row, checks it and writes in a later transaction,*)
(* a challenge only after three awaited searches.  The write updates the    *)
(* columns that differ from the loaded copy and leaves the others as they   *)
(* are by then.                                                             *)
(*                                                                          *)
(* Abstracted: `ctx` stands for everything context_fingerprint hashes       *)
(* (direction, profile, selected papers, their analyses and materials), a   *)
(* hash for the value it hashes; sources and failures are part of what a    *)
(* challenge found; notes, explanations and audit rows are left out.        *)
(***************************************************************************)
CONSTANTS
  Challengers,  \* challenge requests and gap_challenge jobs
  Deciders,     \* confirm requests
  Planners,     \* requests that create a plan or change one of its items
  Contexts,     \* values of the evidence context
  Eligible,     \* the contexts for which evaluate_evidence allows a gap
  Queries,      \* lists of challenge queries
  Findings,     \* lists of counter-evidence, other than the empty one
  None,         \* an empty column
  Idle, Done    \* a request that has not been made, that has been answered

Evidence == [queries : Queries \cup {None}, counter : Findings \cup {None}]
Fingerprints == [evidence : Evidence, complete : BOOLEAN]

ASSUME ReviewAssumption ==
  /\ Eligible \subseteq Contexts
  /\ None \notin Fingerprints

Decided == {"confirmed", "rejected"}
Row == [status : {"absent", "generated", "pending_confirmation"} \cup Decided,
        context : Contexts \cup {None},          \* coverage.context_fingerprint
        evidence : Evidence,                     \* counter_evidence, challenge_queries
        completed : BOOLEAN,                     \* challenge_completed_at is set
        fingerprint : Fingerprints \cup {None}]  \* coverage.challenge_fingerprint

NoEvidence == [queries |-> None, counter |-> None]
AbsentRow == [status |-> "absent", context |-> None, evidence |-> NoEvidence,
              completed |-> FALSE, fingerprint |-> None]

VARIABLES
  ctx,        \* the evidence context as the database has it
  gap,        \* the row
  challenge,  \* per challenger: idle, done, or its copy of the row and its queries
  decision,   \* per decider: idle, done, or its copy of the row and the verdict
  planning,   \* per planner: idle, done, or what it will do and the evidence it saw
  plans,      \* the evidence on which plans were created
  progress,   \* the evidence on which plan items were changed
  found,      \* history: the evidence that complete challenges stored
  reviewed,   \* history: the evidence that confirmations were given for
  overtaken   \* history: a challenge and a decision have overlapped

requests == <<challenge, decision, planning>>
history == <<found, reviewed, overtaken>>
vars == <<ctx, gap, requests, plans, progress, history>>

-----------------------------------------------------------------------------
Init ==
  /\ ctx \in Contexts
  /\ gap = AbsentRow
  /\ challenge = [c \in Challengers |-> Idle]
  /\ decision = [d \in Deciders |-> Idle]
  /\ planning = [p \in Planners |-> Idle]
  /\ plans = {} /\ progress = {}
  /\ found = {} /\ reviewed = {}
  /\ overtaken = FALSE

\* Mutant: the fingerprint does not tell a complete challenge from a partial one.
FingerprintOfEvidence(evidence, complete) == [evidence |-> evidence, complete |-> TRUE]

\* challenge_fingerprint: what a review is bound to.
Fingerprint(evidence, complete) == [evidence |-> evidence, complete |-> complete]

\* assert_current_gap passes.
Current(row) ==
  /\ ctx \in Eligible
  /\ row.context = ctx
  /\ row.completed => row.fingerprint = Fingerprint(row.evidence, row.completed)

\* assert_confirmable passes.
AwaitsDecision(row) == row.status = "pending_confirmation" /\ row.completed

-----------------------------------------------------------------------------
(* The world around the gap. *)

\* The profile, the selection, a paper or an analysis is changed.
Edit ==
  /\ ctx' \in Contexts \ {ctx}
  /\ UNCHANGED <<gap, requests, plans, progress, history>>

Generate ==
  /\ gap.status = "absent"
  /\ ctx \in Eligible
  /\ gap' = [AbsentRow EXCEPT !.status = "generated", !.context = ctx]
  /\ UNCHANGED <<ctx, requests, plans, progress, history>>

-----------------------------------------------------------------------------
(* Challenges. *)

StartChallenge(c) ==
  /\ challenge[c] = Idle
  /\ gap.status # "absent"
  /\ Current(gap)
  /\ \E q \in Queries :
       challenge' = [challenge EXCEPT ![c] = [copy |-> gap, queries |-> q]]
  /\ UNCHANGED <<ctx, gap, decision, planning, plans, progress, history>>

\* A column of the row after a flush.
Column(stored, loaded, new) == IF new = loaded THEN stored ELSE new

StatusAfter(complete) == IF complete THEN "pending_confirmation" ELSE "generated"

\* Mutants: the two evidence columns are swapped; a decided status is kept.
SaveSwapped(row, copy, evidence, complete) ==
  [row EXCEPT !.evidence = [queries |-> evidence.counter, counter |-> evidence.queries]]
SaveKeepsDecision(row, copy, evidence, complete) ==
  [row EXCEPT
     !.status = IF copy.status \in Decided THEN row.status ELSE StatusAfter(complete),
     !.evidence = evidence,
     !.completed = complete,
     !.fingerprint = Fingerprint(evidence, complete)]

\* The UPDATE of a challenge.  A new completion time differs from every old one.
Save(row, copy, evidence, complete) ==
  [row EXCEPT
     !.status = Column(row.status, copy.status, StatusAfter(complete)),
     !.evidence =
       [queries |-> Column(row.evidence.queries, copy.evidence.queries, evidence.queries),
        counter |-> Column(row.evidence.counter, copy.evidence.counter, evidence.counter)],
     !.completed = IF complete \/ copy.completed THEN complete ELSE row.completed,
     !.fingerprint = Column(row.fingerprint, copy.fingerprint,
                            Fingerprint(evidence, complete))]

\* The searches are over.  The papers they returned are stored as well, which can
\* change the material of a selected paper.
EndChallenge(c) ==
  /\ challenge[c] \notin {Idle, Done}
  /\ \E counter \in Findings \cup {None}, complete \in BOOLEAN :
       LET evidence == [queries |-> challenge[c].queries, counter |-> counter]
           copy == challenge[c].copy
       IN  /\ gap' = Save(gap, copy, evidence, complete)
           /\ found' = IF complete THEN found \cup {evidence} ELSE found
           /\ overtaken' = \/ overtaken
                           \/ gap.status \in Decided /\ copy.status # gap.status
  /\ ctx' \in Contexts
  /\ challenge' = [challenge EXCEPT ![c] = Done]
  /\ UNCHANGED <<decision, planning, plans, progress, reviewed>>

\* A search raises, or the process dies: nothing was committed.
AbortChallenge(c) ==
  /\ challenge[c] \notin {Idle, Done}
  /\ challenge' = [challenge EXCEPT ![c] = Done]
  /\ UNCHANGED <<ctx, gap, decision, planning, plans, progress, history>>

-----------------------------------------------------------------------------
(* Decisions. *)

\* Stale evidence can be rejected but not confirmed.
ReadDecision(d) ==
  /\ decision[d] = Idle
  /\ AwaitsDecision(gap)
  /\ \E verdict \in Decided :
       /\ verdict = "confirmed" => Current(gap)
       /\ decision' = [decision EXCEPT ![d] = [copy |-> gap, verdict |-> verdict]]
  /\ UNCHANGED <<ctx, gap, challenge, planning, plans, progress, history>>

WriteDecision(d) ==
  /\ decision[d] \notin {Idle, Done}
  /\ gap' = [gap EXCEPT !.status = decision[d].verdict]
  /\ reviewed' = IF decision[d].verdict = "confirmed"
                 THEN reviewed \cup {decision[d].copy.evidence} ELSE reviewed
  /\ overtaken' = (overtaken \/ [gap EXCEPT !.status = "pending_confirmation"]
                                  # decision[d].copy)
  /\ decision' = [decision EXCEPT ![d] = Done]
  /\ UNCHANGED <<ctx, challenge, planning, plans, progress, found>>

-----------------------------------------------------------------------------
(* Plans. *)

\* Mutant: any candidate on current evidence will do.
ReviewableCurrent(row) == row.status # "absent" /\ Current(row)

\* The gate of create_plan, and _review_reason of the plan items.
Reviewable(row) == row.status = "confirmed" /\ Current(row)

CheckPlan(p) ==
  /\ planning[p] = Idle
  /\ Reviewable(gap)
  /\ \E step \in {"create"} \cup (IF plans = {} THEN {} ELSE {"update"}) :
       planning' = [planning EXCEPT ![p] = [step |-> step, basis |-> gap.evidence]]
  /\ UNCHANGED <<ctx, gap, challenge, decision, plans, progress, history>>

\* The plan is inserted, or the item updated, in a transaction of its own.
Write(p, step) ==
  /\ planning[p] \notin {Idle, Done}
  /\ planning[p].step = step
  /\ planning' = [planning EXCEPT ![p] = Done]
  /\ UNCHANGED <<ctx, gap, challenge, decision, history>>

CreatePlan(p) ==
  /\ Write(p, "create")
  /\ plans' = plans \cup {planning[p].basis}
  /\ UNCHANGED progress

UpdateItem(p) ==
  /\ Write(p, "update")
  /\ progress' = progress \cup {planning[p].basis}
  /\ UNCHANGED plans

-----------------------------------------------------------------------------
Next ==
  \/ Edit
  \/ Generate
  \/ \E c \in Challengers : StartChallenge(c) \/ EndChallenge(c) \/ AbortChallenge(c)
  \/ \E d \in Deciders : ReadDecision(d) \/ WriteDecision(d)
  \/ \E p \in Planners : CheckPlan(p) \/ CreatePlan(p) \/ UpdateItem(p)

Spec == Init /\ [][Next]_vars

-----------------------------------------------------------------------------
(* Correctness. *)

\* Every column, copy and history holds a value of its kind.
TypeOK ==
  /\ ctx \in Contexts
  /\ gap \in Row
  /\ challenge \in [Challengers -> {Idle, Done} \cup [copy : Row, queries : Queries]]
  /\ decision \in [Deciders -> {Idle, Done} \cup [copy : Row, verdict : Decided]]
  /\ planning \in [Planners -> {Idle, Done} \cup [step : {"create", "update"}, basis : Evidence]]
  /\ plans \subseteq Evidence /\ progress \subseteq Evidence
  /\ found \subseteq Evidence /\ reviewed \subseteq Evidence
  /\ overtaken \in BOOLEAN

\* However many challenges overlap and tear each other's columns, a user is only
\* ever asked to confirm what a single complete challenge found (the fingerprint
\* check of assert_current_gap, the state gate of assert_confirmable).
ReviewedWasFound == reviewed \subseteq found

\* The gap is confirmed for evidence that a user has confirmed, and its challenge
\* is complete.
ConfirmedIsReviewed ==
  gap.status = "confirmed" => gap.completed /\ gap.evidence \in reviewed

\* Re-challenges, rejections and edits in any order keep that, unless a challenge
\* and a decision overlap.
ConfirmedIsReviewedUnlessOvertaken == ~overtaken => ConfirmedIsReviewed

\* No plan is created or worked on before a user has confirmed the gap, and unless
\* a challenge and a decision overlapped, only on evidence a user has confirmed.
PlansRestOnReview ==
  /\ plans \cup progress # {} => reviewed # {}
  /\ ~overtaken => plans \cup progress \subseteq reviewed

=============================================================================
