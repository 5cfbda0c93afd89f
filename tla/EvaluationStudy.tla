--------------------------- MODULE EvaluationStudy ---------------------------
(***************************************************************************)
(* One blinded expert study: it is created with its tasks, frozen, assigned *)
(* to experts, rated, and aggregated into a result that says whether real    *)
(* experts have validated it.                                               *)
(*                                                                          *)
(* Sessions do not flush before a query, so a request reads rows first and   *)
(* takes SQLite's write lock with its first INSERT or UPDATE; from there to  *)
(* the commit nothing else is written, and the requests below are one or     *)
(* more reads followed by one write. An UPDATE names only the columns whose  *)
(* value differs from the one the session has loaded.                        *)
(*                                                                          *)
(* Abstracted: scores, preferences and durations (a result is the set of     *)
(* ratings it was computed from), the contract hash and the blind order.     *)
(***************************************************************************)
EXTENDS Naturals, FiniteSets

CONSTANTS
  Tasks,          \* positions of the study's tasks, in the order they are assigned
  Experts,        \* users that may be assigned
  MinimumExperts, \* minimum_real_experts of the protocol
  StudyRequests   \* requests in flight

StudyStatuses == {"absent", "draft", "frozen", "collecting", "results_available"}
Validations == {"awaiting_real_experts", "real_expert_results_available"}
AssignmentRow == [simulated : BOOLEAN, status : {"assigned", "started", "completed"}]
NotAssigned == [simulated |-> FALSE, status |-> "absent"]
Ratings == Tasks \X Experts
ResultRow == [present : BOOLEAN, counted : SUBSET Ratings, validation : Validations]
NoResult == [present |-> FALSE, counted |-> {}, validation |-> "awaiting_real_experts"]

ASSUME StudyAssumption ==
  /\ Tasks \subseteq Nat /\ IsFiniteSet(Tasks) /\ Tasks # {}
  /\ IsFiniteSet(Experts)
  /\ MinimumExperts \in Nat \ {0}

VARIABLES
  study,       \* the EvaluationStudy row: status and expert_outcome_validation
  assignment,  \* the EvaluationAssignment row of every task and expert
  rated,       \* the EvaluationRating rows
  result,      \* the EvaluationResult row
  ratedAsReal, \* history: ratings submitted while their assignment was not a simulation
  studyRequest \* what every request has read

studyRows == <<study, assignment, rated, result, ratedAsReal>>
studyVars == <<study, assignment, rated, result, ratedAsReal, studyRequest>>

Waiting == [at |-> "idle"]
Requests == {Waiting}
  \cup [at : {"freeze", "collect"}]
  \cup [at : {"assigning"}, tasks : SUBSET Tasks, expert : Experts,
        simulated : BOOLEAN, status : StudyStatuses]
  \cup [at : {"assign"}, tasks : SUBSET Tasks, first : Tasks, expert : Experts,
        simulated : BOOLEAN, status : StudyStatuses]
  \cup [at : {"start", "rate"}, task : Tasks, expert : Experts]
  \cup [at : {"ratings"}, study : [status : StudyStatuses, validation : Validations]]
  \cup [at : {"result"}, study : [status : StudyStatuses, validation : Validations],
        seen : SUBSET Ratings]
  \cup [at : {"aggregate"}, study : [status : StudyStatuses, validation : Validations],
        seen : SUBSET Ratings, row : ResultRow]

StudyInit ==
  /\ study = [status |-> "absent", validation |-> "awaiting_real_experts"]
  /\ assignment = [t \in Tasks |-> [e \in Experts |-> NotAssigned]]
  /\ rated = {}
  /\ result = NoResult
  /\ ratedAsReal = {}
  /\ studyRequest = [r \in StudyRequests |-> Waiting]

Assigned(t, e) == assignment[t][e] # NotAssigned
AwaitsAt(r, at) == studyRequest[r].at = at
Reads(r, at, read) ==
  /\ AwaitsAt(r, at)
  /\ studyRequest' = [studyRequest EXCEPT ![r] = read]
  /\ UNCHANGED studyRows
Answers(r) == studyRequest' = [studyRequest EXCEPT ![r] = Waiting]

\* The value of a column after an UPDATE of a session that loaded it; mutant: every column
\* is written.
EveryColumn(new, loaded, stored) == new
Written(new, loaded, stored) == IF new = loaded THEN stored ELSE new

-----------------------------------------------------------------------------
CreateStudy ==
  /\ study.status = "absent"
  /\ study' = [study EXCEPT !.status = "draft"]
  /\ UNCHANGED <<assignment, rated, result, ratedAsReal, studyRequest>>

ReadForFreeze(r) == study.status = "draft" /\ Reads(r, "idle", [at |-> "freeze"])

FreezeStudy(r) ==
  /\ AwaitsAt(r, "freeze")
  /\ study' = [study EXCEPT !.status = "frozen"]
  /\ Answers(r)
  /\ UNCHANGED <<assignment, rated, result, ratedAsReal>>

\* The study is loaded first, then the rows of the tasks up to the first unassigned one,
\* all without the lock.
ReadForAssign(r, tasks, e, simulated) ==
  /\ tasks # {}
  /\ study.status \in {"frozen", "collecting", "results_available"}
  /\ Reads(r, "idle", [at |-> "assigning", tasks |-> tasks, expert |-> e,
                       simulated |-> simulated, status |-> study.status])

Reclassified(t, e, simulated) == Assigned(t, e) /\ assignment[t][e].simulated # simulated
FirstUnassigned(tasks, e, t) ==
  /\ t \in tasks /\ ~Assigned(t, e)
  /\ \A u \in tasks : u < t => Assigned(u, e)

ReadAssignments(r) ==
  LET q == studyRequest[r] IN
  \E t \in Tasks :
    /\ AwaitsAt(r, "assigning")
    /\ FirstUnassigned(q.tasks, q.expert, t)
    /\ \A u \in q.tasks : u < t => ~Reclassified(u, q.expert, q.simulated)
    /\ Reads(r, "assigning", [at |-> "assign", tasks |-> q.tasks, first |-> t,
                              expert |-> q.expert, simulated |-> q.simulated,
                              status |-> q.status])

\* Every task is assigned already: only a study loaded as frozen is still written.
NothingToAssign(r) ==
  LET q == studyRequest[r] IN
  /\ AwaitsAt(r, "assigning")
  /\ \A t \in q.tasks : Assigned(t, q.expert) /\ ~Reclassified(t, q.expert, q.simulated)
  /\ Reads(r, "assigning", IF q.status = "frozen" THEN [at |-> "collect"] ELSE Waiting)

CollectStudy(r) ==
  /\ AwaitsAt(r, "collect")
  /\ study' = [study EXCEPT !.status = "collecting"]
  /\ Answers(r)
  /\ UNCHANGED <<assignment, rated, result, ratedAsReal>>

\* The first INSERT takes the lock and meets the unique constraint; the remaining tasks are
\* read under the lock. Mutant: an assignment is found and given the new classification.
AssignAnew(r) ==
  LET q == studyRequest[r] e == q.expert IN
  /\ AwaitsAt(r, "assign")
  /\ assignment' = [t \in Tasks |-> IF t \in q.tasks
       THEN [assignment[t] EXCEPT ![e] = [simulated |-> q.simulated, status |-> "assigned"]]
       ELSE assignment[t]]
  /\ study' = [study EXCEPT !.status = IF q.status = "frozen" THEN "collecting" ELSE @]
  /\ Answers(r)
  /\ UNCHANGED <<rated, result, ratedAsReal>>
AssignStudy(r) ==
  LET q == studyRequest[r] e == q.expert IN
  /\ AwaitsAt(r, "assign")
  /\ ~Assigned(q.first, e)
  /\ \A t \in q.tasks : ~Reclassified(t, e, q.simulated)
  /\ assignment' = [t \in Tasks |-> IF t \in q.tasks /\ ~Assigned(t, e)
       THEN [assignment[t] EXCEPT ![e] = [simulated |-> q.simulated, status |-> "assigned"]]
       ELSE assignment[t]]
  /\ study' = [study EXCEPT !.status = IF q.status = "frozen" THEN "collecting" ELSE @]
  /\ Answers(r)
  /\ UNCHANGED <<rated, result, ratedAsReal>>

\* A row of the other classification is met, before the lock or under it, or another request
\* assigned the first task in between: everything is rolled back.
AssignFails(r) ==
  LET q == studyRequest[r] IN
  /\ \/ AwaitsAt(r, "assign") /\ Assigned(q.first, q.expert)
     \/ AwaitsAt(r, "assign") /\ \E t \in q.tasks : Reclassified(t, q.expert, q.simulated)
     \/ /\ AwaitsAt(r, "assigning")
        /\ \E t \in q.tasks : /\ Reclassified(t, q.expert, q.simulated)
                              /\ \A u \in q.tasks : u < t => Assigned(u, q.expert)
  /\ Answers(r)
  /\ UNCHANGED studyRows

ReadForStart(r, t, e) ==
  /\ assignment[t][e].status = "assigned"
  /\ Reads(r, "idle", [at |-> "start", task |-> t, expert |-> e])

StartAssignment(r) ==
  LET q == studyRequest[r] IN
  /\ AwaitsAt(r, "start")
  /\ assignment' = [assignment EXCEPT ![q.task][q.expert].status = "started"]
  /\ Answers(r)
  /\ UNCHANGED <<study, rated, result, ratedAsReal>>

-----------------------------------------------------------------------------
\* Whose ratings count; mutant: the simulated ones as well.
AnyRater(seen, t) == {e \in Experts : <<t, e>> \in seen}
RealRaters(seen, t) == {e \in Experts : <<t, e>> \in seen /\ ~assignment[t][e].simulated}
CoverageMet(seen) == \A t \in Tasks : Cardinality(RealRaters(seen, t)) >= MinimumExperts
ValidationOf(seen) ==
  IF CoverageMet(seen) THEN "real_expert_results_available" ELSE "awaiting_real_experts"

\* aggregate_study_results of the ratings seen, by a session that loaded these rows. A
\* missing result row is inserted.
Aggregate(seen, loaded, row) ==
  /\ study' = [status |-> IF CoverageMet(seen)
                          THEN Written("results_available", loaded.status, study.status)
                          ELSE study.status,
               validation |-> Written(ValidationOf(seen), loaded.validation,
                                      study.validation)]
  /\ result' = IF row.present
       THEN [present |-> TRUE,
             counted |-> Written(seen, row.counted, result.counted),
             validation |-> Written(ValidationOf(seen), row.validation, result.validation)]
       ELSE [present |-> TRUE, counted |-> seen, validation |-> ValidationOf(seen)]

ReadForRating(r, t, e) ==
  /\ assignment[t][e].status \in {"started", "completed"} /\ <<t, e>> \notin rated
  /\ Reads(r, "idle", [at |-> "rate", task |-> t, expert |-> e])

\* The INSERT takes the lock: the aggregation reads everything under it.
SubmitRating(r) ==
  LET q == studyRequest[r] IN
  /\ AwaitsAt(r, "rate") /\ <<q.task, q.expert>> \notin rated
  /\ rated' = rated \cup {<<q.task, q.expert>>}
  /\ ratedAsReal' = IF assignment[q.task][q.expert].simulated THEN ratedAsReal
                    ELSE ratedAsReal \cup {<<q.task, q.expert>>}
  /\ assignment' = [assignment EXCEPT ![q.task][q.expert].status = "completed"]
  /\ Aggregate(rated', study, result)
  /\ Answers(r)

\* Two submissions of one assignment: the second meets the unique constraint.
RatingFails(r) ==
  /\ AwaitsAt(r, "rate")
  /\ <<studyRequest[r].task, studyRequest[r].expert>> \in rated
  /\ Answers(r)
  /\ UNCHANGED studyRows

\* GET results aggregates as well, but reads everything before it writes.
ReadStudy(r) ==
  study.status # "absent" /\ Reads(r, "idle", [at |-> "ratings", study |-> study])

ReadRatings(r) ==
  Reads(r, "ratings", [at |-> "result", study |-> studyRequest[r].study, seen |-> rated])

ReadResult(r) ==
  Reads(r, "result", [at |-> "aggregate", study |-> studyRequest[r].study,
                      seen |-> studyRequest[r].seen, row |-> result])

WriteResults(r) ==
  LET q == studyRequest[r] IN
  /\ AwaitsAt(r, "aggregate") /\ (result.present => q.row.present)
  /\ Aggregate(q.seen, q.study, q.row)
  /\ Answers(r)
  /\ UNCHANGED <<assignment, rated, ratedAsReal>>

\* Another request inserted the study's result in between.
ResultsFail(r) ==
  /\ AwaitsAt(r, "aggregate") /\ result.present /\ ~studyRequest[r].row.present
  /\ Answers(r)
  /\ UNCHANGED studyRows

-----------------------------------------------------------------------------
StudyStep(r) ==
  \/ ReadForFreeze(r) \/ FreezeStudy(r)
  \/ \E tasks \in SUBSET Tasks, e \in Experts, simulated \in BOOLEAN :
       ReadForAssign(r, tasks, e, simulated)
  \/ ReadAssignments(r) \/ NothingToAssign(r) \/ CollectStudy(r)
  \/ AssignStudy(r) \/ AssignFails(r)
  \/ \E t \in Tasks, e \in Experts : ReadForStart(r, t, e) \/ ReadForRating(r, t, e)
  \/ StartAssignment(r) \/ SubmitRating(r) \/ RatingFails(r)
  \/ ReadStudy(r) \/ ReadRatings(r) \/ ReadResult(r) \/ WriteResults(r) \/ ResultsFail(r)

StudyNext == CreateStudy \/ \E r \in StudyRequests : StudyStep(r)

StudySpec == StudyInit /\ [][StudyNext]_studyVars

-----------------------------------------------------------------------------
StudyTypeOK ==
  /\ study \in [status : StudyStatuses, validation : Validations]
  /\ assignment \in [Tasks -> [Experts -> AssignmentRow \cup {NotAssigned}]]
  /\ rated \subseteq Ratings
  /\ result \in ResultRow
  /\ ratedAsReal \subseteq Ratings
  /\ studyRequest \in [StudyRequests -> Requests]

\* A study, or its stored result, says that real experts have validated it only when every
\* task has been rated by the number of distinct experts its protocol asks for, each of them
\* as a real one at the time of the rating, whatever requests overlapped: simulated ratings
\* never count, and no assignment rated as a simulation is taken for a real one later.
ValidatedByExperts ==
  \/ \A t \in Tasks : Cardinality({e \in Experts : <<t, e>> \in ratedAsReal}) >= MinimumExperts
  \/ ~(\/ study.validation = "real_expert_results_available"
       \/ study.status = "results_available"
       \/ result.validation = "real_expert_results_available")

\* Once reached, the validation of a study is never taken back: not by an aggregation that
\* read the ratings before the last one was submitted and is written after it.
ValidationKept ==
  [][study.validation = "real_expert_results_available"
       => study'.validation = "real_expert_results_available"]_studyVars

=============================================================================
