-------------------------- MODULE EvaluationProofs --------------------------
(***************************************************************************)
(* Proofs about the evaluation study, for any tasks, experts, minimum and    *)
(* number of overlapping requests.                                          *)
(***************************************************************************)
EXTENDS EvaluationStudy, FiniteSetTheorems, TLAPS

USE StudyAssumption

StudyRow == [status : StudyStatuses, validation : Validations]
AssignRead ==
  [at : {"assign"}, tasks : SUBSET Tasks, first : Tasks, expert : Experts,
   simulated : BOOLEAN, status : StudyStatuses]
AssigningRead ==
  [at : {"assigning"}, tasks : SUBSET Tasks, expert : Experts, simulated : BOOLEAN,
   status : StudyStatuses]
ResultRead == [at : {"result"}, study : StudyRow, seen : SUBSET Ratings]
AggregateRead == [at : {"aggregate"}, study : StudyRow, seen : SUBSET Ratings, row : ResultRow]

\* What a request that waits at a place has read.
LEMMA ReadShape ==
  ASSUME StudyTypeOK, NEW r \in StudyRequests
  PROVE  /\ AwaitsAt(r, "assigning") => studyRequest[r] \in AssigningRead
         /\ AwaitsAt(r, "assign") => studyRequest[r] \in AssignRead
         /\ (AwaitsAt(r, "start") \/ AwaitsAt(r, "rate"))
              => studyRequest[r] \in [at : {"start", "rate"}, task : Tasks, expert : Experts]
         /\ AwaitsAt(r, "ratings") => studyRequest[r] \in [at : {"ratings"}, study : StudyRow]
         /\ AwaitsAt(r, "result") => studyRequest[r] \in ResultRead
         /\ AwaitsAt(r, "aggregate") => studyRequest[r] \in AggregateRead
<1>1. studyRequest[r] \in Requests
  BY DEF StudyTypeOK
<1> QED BY <1>1 DEF Requests, Waiting, AwaitsAt, AssigningRead, AssignRead, ResultRead,
                AggregateRead, StudyRow

\* Aggregating writes well-typed rows.
LEMMA AggregateType ==
  ASSUME StudyTypeOK, NEW seen \in SUBSET Ratings, NEW loaded \in StudyRow,
         NEW row \in ResultRow, Aggregate(seen, loaded, row)
  PROVE  study' \in StudyRow /\ result' \in ResultRow
<1>1. ValidationOf(seen) \in Validations
  BY DEF ValidationOf, Validations
<1>2. study \in StudyRow /\ result \in ResultRow
  BY DEF StudyTypeOK, StudyRow
<1> DEFINE status == IF CoverageMet(seen)
                     THEN Written("results_available", loaded.status, study.status)
                     ELSE study.status
           validation == Written(ValidationOf(seen), loaded.validation, study.validation)
           counted == Written(seen, row.counted, result.counted)
           valid == Written(ValidationOf(seen), row.validation, result.validation)
<1>3. status \in StudyStatuses /\ validation \in Validations
  BY <1>1, <1>2 DEF Written, StudyRow, StudyStatuses
<1>4. counted \in SUBSET Ratings /\ valid \in Validations
  BY <1>1, <1>2 DEF Written, ResultRow
<1>5. study' = [status |-> status, validation |-> validation]
  BY DEF Aggregate
<1>6. result' = IF row.present
                THEN [present |-> TRUE, counted |-> counted, validation |-> valid]
                ELSE [present |-> TRUE, counted |-> seen, validation |-> ValidationOf(seen)]
  BY DEF Aggregate
<1> HIDE DEF status, validation, counted, valid
<1> QED BY <1>1, <1>3, <1>4, <1>5, <1>6 DEF StudyRow, ResultRow

\* A new status keeps the assignments typed.
LEMMA SettingStatus ==
  ASSUME StudyTypeOK, NEW t \in Tasks, NEW e \in Experts,
         NEW status \in {"assigned", "started", "completed"},
         assignment' = [assignment EXCEPT ![t][e].status = status]
  PROVE  assignment' \in [Tasks -> [Experts -> AssignmentRow \cup {NotAssigned}]]
<1> DEFINE new == [assignment[t][e] EXCEPT !.status = status]
<1>1. assignment[t][e] \in AssignmentRow \cup {NotAssigned}
  BY DEF StudyTypeOK
<1>2. new \in AssignmentRow
  <2>1. CASE assignment[t][e] = NotAssigned
    <3>1. NotAssigned \in [simulated : BOOLEAN, status : {"absent"}]
      BY DEF NotAssigned
    <3> QED BY <2>1, <3>1 DEF AssignmentRow
  <2>2. CASE assignment[t][e] \in AssignmentRow
    BY <2>2 DEF AssignmentRow
  <2> QED BY <1>1, <2>1, <2>2
<1>3. assignment' = [assignment EXCEPT ![t] = [assignment[t] EXCEPT ![e] = new]]
  OBVIOUS
<1> HIDE DEF new
<1> QED BY <1>2, <1>3 DEF StudyTypeOK

\* The rows and the requests of a study are well typed.
THEOREM StudyTypeCorrect == StudySpec => []StudyTypeOK
<1>1. StudyInit => StudyTypeOK
  BY DEF StudyInit, StudyTypeOK, StudyStatuses, Validations, NoResult, ResultRow, Requests
<1>2. StudyTypeOK /\ [StudyNext]_studyVars => StudyTypeOK'
  <2> SUFFICES ASSUME StudyTypeOK, [StudyNext]_studyVars PROVE StudyTypeOK'
    OBVIOUS
  <2> USE DEF StudyTypeOK
  <2>1. CASE CreateStudy
    BY <2>1 DEF CreateStudy, StudyStatuses
  <2>2. ASSUME NEW r \in StudyRequests, StudyStep(r) PROVE StudyTypeOK'
    <3> DEFINE q == studyRequest[r]
    <3>a. ASSUME NEW read \in Requests, studyRequest' = [studyRequest EXCEPT ![r] = read]
          PROVE  studyRequest' \in [StudyRequests -> Requests]
      BY <3>a
    <3>b. Answers(r) => studyRequest' \in [StudyRequests -> Requests]
      BY DEF Answers, Requests
    <3>c. study \in StudyRow
      BY DEF StudyRow
    <3>1. CASE ReadForFreeze(r)
      BY <3>1 DEF ReadForFreeze, Reads, studyRows, Requests
    <3>2. CASE FreezeStudy(r)
      BY <3>2, <3>b DEF FreezeStudy, StudyStatuses
    <3>3. ASSUME NEW tasks \in SUBSET Tasks, NEW e \in Experts, NEW simulated \in BOOLEAN,
                 ReadForAssign(r, tasks, e, simulated)
          PROVE  StudyTypeOK'
      <4>1. [at |-> "assigning", tasks |-> tasks, expert |-> e, simulated |-> simulated,
             status |-> study.status] \in Requests
        BY <3>c DEF Requests, StudyRow
      <4> QED BY <3>3, <4>1 DEF ReadForAssign, Reads, studyRows
    <3>15. CASE ReadAssignments(r)
      <4>1. PICK t \in Tasks :
              Reads(r, "assigning", [at |-> "assign", tasks |-> q.tasks, first |-> t,
                                     expert |-> q.expert, simulated |-> q.simulated,
                                     status |-> q.status])
        BY <3>15 DEF ReadAssignments
      <4>2. q \in AssigningRead
        BY <3>15, ReadShape DEF ReadAssignments
      <4>3. [at |-> "assign", tasks |-> q.tasks, first |-> t, expert |-> q.expert,
             simulated |-> q.simulated, status |-> q.status] \in Requests
        BY <4>2 DEF Requests, AssigningRead
      <4> QED BY <4>1, <4>3 DEF Reads, studyRows
    <3>16. CASE NothingToAssign(r)
      <4>1. [at |-> "collect"] \in Requests /\ Waiting \in Requests
        BY DEF Requests
      <4> QED BY <3>16, <4>1 DEF NothingToAssign, Reads, studyRows
    <3>17. CASE CollectStudy(r)
      BY <3>17, <3>b DEF CollectStudy, StudyStatuses
    <3>4. CASE AssignStudy(r)
      <4>1. q \in AssignRead
        BY <3>4, ReadShape DEF AssignStudy
      <4>2. [simulated |-> q.simulated, status |-> "assigned"] \in AssignmentRow
        BY <4>1 DEF AssignRead, AssignmentRow
      <4> DEFINE new == [simulated |-> q.simulated, status |-> "assigned"]
      <4> HIDE DEF new
      <4>3. assignment' = [t \in Tasks |-> IF t \in q.tasks /\ ~Assigned(t, q.expert)
                             THEN [assignment[t] EXCEPT ![q.expert] = new]
                             ELSE assignment[t]]
        BY <3>4 DEF AssignStudy, new
      <4>4. assignment' \in [Tasks -> [Experts -> AssignmentRow \cup {NotAssigned}]]
        BY <4>1, <4>2, <4>3 DEF AssignRead, new
      <4>5. study' \in StudyRow
        BY <3>4, <3>c DEF AssignStudy, StudyRow, StudyStatuses
      <4> QED BY <3>4, <3>b, <4>4, <4>5 DEF AssignStudy, StudyRow
    <3>5. CASE AssignFails(r)
      BY <3>5, <3>b DEF AssignFails, studyRows
    <3>6. ASSUME NEW t \in Tasks, NEW e \in Experts,
                 ReadForStart(r, t, e) \/ ReadForRating(r, t, e)
          PROVE  StudyTypeOK'
      <4>1. [at |-> "start", task |-> t, expert |-> e] \in Requests
        BY DEF Requests
      <4>2. [at |-> "rate", task |-> t, expert |-> e] \in Requests
        BY DEF Requests
      <4> QED BY <3>6, <4>1, <4>2 DEF ReadForStart, ReadForRating, Reads, studyRows
    <3>7. CASE StartAssignment(r)
      <4>1. q.task \in Tasks /\ q.expert \in Experts
        BY <3>7, ReadShape DEF StartAssignment
      <4> QED BY <3>7, <3>b, <4>1, SettingStatus DEF StartAssignment
    <3>8. CASE SubmitRating(r)
      <4>1. q.task \in Tasks /\ q.expert \in Experts
        BY <3>8, ReadShape DEF SubmitRating
      <4>2. rated' \in SUBSET Ratings /\ result \in ResultRow /\ Aggregate(rated', study, result)
        BY <3>8, <4>1 DEF SubmitRating, Ratings
      <4>3. study' \in StudyRow /\ result' \in ResultRow
        BY <3>c, <4>2, AggregateType
      <4>4. assignment' \in [Tasks -> [Experts -> AssignmentRow \cup {NotAssigned}]]
        BY <3>8, <4>1, SettingStatus DEF SubmitRating
      <4>5. ratedAsReal' \in SUBSET Ratings
        BY <3>8, <4>1 DEF SubmitRating, Ratings
      <4> QED BY <3>8, <3>b, <4>2, <4>3, <4>4, <4>5 DEF SubmitRating, StudyRow
    <3>9. CASE RatingFails(r)
      BY <3>9, <3>b DEF RatingFails, studyRows
    <3>10. CASE ReadStudy(r)
      <4>1. [at |-> "ratings", study |-> study] \in Requests
        BY DEF Requests
      <4> QED BY <3>10, <4>1 DEF ReadStudy, Reads, studyRows
    <3>11. CASE ReadRatings(r)
      <4>1. q.study \in StudyRow
        BY <3>11, ReadShape DEF ReadRatings, Reads
      <4>2. [at |-> "result", study |-> q.study, seen |-> rated] \in Requests
        BY <4>1 DEF Requests, StudyRow
      <4> QED BY <3>11, <4>2 DEF ReadRatings, Reads, studyRows
    <3>12. CASE ReadResult(r)
      <4>1. q \in ResultRead
        BY <3>12, ReadShape DEF ReadResult, Reads
      <4>2. [at |-> "aggregate", study |-> q.study, seen |-> q.seen, row |-> result] \in Requests
        BY <4>1 DEF Requests, ResultRead, StudyRow
      <4> QED BY <3>12, <4>2 DEF ReadResult, Reads, studyRows
    <3>13. CASE WriteResults(r)
      <4>1. q \in AggregateRead
        BY <3>13, ReadShape DEF WriteResults
      <4>2. q.seen \in SUBSET Ratings /\ q.study \in StudyRow /\ q.row \in ResultRow
        BY <4>1 DEF AggregateRead
      <4>3. study' \in StudyRow /\ result' \in ResultRow
        BY <3>13, <4>2, AggregateType DEF WriteResults
      <4> QED BY <3>13, <3>b, <4>3 DEF WriteResults, StudyRow
    <3>14. CASE ResultsFail(r)
      BY <3>14, <3>b DEF ResultsFail, studyRows
    <3> QED
      BY <2>2, <3>1, <3>2, <3>3, <3>4, <3>5, <3>6, <3>7, <3>8, <3>9, <3>10, <3>11, <3>12,
         <3>13, <3>14, <3>15, <3>16, <3>17 DEF StudyStep
  <2>3. CASE UNCHANGED studyVars
    BY <2>3 DEF studyVars
  <2> QED BY <2>1, <2>2, <2>3 DEF StudyNext
<1> QED BY <1>1, <1>2, PTL DEF StudySpec

-----------------------------------------------------------------------------
(* The inductive invariant of the validation. *)

\* Coverage by the ratings S under the assignments a.
RealOf(a, S, t) == {e \in Experts : <<t, e>> \in S /\ ~a[t][e].simulated}
Covered(a, S) == \A t \in Tasks : Cardinality(RealOf(a, S, t)) >= MinimumExperts

Claims(row) ==
  row.validation = "real_expert_results_available" \/ row.status = "results_available"

\* Only what is assigned is rated, or about to be.
RatedIsAssigned ==
  /\ \A t \in Tasks, e \in Experts : <<t, e>> \in rated => Assigned(t, e)
  /\ \A r \in StudyRequests : AwaitsAt(r, "rate") =>
       Assigned(studyRequest[r].task, studyRequest[r].expert)

\* The ratings a request has seen are still there, and they cover what the study row it
\* had loaded before claims.
SeenIsRated ==
  \A r \in StudyRequests :
    /\ AwaitsAt(r, "ratings") =>
         (Claims(studyRequest[r].study) => Covered(assignment, rated))
    /\ AwaitsAt(r, "result") \/ AwaitsAt(r, "aggregate") =>
         /\ studyRequest[r].seen \subseteq rated
         /\ Claims(studyRequest[r].study) => Covered(assignment, studyRequest[r].seen)

\* An assignment keeps the classification it was rated under.
KindIsKept ==
  \A t \in Tasks, e \in Experts :
    <<t, e>> \in ratedAsReal <=> <<t, e>> \in rated /\ ~assignment[t][e].simulated

ClaimsAreCovered ==
  Claims(study) \/ result.validation = "real_expert_results_available"
    => Covered(assignment, rated)

StudyInv == StudyTypeOK /\ RatedIsAssigned /\ SeenIsRated /\ KindIsKept /\ ClaimsAreCovered

\* The classification of a rating stays, and ratings are only added.
Grows ==
  /\ rated \subseteq rated'
  /\ \A t \in Tasks, e \in Experts :
       Assigned(t, e) => /\ assignment'[t][e] # NotAssigned
                         /\ assignment'[t][e].simulated = assignment[t][e].simulated

\* More ratings of the same classification cover what fewer cover.
LEMMA CoverageGrows ==
  ASSUME NEW a, NEW b, NEW S, NEW T, S \subseteq T, Covered(a, S),
         \A t \in Tasks, e \in Experts :
           <<t, e>> \in S => b[t][e].simulated = a[t][e].simulated
  PROVE  Covered(b, T)
<1> SUFFICES ASSUME NEW t \in Tasks PROVE Cardinality(RealOf(b, T, t)) >= MinimumExperts
  BY DEF Covered
<1>1. RealOf(a, S, t) \subseteq RealOf(b, T, t)
  BY DEF RealOf
<1>2. RealOf(b, T, t) \subseteq Experts
  BY DEF RealOf
<1>3. IsFiniteSet(RealOf(b, T, t))
  BY <1>2, FS_Subset
<1>4. Cardinality(RealOf(a, S, t)) <= Cardinality(RealOf(b, T, t))
  BY <1>1, <1>3, FS_Subset
<1>5. Cardinality(RealOf(b, T, t)) \in Nat
  BY <1>3, FS_CardinalityType
<1>6. Cardinality(RealOf(a, S, t)) \in Nat
  BY <1>1, <1>3, FS_Subset, FS_CardinalityType
<1>7. Cardinality(RealOf(a, S, t)) >= MinimumExperts
  BY DEF Covered
<1> QED BY <1>4, <1>5, <1>6, <1>7

LEMMA CoverageMetIsCovered ==
  ASSUME NEW S PROVE CoverageMet(S) <=> Covered(assignment, S)
BY DEF CoverageMet, RealRaters, Covered, RealOf

\* Before any request nothing is claimed.
LEMMA StudyInitInv == ASSUME StudyInit, StudyTypeOK PROVE StudyInv
BY DEF StudyInit, StudyInv, RatedIsAssigned, SeenIsRated, KindIsKept, ClaimsAreCovered, Claims,
       AwaitsAt, Waiting, NoResult

\* What was covered stays covered while ratings grow.
LEMMA GrowthKeepsCoverage ==
  ASSUME RatedIsAssigned, Grows, NEW S \in SUBSET rated, Covered(assignment, S)
  PROVE  Covered(assignment', S) /\ Covered(assignment', rated')
<1>1. \A t \in Tasks, e \in Experts :
        <<t, e>> \in S => assignment'[t][e].simulated = assignment[t][e].simulated
  BY DEF RatedIsAssigned, Grows
<1>2. S \subseteq rated'
  BY DEF Grows
<1> QED BY <1>1, <1>2, CoverageGrows

\* No new rating: the ratings keep their classification.
LEMMA KindStays ==
  ASSUME RatedIsAssigned, KindIsKept, Grows, rated' = rated, ratedAsReal' = ratedAsReal
  PROVE  KindIsKept'
BY DEF RatedIsAssigned, KindIsKept, Grows

\* A request that answers leaves the others as they were.
LEMMA AnswerKeeps ==
  ASSUME StudyInv, Grows, NEW r \in StudyRequests, Answers(r),
         \A t \in Tasks, e \in Experts : <<t, e>> \in rated' => Assigned(t, e)
  PROVE  RatedIsAssigned' /\ SeenIsRated'
<1>1. \A d \in StudyRequests : studyRequest'[d] = studyRequest[d] \/ studyRequest'[d] = Waiting
  BY DEF Answers, StudyInv, StudyTypeOK
<1>2. RatedIsAssigned'
  <2>1. \A t \in Tasks, e \in Experts : <<t, e>> \in rated' => assignment'[t][e] # NotAssigned
    BY DEF Grows
  <2>2. ASSUME NEW d \in StudyRequests, studyRequest'[d].at = "rate"
        PROVE  assignment'[studyRequest'[d].task][studyRequest'[d].expert] # NotAssigned
    <3>1. studyRequest'[d] = studyRequest[d] /\ AwaitsAt(d, "rate")
      BY <1>1, <2>2 DEF AwaitsAt, Waiting
    <3>2. studyRequest[d].task \in Tasks /\ studyRequest[d].expert \in Experts
      BY <3>1, ReadShape DEF StudyInv
    <3> QED BY <3>1, <3>2 DEF StudyInv, RatedIsAssigned, Grows
  <2> QED BY <2>1, <2>2 DEF RatedIsAssigned, Assigned, AwaitsAt
<1>3. SeenIsRated'
  <2>1. ASSUME NEW d \in StudyRequests, studyRequest'[d].at = "ratings",
               Claims(studyRequest'[d].study)
        PROVE  Covered(assignment', rated')
    <3>1. studyRequest'[d] = studyRequest[d] /\ AwaitsAt(d, "ratings")
      BY <1>1, <2>1 DEF AwaitsAt, Waiting
    <3>2. Covered(assignment, rated)
      BY <2>1, <3>1 DEF StudyInv, SeenIsRated
    <3> QED BY <3>2, GrowthKeepsCoverage DEF StudyInv
  <2>2. ASSUME NEW d \in StudyRequests, studyRequest'[d].at \in {"result", "aggregate"}
        PROVE  /\ studyRequest'[d].seen \subseteq rated'
               /\ Claims(studyRequest'[d].study) => Covered(assignment', studyRequest'[d].seen)
    <3>1. studyRequest'[d] = studyRequest[d] /\ (AwaitsAt(d, "result") \/ AwaitsAt(d, "aggregate"))
      BY <1>1, <2>2 DEF AwaitsAt, Waiting
    <3>2. /\ studyRequest[d].seen \subseteq rated
          /\ Claims(studyRequest[d].study) => Covered(assignment, studyRequest[d].seen)
      BY <3>1 DEF StudyInv, SeenIsRated
    <3>3. Claims(studyRequest[d].study) => Covered(assignment', studyRequest[d].seen)
      BY <3>2, GrowthKeepsCoverage DEF StudyInv
    <3> QED BY <3>1, <3>2, <3>3 DEF Grows
  <2> QED BY <2>1, <2>2 DEF SeenIsRated, AwaitsAt
<1> QED BY <1>2, <1>3

\* A request that only reads.
LEMMA ReadKeeps ==
  ASSUME StudyInv, StudyTypeOK', NEW r \in StudyRequests, NEW at, NEW read, Reads(r, at, read),
         read.at = "rate" => Assigned(read.task, read.expert),
         read.at = "ratings" => (Claims(read.study) => Covered(assignment, rated)),
         read.at \in {"result", "aggregate"} =>
           /\ read.seen \subseteq rated
           /\ Claims(read.study) => Covered(assignment, read.seen)
  PROVE  StudyInv' /\ Grows /\ study' = study
<1>1. \A d \in StudyRequests : studyRequest'[d] = IF d = r THEN read ELSE studyRequest[d]
  BY DEF Reads, StudyInv, StudyTypeOK
<1>2. /\ study' = study /\ assignment' = assignment /\ rated' = rated /\ result' = result
      /\ ratedAsReal' = ratedAsReal
  BY DEF Reads, studyRows
<1>3. RatedIsAssigned'
  BY <1>1, <1>2 DEF StudyInv, RatedIsAssigned, AwaitsAt, Assigned
<1>4. SeenIsRated'
  <2>1. \A d \in StudyRequests : studyRequest'[d].at = "ratings" =>
          (Claims(studyRequest'[d].study) => Covered(assignment, rated))
    BY <1>1 DEF StudyInv, SeenIsRated, AwaitsAt
  <2>2. \A d \in StudyRequests : studyRequest'[d].at \in {"result", "aggregate"} =>
          /\ studyRequest'[d].seen \subseteq rated
          /\ Claims(studyRequest'[d].study) => Covered(assignment, studyRequest'[d].seen)
    BY <1>1 DEF StudyInv, SeenIsRated, AwaitsAt
  <2> QED BY <1>2, <2>1, <2>2 DEF SeenIsRated, AwaitsAt
<1>5. ClaimsAreCovered'
  BY <1>2 DEF StudyInv, ClaimsAreCovered
<1>6. Grows
  BY <1>2 DEF Grows, Assigned
<1>7. KindIsKept'
  BY <1>2, <1>6, KindStays DEF StudyInv
<1> QED BY <1>2, <1>3, <1>4, <1>5, <1>6, <1>7 DEF StudyInv

\* Whoever aggregates claims no more than is covered.
LEMMA AggregateKeeps ==
  ASSUME StudyInv, Grows, NEW seen \in SUBSET rated', NEW loaded, NEW row,
         Aggregate(seen, loaded, row),
         \A t \in Tasks, e \in Experts : <<t, e>> \in rated' => Assigned(t, e)
  PROVE  ClaimsAreCovered'
<1>1. \A t \in Tasks, e \in Experts :
        <<t, e>> \in seen => assignment'[t][e].simulated = assignment[t][e].simulated
  BY DEF Grows
<1>2. CoverageMet(seen) => Covered(assignment', rated')
  BY <1>1, CoverageMetIsCovered, CoverageGrows
<1>3. \/ Claims(study) \/ result.validation = "real_expert_results_available"
      \/ CoverageMet(seen)
      \/ ~(Claims(study') \/ result'.validation = "real_expert_results_available")
  BY DEF Aggregate, Written, ValidationOf, Claims
<1>4. Claims(study) \/ result.validation = "real_expert_results_available"
        => Covered(assignment', rated')
  BY GrowthKeepsCoverage DEF StudyInv, ClaimsAreCovered
<1> QED BY <1>2, <1>3, <1>4 DEF ClaimsAreCovered

\* A new status of one assignment keeps every classification.
LEMMA StatusGrows ==
  ASSUME StudyTypeOK, rated \subseteq rated', NEW t \in Tasks, NEW e \in Experts,
         NEW status \in {"assigned", "started", "completed"},
         assignment' = [assignment EXCEPT ![t][e].status = status]
  PROVE  Grows
<1> SUFFICES ASSUME NEW u \in Tasks, NEW f \in Experts, Assigned(u, f)
             PROVE  /\ assignment'[u][f] # NotAssigned
                    /\ assignment'[u][f].simulated = assignment[u][f].simulated
  BY DEF Grows
<1>1. assignment[t][e] \in AssignmentRow \cup {NotAssigned}
  BY DEF StudyTypeOK
<1>2. assignment'[u][f] = IF u = t /\ f = e THEN [assignment[t][e] EXCEPT !.status = status]
                          ELSE assignment[u][f]
  BY DEF StudyTypeOK
<1>3. CASE u = t /\ f = e
  <2>1. assignment[t][e] \in AssignmentRow
    BY <1>1, <1>3 DEF Assigned
  <2>2. /\ [assignment[t][e] EXCEPT !.status = status].status = status
        /\ [assignment[t][e] EXCEPT !.status = status].simulated = assignment[t][e].simulated
    BY <2>1 DEF AssignmentRow
  <2>3. NotAssigned.status = "absent"
    BY DEF NotAssigned
  <2> QED BY <1>2, <1>3, <2>2, <2>3
<1>4. CASE ~(u = t /\ f = e)
  BY <1>2, <1>4 DEF Assigned
<1> QED BY <1>3, <1>4

\* What a step does to a study beyond the invariant.
KeepsValidation ==
  study.validation = "real_expert_results_available"
    => study'.validation = "real_expert_results_available"

\* An aggregation of ratings that cover what its session had loaded keeps a validation.
LEMMA AggregateKeepsValidation ==
  ASSUME NEW seen, NEW loaded \in StudyRow, NEW row, Aggregate(seen, loaded, row),
         loaded.validation = "real_expert_results_available" => CoverageMet(seen)
  PROVE  KeepsValidation
<1>1. study'.validation = Written(ValidationOf(seen), loaded.validation, study.validation)
  BY DEF Aggregate
<1>2. CASE CoverageMet(seen)
  BY <1>1, <1>2 DEF Written, ValidationOf, KeepsValidation
<1>3. CASE ~CoverageMet(seen)
  BY <1>1, <1>3 DEF Written, ValidationOf, KeepsValidation, StudyRow, Validations
<1> QED BY <1>2, <1>3

\* A request that only gives the study an earlier status.
LEMMA StatusKeeps ==
  ASSUME StudyInv, StudyTypeOK', NEW r \in StudyRequests, Answers(r),
         NEW status \in {"frozen", "collecting"}, study' = [study EXCEPT !.status = status],
         UNCHANGED <<assignment, rated, result, ratedAsReal>>
  PROVE  StudyInv' /\ KeepsValidation
<1>1. /\ assignment' = assignment /\ rated' = rated /\ result' = result
      /\ ratedAsReal' = ratedAsReal
      /\ study'.validation = study.validation /\ study'.status # "results_available"
  BY DEF StudyInv, StudyTypeOK
<1>2. Grows
  BY <1>1 DEF Grows, Assigned
<1>3. RatedIsAssigned' /\ SeenIsRated'
  BY <1>1, <1>2, AnswerKeeps DEF StudyInv, RatedIsAssigned
<1>4. ClaimsAreCovered'
  BY <1>1 DEF StudyInv, ClaimsAreCovered, Claims
<1>5. KindIsKept'
  BY <1>1, <1>2, KindStays DEF StudyInv
<1> QED BY <1>1, <1>3, <1>4, <1>5 DEF StudyInv, KeepsValidation

\* Every step keeps the invariant and the validation.
LEMMA StudyStepInv ==
  ASSUME StudyInv, StudyTypeOK', [StudyNext]_studyVars
  PROVE  StudyInv' /\ KeepsValidation
<1>0. StudyTypeOK /\ \A t \in Tasks, e \in Experts : <<t, e>> \in rated => Assigned(t, e)
  BY DEF StudyInv, RatedIsAssigned
<1>1. CASE CreateStudy
  <2>1. /\ assignment' = assignment /\ rated' = rated /\ result' = result
        /\ studyRequest' = studyRequest /\ ratedAsReal' = ratedAsReal
        /\ study'.validation = study.validation /\ study'.status = "draft"
    BY <1>0, <1>1 DEF CreateStudy, StudyTypeOK
  <2>2. RatedIsAssigned' /\ SeenIsRated'
    BY <2>1 DEF StudyInv, RatedIsAssigned, SeenIsRated, Assigned, AwaitsAt
  <2>3. ClaimsAreCovered'
    BY <2>1 DEF StudyInv, ClaimsAreCovered, Claims
  <2>4. KindIsKept'
    BY <2>1 DEF StudyInv, KindIsKept
  <2> QED BY <2>1, <2>2, <2>3, <2>4 DEF StudyInv, KeepsValidation
<1>2. ASSUME NEW r \in StudyRequests, StudyStep(r) PROVE StudyInv' /\ KeepsValidation
  <2> DEFINE q == studyRequest[r]
  <2>1. CASE ReadForFreeze(r)
    BY <2>1, ReadKeeps DEF ReadForFreeze, KeepsValidation
  <2>15. CASE CollectStudy(r)
    BY <2>15, StatusKeeps DEF CollectStudy
  <2>2. CASE FreezeStudy(r)
    BY <2>2, StatusKeeps DEF FreezeStudy
  <2>3. ASSUME NEW tasks \in SUBSET Tasks, NEW e \in Experts, NEW simulated \in BOOLEAN,
               ReadForAssign(r, tasks, e, simulated)
        PROVE  StudyInv' /\ KeepsValidation
    BY <2>3, ReadKeeps DEF ReadForAssign, KeepsValidation
  <2>16. CASE ReadAssignments(r)
    BY <2>16, ReadKeeps DEF ReadAssignments, KeepsValidation
  <2>17. CASE NothingToAssign(r)
    <3>1. \/ Reads(r, "assigning", [at |-> "collect"])
          \/ Reads(r, "assigning", Waiting)
      BY <2>17 DEF NothingToAssign
    <3> QED BY <3>1, ReadKeeps DEF Waiting, KeepsValidation
  <2>4. CASE AssignStudy(r)
    <3>1. q \in AssignRead
      BY <1>0, <2>4, ReadShape DEF AssignStudy
    <3> DEFINE new == [simulated |-> q.simulated, status |-> "assigned"]
    <3>2. \A t \in Tasks : assignment'[t] = IF t \in q.tasks /\ ~Assigned(t, q.expert)
                                            THEN [assignment[t] EXCEPT ![q.expert] = new]
                                            ELSE assignment[t]
      BY <2>4 DEF AssignStudy
    <3> HIDE DEF new
    <3>3. Grows
      <4>1. ASSUME NEW t \in Tasks, NEW e \in Experts, Assigned(t, e)
            PROVE  assignment'[t][e] = assignment[t][e]
        BY <1>0, <3>1, <3>2, <4>1 DEF StudyTypeOK, AssignRead
      <4>2. rated' = rated
        BY <2>4 DEF AssignStudy
      <4> QED BY <4>1, <4>2 DEF Grows, Assigned
    <3>4. rated' = rated /\ result' = result /\ Answers(r) /\ ratedAsReal' = ratedAsReal
      BY <2>4 DEF AssignStudy
    <3>5. study'.validation = study.validation /\ (Claims(study') => Claims(study))
      BY <1>0, <2>4 DEF AssignStudy, Claims, StudyTypeOK
    <3>6. RatedIsAssigned' /\ SeenIsRated'
      BY <1>0, <3>3, <3>4, AnswerKeeps
    <3>7. ClaimsAreCovered'
      BY <3>3, <3>4, <3>5, GrowthKeepsCoverage DEF StudyInv, ClaimsAreCovered
    <3>8. KindIsKept'
      BY <3>3, <3>4, KindStays DEF StudyInv
    <3> QED BY <3>5, <3>6, <3>7, <3>8 DEF StudyInv, KeepsValidation
  <2>5. ASSUME Answers(r), UNCHANGED studyRows PROVE StudyInv' /\ KeepsValidation
    <3>1. /\ study' = study /\ assignment' = assignment /\ rated' = rated /\ result' = result
          /\ ratedAsReal' = ratedAsReal
      BY <2>5 DEF studyRows
    <3>2. Grows
      BY <3>1 DEF Grows, Assigned
    <3>3. RatedIsAssigned' /\ SeenIsRated'
      BY <1>0, <2>5, <3>1, <3>2, AnswerKeeps
    <3> QED BY <3>1, <3>3 DEF StudyInv, KindIsKept, ClaimsAreCovered, KeepsValidation
  <2>6. ASSUME NEW t \in Tasks, NEW e \in Experts, ReadForStart(r, t, e)
        PROVE  StudyInv' /\ KeepsValidation
    BY <2>6, ReadKeeps DEF ReadForStart, KeepsValidation
  <2>7. ASSUME NEW t \in Tasks, NEW e \in Experts, ReadForRating(r, t, e)
        PROVE  StudyInv' /\ KeepsValidation
    <3>1. Assigned(t, e)
      BY <2>7 DEF ReadForRating, Assigned, NotAssigned
    <3> QED BY <2>7, <3>1, ReadKeeps DEF ReadForRating, KeepsValidation
  <2>8. CASE StartAssignment(r)
    <3>1. q.task \in Tasks /\ q.expert \in Experts
      BY <1>0, <2>8, ReadShape DEF StartAssignment
    <3>2. /\ study' = study /\ rated' = rated /\ result' = result /\ Answers(r)
          /\ ratedAsReal' = ratedAsReal
      BY <2>8 DEF StartAssignment
    <3>3. Grows
      BY <1>0, <2>8, <3>1, <3>2, StatusGrows DEF StartAssignment
    <3>4. RatedIsAssigned' /\ SeenIsRated'
      BY <1>0, <3>2, <3>3, AnswerKeeps
    <3>5. ClaimsAreCovered'
      BY <3>2, <3>3, GrowthKeepsCoverage DEF StudyInv, ClaimsAreCovered
    <3>6. KindIsKept'
      BY <3>2, <3>3, KindStays DEF StudyInv
    <3> QED BY <3>2, <3>4, <3>5, <3>6 DEF StudyInv, KeepsValidation
  <2>9. CASE SubmitRating(r)
    <3>1. q.task \in Tasks /\ q.expert \in Experts
      BY <1>0, <2>9, ReadShape DEF SubmitRating
    <3>2. /\ rated' = rated \cup {<<q.task, q.expert>>} /\ Answers(r)
          /\ Aggregate(rated', study, result)
      BY <2>9 DEF SubmitRating
    <3>3. Assigned(q.task, q.expert)
      BY <2>9 DEF SubmitRating, StudyInv, RatedIsAssigned
    <3>4. \A t \in Tasks, e \in Experts : <<t, e>> \in rated' => Assigned(t, e)
      BY <1>0, <3>2, <3>3
    <3>5. Grows
      BY <1>0, <2>9, <3>1, <3>2, StatusGrows DEF SubmitRating
    <3>6. RatedIsAssigned' /\ SeenIsRated' /\ ClaimsAreCovered'
      BY <3>2, <3>4, <3>5, AnswerKeeps, AggregateKeeps
    <3>7. study.validation = "real_expert_results_available" => CoverageMet(rated')
      <4>1. Claims(study) => Covered(assignment, rated)
        BY DEF StudyInv, ClaimsAreCovered
      <4>2. Covered(assignment, rated) => Covered(assignment, rated')
        BY <3>2, CoverageGrows
      <4> QED BY <4>1, <4>2, CoverageMetIsCovered DEF Claims
    <3>8. KeepsValidation
      BY <1>0, <3>2, <3>7, AggregateKeepsValidation DEF StudyTypeOK, StudyRow
    <3>9. KindIsKept'
      <4> SUFFICES ASSUME NEW t \in Tasks, NEW e \in Experts
                   PROVE  <<t, e>> \in ratedAsReal'
                            <=> <<t, e>> \in rated' /\ ~assignment'[t][e].simulated
        BY DEF KindIsKept
      <4>1. assignment'[q.task][q.expert].simulated = assignment[q.task][q.expert].simulated
        BY <3>1, <3>3, <3>5 DEF Grows
      <4>2. <<q.task, q.expert>> \notin rated
        BY <2>9 DEF SubmitRating
      <4>3. CASE <<t, e>> = <<q.task, q.expert>>
        <5>1. <<t, e>> \notin ratedAsReal
          BY <4>2, <4>3 DEF StudyInv, KindIsKept
        <5>2. <<t, e>> \in ratedAsReal' <=> ~assignment[q.task][q.expert].simulated
          BY <2>9, <4>3, <5>1 DEF SubmitRating
        <5> QED BY <3>2, <4>1, <4>3, <5>2
      <4>4. CASE <<t, e>> # <<q.task, q.expert>>
        <5>1. <<t, e>> \in ratedAsReal' <=> <<t, e>> \in ratedAsReal
          BY <2>9, <4>4 DEF SubmitRating
        <5>2. <<t, e>> \in rated' <=> <<t, e>> \in rated
          BY <3>2, <4>4
        <5> QED BY <3>5, <5>1, <5>2 DEF StudyInv, KindIsKept, Grows, RatedIsAssigned
      <4> QED BY <4>3, <4>4
    <3> QED BY <3>6, <3>8, <3>9 DEF StudyInv
  <2>10. CASE ReadStudy(r)
    BY <2>10, ReadKeeps DEF ReadStudy, StudyInv, ClaimsAreCovered, KeepsValidation
  <2>11. CASE ReadRatings(r)
    <3>1. Claims(q.study) => Covered(assignment, rated)
      BY <2>11 DEF ReadRatings, Reads, StudyInv, SeenIsRated
    <3> QED BY <2>11, <3>1, ReadKeeps DEF ReadRatings, KeepsValidation
  <2>12. CASE ReadResult(r)
    <3>1. q.seen \subseteq rated /\ (Claims(q.study) => Covered(assignment, q.seen))
      BY <2>12 DEF ReadResult, Reads, StudyInv, SeenIsRated
    <3> QED BY <2>12, <3>1, ReadKeeps DEF ReadResult, KeepsValidation
  <2>13. CASE WriteResults(r)
    <3>1. q.seen \subseteq rated /\ (Claims(q.study) => Covered(assignment, q.seen))
      BY <2>13 DEF WriteResults, StudyInv, SeenIsRated
    <3>2. /\ assignment' = assignment /\ rated' = rated /\ Answers(r)
          /\ ratedAsReal' = ratedAsReal
          /\ Aggregate(q.seen, q.study, q.row)
      BY <2>13 DEF WriteResults
    <3>3. Grows
      BY <3>2 DEF Grows, Assigned
    <3>4. RatedIsAssigned' /\ SeenIsRated' /\ ClaimsAreCovered'
      BY <1>0, <3>1, <3>2, <3>3, AnswerKeeps, AggregateKeeps
    <3>5. q.study \in StudyRow
      BY <1>0, <2>13, ReadShape DEF WriteResults, AggregateRead
    <3>6. KeepsValidation
      BY <3>1, <3>2, <3>5, AggregateKeepsValidation, CoverageMetIsCovered DEF Claims
    <3>7. KindIsKept'
      BY <3>2, <3>3, KindStays DEF StudyInv
    <3> QED BY <3>4, <3>6, <3>7 DEF StudyInv
  <2> QED
    BY <1>2, <2>1, <2>2, <2>3, <2>4, <2>5, <2>6, <2>7, <2>8, <2>9, <2>10, <2>11, <2>12, <2>13,
       <2>15, <2>16, <2>17
    DEF StudyStep, AssignFails, RatingFails, ResultsFail
<1>3. CASE UNCHANGED studyVars
  BY <1>3 DEF studyVars, StudyInv, RatedIsAssigned, SeenIsRated, KindIsKept, ClaimsAreCovered,
              Assigned, AwaitsAt, KeepsValidation
<1> QED BY <1>1, <1>2, <1>3 DEF StudyNext

\* The inductive invariant holds whatever requests overlap.
THEOREM StudyInvariant == StudySpec => [](StudyTypeOK /\ StudyInv)
<1>1. StudyInit /\ StudyTypeOK => StudyTypeOK /\ StudyInv
  BY StudyInitInv
<1>2. StudyInv /\ StudyTypeOK' /\ [StudyNext]_studyVars => StudyInv'
  BY StudyStepInv
<1> QED BY <1>1, <1>2, StudyTypeCorrect, PTL DEF StudySpec

\* A study is called validated only when every task was rated by enough experts, as real
\* experts at the time they rated it.
THEOREM ValidatedOnlyByExperts == StudySpec => []ValidatedByExperts
<1>1. StudyInv => ValidatedByExperts
  <2> SUFFICES ASSUME StudyInv, Claims(study)
                        \/ result.validation = "real_expert_results_available",
                      NEW t \in Tasks
               PROVE  Cardinality({e \in Experts : <<t, e>> \in ratedAsReal}) >= MinimumExperts
    BY DEF Claims, ValidatedByExperts
  <2>1. {e \in Experts : <<t, e>> \in ratedAsReal} = RealOf(assignment, rated, t)
    BY DEF StudyInv, KindIsKept, RealOf
  <2> QED BY <2>1 DEF StudyInv, ClaimsAreCovered, Covered
<1> QED BY <1>1, StudyInvariant, PTL

\* No overlap of requests takes the validation of a study back.
THEOREM ValidationIsKept == StudySpec => ValidationKept
<1>1. StudyInv /\ StudyTypeOK' /\ [StudyNext]_studyVars
        => [study.validation = "real_expert_results_available"
              => study'.validation = "real_expert_results_available"]_studyVars
  BY StudyStepInv DEF KeepsValidation
<1> QED BY <1>1, StudyInvariant, PTL DEF StudySpec, ValidationKept
=============================================================================
