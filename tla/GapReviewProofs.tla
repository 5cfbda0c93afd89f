-------------------------- MODULE GapReviewProofs --------------------------
(***************************************************************************)
(* Proofs about the review of a gap candidate, for any number of challenge, *)
(* decision and plan requests, any contexts, queries and findings.          *)
(***************************************************************************)
EXTENDS GapReview, TLAPS

USE ReviewAssumption

-----------------------------------------------------------------------------
(* What the steps write. *)

\* An UPDATE of a challenge leaves a row whose columns are the old or the new ones.
LEMMA SaveFields ==
  ASSUME NEW row \in Row, NEW copy \in Row, NEW evidence \in Evidence,
         NEW complete \in BOOLEAN
  PROVE  LET r == Save(row, copy, evidence, complete)
         IN  /\ r \in Row
             /\ r.status = Column(row.status, copy.status, StatusAfter(complete))
             /\ r.fingerprint = Column(row.fingerprint, copy.fingerprint,
                                       Fingerprint(evidence, complete))
<1> DEFINE status == Column(row.status, copy.status, StatusAfter(complete))
           columns == [queries |-> Column(row.evidence.queries, copy.evidence.queries,
                                          evidence.queries),
                       counter |-> Column(row.evidence.counter, copy.evidence.counter,
                                          evidence.counter)]
           stamp == IF complete \/ copy.completed THEN complete ELSE row.completed
           print == Column(row.fingerprint, copy.fingerprint,
                           Fingerprint(evidence, complete))
<1>1. Fingerprint(evidence, complete) \in Fingerprints
  BY DEF Fingerprint, Fingerprints
<1>2. print \in Fingerprints \cup {None}
  BY <1>1 DEF Column, Row
<1>3. status \in {"absent", "generated", "pending_confirmation"} \cup Decided
  BY DEF Column, StatusAfter, Row
<1>4. columns \in Evidence
  BY DEF Column, Row, Evidence
<1>5. stamp \in BOOLEAN
  BY DEF Row
<1>6. Save(row, copy, evidence, complete) =
        [row EXCEPT !.status = status, !.evidence = columns, !.completed = stamp,
                    !.fingerprint = print]
  BY DEF Save
<1> HIDE DEF status, columns, stamp, print
<1>7. LET r == [row EXCEPT !.status = status, !.evidence = columns, !.completed = stamp,
                           !.fingerprint = print]
      IN  r \in Row /\ r.status = status /\ r.fingerprint = print
  BY <1>2, <1>3, <1>4, <1>5 DEF Row
<1> QED BY <1>6, <1>7 DEF status, print

LEMMA AbsentIsRow == AbsentRow \in Row
BY DEF AbsentRow, NoEvidence, Row, Evidence

\* A gap that may be confirmed carries the fingerprint of a complete challenge.
LEMMA ConfirmableFingerprint ==
  ASSUME AwaitsDecision(gap), Current(gap)
  PROVE  /\ gap.fingerprint.complete
         /\ gap.fingerprint.evidence = gap.evidence
BY DEF AwaitsDecision, Current, Fingerprint

-----------------------------------------------------------------------------
(* Types. *)

\* The review is well typed.
THEOREM TypeCorrect == Spec => []TypeOK
<1>1. Init => TypeOK
  BY AbsentIsRow DEF Init, TypeOK
<1>2. TypeOK /\ [Next]_vars => TypeOK'
  <2> SUFFICES ASSUME TypeOK, [Next]_vars PROVE TypeOK'
    OBVIOUS
  <2> USE DEF TypeOK
  <2>1. CASE Edit
    BY <2>1 DEF Edit, requests, history
  <2>2. CASE Generate
    <3>1. [AbsentRow EXCEPT !.status = "generated", !.context = ctx] \in Row
      BY AbsentIsRow DEF Row
    <3> QED BY <2>2, <3>1 DEF Generate, requests, history
  <2>3. ASSUME NEW c \in Challengers, StartChallenge(c) PROVE TypeOK'
    BY <2>3 DEF StartChallenge, history
  <2>4. ASSUME NEW c \in Challengers, EndChallenge(c) PROVE TypeOK'
    <3>1. challenge[c] \in [copy : Row, queries : Queries]
      BY <2>4 DEF EndChallenge
    <3>2. challenge[c].copy \in Row /\ challenge[c].queries \in Queries
      BY <3>1
    <3>3. PICK counter \in Findings \cup {None}, complete \in BOOLEAN :
            LET evidence == [queries |-> challenge[c].queries, counter |-> counter]
            IN  /\ gap' = Save(gap, challenge[c].copy, evidence, complete)
                /\ found' = IF complete THEN found \cup {evidence} ELSE found
                /\ overtaken' = \/ overtaken
                                \/ gap.status \in Decided
                                   /\ challenge[c].copy.status # gap.status
      BY <2>4 DEF EndChallenge
    <3> DEFINE evidence == [queries |-> challenge[c].queries, counter |-> counter]
    <3>4. evidence \in Evidence
      BY <3>2 DEF Evidence
    <3>5. gap' \in Row
      BY <3>2, <3>3, <3>4, SaveFields
    <3>6. found' \subseteq Evidence /\ overtaken' \in BOOLEAN
      BY <3>3, <3>4
    <3> QED BY <2>4, <3>5, <3>6 DEF EndChallenge
  <2>5. ASSUME NEW c \in Challengers, AbortChallenge(c) PROVE TypeOK'
    BY <2>5 DEF AbortChallenge, history
  <2>6. ASSUME NEW d \in Deciders, ReadDecision(d) PROVE TypeOK'
    BY <2>6 DEF ReadDecision, history
  <2>7. ASSUME NEW d \in Deciders, WriteDecision(d) PROVE TypeOK'
    <3>1. decision[d] \in [copy : Row, verdict : Decided]
      BY <2>7 DEF WriteDecision
    <3>2. decision[d].verdict \in Decided /\ decision[d].copy.evidence \in Evidence
      BY <3>1 DEF Row
    <3>3. gap' \in Row
      BY <2>7, <3>2 DEF WriteDecision, Row
    <3> QED BY <2>7, <3>2, <3>3 DEF WriteDecision
  <2>8. ASSUME NEW p \in Planners, CheckPlan(p) PROVE TypeOK'
    <3>1. gap.evidence \in Evidence
      BY DEF Row
    <3> QED BY <2>8, <3>1 DEF CheckPlan, history
  <2>9. ASSUME NEW p \in Planners, CreatePlan(p) \/ UpdateItem(p) PROVE TypeOK'
    <3>1. planning[p] \in [step : {"create", "update"}, basis : Evidence]
      BY <2>9 DEF CreatePlan, UpdateItem, Write
    <3>2. planning[p].basis \in Evidence
      BY <3>1
    <3> QED BY <2>9, <3>2 DEF CreatePlan, UpdateItem, Write, history
  <2>10. CASE UNCHANGED vars
    BY <2>10 DEF vars, requests, history
  <2> QED
    BY <2>1, <2>2, <2>3, <2>4, <2>5, <2>6, <2>7, <2>8, <2>9, <2>10 DEF Next
<1> QED BY <1>1, <1>2, PTL DEF Spec

-----------------------------------------------------------------------------
(* The inductive invariant. *)

\* A fingerprint of a complete challenge is the fingerprint of found evidence.
FingerprintFound ==
  gap.fingerprint \in Fingerprints /\ gap.fingerprint.complete
    => gap.fingerprint.evidence \in found

\* A decision under way is about a complete challenge, a confirmation about what
\* that challenge found.
DecisionOK(d) ==
  decision[d] \notin {Idle, Done} =>
    /\ decision[d].copy.completed
    /\ decision[d].verdict = "confirmed" => decision[d].copy.evidence \in found

\* Nothing is confirmed before a user has confirmed something.
ConfirmedHasReview == gap.status = "confirmed" => reviewed # {}

\* A plan request under way has seen a confirmed gap.
PlanningOK(p) ==
  planning[p] \notin {Idle, Done} =>
    /\ reviewed # {}
    /\ ~overtaken => planning[p].basis \in reviewed

IInv ==
  /\ TypeOK
  /\ FingerprintFound
  /\ \A d \in Deciders : DecisionOK(d)
  /\ ReviewedWasFound
  /\ ConfirmedHasReview
  /\ ConfirmedIsReviewedUnlessOvertaken
  /\ \A p \in Planners : PlanningOK(p)
  /\ PlansRestOnReview

\* The invariant speaks of these variables only.
LEMMA FrameIInv ==
  ASSUME IInv, TypeOK', gap' = gap, found' = found, decision' = decision,
         planning' = planning, plans' = plans, progress' = progress,
         reviewed' = reviewed, overtaken' = overtaken
  PROVE  IInv'
BY DEF IInv, FingerprintFound, DecisionOK, ReviewedWasFound, ConfirmedHasReview,
       ConfirmedIsReviewedUnlessOvertaken, ConfirmedIsReviewed, PlanningOK,
       PlansRestOnReview

LEMMA EndChallengeKeeps ==
  ASSUME IInv, TypeOK', NEW c \in Challengers, EndChallenge(c)
  PROVE  IInv'
<1> USE DEF IInv
<1>1. challenge[c] \in [copy : Row, queries : Queries]
  BY DEF EndChallenge, TypeOK
<1>2. challenge[c].copy \in Row /\ challenge[c].queries \in Queries
  BY <1>1
<1>3. PICK counter \in Findings \cup {None}, complete \in BOOLEAN :
        LET evidence == [queries |-> challenge[c].queries, counter |-> counter]
        IN  /\ gap' = Save(gap, challenge[c].copy, evidence, complete)
            /\ found' = IF complete THEN found \cup {evidence} ELSE found
            /\ overtaken' = \/ overtaken
                            \/ gap.status \in Decided
                               /\ challenge[c].copy.status # gap.status
  BY DEF EndChallenge
<1> DEFINE evidence == [queries |-> challenge[c].queries, counter |-> counter]
           copy == challenge[c].copy
<1>4. evidence \in Evidence
  BY <1>2 DEF Evidence
<1>5. gap \in Row
  BY DEF TypeOK
<1>6. /\ gap'.status = Column(gap.status, copy.status, StatusAfter(complete))
      /\ gap'.fingerprint = Column(gap.fingerprint, copy.fingerprint,
                                   Fingerprint(evidence, complete))
  BY <1>2, <1>3, <1>4, <1>5, SaveFields
<1>7. found \subseteq found' /\ (complete => evidence \in found')
  BY <1>3
<1>8. /\ decision' = decision /\ planning' = planning /\ reviewed' = reviewed
      /\ plans' = plans /\ progress' = progress
  BY DEF EndChallenge
<1>9. overtaken => overtaken'
  BY <1>3
<1> HIDE DEF evidence
<1>10. FingerprintFound'
  <2>1. CASE gap'.fingerprint = gap.fingerprint
    BY <2>1, <1>7 DEF FingerprintFound
  <2>2. CASE gap'.fingerprint = Fingerprint(evidence, complete)
    BY <2>2, <1>7 DEF FingerprintFound, Fingerprint
  <2> QED BY <2>1, <2>2, <1>6 DEF Column
<1>11. \A d \in Deciders : DecisionOK(d)'
  BY <1>7, <1>8 DEF DecisionOK
<1>12. ReviewedWasFound'
  BY <1>7, <1>8 DEF ReviewedWasFound
\* A challenge never writes "confirmed": a confirmed row was confirmed before.
<1>13. gap'.status = "confirmed" => gap.status = "confirmed" /\ overtaken'
  <2>1. SUFFICES ASSUME gap'.status = "confirmed"
                 PROVE  gap.status = "confirmed" /\ overtaken'
    OBVIOUS
  <2>2. gap'.status # StatusAfter(complete)
    BY <2>1 DEF StatusAfter
  <2>3. gap.status = "confirmed" /\ copy.status = StatusAfter(complete)
    BY <2>1, <2>2, <1>6 DEF Column
  <2>4. copy.status # gap.status
    BY <2>3 DEF StatusAfter
  <2> QED BY <2>3, <2>4, <1>3 DEF Decided
<1>14. ConfirmedHasReview'
  BY <1>13, <1>8 DEF ConfirmedHasReview
<1>15. ConfirmedIsReviewedUnlessOvertaken'
  BY <1>13 DEF ConfirmedIsReviewedUnlessOvertaken, ConfirmedIsReviewed
<1>16. \A p \in Planners : PlanningOK(p)'
  BY <1>8, <1>9 DEF PlanningOK
<1>17. PlansRestOnReview'
  BY <1>8, <1>9 DEF PlansRestOnReview
<1> QED BY <1>10, <1>11, <1>12, <1>14, <1>15, <1>16, <1>17

LEMMA ReadDecisionKeeps ==
  ASSUME IInv, TypeOK', NEW d \in Deciders, ReadDecision(d)
  PROVE  IInv'
<1> USE DEF IInv
<1>1. PICK verdict \in Decided :
        /\ verdict = "confirmed" => Current(gap)
        /\ decision' = [decision EXCEPT ![d] = [copy |-> gap, verdict |-> verdict]]
  BY DEF ReadDecision
<1>2. gap.completed /\ (verdict = "confirmed" => gap.evidence \in found)
  <2>1. gap.completed
    BY DEF ReadDecision, AwaitsDecision
  <2>2. ASSUME verdict = "confirmed" PROVE gap.evidence \in found
    <3>1. Current(gap) /\ AwaitsDecision(gap)
      BY <1>1, <2>2 DEF ReadDecision
    <3>2. gap.fingerprint = [evidence |-> gap.evidence, complete |-> gap.completed]
      BY <2>1, <3>1 DEF Current, Fingerprint
    <3>3. gap.fingerprint \in Fingerprints
      BY <3>2 DEF Fingerprints, TypeOK, Row
    <3> QED BY <2>1, <3>2, <3>3 DEF FingerprintFound
  <2> QED BY <2>1, <2>2
<1>3. \A e \in Deciders : DecisionOK(e)'
  <2> SUFFICES ASSUME NEW e \in Deciders PROVE DecisionOK(e)'
    OBVIOUS
  <2>1. CASE e = d
    <3>1. decision'[d] = [copy |-> gap, verdict |-> verdict]
      BY <1>1 DEF TypeOK
    <3>2. decision'[d].copy = gap /\ decision'[d].verdict = verdict
      BY <3>1
    <3>3. found' = found
      BY DEF ReadDecision, history
    <3>4. /\ decision'[e].copy.completed
          /\ decision'[e].verdict = "confirmed" => decision'[e].copy.evidence \in found'
      BY <2>1, <3>2, <3>3, <1>2
    <3> QED BY <3>4 DEF DecisionOK
  <2>2. CASE e # d
    BY <1>1, <2>2 DEF DecisionOK, ReadDecision, TypeOK, history
  <2> QED BY <2>1, <2>2
<1>4. /\ FingerprintFound' /\ ReviewedWasFound' /\ ConfirmedHasReview'
      /\ ConfirmedIsReviewedUnlessOvertaken' /\ (\A p \in Planners : PlanningOK(p)')
      /\ PlansRestOnReview'
  BY DEF ReadDecision, history, FingerprintFound, ReviewedWasFound, ConfirmedHasReview,
         ConfirmedIsReviewedUnlessOvertaken, ConfirmedIsReviewed, PlanningOK,
         PlansRestOnReview
<1> QED BY <1>3, <1>4

LEMMA WriteDecisionKeeps ==
  ASSUME IInv, TypeOK', NEW d \in Deciders, WriteDecision(d)
  PROVE  IInv'
<1> USE DEF IInv
<1> DEFINE copy == decision[d].copy
           verdict == decision[d].verdict
<1>1. decision[d] \in [copy : Row, verdict : Decided] /\ gap \in Row
  BY DEF WriteDecision, TypeOK
<1>2. /\ copy.completed
      /\ verdict = "confirmed" => copy.evidence \in found
  BY DEF DecisionOK, WriteDecision
<1>3. /\ gap'.status = verdict
      /\ gap'.evidence = gap.evidence
      /\ gap'.completed = gap.completed
      /\ gap'.fingerprint = gap.fingerprint
  BY <1>1 DEF WriteDecision, Row
<1>4. /\ found' = found /\ planning' = planning
      /\ plans' = plans /\ progress' = progress
      /\ reviewed \subseteq reviewed'
      /\ overtaken => overtaken'
  BY DEF WriteDecision
<1>5. verdict = "confirmed" => copy.evidence \in reviewed'
  BY DEF WriteDecision
<1>6. FingerprintFound'
  BY <1>3, <1>4 DEF FingerprintFound
<1>7. \A e \in Deciders : DecisionOK(e)'
  BY <1>4 DEF DecisionOK, WriteDecision, TypeOK
<1>8. ReviewedWasFound'
  BY <1>2, <1>4 DEF ReviewedWasFound, WriteDecision
<1>9. ConfirmedHasReview'
  BY <1>3, <1>5 DEF ConfirmedHasReview
<1>10. ConfirmedIsReviewedUnlessOvertaken'
  <2> SUFFICES ASSUME ~overtaken', gap'.status = "confirmed"
               PROVE  gap'.completed /\ gap'.evidence \in reviewed'
    BY DEF ConfirmedIsReviewedUnlessOvertaken, ConfirmedIsReviewed
  <2>1. [gap EXCEPT !.status = "pending_confirmation"] = copy
    BY DEF WriteDecision
  <2>2. copy.evidence = gap.evidence /\ copy.completed = gap.completed
    BY <2>1, <1>1 DEF Row
  <2> QED BY <2>2, <1>2, <1>3, <1>5
<1>11. \A p \in Planners : PlanningOK(p)'
  BY <1>4 DEF PlanningOK
<1>12. PlansRestOnReview'
  BY <1>4 DEF PlansRestOnReview
<1> QED BY <1>6, <1>7, <1>8, <1>9, <1>10, <1>11, <1>12

LEMMA CheckPlanKeeps ==
  ASSUME IInv, TypeOK', NEW p \in Planners, CheckPlan(p)
  PROVE  IInv'
<1> USE DEF IInv
<1>1. PICK step : planning' = [planning EXCEPT ![p] = [step |-> step, basis |-> gap.evidence]]
  BY DEF CheckPlan
<1>2. reviewed # {} /\ (~overtaken => gap.evidence \in reviewed)
  BY DEF CheckPlan, Reviewable, ConfirmedHasReview, ConfirmedIsReviewedUnlessOvertaken,
         ConfirmedIsReviewed
<1>3. \A q \in Planners : PlanningOK(q)'
  BY <1>1, <1>2 DEF PlanningOK, CheckPlan, TypeOK, history
<1>4. /\ FingerprintFound' /\ ReviewedWasFound' /\ ConfirmedHasReview'
      /\ ConfirmedIsReviewedUnlessOvertaken' /\ (\A d \in Deciders : DecisionOK(d)')
      /\ PlansRestOnReview'
  BY DEF CheckPlan, history, FingerprintFound, ReviewedWasFound, ConfirmedHasReview,
         ConfirmedIsReviewedUnlessOvertaken, ConfirmedIsReviewed, DecisionOK,
         PlansRestOnReview
<1> QED BY <1>3, <1>4

LEMMA WritePlanKeeps ==
  ASSUME IInv, TypeOK', NEW p \in Planners, CreatePlan(p) \/ UpdateItem(p)
  PROVE  IInv'
<1> USE DEF IInv
<1>1. reviewed # {} /\ (~overtaken => planning[p].basis \in reviewed)
  BY DEF PlanningOK, CreatePlan, UpdateItem, Write
<1>2. plans' \cup progress' \subseteq plans \cup progress \cup {planning[p].basis}
  BY DEF CreatePlan, UpdateItem, Write
<1>3. PlansRestOnReview'
  BY <1>1, <1>2 DEF PlansRestOnReview, CreatePlan, UpdateItem, Write, history
<1>4. \A q \in Planners : PlanningOK(q)'
  BY DEF PlanningOK, CreatePlan, UpdateItem, Write, TypeOK, history
<1>5. /\ FingerprintFound' /\ ReviewedWasFound' /\ ConfirmedHasReview'
      /\ ConfirmedIsReviewedUnlessOvertaken' /\ (\A d \in Deciders : DecisionOK(d)')
  BY DEF CreatePlan, UpdateItem, Write, history, FingerprintFound, ReviewedWasFound,
         ConfirmedHasReview, ConfirmedIsReviewedUnlessOvertaken, ConfirmedIsReviewed, DecisionOK
<1> QED BY <1>3, <1>4, <1>5

\* The invariant holds in every reachable state.
THEOREM Invariance == Spec => []IInv
<1>1. Init => IInv
  <2> SUFFICES ASSUME Init PROVE IInv
    OBVIOUS
  <2>1. TypeOK
    BY AbsentIsRow DEF Init, TypeOK
  <2>2. gap.status = "absent" /\ gap.fingerprint = None
    BY DEF Init, AbsentRow
  <2>3. (\A d \in Deciders : DecisionOK(d)) /\ (\A p \in Planners : PlanningOK(p))
    BY DEF Init, DecisionOK, PlanningOK
  <2>4. /\ FingerprintFound /\ ReviewedWasFound /\ ConfirmedHasReview
        /\ ConfirmedIsReviewedUnlessOvertaken /\ PlansRestOnReview
    BY <2>2 DEF Init, FingerprintFound, ReviewedWasFound, ConfirmedHasReview,
                ConfirmedIsReviewedUnlessOvertaken, ConfirmedIsReviewed,
                PlansRestOnReview
  <2> QED BY <2>1, <2>3, <2>4 DEF IInv
<1>2. IInv /\ TypeOK' /\ [Next]_vars => IInv'
  <2> SUFFICES ASSUME IInv, TypeOK', [Next]_vars PROVE IInv'
    OBVIOUS
  <2>1. CASE Edit
    BY <2>1, FrameIInv DEF Edit, requests, history
  <2>2. CASE Generate
    <3>1. gap'.status = "generated" /\ gap'.fingerprint = None
      BY <2>2 DEF Generate, AbsentRow
    <3> QED BY <2>2, <3>1
            DEF Generate, requests, history, IInv, FingerprintFound, DecisionOK,
                ReviewedWasFound, ConfirmedHasReview, ConfirmedIsReviewedUnlessOvertaken,
                ConfirmedIsReviewed, PlanningOK, PlansRestOnReview
  <2>3. ASSUME NEW c \in Challengers, StartChallenge(c) PROVE IInv'
    BY <2>3, FrameIInv DEF StartChallenge, history
  <2>4. ASSUME NEW c \in Challengers, EndChallenge(c) PROVE IInv'
    BY <2>4, EndChallengeKeeps
  <2>5. ASSUME NEW c \in Challengers, AbortChallenge(c) PROVE IInv'
    BY <2>5, FrameIInv DEF AbortChallenge, history
  <2>6. ASSUME NEW d \in Deciders, ReadDecision(d) PROVE IInv'
    BY <2>6, ReadDecisionKeeps
  <2>7. ASSUME NEW d \in Deciders, WriteDecision(d) PROVE IInv'
    BY <2>7, WriteDecisionKeeps
  <2>8. ASSUME NEW p \in Planners, CheckPlan(p) PROVE IInv'
    BY <2>8, CheckPlanKeeps
  <2>9. ASSUME NEW p \in Planners, CreatePlan(p) \/ UpdateItem(p) PROVE IInv'
    BY <2>9, WritePlanKeeps
  <2>10. CASE UNCHANGED vars
    BY <2>10, FrameIInv DEF vars, requests, history
  <2> QED
    BY <2>1, <2>2, <2>3, <2>4, <2>5, <2>6, <2>7, <2>8, <2>9, <2>10 DEF Next
<1> QED BY <1>1, <1>2, TypeCorrect, PTL DEF Spec

\* Every confirmation was given for what one complete challenge found, whatever
\* overlaps (routes/gaps.py confirm_gap, gaps/guard.py assert_current_gap).
THEOREM ReviewsAreOfFoundEvidence == Spec => []ReviewedWasFound
<1>1. IInv => ReviewedWasFound
  BY DEF IInv
<1> QED BY <1>1, Invariance, PTL

\* Without an overlap of a challenge and a decision a confirmed gap stays the gap
\* that was confirmed (gaps/service.py run_gap_challenge resets the status).
THEOREM ConfirmationsHold == Spec => []ConfirmedIsReviewedUnlessOvertaken
<1>1. IInv => ConfirmedIsReviewedUnlessOvertaken
  BY DEF IInv
<1> QED BY <1>1, Invariance, PTL

\* The gate of plans and plan items (routes/plans.py create_plan, _review_reason).
THEOREM PlansAreGated == Spec => []PlansRestOnReview
<1>1. IInv => PlansRestOnReview
  BY DEF IInv
<1> QED BY <1>1, Invariance, PTL
=============================================================================
