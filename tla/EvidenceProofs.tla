--------------------------- MODULE EvidenceProofs ---------------------------
(***************************************************************************)
(* Proofs about the evidence workflow, for any number of jobs and contents   *)
(* and any number of deaths, changes, attempts and locked commits.          *)
(***************************************************************************)
EXTENDS EvidenceWorkflow, SequenceTheorems, FiniteSetTheorems, TLAPS

(* The inductive invariant. *)

\* What the proofs need of the types; the bounds come with EvidenceTypes.
PaperTyped ==
  /\ docs \in Seq(Document) /\ identity \in Identities
  /\ verified \in BOOLEAN /\ halfStored \in BOOLEAN
JobTyped ==
  /\ status \in [Jobs -> Statuses] /\ attempts \in [Jobs -> Nat]
  /\ cancelled \in [Jobs -> BOOLEAN] /\ recovered \in [Jobs -> Nat]
  /\ cancelledIn \in [Jobs -> 0..4]
WorkerTyped == up \in BOOLEAN /\ unsaved \in [Jobs -> BOOLEAN]
RunTyped == openRuns \in [Jobs -> SUBSET Nat] /\ cutOff \in [Jobs -> SUBSET Nat]
Typed == PaperTyped /\ JobTyped /\ WorkerTyped /\ RunTyped /\ exec \in [Jobs -> Execution]

\* The worker executes one job at a time, and its row says so unless it was cancelled.
Single == \A j, k \in Jobs : ~At(j, "idle") /\ ~At(k, "idle") => j = k
Executed(j) == ~At(j, "idle") => up /\ status[j] \in {"running", "cancelled"}

\* A cut-off attempt is one of the past.
CutOffPast(j) == /\ \A n \in cutOff[j] : n <= attempts[j]
                 /\ ~At(j, "idle") => attempts[j] \notin cutOff[j]

\* A document without its index was half stored.
DocumentsSound == \A i \in DOMAIN docs : docs[i].indexed \/ halfStored

\* What is known of an execution at its stage: whether it holds the Paper as it is, whether
\* there is full text it did not ask about, what it has fetched and what it has read.
Full(i) == HasText(i) /\ Coverage[Newest.content] = "succeeded"
StageSound(e) ==
  /\ e.at \in {"locate", "retrieve", "ingest", "store", "analyse", "finish"} =>
       e.drifted \/ e.paper \in {None, identity}
  /\ e.at \in {"retrieve", "ingest", "store"} => e.moved \/ e.drifted \/ ~Full(identity)
  /\ e.at \in {"ingest", "store"} => e.fetched \in Contents
  /\ e.at = "finish" => /\ e.analysis \in Analysis
                        /\ ~e.analysis.empty \/ halfStored
                        /\ Full(identity) => e.analysis.level = "full" \/ e.moved \/ e.drifted

IInv ==
  /\ Typed /\ Single /\ DocumentsSound /\ RunsClosed /\ CancelledStops
  /\ \A j \in Jobs : Executed(j) /\ CutOffPast(j) /\ StageSound(exec[j])

LEMMA FullEvidence == \A i : (Evidence(i) = "full") <=> Full(i)
BY DEF Evidence, Full

LEMMA PartBounds == ASSUME NEW stage \in Stages PROVE Part(stage) \in 0..4
BY DEF Part, Stages

LEMMA FreshIdle == Fresh \in Execution /\ Fresh.at = "idle"
BY DEF Fresh, Execution, Stages

\* Nothing is asked of a job that is not being executed.
LEMMA IdleSound == ASSUME NEW e, e.at = "idle" PROVE StageSound(e) /\ StageSound(e)'
BY DEF StageSound

LEMMA InitInv == Init => IInv
<1> SUFFICES ASSUME Init PROVE IInv
  OBVIOUS
<1>1. Typed
  <2>1. PaperTyped
    <3>1. identity \in Identities
      BY EvidenceAssumption DEF Init
    <3>2. <<>> \in Seq(Document) /\ docs = <<>>
      BY DEF Init
    <3>3. verified \in BOOLEAN /\ halfStored \in BOOLEAN
      BY DEF Init
    <3> QED BY <3>1, <3>2, <3>3 DEF PaperTyped
  <2>2. JobTyped
    BY DEF Init, JobTyped, Statuses
  <2>3. WorkerTyped /\ RunTyped /\ exec \in [Jobs -> Execution]
    BY FreshIdle DEF Init, WorkerTyped, RunTyped
  <2> QED BY <2>1, <2>2, <2>3 DEF Typed
<1>2. \A j \in Jobs : exec[j].at = "idle" /\ cutOff[j] = {} /\ openRuns[j] = {} /\ ~cancelled[j]
  BY FreshIdle DEF Init
<1>3. Single /\ RunsClosed /\ CancelledStops
  BY <1>2 DEF Single, At, RunsClosed, CancelledStops
<1>4. DocumentsSound
  BY DEF Init, DocumentsSound
<1>5. \A j \in Jobs : Executed(j) /\ CutOffPast(j) /\ StageSound(exec[j])
  BY <1>2, IdleSound DEF Executed, CutOffPast, At
<1> QED BY <1>1, <1>3, <1>4, <1>5 DEF IInv

-----------------------------------------------------------------------------
(* The documents. *)

\* Positions behind the place where something was removed.
LEMMA Behind ==
  ASSUME NEW n \in Int, NEW i \in Int, NEW p \in Int, NEW m \in Int, NEW k \in Int,
         p = i - 1, m = n - i, i >= 1, k >= 1, k <= p + m, ~(k <= p)
  PROVE  k - p \in 1..m /\ i + (k - p) \in 1..n
OBVIOUS

\* Elements of a sequence without one of them: those behind it move to the front.
LEMMA Removed ==
  ASSUME NEW S, NEW s \in Seq(S), NEW i \in DOMAIN s
  PROVE  /\ RemoveAt(s, i) \in Seq(S)
         /\ \A k \in DOMAIN RemoveAt(s, i) :
              LET l == IF k < i THEN k ELSE k + 1
              IN k \in Int /\ l \in DOMAIN s /\ RemoveAt(s, i)[k] = s[l]
<1>1. i \in 1..Len(s) /\ Len(s) \in Nat
  OBVIOUS
<1> DEFINE a == SubSeq(s, 1, i - 1)
           b == SubSeq(s, i + 1, Len(s))
<1>2. a \in Seq(S) /\ Len(a) = i - 1 /\ \A k \in 1..(i - 1) : a[k] = s[k]
  BY <1>1
<1>3. /\ b \in Seq(S) /\ Len(b) = Len(s) - i
      /\ \A k \in 1..(Len(s) - i) : b[k] = s[i + k]
  BY <1>1
<1> HIDE DEF a, b
<1>4. RemoveAt(s, i) = a \o b
  BY DEF RemoveAt, a, b
<1>5. /\ a \o b \in Seq(S) /\ Len(a \o b) = Len(a) + Len(b)
      /\ \A k \in 1..(Len(a) + Len(b)) :
           (a \o b)[k] = IF k <= Len(a) THEN a[k] ELSE b[k - Len(a)]
  <2>1. a \in Seq(S) /\ b \in Seq(S)
    BY <1>2, <1>3
  <2> QED BY <2>1, ConcatProperties, Zenon
<1> DEFINE c == a \o b
<1> HIDE DEF c
<1> DEFINE l(k) == IF k < i THEN k ELSE k + 1
<1>6. ASSUME NEW k \in DOMAIN c PROVE k \in Int /\ l(k) \in DOMAIN s /\ c[k] = s[l(k)]
  <2>1. k \in 1..(Len(a) + Len(b)) /\ k \in Int
    BY <1>1, <1>2, <1>3, <1>5 DEF c
  <2>2. CASE k <= Len(a)
    <3>1. k \in 1..(i - 1) /\ k \in 1..Len(s) /\ l(k) = k
      <4> HIDE DEF a
      <4> QED BY <1>1, <1>2, <2>1, <2>2
    <3>2. c[k] = a[k]
      BY <1>5, <2>1, <2>2 DEF c
    <3> QED BY <1>2, <2>1, <3>1, <3>2
  <2>3. CASE ~(k <= Len(a))
    <3>1. /\ Len(a) = i - 1 /\ Len(b) = Len(s) - i /\ i >= 1 /\ i \in Int
          /\ Len(s) \in Int /\ Len(a) \in Int /\ Len(b) \in Int
      BY <1>1, <1>2, <1>3
    <3>2. k >= 1 /\ k <= Len(a) + Len(b)
      BY <2>1, <3>1
    <3>3. k - Len(a) \in 1..Len(b) /\ i + (k - Len(a)) \in 1..Len(s)
      BY <2>1, <2>3, <3>1, <3>2, Behind
    <3>4. c[k] = b[k - Len(a)]
      BY <1>5, <2>1, <2>3 DEF c
    <3>5. c[k] = s[i + (k - Len(a))]
      BY <1>3, <3>1, <3>3, <3>4
    <3>6. i + (k - Len(a)) \in DOMAIN s
      BY <1>1, <3>3
    <3>7. ~(k < i) /\ k + 1 = i + (k - Len(a))
      BY <2>1, <2>3, <3>1
    <3> QED BY <2>1, <3>5, <3>6, <3>7
  <2> QED BY <2>2, <2>3
<1> QED BY <1>4, <1>5, <1>6 DEF c

-----------------------------------------------------------------------------
(* A step of the job that is executed.  All others are idle. *)

\* What an execution leaves to the other jobs, and what it does to its own.
LEMMA StepKeeps ==
  ASSUME IInv, NEW j \in Jobs, ~At(j, "idle"), NEW e \in Execution, Becomes(j, e),
         Typed', DocumentsSound',
         up' = up, cutOff' = cutOff, UNCHANGED <<attempts, cancelled>>,
         \A k \in Jobs \ {j} : /\ openRuns'[k] = openRuns[k] /\ status'[k] = status[k]
                              /\ cancelledIn'[k] = cancelledIn[k],
         openRuns'[j] = cutOff[j] \cup
           (IF e.at \in {"search", "sufficient"} THEN {attempts[j]} ELSE {}),
         e.at # "idle" => status'[j] \in {"running", "cancelled"},
         cancelled[j] => Part(e.at) <= 1 \/ Part(e.at) <= cancelledIn'[j],
         StageSound(e)'
  PROVE  IInv'
<1>1. exec'[j] = e /\ \A k \in Jobs \ {j} : exec'[k] = exec[k] /\ exec[k].at = "idle"
  BY DEF IInv, Typed, Becomes, Single, At
<1>2. Single'
  BY <1>1 DEF Single, At
<1>3. RunsClosed'
  <2> SUFFICES ASSUME NEW k \in Jobs
               PROVE  openRuns'[k] = cutOff'[k] \cup
                 (IF exec'[k].at \in {"search", "sufficient"} THEN {attempts'[k]} ELSE {})
    BY DEF RunsClosed
  <2>1. CASE k = j
    BY <1>1, <2>1
  <2>2. CASE k # j
    BY <1>1, <2>2 DEF IInv, RunsClosed
  <2> QED BY <2>1, <2>2
<1>4. CancelledStops'
  <2> SUFFICES ASSUME NEW k \in Jobs, cancelled'[k]
               PROVE  Part(exec'[k].at) <= 1 \/ Part(exec'[k].at) <= cancelledIn'[k]
    BY DEF CancelledStops
  <2>1. CASE k = j
    BY <1>1, <2>1
  <2>2. CASE k # j
    BY <1>1, <2>2 DEF IInv, CancelledStops
  <2> QED BY <2>1, <2>2
<1>5. ASSUME NEW k \in Jobs PROVE Executed(k)' /\ CutOffPast(k)' /\ StageSound(exec[k])'
  <2>1. CASE k = j
    <3>1. exec'[k] = e /\ up /\ attempts[k] \notin cutOff[k]
      BY <1>1, <2>1 DEF IInv, Executed, CutOffPast
    <3>2. StageSound(exec[k])'
      BY <3>1, Zenon DEF StageSound
    <3>3. Executed(k)' /\ CutOffPast(k)'
      BY <2>1, <3>1 DEF IInv, Executed, CutOffPast, At
    <3> QED BY <3>2, <3>3
  <2>2. CASE k # j
    <3>1. exec'[k] = exec[k] /\ exec'[k].at = "idle"
      BY <1>1, <2>2
    <3>2. StageSound(exec[k])'
      BY <3>1 DEF StageSound
    <3>3. Executed(k)' /\ CutOffPast(k)'
      BY <3>1 DEF IInv, Executed, CutOffPast, At
    <3> QED BY <3>2, <3>3
  <2> QED BY <2>1, <2>2
<1> QED BY <1>2, <1>3, <1>4, <1>5 DEF IInv

\* The execution goes on, with its job as it is and no acquisition begun or ended.
LEMMA GoesOn ==
  ASSUME IInv, NEW j \in Jobs, NEW e \in Execution, Becomes(j, e),
         exec[j].at \notin {"idle", "search", "sufficient"},
         e.at \notin {"idle", "search", "sufficient"},
         UNCHANGED <<jobVars, runVars, workerVars>>, PaperTyped', DocumentsSound',
         Part(e.at) = Part(exec[j].at) \/ ~cancelled[j],
         StageSound(e)'
  PROVE  IInv'
<1>1. Typed'
  BY DEF IInv, Typed, JobTyped, WorkerTyped, RunTyped, jobVars, runVars, workerVars, Becomes
<1>2. /\ ~At(j, "idle") /\ status[j] \in {"running", "cancelled"}
      /\ openRuns[j] = cutOff[j] \cup {}
      /\ cancelled[j] => Part(e.at) <= 1 \/ Part(e.at) <= cancelledIn[j]
  BY DEF IInv, At, Executed, RunsClosed, CancelledStops
<1> QED BY <1>1, <1>2, StepKeeps DEF jobVars, runVars, workerVars

\* The paper stays, and what an execution knows of it.
LEMMA PaperStays ==
  ASSUME IInv, UNCHANGED paperVars
  PROVE  /\ PaperTyped' /\ DocumentsSound'
         /\ \A i : Full(i)' = Full(i)
         /\ \A e : StageSound(e)' = StageSound(e)
BY DEF IInv, Typed, PaperTyped, DocumentsSound, paperVars, Full, HasText, Newest, Current,
       StageSound

\* The worker ends the execution, with whatever status.
LEMMA EndInv ==
  ASSUME IInv, NEW j \in Jobs, exec[j].at \notin {"idle", "search", "sufficient"},
         NEW s \in Statuses, Becomes(j, Fresh),
         status' = [status EXCEPT ![j] = s], cancelledIn' = [cancelledIn EXCEPT ![j] = 0],
         UNCHANGED <<attempts, cancelled, recovered, up, paperVars, runVars>>,
         unsaved' \in [Jobs -> BOOLEAN]
  PROVE  IInv'
<1>1. PaperTyped' /\ DocumentsSound'
  BY PaperStays
<1>2. Typed'
  <2>1. exec' \in [Jobs -> Execution]
    BY FreshIdle DEF IInv, Typed, Becomes
  <2>2. JobTyped'
    BY DEF IInv, Typed, JobTyped
  <2>3. WorkerTyped' /\ RunTyped'
    BY DEF IInv, Typed, WorkerTyped, RunTyped, runVars
  <2> QED BY <1>1, <2>1, <2>2, <2>3 DEF Typed
<1>3. ~At(j, "idle") /\ openRuns[j] = cutOff[j] \cup {}
  BY DEF IInv, At, RunsClosed
<1>4. \A k \in Jobs \ {j} : status'[k] = status[k] /\ cancelledIn'[k] = cancelledIn[k]
  BY DEF IInv, Typed, JobTyped
<1>5. Part("idle") = 0
  BY DEF Part
<1>6. StageSound(Fresh)'
  BY FreshIdle, IdleSound
<1> QED BY <1>1, <1>2, <1>3, <1>4, <1>5, <1>6, FreshIdle, StepKeeps DEF runVars

-----------------------------------------------------------------------------
(* The stages. *)

LEMMA ClaimInv ==
  ASSUME IInv, NEW j \in Jobs, Claim(j)
  PROVE  IInv'
<1> DEFINE e == [Fresh EXCEPT !.at = "identity"]
<1>1. e \in Execution /\ e.at = "identity"
  BY DEF Fresh, Execution, Stages
<1>2. /\ exec' = [exec EXCEPT ![j] = e] /\ up /\ \A k \in Jobs : exec[k].at = "idle"
      /\ UNCHANGED <<paperVars, cancelled, recovered, cancelledIn, runVars, workerVars>>
      /\ status' = [status EXCEPT ![j] = "running"]
      /\ attempts' = [attempts EXCEPT ![j] = @ + 1]
  BY DEF Claim, Becomes, At
<1> HIDE DEF e
<1>3. PaperTyped' /\ DocumentsSound'
  BY <1>2, PaperStays
<1>4. Typed'
  <2>1. JobTyped'
    BY <1>2 DEF IInv, Typed, JobTyped, Statuses
  <2>2. WorkerTyped' /\ RunTyped'
    BY <1>2 DEF IInv, Typed, WorkerTyped, RunTyped, runVars, workerVars
  <2>3. exec' \in [Jobs -> Execution]
    BY <1>1, <1>2 DEF IInv, Typed
  <2> QED BY <1>3, <2>1, <2>2, <2>3 DEF Typed
<1>5. exec'[j] = e /\ \A k \in Jobs \ {j} : exec'[k].at = "idle"
  BY <1>2 DEF IInv, Typed
<1>6. Single'
  BY <1>5 DEF Single, At
<1>7. RunsClosed'
  BY <1>1, <1>2, <1>5 DEF IInv, RunsClosed, runVars
<1>8. CancelledStops'
  BY <1>1, <1>5 DEF CancelledStops, Part
<1>9. ASSUME NEW k \in Jobs PROVE Executed(k)' /\ CutOffPast(k)' /\ StageSound(exec[k])'
  <2>1. exec'[k].at \in {"idle", "identity"}
    BY <1>1, <1>5
  <2>2. StageSound(exec[k])'
    BY <2>1 DEF StageSound
  <2>3. Executed(k)'
    BY <1>2, <1>5 DEF Executed, At, IInv, Typed, JobTyped, workerVars
  <2>4. CutOffPast(k)'
    <3>1. \A n \in cutOff[k] : n \in Nat /\ n <= attempts[k]
      BY DEF IInv, CutOffPast, Typed, RunTyped
    <3>2. attempts[k] \in Nat /\ attempts'[k] = IF k = j THEN attempts[k] + 1 ELSE attempts[k]
      BY <1>2 DEF IInv, Typed, JobTyped
    <3>3. \A n \in cutOff[k] : n <= attempts'[k] /\ (k = j => n # attempts'[k])
      BY <3>1, <3>2
    <3> QED BY <1>2, <1>5, <3>3 DEF CutOffPast, At, runVars
  <2> QED BY <2>2, <2>3, <2>4
<1> QED BY <1>3, <1>4, <1>6, <1>7, <1>8, <1>9 DEF IInv

LEMMA StopInv ==
  ASSUME IInv, NEW j \in Jobs, exec[j].at \notin {"idle", "search", "sufficient"}, Stop(j),
         UNCHANGED <<paperVars, runVars, workerVars>>
  PROVE  IInv'
<1>1. unsaved' \in [Jobs -> BOOLEAN]
  BY DEF workerVars, IInv, Typed, WorkerTyped
<1> QED BY <1>1, EndInv DEF Stop, End, Statuses, workerVars

\* The Paper the session holds is the paper's, unless it changed since the acquisition.
LEMMA SeenIs ==
  ASSUME IInv, NEW j \in Jobs,
         exec[j].at \in {"locate", "retrieve", "ingest", "store", "analyse", "finish"}
  PROVE  Seen(j) \in Identities /\ (exec[j].drifted \/ Seen(j) = identity)
<1>1. exec[j].paper \in Identities \cup {None} /\ identity \in Identities
  BY DEF IInv, Typed, PaperTyped, Execution
<1>2. exec[j].drifted \/ exec[j].paper \in {None, identity}
  BY DEF IInv, StageSound
<1> QED BY <1>1, <1>2 DEF Seen

LEMMA ResolveIdentityInv ==
  ASSUME IInv, NEW j \in Jobs, ResolveIdentity(j)
  PROVE  IInv'
<1>1. exec[j].at = "identity" /\ UNCHANGED <<paperVars, cutOff, workerVars>>
  BY DEF ResolveIdentity, At
<1>2. CASE Cancelled(j)
  BY <1>1, <1>2, StopInv DEF ResolveIdentity, runVars
<1>3. CASE ~Cancelled(j)
  <2> DEFINE full == Evidence(identity) = "full"
             stage == IF full THEN "locate" ELSE IF verified THEN "sufficient" ELSE "search"
             f == [exec[j] EXCEPT !.paper = identity, !.at = stage]
  <2>1. /\ Becomes(j, f) /\ UNCHANGED jobVars
        /\ openRuns' = IF full THEN openRuns
                       ELSE [openRuns EXCEPT ![j] = @ \cup {attempts[j]}]
    BY <1>3 DEF ResolveIdentity
  <2>2. exec[j] \in Execution /\ identity \in Identities /\ attempts[j] \in Nat
    BY DEF IInv, Typed, PaperTyped, JobTyped
  <2>3. stage \in {"locate", "sufficient", "search"} /\ (full <=> stage = "locate")
    OBVIOUS
  <2> HIDE DEF stage, full
  <2>4. PICK e \in Execution : e = f /\ e.at = stage /\ e.paper = identity
    <3>1. f \in Execution /\ f.at = stage /\ f.paper = identity
      BY <2>2, <2>3 DEF Execution, Stages
    <3> HIDE DEF f
    <3> QED BY <3>1
  <2> HIDE DEF f
  <2>5. /\ PaperTyped' /\ DocumentsSound' /\ StageSound(e)' = StageSound(e)
    BY <1>1, PaperStays
  <2>6. StageSound(e)'
    BY <2>3, <2>4, <2>5 DEF StageSound
  <2>7. openRuns[j] = cutOff[j] /\ openRuns \in [Jobs -> SUBSET Nat]
    BY <1>1 DEF IInv, RunsClosed, Typed, RunTyped
  <2>8. /\ openRuns' \in [Jobs -> SUBSET Nat] /\ \A k \in Jobs \ {j} : openRuns'[k] = openRuns[k]
        /\ openRuns'[j] = cutOff[j] \cup
             (IF e.at \in {"search", "sufficient"} THEN {attempts[j]} ELSE {})
    BY <2>1, <2>2, <2>3, <2>4, <2>7
  <2>9. Typed'
    BY <1>1, <2>1, <2>4, <2>5, <2>8
       DEF IInv, Typed, JobTyped, WorkerTyped, RunTyped, jobVars, workerVars, Becomes
  <2>10. /\ ~At(j, "idle") /\ status[j] \in {"running", "cancelled"} /\ ~cancelled[j]
    BY <1>1, <1>3 DEF IInv, At, Executed, Cancelled, Typed, JobTyped
  <2> QED BY <1>1, <2>1, <2>4, <2>5, <2>6, <2>8, <2>9, <2>10, StepKeeps DEF jobVars, workerVars
<1> QED BY <1>2, <1>3

\* The end of an acquisition, whichever way.
LEMMA AcquisitionInv ==
  ASSUME IInv, NEW j \in Jobs, exec[j].at \in {"search", "sufficient"},
         CloseRun(j), UNCHANGED <<docs, halfStored, jobVars, cutOff, workerVars>>,
         verified' \in BOOLEAN, identity' \in Identities,
         NEW p \in Identities \cup {None}, NEW w \in BOOLEAN, p \in {None, identity'},
         Becomes(j, [exec[j] EXCEPT !.at = "locate", !.paper = p, !.warned = w])
  PROVE  IInv'
<1> DEFINE f == [exec[j] EXCEPT !.at = "locate", !.paper = p, !.warned = w]
<1>1. exec[j] \in Execution
  BY DEF IInv, Typed
<1>2. PICK e \in Execution : e = f /\ e.at = "locate" /\ e.paper = p
  <2>1. f \in Execution /\ f.at = "locate" /\ f.paper = p
    BY <1>1 DEF Execution, Stages
  <2> HIDE DEF f
  <2> QED BY <2>1
<1>3. Becomes(j, e)
  BY <1>2
<1> HIDE DEF f
<1>4. PaperTyped' /\ DocumentsSound'
  BY DEF IInv, Typed, PaperTyped, DocumentsSound
<1>5. StageSound(e)'
  BY <1>2 DEF StageSound
<1>6. /\ openRuns[j] = cutOff[j] \cup {attempts[j]} /\ attempts[j] \notin cutOff[j]
      /\ openRuns \in [Jobs -> SUBSET Nat]
  BY DEF IInv, RunsClosed, CutOffPast, At, Typed, RunTyped
<1>7. /\ openRuns' \in [Jobs -> SUBSET Nat] /\ \A k \in Jobs \ {j} : openRuns'[k] = openRuns[k]
      /\ openRuns'[j] = cutOff[j]
  BY <1>6 DEF CloseRun
<1>8. Typed'
  BY <1>2, <1>3, <1>4, <1>7
     DEF IInv, Typed, JobTyped, WorkerTyped, RunTyped, jobVars, workerVars, Becomes
<1>9. /\ ~At(j, "idle") /\ status[j] \in {"running", "cancelled"}
      /\ cancelled[j] => Part(e.at) <= 1 \/ Part(e.at) <= cancelledIn[j]
  BY <1>2 DEF IInv, At, Executed, CancelledStops, Part
<1> QED BY <1>2, <1>3, <1>4, <1>5, <1>7, <1>8, <1>9, StepKeeps DEF jobVars, workerVars

LEMMA EndAcquisitionInv ==
  ASSUME IInv, NEW j \in Jobs, EndAcquisition(j)
  PROVE  IInv'
<1>1. exec[j] \in Execution /\ identity \in Identities /\ verified \in BOOLEAN
  BY DEF IInv, Typed, PaperTyped
<1>2. identity' \in Identities /\ verified' \in BOOLEAN
  BY <1>1 DEF EndAcquisition, Later
<1>3. [exec[j] EXCEPT !.at = "locate", !.paper = identity']
        = [exec[j] EXCEPT !.at = "locate", !.paper = identity', !.warned = exec[j].warned]
  BY <1>1 DEF Execution
<1>4. exec[j].warned \in BOOLEAN
  BY <1>1 DEF Execution
<1>5. Becomes(j, [exec[j] EXCEPT !.at = "locate", !.paper = identity',
                              !.warned = exec[j].warned])
  BY <1>3 DEF EndAcquisition
<1> QED BY <1>2, <1>4, <1>5, AcquisitionInv DEF EndAcquisition

LEMMA FailAcquisitionInv ==
  ASSUME IInv, NEW j \in Jobs, FailAcquisition(j)
  PROVE  IInv'
BY AcquisitionInv DEF FailAcquisition, paperVars, IInv, Typed, PaperTyped

LEMMA LocateInv ==
  ASSUME IInv, NEW j \in Jobs, Locate(j)
  PROVE  IInv'
<1>1. exec[j].at = "locate" /\ UNCHANGED <<paperVars, runVars, workerVars>>
  BY DEF Locate, At
<1>2. CASE Cancelled(j)
  BY <1>1, <1>2, StopInv DEF Locate
<1>3. CASE ~Cancelled(j)
  <2>1. PICK next \in {"analyse", "retrieve"} :
          /\ next = "retrieve" => Evidence(Seen(j)) # "full"
          /\ Becomes(j, [exec[j] EXCEPT !.paper = Seen(j), !.at = next, !.moved = FALSE])
    BY <1>3 DEF Locate
  <2> DEFINE f == [exec[j] EXCEPT !.paper = Seen(j), !.at = next, !.moved = FALSE]
  <2>2. exec[j] \in Execution
    BY DEF IInv, Typed
  <2>3. Seen(j) \in Identities /\ (exec[j].drifted \/ Seen(j) = identity)
    BY <1>1, SeenIs
  <2>4. PICK e \in Execution : e = f /\ e.at = next /\ e.paper = Seen(j)
                               /\ e.drifted = exec[j].drifted
    <3>1. f \in Execution /\ f.at = next /\ f.paper = Seen(j) /\ f.drifted = exec[j].drifted
      BY <2>2, <2>3 DEF Execution, Stages
    <3> HIDE DEF f
    <3> QED BY <3>1
  <2> HIDE DEF f
  <2>5. PaperTyped' /\ DocumentsSound' /\ StageSound(e)' = StageSound(e)
    BY <1>1, PaperStays
  <2>6. StageSound(e)
    BY <2>1, <2>3, <2>4, FullEvidence DEF StageSound
  <2>7. Becomes(j, e) /\ ~cancelled[j] /\ UNCHANGED jobVars
    BY <1>3, <2>1, <2>4 DEF f, Cancelled, Locate
  <2> QED BY <1>1, <2>4, <2>5, <2>6, <2>7, GoesOn
<1> QED BY <1>2, <1>3

\* Steps of an open-access retrieval: the execution goes on to a later stage of the same
\* part, with what it fetched.
LEMMA FetchSteps ==
  ASSUME IInv, NEW j \in Jobs, Retrieve(j) \/ StageFails(j) \/ Ingest(j)
  PROVE  /\ exec[j].at \in {"retrieve", "ingest"}
         /\ UNCHANGED <<paperVars, jobVars, runVars, workerVars, bounds>>
         /\ \E e \in Execution :
              /\ Becomes(j, e)
              /\ e.at \in {"ingest", "store", "analyse"}
              /\ e.at \in {"ingest", "store"} => e.fetched \in Contents
              /\ e.paper = exec[j].paper /\ e.moved = exec[j].moved
              /\ e.drifted = exec[j].drifted
<1>1. exec[j] \in Execution /\ exec[j].warned \in BOOLEAN /\ StageSound(exec[j])
  BY DEF IInv, Typed, Execution
<1>2. ASSUME NEW stage \in {"ingest", "store", "analyse"}, NEW c \in Contents \cup {None},
             NEW w \in BOOLEAN, stage \in {"ingest", "store"} => c \in Contents,
             Becomes(j, [exec[j] EXCEPT !.at = stage, !.warned = w, !.fetched = c])
      PROVE  \E e \in Execution :
              /\ Becomes(j, e)
              /\ e.at \in {"ingest", "store", "analyse"}
              /\ e.at \in {"ingest", "store"} => e.fetched \in Contents
              /\ e.paper = exec[j].paper /\ e.moved = exec[j].moved
              /\ e.drifted = exec[j].drifted
  <2> DEFINE f == [exec[j] EXCEPT !.at = stage, !.warned = w, !.fetched = c]
  <2>1. f \in Execution /\ f.at = stage /\ f.fetched = c /\ f.paper = exec[j].paper
        /\ f.moved = exec[j].moved /\ f.drifted = exec[j].drifted
    BY <1>1 DEF Execution, Stages
  <2>2. Becomes(j, f)
    BY <1>2
  <2> HIDE DEF f
  <2> QED BY <1>2, <2>1, <2>2
<1>3. CASE Retrieve(j)
  <2>1. CASE Goto(j, "analyse")
    <3>1. [exec[j] EXCEPT !.at = "analyse"]
            = [exec[j] EXCEPT !.at = "analyse", !.warned = exec[j].warned,
                              !.fetched = exec[j].fetched]
      BY <1>1 DEF Execution
    <3>2. exec[j].fetched \in Contents \cup {None}
      BY <1>1 DEF Execution
    <3> QED BY <1>1, <1>2, <1>3, <2>1, <3>1, <3>2 DEF Goto, Retrieve, At
  <2>2. CASE ~Goto(j, "analyse")
    <3>1. PICK d \in Decisions, c \in Contents :
            Becomes(j, [exec[j] EXCEPT !.at = IF Permitted(j, d) THEN "ingest" ELSE "analyse",
                                       !.warned = @ \/ ~Permitted(j, d),
                                       !.fetched = IF Permitted(j, d) THEN c ELSE None])
      BY <1>3, <2>2 DEF Retrieve
    <3>2. PICK w \in BOOLEAN : w = (exec[j].warned \/ ~Permitted(j, d))
      OBVIOUS
    <3>3. CASE Permitted(j, d)
      BY <1>2, <1>3, <3>1, <3>2, <3>3 DEF Retrieve, At
    <3>4. CASE ~Permitted(j, d)
      BY <1>2, <1>3, <3>1, <3>2, <3>4 DEF Retrieve, At
    <3> QED BY <3>3, <3>4
  <2> QED BY <2>1, <2>2
<1>4. CASE StageFails(j)
  <2>1. Becomes(j, [exec[j] EXCEPT !.at = "analyse", !.warned = TRUE, !.fetched = None])
    BY <1>1, <1>4 DEF StageFails
  <2> QED BY <1>2, <1>4, <2>1 DEF StageFails
<1>5. CASE Ingest(j)
  <2>1. CASE Stored(exec[j].fetched)
    <3>1. PICK w \in BOOLEAN : w = (exec[j].warned \/ Coverage[exec[j].fetched] # "succeeded")
      OBVIOUS
    <3>2. Becomes(j, [exec[j] EXCEPT !.at = "analyse", !.warned = w, !.fetched = None])
      BY <1>1, <1>5, <2>1, <3>1 DEF Ingest
    <3> QED BY <1>2, <1>5, <3>2 DEF Ingest, At
  <2>2. CASE ~Stored(exec[j].fetched)
    <3>1. [exec[j] EXCEPT !.at = "store"]
            = [exec[j] EXCEPT !.at = "store", !.warned = exec[j].warned,
                              !.fetched = exec[j].fetched]
      BY <1>1 DEF Execution
    <3>2. exec[j].fetched \in Contents
      BY <1>1, <1>5 DEF StageSound, Ingest, At
    <3>3. Becomes(j, [exec[j] EXCEPT !.at = "store", !.warned = exec[j].warned,
                              !.fetched = exec[j].fetched])
      BY <1>5, <2>2, <3>1 DEF Ingest, Goto
    <3> QED BY <1>1, <1>2, <1>5, <3>2, <3>3 DEF Ingest, At
  <2> QED BY <2>1, <2>2
<1> QED BY <1>3, <1>4, <1>5

LEMMA FetchInv ==
  ASSUME IInv, NEW j \in Jobs, Retrieve(j) \/ StageFails(j) \/ Ingest(j)
  PROVE  IInv'
<1>1. exec[j].at \in {"retrieve", "ingest"}
      /\ UNCHANGED <<paperVars, jobVars, runVars, workerVars>>
  BY FetchSteps
<1>2. PICK e \in Execution :
              /\ Becomes(j, e)
              /\ e.at \in {"ingest", "store", "analyse"}
              /\ e.at \in {"ingest", "store"} => e.fetched \in Contents
              /\ e.paper = exec[j].paper /\ e.moved = exec[j].moved
              /\ e.drifted = exec[j].drifted
  BY FetchSteps
<1>3. PaperTyped' /\ DocumentsSound' /\ StageSound(e)' = StageSound(e)
  BY <1>1, PaperStays
<1>4. StageSound(e)
  BY <1>1, <1>2 DEF IInv, StageSound
<1>5. Part(e.at) = Part(exec[j].at)
  BY <1>1, <1>2 DEF Part
<1> QED BY <1>1, <1>2, <1>3, <1>4, <1>5, GoesOn

\* A new document.
LEMMA Appended ==
  ASSUME IInv, NEW d \in Document, docs' = Append(docs, d),
         UNCHANGED <<identity, verified>>, d.indexed \/ halfStored',
         halfStored => halfStored', halfStored' \in BOOLEAN
  PROVE  PaperTyped' /\ DocumentsSound'
<1>1. docs \in Seq(Document)
  BY DEF IInv, Typed, PaperTyped
<1>2. docs' \in Seq(Document)
  BY <1>1
<1>3. \A i \in DOMAIN docs' : docs'[i] = d \/ (i \in DOMAIN docs /\ docs'[i] = docs[i])
  BY <1>1
<1>4. DocumentsSound'
  BY <1>3 DEF IInv, DocumentsSound
<1> QED BY <1>2, <1>4 DEF IInv, Typed, PaperTyped

LEMMA NewDocumentType ==
  ASSUME NEW c \in Contents, NEW i \in Identities, NEW b \in BOOLEAN
  PROVE  /\ NewDocument(c, i, b) \in Document
         /\ NewDocument(c, i, b).content = c /\ NewDocument(c, i, b).indexed = b
BY DEF NewDocument, Document

\* What an execution stores.
LEMMA StoreSteps ==
  ASSUME IInv, NEW j \in Jobs, Store(j) \/ StoreHalf(j)
  PROVE  /\ exec[j].at = "store" /\ UNCHANGED <<jobVars, runVars, workerVars, bounds>>
         /\ UNCHANGED <<identity, verified>>
         /\ (halfStored => halfStored') /\ halfStored' \in BOOLEAN
         /\ \E d \in Document : /\ docs' = Append(docs, d) /\ ~Stored(d.content)
                                /\ d.indexed \/ halfStored'
         /\ \E e \in Execution : /\ Becomes(j, e) /\ e.at = "analyse" /\ e.paper = exec[j].paper
                                 /\ e.drifted = exec[j].drifted
<1>1. exec[j] \in Execution /\ exec[j].warned \in BOOLEAN /\ StageSound(exec[j])
  BY DEF IInv, Typed, Execution
<1>2. /\ exec[j].at = "store" /\ UNCHANGED <<jobVars, runVars, workerVars, bounds>>
      /\ UNCHANGED <<identity, verified>> /\ ~Stored(exec[j].fetched)
      /\ (halfStored => halfStored') /\ halfStored' \in BOOLEAN
  BY DEF Store, StoreHalf, At, IInv, Typed, PaperTyped
<1>3. exec[j].fetched \in Contents /\ Seen(j) \in Identities
  BY <1>1, <1>2, SeenIs DEF StageSound
<1>4. \E d \in Document : /\ docs' = Append(docs, d) /\ ~Stored(d.content)
                          /\ d.indexed \/ halfStored'
  <2>1. PICK b \in BOOLEAN :
          docs' = Append(docs, NewDocument(exec[j].fetched, Seen(j), b)) /\ (b \/ halfStored')
    BY DEF Store, StoreHalf
  <2> DEFINE d == NewDocument(exec[j].fetched, Seen(j), b)
  <2>2. d \in Document /\ d.content = exec[j].fetched /\ d.indexed = b
    BY <1>3, NewDocumentType
  <2>3. docs' = Append(docs, d)
    BY <2>1
  <2> HIDE DEF d
  <2>4. ~Stored(d.content) /\ (d.indexed \/ halfStored')
    BY <1>2, <2>1, <2>2
  <2> QED BY <2>2, <2>3, <2>4
<1>5. PICK w \in BOOLEAN :
        Becomes(j, [exec[j] EXCEPT !.at = "analyse", !.fetched = None, !.moved = TRUE,
                                   !.warned = w])
  <2>1. PICK w \in BOOLEAN : w = (exec[j].warned \/ Coverage[exec[j].fetched] # "succeeded")
    OBVIOUS
  <2> QED BY <1>1, <2>1 DEF Store, StoreHalf
<1>6. \E e \in Execution : /\ Becomes(j, e) /\ e.at = "analyse" /\ e.paper = exec[j].paper
                           /\ e.drifted = exec[j].drifted
  <2> DEFINE f == [exec[j] EXCEPT !.at = "analyse", !.fetched = None, !.moved = TRUE,
                                  !.warned = w]
  <2>1. f \in Execution /\ f.at = "analyse" /\ f.paper = exec[j].paper
        /\ f.drifted = exec[j].drifted
    BY <1>1 DEF Execution, Stages
  <2>2. Becomes(j, f)
    BY <1>5
  <2> HIDE DEF f
  <2> QED BY <2>1, <2>2
<1> QED BY <1>2, <1>4, <1>6

LEMMA StoreInv ==
  ASSUME IInv, NEW j \in Jobs, Store(j) \/ StoreHalf(j)
  PROVE  IInv'
<1>1. /\ exec[j].at = "store" /\ UNCHANGED <<jobVars, runVars, workerVars>>
      /\ UNCHANGED <<identity, verified>>
      /\ (halfStored => halfStored') /\ halfStored' \in BOOLEAN
  BY StoreSteps
<1>2. PaperTyped' /\ DocumentsSound'
  BY <1>1, StoreSteps, Appended
<1>3. PICK e \in Execution : /\ Becomes(j, e) /\ e.at = "analyse" /\ e.paper = exec[j].paper
                             /\ e.drifted = exec[j].drifted
  BY StoreSteps
<1>4. StageSound(e)'
  BY <1>1, <1>3 DEF IInv, StageSound
<1>5. Part(e.at) = Part(exec[j].at)
  BY <1>1, <1>3 DEF Part
<1> QED BY <1>1, <1>2, <1>3, <1>4, <1>5, GoesOn

\* What an analysis tells of the text it was made on.
LEMMA AnalyseSteps ==
  ASSUME IInv, NEW j \in Jobs, Analyse(j), ~Cancelled(j)
  PROVE  /\ exec[j].at = "analyse"
         /\ UNCHANGED <<paperVars, jobVars, runVars, workerVars, bounds>>
         /\ \E e \in Execution : Becomes(j, e) /\ e.at = "finish" /\ StageSound(e)
<1>1. /\ exec[j] \in Execution /\ exec[j].at = "analyse"
      /\ UNCHANGED <<paperVars, jobVars, runVars, workerVars, bounds>>
  BY DEF IInv, Typed, Analyse, At
<1>2. Seen(j) \in Identities /\ (exec[j].drifted \/ Seen(j) = identity)
  BY <1>1, SeenIs
<1>3. PICK b \in BOOLEAN : b = (HasText(Seen(j)) /\ ~Newest.indexed)
  OBVIOUS
<1>4. Evidence(Seen(j)) \in Levels
  BY DEF Evidence, Levels
<1>5. PICK a \in Analysis : a.level = Evidence(Seen(j)) /\ a.empty = b
                             /\ a = [level |-> Evidence(Seen(j)), empty |-> b]
  BY <1>4 DEF Analysis
<1> DEFINE f == [exec[j] EXCEPT !.at = "finish", !.moved = FALSE, !.analysis = a]
<1>6. Becomes(j, f)
  BY <1>3, <1>5 DEF Analyse
<1>7. /\ f \in Execution /\ f.at = "finish" /\ f.analysis = a /\ f.drifted = exec[j].drifted
      /\ f.paper = exec[j].paper
  BY <1>1 DEF Execution, Stages
<1> HIDE DEF f
<1>8. ~b \/ halfStored
  <2> SUFFICES ASSUME b PROVE halfStored
    OBVIOUS
  <2>1. docs # <<>> /\ ~Newest.indexed /\ docs \in Seq(Document)
    BY <1>3 DEF HasText, IInv, Typed, PaperTyped
  <2>2. Len(docs) \in DOMAIN docs /\ Newest = docs[Len(docs)]
    BY <2>1 DEF Newest, Last
  <2> QED BY <2>1, <2>2 DEF IInv, DocumentsSound
<1>9. Full(identity) => a.level = "full" \/ exec[j].drifted
  BY <1>2, <1>5, FullEvidence
<1>10. exec[j].drifted \/ exec[j].paper \in {None, identity}
  BY <1>1 DEF IInv, StageSound
<1>11. StageSound(f)
  BY <1>5, <1>7, <1>8, <1>9, <1>10 DEF StageSound
<1> QED BY <1>1, <1>6, <1>7, <1>11

LEMMA AnalyseInv ==
  ASSUME IInv, NEW j \in Jobs, Analyse(j)
  PROVE  IInv'
<1>1. CASE Cancelled(j)
  BY <1>1, StopInv DEF Analyse, At
<1>2. CASE ~Cancelled(j)
  <2>1. exec[j].at = "analyse" /\ UNCHANGED <<paperVars, jobVars, runVars, workerVars>>
    BY <1>2, AnalyseSteps
  <2>2. PICK e \in Execution : Becomes(j, e) /\ e.at = "finish" /\ StageSound(e)
    BY <1>2, AnalyseSteps
  <2>3. PaperTyped' /\ DocumentsSound' /\ StageSound(e)' = StageSound(e)
    BY <2>1, PaperStays
  <2>4. ~cancelled[j]
    BY <1>2 DEF Cancelled
  <2> QED BY <2>1, <2>2, <2>3, <2>4, GoesOn
<1> QED BY <1>1, <1>2

-----------------------------------------------------------------------------
(* Ends of executions, and steps of others. *)

LEMMA FinishInv ==
  ASSUME IInv, NEW j \in Jobs, Finish(j) \/ Fail(j)
  PROVE  IInv'
<1>1. PICK s \in Statuses : End(j, s)
  BY DEF Finish, Terminal, Fail, Statuses
<1>2. unsaved' \in [Jobs -> BOOLEAN] /\ UNCHANGED <<paperVars, runVars, up>>
  BY DEF Finish, Fail, workerVars, IInv, Typed, WorkerTyped
<1>3. exec[j].at \notin {"idle", "search", "sufficient"}
  BY DEF Finish, Fail, At
<1> QED BY <1>1, <1>2, <1>3, EndInv DEF End

LEMMA CommitLockedInv ==
  ASSUME IInv, NEW j \in Jobs, CommitLocked(j)
  PROVE  IInv'
<1>1. status[j] \in Statuses /\ status' = [status EXCEPT ![j] = status[j]]
  BY DEF CommitLocked, IInv, Typed, JobTyped
<1>2. unsaved' \in [Jobs -> BOOLEAN]
  BY DEF CommitLocked, IInv, Typed, WorkerTyped
<1> QED BY <1>1, <1>2, EndInv DEF CommitLocked

LEMMA DieInv ==
  ASSUME IInv, Die
  PROVE  IInv'
<1>1. /\ exec' = [j \in Jobs |-> Fresh] /\ up' = FALSE /\ UNCHANGED paperVars
      /\ UNCHANGED <<status, attempts, cancelled, recovered, openRuns, unsaved>>
      /\ cutOff' = [j \in Jobs |-> IF exec[j].at \in {"search", "sufficient"}
                                   THEN cutOff[j] \cup {attempts[j]} ELSE cutOff[j]]
      /\ cancelledIn' = [j \in Jobs |-> IF At(j, "idle") THEN cancelledIn[j] ELSE 0]
  BY DEF Die
<1>2. PaperTyped' /\ DocumentsSound'
  BY <1>1, PaperStays
<1>3. \A j \in Jobs : exec'[j].at = "idle"
  BY <1>1, FreshIdle
<1>4. Typed'
  <2>1. exec' \in [Jobs -> Execution]
    BY <1>1, FreshIdle
  <2>2. JobTyped' /\ WorkerTyped'
    <3>1. cancelledIn' \in [Jobs -> 0..4]
      BY <1>1 DEF IInv, Typed, JobTyped
    <3>2. up' \in BOOLEAN /\ unsaved' \in [Jobs -> BOOLEAN]
      BY <1>1 DEF IInv, Typed, WorkerTyped
    <3> QED BY <1>1, <3>1, <3>2 DEF IInv, Typed, JobTyped, WorkerTyped
  <2>3. RunTyped'
    BY <1>1 DEF IInv, Typed, JobTyped, RunTyped
  <2> QED BY <1>2, <2>1, <2>2, <2>3 DEF Typed
<1>5. Single' /\ \A j \in Jobs : Executed(j)' /\ StageSound(exec[j])'
  BY <1>3 DEF Single, Executed, At, StageSound
<1>6. RunsClosed'
  BY <1>1, <1>3 DEF IInv, RunsClosed
<1>7. CancelledStops'
  BY <1>3 DEF CancelledStops, Part
<1>8. ASSUME NEW j \in Jobs PROVE CutOffPast(j)'
  <2>1. /\ attempts[j] \in Nat /\ cutOff'[j] \subseteq cutOff[j] \cup {attempts[j]}
        /\ \A n \in cutOff[j] : n <= attempts[j]
    BY <1>1 DEF IInv, Typed, JobTyped, CutOffPast
  <2>2. \A n \in cutOff'[j] : n <= attempts[j]
    BY <2>1
  <2> QED BY <1>1, <1>3, <2>2 DEF CutOffPast, At
<1> QED BY <1>2, <1>4, <1>5, <1>6, <1>7, <1>8 DEF IInv

LEMMA StartInv ==
  ASSUME IInv, Start
  PROVE  IInv'
<1>1. /\ ~up /\ up' = TRUE
      /\ status' = [j \in Jobs |-> IF status[j] = "running" THEN "pending" ELSE status[j]]
      /\ recovered' = [j \in Jobs |-> IF status[j] = "running" THEN recovered[j] + 1
                                      ELSE recovered[j]]
      /\ unsaved' = [j \in Jobs |-> FALSE]
      /\ UNCHANGED <<attempts, cancelled, cancelledIn, openRuns, cutOff, exec>>
      /\ UNCHANGED paperVars
  BY DEF Start, runVars
<1>2. PaperTyped' /\ DocumentsSound'
  BY <1>1, PaperStays
<1>3. \A j \in Jobs : exec[j].at = "idle"
  BY <1>1 DEF IInv, Executed, At
<1>4. Typed'
  <2>1. JobTyped'
    BY <1>1 DEF IInv, Typed, JobTyped, Statuses
  <2>2. WorkerTyped' /\ RunTyped' /\ exec' \in [Jobs -> Execution]
    BY <1>1 DEF IInv, Typed, WorkerTyped, RunTyped
  <2> QED BY <1>2, <2>1, <2>2 DEF Typed
<1>5. Single' /\ \A j \in Jobs : Executed(j)' /\ StageSound(exec[j])'
  BY <1>1, <1>3 DEF Single, Executed, At, StageSound
<1>6. RunsClosed' /\ CancelledStops' /\ \A j \in Jobs : CutOffPast(j)'
  BY <1>1 DEF IInv, RunsClosed, CancelledStops, CutOffPast, At
<1> QED BY <1>2, <1>4, <1>5, <1>6 DEF IInv

LEMMA CancelInv ==
  ASSUME IInv, NEW j \in Jobs, Cancel(j)
  PROVE  IInv'
<1>1. /\ status' = [status EXCEPT ![j] = "cancelled"]
      /\ cancelled' = [cancelled EXCEPT ![j] = TRUE]
      /\ cancelledIn' = [cancelledIn EXCEPT ![j] = Part(exec[j].at)]
      /\ UNCHANGED <<attempts, recovered, openRuns, cutOff, up, unsaved, exec>>
      /\ UNCHANGED paperVars
  BY DEF Cancel, runVars, workerVars
<1>2. /\ PaperTyped' /\ DocumentsSound'
      /\ \A e : StageSound(e)' = StageSound(e)
  BY <1>1, PaperStays
<1>3. Part(exec[j].at) \in 0..4
  BY PartBounds DEF IInv, Typed, Execution
<1>4. Typed'
  <2>1. JobTyped'
    BY <1>1, <1>3 DEF IInv, Typed, JobTyped, Statuses
  <2>2. WorkerTyped' /\ RunTyped' /\ exec' \in [Jobs -> Execution]
    BY <1>1 DEF IInv, Typed, WorkerTyped, RunTyped
  <2> QED BY <1>2, <2>1, <2>2 DEF Typed
<1>5. Single' /\ RunsClosed' /\ \A k \in Jobs : CutOffPast(k)'
  BY <1>1 DEF IInv, Single, RunsClosed, CutOffPast, At
<1>6. CancelledStops'
  <2> SUFFICES ASSUME NEW k \in Jobs, cancelled'[k]
               PROVE  Part(exec'[k].at) <= 1 \/ Part(exec'[k].at) <= cancelledIn'[k]
    BY DEF CancelledStops
  <2>1. CASE k = j
    <3>1. cancelledIn'[k] = Part(exec[k].at) /\ exec' = exec
      BY <1>1, <2>1 DEF IInv, Typed, JobTyped
    <3> QED BY <1>3, <2>1, <3>1
  <2>2. CASE k # j
    BY <1>1, <2>2 DEF IInv, Typed, JobTyped, CancelledStops
  <2> QED BY <2>1, <2>2
<1>7. ASSUME NEW k \in Jobs PROVE Executed(k)'
  BY <1>1 DEF IInv, Executed, At, Typed, JobTyped
<1>8. ASSUME NEW k \in Jobs PROVE StageSound(exec[k])'
  <2>1. PICK e : e = exec[k]
    OBVIOUS
  <2>2. StageSound(e) /\ exec'[k] = e
    BY <1>1, <2>1 DEF IInv
  <2> QED BY <1>2, <2>2 DEF StageSound
<1> QED BY <1>2, <1>4, <1>5, <1>6, <1>7, <1>8 DEF IInv

\* A change of the paper leaves the executions where they are, and tells what it changed.
LEMMA PaperChanges ==
  ASSUME IInv, UNCHANGED <<jobVars, runVars, workerVars>>, PaperTyped', DocumentsSound',
         exec' \in [Jobs -> Execution],
         \A k \in Jobs : exec'[k].at = exec[k].at /\ StageSound(exec[k])'
  PROVE  IInv'
<1>1. Typed'
  BY DEF IInv, Typed, JobTyped, RunTyped, WorkerTyped, jobVars, runVars, workerVars
<1>2. Single' /\ \A k \in Jobs : Executed(k)' /\ CutOffPast(k)'
  BY DEF IInv, Single, Executed, CutOffPast, At, jobVars, runVars, workerVars
<1>3. RunsClosed' /\ CancelledStops'
  <2>1. \A k \in Jobs : Part(exec'[k].at) = Part(exec[k].at)
    OBVIOUS
  <2> QED BY <2>1 DEF IInv, RunsClosed, CancelledStops, jobVars, runVars
<1> QED BY <1>1, <1>2, <1>3 DEF IInv

LEMMA MovedTells ==
  ASSUME IInv, Moved, UNCHANGED <<identity, halfStored>>
  PROVE  /\ exec' \in [Jobs -> Execution]
         /\ \A k \in Jobs : exec'[k].at = exec[k].at /\ StageSound(exec[k])'
<1>1. ASSUME NEW k \in Jobs
      PROVE  exec'[k] \in Execution /\ exec'[k].at = exec[k].at /\ StageSound(exec[k])'
  <2>1. exec[k] \in Execution /\ StageSound(exec[k])
    BY DEF IInv, Typed
  <2>2. CASE At(k, "idle")
    <3>1. exec'[k] = exec[k]
      BY <2>2 DEF Moved
    <3> QED BY <2>1, <2>2, <3>1 DEF At, StageSound
  <2>3. CASE ~At(k, "idle")
    <3>1. exec'[k] = [exec[k] EXCEPT !.moved = TRUE]
      BY <2>3 DEF Moved
    <3>2. /\ exec'[k] \in Execution /\ exec'[k].at = exec[k].at /\ exec'[k].moved
          /\ exec'[k].paper = exec[k].paper /\ exec'[k].drifted = exec[k].drifted
          /\ exec'[k].fetched = exec[k].fetched /\ exec'[k].analysis = exec[k].analysis
      BY <2>1, <3>1 DEF Execution
    <3> QED BY <2>1, <3>2 DEF StageSound
  <2> QED BY <2>2, <2>3
<1>2. exec' = [k \in Jobs |-> exec'[k]]
  BY DEF Moved
<1> QED BY <1>1, <1>2

LEMMA UploadInv ==
  ASSUME IInv, NEW c \in Contents, Upload(c)
  PROVE  IInv'
<1>1. NewDocument(c, identity, TRUE) \in Document /\ NewDocument(c, identity, TRUE).indexed
  BY NewDocumentType DEF IInv, Typed, PaperTyped
<1>2. PICK d \in Document : d.indexed /\ docs' = Append(docs, d)
  BY <1>1 DEF Upload
<1>3. UNCHANGED <<verified, identity, halfStored, jobVars, runVars, workerVars>> /\ Moved
  BY DEF Upload
<1>4. PaperTyped' /\ DocumentsSound'
  BY <1>2, <1>3, Appended DEF IInv, Typed, PaperTyped
<1> QED BY <1>3, <1>4, MovedTells, PaperChanges

LEMMA DeleteInv ==
  ASSUME IInv, NEW i \in DOMAIN docs, Delete(i)
  PROVE  IInv'
<1>1. docs \in Seq(Document)
  BY DEF IInv, Typed, PaperTyped
<1>2. docs' = RemoveAt(docs, i) /\ Moved
      /\ UNCHANGED <<verified, identity, halfStored, jobVars, runVars, workerVars>>
  BY DEF Delete
<1>3. /\ docs' \in Seq(Document)
      /\ \A k \in DOMAIN docs' : \E l \in DOMAIN docs : docs'[k] = docs[l]
  BY <1>1, <1>2, Removed
<1>4. PaperTyped' /\ DocumentsSound'
  BY <1>2, <1>3 DEF IInv, Typed, PaperTyped, DocumentsSound
<1> QED BY <1>2, <1>4, MovedTells, PaperChanges

LEMMA SearchInv ==
  ASSUME IInv, Search
  PROVE  IInv'
<1>1. /\ UNCHANGED <<docs, halfStored, jobVars, runVars, workerVars>>
      /\ verified' \in BOOLEAN /\ identity' \in Identities
  BY DEF Search, Later, IInv, Typed, PaperTyped
<1>2. PaperTyped' /\ DocumentsSound'
  BY <1>1 DEF IInv, Typed, PaperTyped, DocumentsSound
<1>3. CASE identity' = identity
  <2>1. exec' = exec
    BY <1>3 DEF Search
  <2>2. Full(identity)' = Full(identity)
    BY <1>1, <1>3 DEF Full, HasText, Newest, Current
  <2>3. \A k \in Jobs : StageSound(exec[k])'
    BY <1>1, <1>3, <2>1, <2>2 DEF IInv, StageSound
  <2> QED BY <1>1, <1>2, <2>1, <2>3, PaperChanges DEF IInv, Typed
<1>4. CASE identity' # identity
  <2>1. exec' = [k \in Jobs |->
                   IF exec[k].at \in {"idle", "identity", "search", "sufficient"}
                   THEN exec[k] ELSE [exec[k] EXCEPT !.drifted = TRUE]]
    BY <1>4 DEF Search
  <2>2. ASSUME NEW k \in Jobs
        PROVE  exec'[k] \in Execution /\ exec'[k].at = exec[k].at /\ StageSound(exec[k])'
    <3>1. exec[k] \in Execution /\ StageSound(exec[k])
      BY DEF IInv, Typed
    <3>2. CASE exec[k].at \in {"idle", "identity", "search", "sufficient"}
      <4>1. exec'[k] = exec[k]
        BY <2>1, <3>2
      <4> QED BY <3>1, <3>2, <4>1 DEF StageSound
    <3>3. CASE exec[k].at \notin {"idle", "identity", "search", "sufficient"}
      <4>1. exec'[k] = [exec[k] EXCEPT !.drifted = TRUE]
        BY <2>1, <3>3
      <4>2. /\ exec'[k] \in Execution /\ exec'[k].at = exec[k].at /\ exec'[k].drifted
            /\ exec'[k].fetched = exec[k].fetched /\ exec'[k].analysis = exec[k].analysis
        BY <3>1, <4>1 DEF Execution
      <4> QED BY <1>1, <3>1, <4>2 DEF StageSound
    <3> QED BY <3>2, <3>3
  <2>3. exec' \in [Jobs -> Execution]
    BY <2>1, <2>2
  <2> QED BY <1>1, <1>2, <2>2, <2>3, PaperChanges
<1> QED BY <1>3, <1>4

LEMMA StutterInv == IInv /\ UNCHANGED vars => IInv'
<1> SUFFICES ASSUME IInv, UNCHANGED vars PROVE IInv'
  OBVIOUS
<1>1. /\ UNCHANGED <<paperVars, jobVars, runVars, workerVars>> /\ exec' = exec
  BY DEF vars
<1>2. PaperTyped' /\ DocumentsSound' /\ \A e : StageSound(e)' = StageSound(e)
  BY <1>1, PaperStays
<1>3. ASSUME NEW k \in Jobs PROVE StageSound(exec[k])'
  <2>1. PICK e : e = exec[k]
    OBVIOUS
  <2>2. StageSound(e) /\ exec'[k] = e
    BY <1>1, <2>1 DEF IInv
  <2> QED BY <1>2, <2>2 DEF StageSound
<1> QED BY <1>1, <1>2, <1>3, PaperChanges DEF IInv, Typed

LEMMA StepInv == IInv /\ [Next]_vars => IInv'
<1> SUFFICES ASSUME IInv, Next PROVE IInv'
  BY StutterInv
<1>1. ASSUME NEW j \in Jobs, Claim(j) \/ Execute(j) \/ CommitLocked(j) \/ Cancel(j)
      PROVE  IInv'
  <2>1. CASE Conflict(j)
    BY <2>1, DieInv DEF Conflict
  <2> QED BY <1>1, <2>1, ClaimInv, ResolveIdentityInv, EndAcquisitionInv, FailAcquisitionInv,
             LocateInv, FetchInv, StoreInv, AnalyseInv, FinishInv, CommitLockedInv, CancelInv
          DEF Execute
<1>2. CASE Crash \/ Start
  BY <1>2, DieInv, StartInv DEF Crash
<1>3. ASSUME NEW c \in Contents, Upload(c) PROVE IInv'
  BY <1>3, UploadInv
<1>4. ASSUME NEW i \in DOMAIN docs, Delete(i) PROVE IInv'
  BY <1>4, DeleteInv
<1>5. CASE Search
  BY <1>5, SearchInv
<1> QED BY <1>1, <1>2, <1>3, <1>4, <1>5 DEF Next

\* The inductive invariant holds of every behaviour of the workflow.
THEOREM EvidenceInvariant == Spec => []IInv
BY InitInv, StepInv, PTL DEF Spec

\* Only the end of a workflow makes it succeed.
LEMMA Succeeds ==
  ASSUME IInv, Next, NEW j \in Jobs, status[j] # "succeeded", status'[j] = "succeeded"
  PROVE  Finish(j)
<1>1. status \in [Jobs -> Statuses]
  BY DEF IInv, Typed, JobTyped
<1>2. ASSUME NEW k \in Jobs, NEW s, status' = [status EXCEPT ![k] = s], s # "succeeded"
      PROVE  FALSE
  BY <1>1, <1>2
<1>3. status' = status => FALSE
  OBVIOUS
<1>4. ASSUME NEW k \in Jobs, Claim(k) \/ Execute(k) \/ CommitLocked(k) \/ Cancel(k)
      PROVE  Finish(j)
  <2>1. CASE Claim(k) \/ Cancel(k) \/ CommitLocked(k)
    BY <1>2, <1>3, <2>1 DEF Claim, Cancel, CommitLocked
  <2>2. CASE ResolveIdentity(k) \/ Locate(k) \/ Analyse(k)
    <3>1. Stop(k) \/ UNCHANGED jobVars
      BY <2>2 DEF ResolveIdentity, Locate, Analyse
    <3> QED BY <1>2, <1>3, <3>1 DEF Stop, End, jobVars
  <2>3. CASE EndAcquisition(k) \/ FailAcquisition(k) \/ Retrieve(k) \/ StageFails(k)
             \/ Ingest(k) \/ Store(k) \/ StoreHalf(k)
    BY <1>3, <2>3 DEF EndAcquisition, FailAcquisition, Retrieve, StageFails, Ingest, Store,
                      StoreHalf, jobVars
  <2>4. CASE Conflict(k)
    BY <1>3, <2>4 DEF Conflict, Die
  <2>5. CASE Fail(k)
    BY <1>2, <2>5 DEF Fail, End
  <2>6. CASE Finish(k)
    <3>1. PICK s : status' = [status EXCEPT ![k] = s]
      BY <2>6 DEF Finish, End
    <3>2. k = j
      BY <1>1, <3>1
    <3> QED BY <2>6, <3>2
  <2> QED BY <1>4, <2>1, <2>2, <2>3, <2>4, <2>5, <2>6 DEF Execute
<1>5. CASE Crash
  BY <1>3, <1>5 DEF Crash, Die
<1>6. CASE Start
  BY <1>6 DEF Start
<1>7. CASE Search \/ (\E c \in Contents : Upload(c)) \/ (\E i \in DOMAIN docs : Delete(i))
  BY <1>3, <1>7 DEF Search, Upload, Delete, jobVars
<1> QED BY <1>4, <1>5, <1>6, <1>7 DEF Next

\* A workflow that succeeds rests on the full text it read, on text that was indexed and on
\* text the paper has at that moment, whatever uploads, deletions, searches and deaths came
\* in between; only a search that changed the identity since its acquisition can take the
\* text away unnoticed.
THEOREM SuccessIsGrounded == Spec => SuccessRestsOnText
<1> DEFINE Rests(j) == /\ exec[j].analysis.level = "full" \/ exec[j].moved \/ exec[j].drifted
                       /\ Evidence(identity) = "full" \/ exec[j].drifted
                       /\ ~exec[j].analysis.empty \/ halfStored
<1>1. ASSUME IInv, [Next]_vars, NEW j \in Jobs, At(j, "finish"), exec'[j] = Fresh,
             status'[j] = "succeeded"
      PROVE  Rests(j)
  <2>1. status[j] \in {"running", "cancelled"} /\ exec[j].at = "finish" /\ StageSound(exec[j])
    BY <1>1 DEF IInv, Executed, At
  <2>2. CASE UNCHANGED vars
    BY <1>1, <2>1, <2>2 DEF vars, jobVars
  <2>3. CASE Next
    <3>1. PICK i \in {Seen(j), identity} : End(j, Terminal(j, i))
      BY <1>1, <2>1, <2>3, Succeeds DEF Finish
    <3>2. Terminal(j, i) = "succeeded"
      BY <1>1, <3>1 DEF End, IInv, Typed, JobTyped
    <3>3. Evidence(i) = "full"
      BY <3>2 DEF Terminal
    <3>4. exec[j].drifted \/ i = identity
      BY <1>1, <2>1, <3>1, SeenIs
    <3>5. Evidence(identity) = "full" \/ exec[j].drifted
      BY <3>3, <3>4
    <3>6. Full(identity) \/ exec[j].drifted
      BY <3>5, FullEvidence
    <3> QED BY <2>1, <3>5, <3>6 DEF StageSound
  <2> QED BY <1>1, <2>2, <2>3
<1>2. IInv /\ [Next]_vars =>
        [\A j \in Jobs : (At(j, "finish") /\ exec'[j] = Fresh /\ status'[j] = "succeeded") =>
           Rests(j)]_vars
  BY <1>1
<1> QED BY <1>2, EvidenceInvariant, PTL DEF Spec, SuccessRestsOnText

\* A cancelled workflow does not get into a later part than the one it was cancelled in.
THEOREM CancellationStops == Spec => []CancelledStops
<1>1. IInv => CancelledStops
  BY DEF IInv
<1> QED BY <1>1, EvidenceInvariant, PTL

\* The run of an acquisition is open while the attempt that opened it searches and, for
\* ever, if a death of the worker cut it off; in no other case.
THEOREM RunsAreClosed == Spec => []RunsClosed
<1>1. IInv => RunsClosed
  BY DEF IInv
<1> QED BY <1>1, EvidenceInvariant, PTL

\* An open-access copy is never stored over a full text that was there when the job asked,
\* unless a search changed the identity after the job's acquisition.
THEOREM UserTextComesFirst == Spec => UserTextFirst
<1>1. IInv => \A j \in Jobs :
        At(j, "store") => Evidence(identity) # "full" \/ exec[j].moved \/ exec[j].drifted
  BY FullEvidence DEF IInv, StageSound, At
<1>2. IInv => [\A j \in Jobs : (At(j, "store") /\ docs' # docs /\ exec'[j].at # "store") =>
                  Evidence(identity) # "full" \/ exec[j].moved \/ exec[j].drifted]_vars
  BY <1>1
<1> QED BY <1>2, EvidenceInvariant, PTL DEF UserTextFirst

-----------------------------------------------------------------------------
(* The lifecycle of the jobs. *)

\* A job uses no more attempts than it was given, waits only while it has one left, and has
\* used one when it is found running.
JobBudgeted(j) ==
  /\ attempts[j] <= MaxAttempts + recovered[j]
  /\ status[j] = "pending" => attempts[j] < MaxAttempts + recovered[j]
  /\ status[j] = "running" \/ ~At(j, "idle") => attempts[j] > 0

Budgeted == \A j \in Jobs : JobBudgeted(j)

LEMMA InitBudgeted == Init => Budgeted /\ Lifecycle!Init
<1> SUFFICES ASSUME Init PROVE Budgeted /\ Lifecycle!Init
  OBVIOUS
<1>1. \A j \in Jobs : At(j, "idle") /\ recovered[j] = 0
  BY FreshIdle DEF Init, At
<1>2. Open = [j \in Jobs |-> FALSE]
  BY <1>1 DEF Open
<1>3. Budget = [j \in Jobs |-> MaxAttempts]
  BY <1>1, EvidenceAssumption DEF Budget
<1>4. ASSUME NEW j \in Jobs PROVE JobBudgeted(j)
  <2>1. attempts[j] = 0 /\ status[j] = "pending" /\ MaxAttempts \in Nat /\ MaxAttempts > 0
    BY EvidenceAssumption DEF Init
  <2> QED BY <1>1, <2>1 DEF JobBudgeted
<1> QED BY <1>2, <1>3, <1>4 DEF Budgeted, Init, Lifecycle!Init

LEMMA OpenAfter ==
  ASSUME IInv, NEW j \in Jobs, NEW e \in Execution, Becomes(j, e)
  PROVE  Open' = [Open EXCEPT ![j] = (e.at # "idle")]
<1>1. ASSUME NEW k \in Jobs PROVE Open'[k] = [Open EXCEPT ![j] = (e.at # "idle")][k]
  BY DEF Open, At, Becomes, IInv, Typed
<1>2. Open' = [k \in Jobs |-> Open'[k]] /\ Open = [k \in Jobs |-> Open[k]]
  BY DEF Open
<1> QED BY <1>1, <1>2

\* The worker goes on with its job: for the queue nothing happens.
LEMMA WorksOn ==
  ASSUME IInv, Budgeted, NEW j \in Jobs, NEW e \in Execution, Becomes(j, e),
         e.at # "idle", exec[j].at # "idle", UNCHANGED jobVars
  PROVE  Budgeted' /\ UNCHANGED Lifecycle!vars
<1>1. Open' = [Open EXCEPT ![j] = TRUE]
  BY OpenAfter
<1>2. Open[j] = TRUE /\ Open = [k \in Jobs |-> Open[k]]
  BY DEF Open, At
<1>3. Open' = Open
  BY <1>1, <1>2
<1>4. UNCHANGED <<status, attempts, recovered>>
  BY DEF jobVars
<1>5. ASSUME NEW k \in Jobs PROVE JobBudgeted(k)'
  <2>1. exec'[k].at # "idle" => exec[k].at # "idle"
    BY DEF Becomes, IInv, Typed
  <2> QED BY <1>4, <2>1 DEF Budgeted, JobBudgeted, At
<1> QED BY <1>3, <1>4, <1>5 DEF Budgeted, Budget, Lifecycle!vars

\* The worker ends its job, or puts it back for another attempt.
LEMMA Finishes ==
  ASSUME IInv, Budgeted, NEW j \in Jobs, exec[j].at # "idle", NEW s, End(j, s),
         \/ s \in Lifecycle!Ends
         \/ s = "pending" /\ attempts[j] < MaxAttempts + recovered[j]
  PROVE  Budgeted' /\ Lifecycle!Next
<1>1. /\ Becomes(j, Fresh) /\ status' = [status EXCEPT ![j] = s]
      /\ UNCHANGED <<attempts, recovered>>
  BY DEF End
<1>2. Open' = [Open EXCEPT ![j] = FALSE]
  BY <1>1, FreshIdle, OpenAfter
<1>3. Open[j] /\ Budget[j] = MaxAttempts + recovered[j]
  BY DEF Open, At, Budget
<1>4. Lifecycle!End(j, s)
  BY <1>1, <1>2, <1>3 DEF Lifecycle!End, Budget
<1>5. s # "running" /\ (s = "pending" => attempts[j] < MaxAttempts + recovered[j])
  BY DEF Lifecycle!Ends
<1>6. ASSUME NEW k \in Jobs PROVE JobBudgeted(k)'
  <2>1. CASE k = j
    <3>1. status'[j] = s /\ exec'[j].at = "idle"
      BY <1>1, FreshIdle DEF IInv, Typed, JobTyped, Becomes
    <3> QED BY <1>1, <1>5, <2>1, <3>1 DEF Budgeted, JobBudgeted, At
  <2>2. CASE k # j
    <3>1. status'[k] = status[k] /\ exec'[k] = exec[k]
      BY <1>1, <2>2 DEF IInv, Typed, JobTyped, Becomes
    <3> QED BY <1>1, <3>1 DEF Budgeted, JobBudgeted, At
  <2> QED BY <2>1, <2>2
<1> QED BY <1>4, <1>5, <1>6 DEF Budgeted, Lifecycle!Next

\* The worker that has seen the cancellation ends the job.
LEMMA StopSimulates ==
  ASSUME IInv, Budgeted, NEW j \in Jobs, Stop(j), exec[j].at # "idle"
  PROVE  Budgeted' /\ Lifecycle!Next
BY Finishes DEF Stop, Lifecycle!Ends

LEMMA ClaimSimulates ==
  ASSUME IInv, Budgeted, NEW j \in Jobs, Claim(j)
  PROVE  Budgeted' /\ Lifecycle!Next
<1>1. JobBudgeted(j) /\ status[j] = "pending" /\ exec[j].at = "idle"
  BY DEF Budgeted, Claim, At
<1> DEFINE e == [Fresh EXCEPT !.at = "identity"]
<1>2. e \in Execution /\ e.at = "identity"
  BY DEF Fresh, Execution, Stages
<1>3. Becomes(j, e)
  BY DEF Claim
<1> HIDE DEF e
<1>4. Open' = [Open EXCEPT ![j] = TRUE]
  BY <1>2, <1>3, OpenAfter
<1>5. ~Open[j] /\ Budget[j] = MaxAttempts + recovered[j]
  BY <1>1 DEF Open, At, Budget
<1>6. /\ status' = [status EXCEPT ![j] = "running"]
      /\ attempts' = [attempts EXCEPT ![j] = @ + 1] /\ recovered' = recovered
  BY DEF Claim
<1>7. attempts[j] < MaxAttempts + recovered[j]
  BY <1>1 DEF JobBudgeted
<1>8. Lifecycle!Begin(j)
  BY <1>1, <1>4, <1>5, <1>6, <1>7 DEF Lifecycle!Begin, Budget
<1>9. ASSUME NEW k \in Jobs PROVE JobBudgeted(k)'
  <2>1. CASE k = j
    <3>1. status'[j] = "running" /\ attempts'[j] = attempts[j] + 1
      BY <1>6 DEF IInv, Typed, JobTyped
    <3>2. /\ attempts[j] \in Nat /\ recovered[j] \in Nat /\ MaxAttempts \in Nat
          /\ recovered'[j] = recovered[j]
      BY <1>6, EvidenceAssumption DEF IInv, Typed, JobTyped
    <3> QED BY <1>7, <2>1, <3>1, <3>2 DEF JobBudgeted
  <2>2. CASE k # j
    <3>1. status'[k] = status[k] /\ exec'[k] = exec[k] /\ attempts'[k] = attempts[k]
      BY <1>3, <1>6, <2>2 DEF IInv, Typed, JobTyped, Becomes
    <3> QED BY <1>6, <3>1 DEF Budgeted, JobBudgeted, At
  <2> QED BY <2>1, <2>2
<1> QED BY <1>8, <1>9 DEF Budgeted, Lifecycle!Next

\* The jobs a starting worker finds running have used an attempt each; they are given
\* those back.
LEMMA StartSimulates ==
  ASSUME IInv, Budgeted, Start
  PROVE  Budgeted' /\ Lifecycle!Next
<1> DEFINE S == {j \in Jobs : status[j] = "running"}
<1>1. /\ ~up /\ status' = [j \in Jobs |-> IF status[j] = "running" THEN "pending" ELSE status[j]]
      /\ recovered' = [j \in Jobs |-> IF status[j] = "running" THEN recovered[j] + 1
                                      ELSE recovered[j]]
      /\ UNCHANGED <<attempts, exec>>
  BY DEF Start
<1>2. \A j \in Jobs : At(j, "idle")
  BY <1>1 DEF IInv, Executed
<1>3. Open' = Open /\ \A j \in Jobs : ~Open[j]
  BY <1>1, <1>2 DEF Open, At
<1>4. status' = [j \in Jobs |-> IF j \in S THEN "pending" ELSE status[j]]
  BY <1>1
<1>5. Budget' = [j \in Jobs |-> IF j \in S THEN Budget[j] + 1 ELSE Budget[j]]
  <2>1. ASSUME NEW k \in Jobs
        PROVE  MaxAttempts + recovered'[k]
                 = IF k \in S THEN (MaxAttempts + recovered[k]) + 1 ELSE MaxAttempts + recovered[k]
    <3>1. recovered[k] \in Nat /\ MaxAttempts \in Nat
          /\ recovered'[k] = IF k \in S THEN recovered[k] + 1 ELSE recovered[k]
      BY <1>1, EvidenceAssumption DEF IInv, Typed, JobTyped
    <3> QED BY <3>1
  <2> QED BY <2>1 DEF Budget
<1>6. \A j \in S : attempts[j] > 0
  BY DEF Budgeted, JobBudgeted
<1>7. Lifecycle!Requeue(S)
  BY <1>1, <1>3, <1>4, <1>5, <1>6 DEF Lifecycle!Requeue
<1>8. ASSUME NEW k \in Jobs PROVE JobBudgeted(k)'
  <2>1. /\ recovered[k] \in Nat /\ attempts[k] \in Nat /\ JobBudgeted(k) /\ MaxAttempts \in Nat
    BY EvidenceAssumption DEF IInv, Typed, JobTyped, Budgeted
  <2>2. CASE status[k] = "running"
    <3>1. status'[k] = "pending" /\ recovered'[k] = recovered[k] + 1
      BY <1>1, <2>2
    <3> QED BY <1>1, <1>2, <2>1, <3>1 DEF JobBudgeted, At
  <2>3. CASE status[k] # "running"
    <3>1. status'[k] = status[k] /\ recovered'[k] = recovered[k]
      BY <1>1, <2>3
    <3> QED BY <1>1, <2>1, <3>1 DEF JobBudgeted, At
  <2> QED BY <2>2, <2>3
<1>9. S \in SUBSET Jobs
  OBVIOUS
<1> HIDE DEF S
<1> QED BY <1>7, <1>8, <1>9 DEF Budgeted, Lifecycle!Next

LEMMA CancelSimulates ==
  ASSUME IInv, Budgeted, NEW j \in Jobs, Cancel(j)
  PROVE  Budgeted' /\ Lifecycle!Next
<1>1. /\ status' = [status EXCEPT ![j] = "cancelled"] /\ UNCHANGED <<attempts, recovered, exec>>
      /\ status[j] # "absent"
  BY DEF Cancel
<1>2. Open' = Open /\ Budget' = Budget
  BY <1>1 DEF Open, At, Budget
<1>3. Lifecycle!Cancel(j)
  BY <1>1, <1>2 DEF Lifecycle!Cancel
<1>4. ASSUME NEW k \in Jobs PROVE JobBudgeted(k)'
  <2>1. JobBudgeted(k) /\ status'[k] \in {status[k], "cancelled"}
    BY <1>1 DEF IInv, Typed, JobTyped, Budgeted
  <2> QED BY <1>1, <2>1 DEF JobBudgeted, At
<1> QED BY <1>1, <1>3, <1>4 DEF Budgeted, Lifecycle!Next

\* Executions disappear: at most one, for the worker had at most one.
LEMMA VanishSimulates ==
  ASSUME IInv, Budgeted, UNCHANGED <<status, attempts, recovered>>, exec' \in [Jobs -> Execution],
         \A k \in Jobs : exec'[k] = exec[k] \/ exec'[k].at = "idle"
  PROVE  Budgeted' /\ (Lifecycle!Next \/ UNCHANGED Lifecycle!vars)
<1>1. Budget' = Budget
  BY DEF Budget
<1>2. Budgeted'
  BY DEF Budgeted, JobBudgeted, At
<1>3. CASE Open' = Open
  BY <1>1, <1>2, <1>3 DEF Lifecycle!vars
<1>4. CASE Open' # Open
  <2>1. Open' = [k \in Jobs |-> exec'[k].at # "idle"] /\ Open = [k \in Jobs |-> exec[k].at # "idle"]
    BY DEF Open, At
  <2>2. PICK j \in Jobs : (exec'[j].at # "idle") # (exec[j].at # "idle")
    BY <1>4, <2>1
  <2>3. exec[j].at # "idle" /\ exec'[j].at = "idle"
    BY <2>2
  <2>4. \A k \in Jobs \ {j} : exec[k].at = "idle" /\ exec'[k].at = "idle"
    BY <2>3 DEF IInv, Single, At
  <2>5. Open[j] /\ Open' = [Open EXCEPT ![j] = FALSE]
    BY <2>1, <2>3, <2>4
  <2> QED BY <1>1, <1>2, <2>5 DEF Lifecycle!Vanish, Lifecycle!Next
<1> QED BY <1>3, <1>4

\* The stages that only read the job, and those that end it because it was cancelled.
LEMMA StagesSimulate ==
  ASSUME IInv, Budgeted, NEW j \in Jobs,
         \/ ResolveIdentity(j) \/ EndAcquisition(j) \/ FailAcquisition(j) \/ Locate(j)
         \/ Retrieve(j) \/ StageFails(j) \/ Ingest(j) \/ Store(j) \/ StoreHalf(j) \/ Analyse(j)
  PROVE  Budgeted' /\ (Lifecycle!Next \/ UNCHANGED Lifecycle!vars)
<1>1. /\ exec[j] \in Execution /\ identity \in Identities
  BY DEF IInv, Typed, PaperTyped
<1>2. CASE Cancelled(j) /\ (ResolveIdentity(j) \/ Locate(j) \/ Analyse(j))
  BY <1>2, StopSimulates DEF ResolveIdentity, Locate, Analyse, At
<1>3. CASE ResolveIdentity(j) /\ ~Cancelled(j)
  <2>1. exec[j].at = "identity" /\ UNCHANGED jobVars
    BY <1>3 DEF ResolveIdentity, At
  <2>2. PICK stage \in {"locate", "sufficient", "search"} :
          Becomes(j, [exec[j] EXCEPT !.paper = identity, !.at = stage])
    BY <1>3 DEF ResolveIdentity
  <2> DEFINE f == [exec[j] EXCEPT !.paper = identity, !.at = stage]
  <2>3. f \in Execution /\ f.at = stage
    BY <1>1 DEF Execution, Stages
  <2>4. Becomes(j, f) /\ stage # "idle"
    BY <2>2
  <2> HIDE DEF f
  <2> QED BY <2>1, <2>3, <2>4, WorksOn
<1>4. CASE EndAcquisition(j) \/ FailAcquisition(j)
  <2>1. exec[j].at # "idle" /\ UNCHANGED jobVars /\ identity' \in Identities
    BY <1>1, <1>4 DEF EndAcquisition, FailAcquisition, Later, paperVars
  <2>2. PICK p \in Identities \cup {None}, w \in BOOLEAN :
          Becomes(j, [exec[j] EXCEPT !.at = "locate", !.paper = p, !.warned = w])
    <3>1. CASE EndAcquisition(j)
      <4>1. [exec[j] EXCEPT !.at = "locate", !.paper = identity']
              = [exec[j] EXCEPT !.at = "locate", !.paper = identity', !.warned = exec[j].warned]
        BY <1>1 DEF Execution
      <4>2. exec[j].warned \in BOOLEAN
        BY <1>1 DEF Execution
      <4> QED BY <2>1, <3>1, <4>1, <4>2 DEF EndAcquisition
    <3>2. CASE FailAcquisition(j)
      BY <3>2 DEF FailAcquisition
    <3> QED BY <1>4, <3>1, <3>2
  <2> DEFINE f == [exec[j] EXCEPT !.at = "locate", !.paper = p, !.warned = w]
  <2>3. f \in Execution /\ f.at = "locate"
    BY <1>1 DEF Execution, Stages
  <2>4. Becomes(j, f)
    BY <2>2
  <2> HIDE DEF f
  <2> QED BY <2>1, <2>3, <2>4, WorksOn
<1>5. CASE Locate(j) /\ ~Cancelled(j)
  <2>1. exec[j].at = "locate" /\ UNCHANGED jobVars
    BY <1>5 DEF Locate, At
  <2>2. PICK next \in {"analyse", "retrieve"} :
          Becomes(j, [exec[j] EXCEPT !.paper = Seen(j), !.at = next, !.moved = FALSE])
    BY <1>5 DEF Locate
  <2> DEFINE f == [exec[j] EXCEPT !.paper = Seen(j), !.at = next, !.moved = FALSE]
  <2>3. Seen(j) \in Identities
    BY <2>1, SeenIs
  <2>4. f \in Execution /\ f.at = next
    BY <1>1, <2>3 DEF Execution, Stages
  <2>5. Becomes(j, f) /\ next # "idle"
    BY <2>2
  <2> HIDE DEF f
  <2> QED BY <2>1, <2>4, <2>5, WorksOn
<1>6. CASE Retrieve(j) \/ StageFails(j) \/ Ingest(j)
  <2>1. exec[j].at # "idle" /\ UNCHANGED jobVars
    BY <1>6, FetchSteps
  <2>2. PICK e \in Execution : Becomes(j, e) /\ e.at # "idle"
    BY <1>6, FetchSteps
  <2> QED BY <2>1, <2>2, WorksOn
<1>7. CASE Store(j) \/ StoreHalf(j)
  <2>1. exec[j].at # "idle" /\ UNCHANGED jobVars
    BY <1>7, StoreSteps
  <2>2. PICK e \in Execution : Becomes(j, e) /\ e.at # "idle"
    BY <1>7, StoreSteps
  <2> QED BY <2>1, <2>2, WorksOn
<1>8. CASE Analyse(j) /\ ~Cancelled(j)
  <2>1. exec[j].at # "idle" /\ UNCHANGED jobVars
    BY <1>8, AnalyseSteps
  <2>2. PICK e \in Execution : Becomes(j, e) /\ e.at # "idle"
    BY <1>8, AnalyseSteps
  <2> QED BY <2>1, <2>2, WorksOn
<1> QED BY <1>2, <1>3, <1>4, <1>5, <1>6, <1>7, <1>8

LEMMA EndsSimulate ==
  ASSUME IInv, Budgeted, NEW j \in Jobs, Finish(j) \/ Fail(j)
  PROVE  Budgeted' /\ Lifecycle!Next
<1>1. exec[j].at # "idle"
  BY DEF Finish, Fail, At
<1>2. CASE Finish(j)
  <2>1. PICK s \in {"succeeded", "partial"} : End(j, s)
    BY <1>2 DEF Finish, Terminal
  <2> QED BY <1>1, <2>1, Finishes DEF Lifecycle!Ends
<1>3. CASE Fail(j)
  <2>1. PICK s \in {"pending", "failed"} : End(j, s) /\ (s = "pending" => attempts[j] < MaxAttempts)
    BY <1>3 DEF Fail, Retries
  <2>2. attempts[j] \in Nat /\ recovered[j] \in Nat /\ MaxAttempts \in Nat
    BY EvidenceAssumption DEF IInv, Typed, JobTyped
  <2>3. s = "pending" => attempts[j] < MaxAttempts + recovered[j]
    BY <2>1, <2>2
  <2> QED BY <1>1, <2>1, <2>3, Finishes DEF Lifecycle!Ends
<1> QED BY <1>2, <1>3

\* What leaves the rows alone and the executions where they are.
LEMMA JobsStay ==
  ASSUME Budgeted, UNCHANGED jobVars, \A k \in Jobs : exec'[k].at = exec[k].at
  PROVE  Budgeted' /\ UNCHANGED Lifecycle!vars
<1>1. UNCHANGED <<status, attempts, recovered>>
  BY DEF jobVars
<1> QED BY <1>1 DEF Budgeted, JobBudgeted, Open, At, Budget, Lifecycle!vars

LEMMA WorkflowSimulates ==
  IInv /\ Budgeted /\ [Next]_vars => Budgeted' /\ (Lifecycle!Next \/ UNCHANGED Lifecycle!vars)
<1> SUFFICES ASSUME IInv, Budgeted, [Next]_vars
             PROVE  Budgeted' /\ (Lifecycle!Next \/ UNCHANGED Lifecycle!vars)
  OBVIOUS
<1>1. CASE UNCHANGED vars
  BY <1>1, JobsStay DEF vars
<1>2. Die => Budgeted' /\ (Lifecycle!Next \/ UNCHANGED Lifecycle!vars)
  BY FreshIdle, VanishSimulates DEF Die
<1>3. ASSUME NEW j \in Jobs, CommitLocked(j)
      PROVE  Budgeted' /\ (Lifecycle!Next \/ UNCHANGED Lifecycle!vars)
  <2>1. /\ exec' \in [Jobs -> Execution]
        /\ \A k \in Jobs : exec'[k] = exec[k] \/ exec'[k].at = "idle"
    BY <1>3, FreshIdle DEF CommitLocked, Becomes, IInv, Typed
  <2> QED BY <1>3, <2>1, VanishSimulates DEF CommitLocked
<1>4. ASSUME NEW j \in Jobs, Claim(j) \/ Execute(j) \/ Cancel(j)
      PROVE  Budgeted' /\ (Lifecycle!Next \/ UNCHANGED Lifecycle!vars)
  BY <1>2, <1>4, ClaimSimulates, StagesSimulate, EndsSimulate, CancelSimulates
     DEF Execute, Conflict
<1>5. Crash \/ Start => Budgeted' /\ (Lifecycle!Next \/ UNCHANGED Lifecycle!vars)
  BY <1>2, StartSimulates DEF Crash
<1>6. ASSUME NEW c \in Contents, Upload(c)
      PROVE  Budgeted' /\ (Lifecycle!Next \/ UNCHANGED Lifecycle!vars)
  BY <1>6, MovedTells, JobsStay DEF Upload
<1>7. ASSUME NEW i \in DOMAIN docs, Delete(i)
      PROVE  Budgeted' /\ (Lifecycle!Next \/ UNCHANGED Lifecycle!vars)
  BY <1>7, MovedTells, JobsStay DEF Delete
<1>8. CASE Search
  <2>1. \A k \in Jobs : exec'[k].at = exec[k].at
    <3> SUFFICES ASSUME NEW k \in Jobs PROVE exec'[k].at = exec[k].at
      OBVIOUS
    <3>1. exec[k] \in Execution
      BY DEF IInv, Typed
    <3>2. exec'[k] \in {exec[k], [exec[k] EXCEPT !.drifted = TRUE]}
      BY <1>8 DEF Search
    <3> QED BY <3>1, <3>2 DEF Execution
  <2> QED BY <1>8, <2>1, JobsStay DEF Search
<1> QED BY <1>1, <1>3, <1>4, <1>5, <1>6, <1>7, <1>8 DEF Next

\* Workflows keep to the lifecycle of the queue's jobs, in whatever stage they fail, are
\* cancelled or lose their worker: an execution uses an attempt, a recovered one is given
\* back, and a job that is out of attempts is not queued again.
THEOREM WorkflowRefinement == Spec => FollowsLifecycle
<1>1. IInv /\ Budgeted /\ [Next]_vars => Budgeted'
  BY WorkflowSimulates
<1>2. IInv /\ Budgeted /\ [Next]_vars => [Lifecycle!Next]_Lifecycle!vars
  BY WorkflowSimulates
<1> QED BY <1>1, <1>2, InitBudgeted, EvidenceInvariant, PTL
           DEF Spec, FollowsLifecycle, Lifecycle!Spec

\* No job uses more attempts than it was given, at first and for its interruptions.
THEOREM BudgetIsKept == Spec => []Budgeted
<1>1. IInv /\ Budgeted /\ [Next]_vars => Budgeted'
  BY WorkflowSimulates
<1> QED BY <1>1, InitBudgeted, EvidenceInvariant, PTL DEF Spec

-----------------------------------------------------------------------------
(* The types, with the bound on the documents. *)

\* A content is stored once.
StoredOnce ==
  \A i, k \in DOMAIN docs : docs[i].content = docs[k].content => i = k

LEMMA RemoveKeepsOnce ==
  ASSUME PaperTyped, StoredOnce, NEW i \in DOMAIN docs, docs' = RemoveAt(docs, i)
  PROVE  StoredOnce'
<1> SUFFICES ASSUME NEW k \in DOMAIN docs', NEW m \in DOMAIN docs',
                    docs'[k].content = docs'[m].content
             PROVE  k = m
  BY DEF StoredOnce
<1> DEFINE l(x) == IF x < i THEN x ELSE x + 1
<1>1. docs \in Seq(Document) /\ i \in Int
  BY DEF PaperTyped
<1>2. /\ k \in Int /\ l(k) \in DOMAIN docs /\ docs'[k] = docs[l(k)]
      /\ m \in Int /\ l(m) \in DOMAIN docs /\ docs'[m] = docs[l(m)]
  BY <1>1, Removed
<1>3. l(k) = l(m)
  BY <1>2 DEF StoredOnce
<1> QED BY <1>1, <1>2, <1>3

LEMMA AppendKeepsOnce ==
  ASSUME PaperTyped, StoredOnce, NEW d \in Document, ~Stored(d.content), docs' = Append(docs, d)
  PROVE  StoredOnce'
<1>1. \A i \in DOMAIN docs' : \/ i = Len(docs) + 1 /\ docs'[i] = d
                              \/ i \in DOMAIN docs /\ docs'[i] = docs[i]
  BY DEF PaperTyped
<1> QED BY <1>1 DEF StoredOnce, Stored

\* How a step changes the documents, and what it counts.
LEMMA DocumentSteps ==
  ASSUME IInv, Next
  PROVE  \/ docs' = docs
         \/ \E d \in Document : ~Stored(d.content) /\ docs' = Append(docs, d)
         \/ \E i \in DOMAIN docs : docs' = RemoveAt(docs, i)
<1>1. ASSUME NEW j \in Jobs, Store(j) \/ StoreHalf(j)
      PROVE  \E d \in Document : ~Stored(d.content) /\ docs' = Append(docs, d)
  BY <1>1, StoreSteps
<1>2. ASSUME NEW c \in Contents, Upload(c)
      PROVE  \E d \in Document : ~Stored(d.content) /\ docs' = Append(docs, d)
  <2> DEFINE d == NewDocument(c, identity, TRUE)
  <2>1. d \in Document /\ d.content = c
    BY NewDocumentType DEF IInv, Typed, PaperTyped
  <2>2. docs' = Append(docs, d) /\ ~Stored(c)
    BY <1>2 DEF Upload
  <2> HIDE DEF d
  <2> QED BY <2>1, <2>2
<1>3. ASSUME NEW j \in Jobs, Claim(j) \/ Execute(j) \/ CommitLocked(j) \/ Cancel(j),
             ~Store(j), ~StoreHalf(j)
      PROVE  docs' = docs
  BY <1>3 DEF Execute, Claim, ResolveIdentity, EndAcquisition, FailAcquisition, Locate,
              Retrieve, StageFails, Ingest, Conflict, Die, Analyse, Finish, Fail, CommitLocked,
              Cancel, paperVars
<1>4. Crash \/ Start => docs' = docs
  BY DEF Crash, Die, Start, paperVars
<1>5. ASSUME NEW i \in DOMAIN docs, Delete(i) PROVE docs' = RemoveAt(docs, i)
  BY <1>5 DEF Delete
<1>6. Search => docs' = docs
  BY DEF Search
<1> QED BY <1>1, <1>2, <1>3, <1>4, <1>5, <1>6 DEF Next

LEMMA CounterSteps ==
  ASSUME Next
  PROVE  /\ changes' = changes \/ (changes < MaxChanges /\ changes' = changes + 1)
         /\ faults' = faults \/ (faults < MaxFaults /\ faults' = faults + 1)
         /\ locked' = locked \/ (locked < MaxLocked /\ locked' = locked + 1)
<1>1. ASSUME NEW j \in Jobs, Execute(j) PROVE UNCHANGED bounds
  <2>1. CASE ResolveIdentity(j) \/ EndAcquisition(j) \/ FailAcquisition(j) \/ Locate(j)
    BY <2>1 DEF ResolveIdentity, EndAcquisition, FailAcquisition, Locate
  <2>2. CASE Retrieve(j) \/ StageFails(j) \/ Ingest(j) \/ Store(j) \/ StoreHalf(j)
    BY <2>2 DEF Retrieve, StageFails, Ingest, Store, StoreHalf
  <2>3. CASE Conflict(j) \/ Analyse(j) \/ Finish(j) \/ Fail(j)
    BY <2>3 DEF Conflict, Die, Analyse, Finish, Fail, bounds
  <2> QED BY <1>1, <2>1, <2>2, <2>3 DEF Execute
<1>2. ASSUME NEW j \in Jobs, Claim(j) \/ Cancel(j) PROVE UNCHANGED bounds
  BY <1>2 DEF Claim, Cancel
<1>3. ASSUME NEW j \in Jobs, CommitLocked(j)
      PROVE  UNCHANGED <<changes, faults>> /\ locked < MaxLocked /\ locked' = locked + 1
  BY <1>3 DEF CommitLocked
<1>4. Crash => UNCHANGED <<changes, locked>> /\ faults < MaxFaults /\ faults' = faults + 1
  BY DEF Crash, Die
<1>5. Start \/ Search => UNCHANGED bounds
  BY DEF Start, Search
<1>6. ASSUME NEW c \in Contents, Upload(c)
      PROVE  UNCHANGED <<faults, locked>> /\ changes < MaxChanges /\ changes' = changes + 1
  BY <1>6 DEF Upload, Change
<1>7. ASSUME NEW i \in DOMAIN docs, Delete(i)
      PROVE  UNCHANGED <<faults, locked>> /\ changes < MaxChanges /\ changes' = changes + 1
  BY <1>7 DEF Delete, Change
<1> QED BY <1>1, <1>2, <1>3, <1>4, <1>5, <1>6, <1>7 DEF Next, bounds

Counted == changes \in 0..MaxChanges /\ faults \in 0..MaxFaults /\ locked \in 0..MaxLocked

LEMMA OnceStep == IInv /\ StoredOnce /\ Counted /\ [Next]_vars => StoredOnce' /\ Counted'
<1> SUFFICES ASSUME IInv, StoredOnce, Counted, [Next]_vars PROVE StoredOnce' /\ Counted'
  OBVIOUS
<1>1. CASE UNCHANGED vars
  BY <1>1 DEF vars, paperVars, bounds, StoredOnce, Counted
<1>2. CASE Next
  <2>1. Counted'
    BY <1>2, CounterSteps, EvidenceAssumption DEF Counted
  <2>2. docs' = docs => StoredOnce'
    BY DEF StoredOnce
  <2>3. StoredOnce'
    BY <1>2, <2>2, DocumentSteps, AppendKeepsOnce, RemoveKeepsOnce DEF IInv, Typed
  <2> QED BY <2>1, <2>3
<1> QED BY <1>1, <1>2

\* There are not more documents than contents.
LEMMA OnceBounded ==
  ASSUME IsFiniteSet(Contents), PaperTyped, StoredOnce
  PROVE  Len(docs) <= Cardinality(Contents)
<1>1. docs \in Seq(Document) /\ Len(docs) \in Nat
  BY DEF PaperTyped
<1> DEFINE f == [i \in 1..Len(docs) |-> docs[i].content]
<1>2. f \in [1..Len(docs) -> Contents]
  <2>1. \A i \in 1..Len(docs) : docs[i] \in Document
    BY <1>1
  <2>2. \A d \in Document : d.content \in Contents
    BY DEF Document
  <2> QED BY <2>1, <2>2
<1>3. IsFiniteSet(1..Len(docs)) /\ Cardinality(1..Len(docs)) = Len(docs)
  <2> DEFINE n == Len(docs)
  <2>1. 1 \in Int /\ n \in Int /\ n >= 0
    BY <1>1
  <2> HIDE DEF n
  <2>2. IsFiniteSet(1..n) /\ Cardinality(1..n) = IF 1 > n THEN 0 ELSE n - 1 + 1
    BY <2>1, FS_Interval
  <2>3. IsFiniteSet(1..n) /\ Cardinality(1..n) = n
    BY <2>1, <2>2
  <2> QED BY <2>3 DEF n
<1>4. ~ \E x, y \in 1..Len(docs) : x # y /\ f[x] = f[y]
  BY <1>1 DEF StoredOnce
<1>5. Cardinality(Contents) \in Nat
  BY FS_CardinalityType
<1> HIDE DEF f
<1> QED BY <1>1, <1>2, <1>3, <1>4, <1>5, FS_PigeonHole

\* Every variable stays within its type and no content is stored twice, whatever uploads,
\* deletions and workflows of the paper come together: there are never more documents than
\* contents.
THEOREM EvidenceTypes == IsFiniteSet(Contents) => (Spec => []EvTypeOK)
<1> SUFFICES ASSUME IsFiniteSet(Contents) PROVE Spec => []EvTypeOK
  OBVIOUS
<1>1. Init => StoredOnce /\ Counted
  BY EvidenceAssumption DEF Init, StoredOnce, Counted
<1>2. IInv /\ StoredOnce /\ Counted /\ [Next]_vars => StoredOnce' /\ Counted'
  BY OnceStep
<1>3. IInv /\ StoredOnce /\ Counted => EvTypeOK
  BY OnceBounded DEF IInv, Typed, PaperTyped, JobTyped, WorkerTyped, RunTyped, Counted, EvTypeOK
<1> QED BY <1>1, <1>2, <1>3, EvidenceInvariant, PTL DEF Spec
=============================================================================
