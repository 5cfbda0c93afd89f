---------------------------- MODULE PaperAnalysis ----------------------------
(***************************************************************************)
(* The analysis of one paper: the text that may be read and its evidence     *)
(* level, the deterministic extraction, the optional provider whose output   *)
(* is validated against the supplied chunks and merged field by field, and   *)
(* the scores derived from the result.                                      *)
(*                                                                          *)
(* The evidence is read without a lock. With a provider the AgentRun row is  *)
(* inserted before the call: the write lock is held until the provider has   *)
(* answered and the analysis is committed, and other writers wait or fail.   *)
(*                                                                          *)
(* Abstracted: a chunk is the set of fields whose value it repeats in a      *)
(* sentence; one field stands for every field that is treated alike; scores  *)
(* are in percent.                                                          *)
(***************************************************************************)
EXTENDS Integers, FiniteSets

CONSTANTS
  Analysts,   \* processes that analyse the paper: API requests, worker jobs
  MaxEvidence \* bound: changes of the paper's evidence

\* executive_summary: always has a value, the first sentences.
\* core_methods, datasets: also from an abstract.
\* baselines: a provider needs full text for it, the extractor does not.
\* experimental_protocol: only from full text.
Fields == {"executive_summary", "core_methods", "datasets", "baselines",
           "experimental_protocol"}
\* Open, uploaded and authorised full text are treated alike.
Levels == {"metadata_only", "abstract_only", "partial_fulltext", "fulltext"}
Restricted == {"experimental_protocol"}
Reported == {"core_methods", "datasets", "experimental_protocol"} \* in missing_fields
FulltextOnly == {"baselines", "experimental_protocol"}

VARIABLES
  evidence,  \* what accessible_text finds: the level, and the chunks by their ids
  nextChunk, \* the next chunk id
  provider,  \* whether an analysis provider is configured
  analysis,  \* the latest PaperAnalysisRecord
  writer,    \* the process that holds the database's write lock
  analysing  \* what every process has read

analysisVars == <<evidence, nextChunk, provider, analysis, writer, analysing>>

NoAnalysis == [mode |-> "none"]
NotAnalysing == [at |-> "idle"]
Nobody == "nobody"

\* accessible_text: the chunks of the current document, of which a half-stored one has none,
\* else the abstract of a real source, else the title; these are cited without a chunk id,
\* as chunk 0. A method may be recognised by an abbreviation that does not repeat its label.
Supported(e) == UNION {e.chunks[c] : c \in DOMAIN e.chunks}
Opening(fields) == {fs \cup {"executive_summary"} : fs \in SUBSET fields}
ChunkSets(first) ==
  [{first} -> Opening(Fields)]
    \cup {[c \in {first, first + 1} |-> IF c = first THEN opening ELSE rest] :
            opening \in Opening({}), rest \in {{}, {"core_methods"}, Fields}}
    \cup {[c \in {} |-> {}]}
Texts(levels, chunks) ==
  {t \in [level : levels, chunks : chunks, abbreviated : BOOLEAN] :
     t.abbreviated => "core_methods" \notin Supported(t)}
EvidenceFrom(first) ==
  Texts({"fulltext", "partial_fulltext"}, ChunkSets(first))
    \cup Texts({"abstract_only"}, [{0} -> Opening(Fields)])
    \cup Texts({"metadata_only"}, [{0} -> Opening({"core_methods"})])

AnalysisInit ==
  /\ evidence \in Texts({"metadata_only"}, [{0} -> Opening({"core_methods"})])
  /\ nextChunk = 1
  /\ provider \in {"none", "configured"}
  /\ analysis = NoAnalysis
  /\ writer = Nobody
  /\ analysing = [a \in Analysts |-> NotAnalysing]

\* A document is uploaded, ingested or deleted, or a search brings an abstract.
ChangeEvidence ==
  /\ writer = Nobody /\ nextChunk < 2 * MaxEvidence
  /\ evidence' \in EvidenceFrom(nextChunk)
  /\ nextChunk' = nextChunk + 2
  /\ UNCHANGED <<provider, analysis, writer, analysing>>

-----------------------------------------------------------------------------
\* The fields that analyze_accessible_text finds a value for.
Extracted(e) ==
  {f \in Supported(e) \cup {"executive_summary"}
           \cup (IF e.abbreviated THEN {"core_methods"} ELSE {}) :
     e.level = "fulltext" \/ f \notin Restricted}
FieldStates(e) ==
  [f \in Fields |-> IF f \in Extracted(e) THEN "evidenced"
                    ELSE IF e.level # "fulltext" /\ f \in Restricted
                    THEN "insufficient_evidence" ELSE "unknown"]
CitationsFor(e, f) == {c \in DOMAIN e.chunks : f \in e.chunks[c]}
Deterministic(e) ==
  [states |-> FieldStates(e),
   cited |-> [f \in Fields |-> IF f \in Extracted(e) THEN CitationsFor(e, f) ELSE {}],
   missing |-> Reported \ Extracted(e)]

-----------------------------------------------------------------------------
\* What a provider can return within its attempts, if it returns anything usable: fields
\* with values and, for these, the citation of a chunk or of one that was not supplied.
Cited(e) == {{}, {-1}} \cup {{c} : c \in DOMAIN e.chunks}
Completions(e) ==
  {[fields |-> fs, cited |-> [f \in Fields |-> IF f \in fs THEN cs ELSE {}]] :
     fs \in SUBSET Fields, cs \in Cited(e)}

\* validate_and_merge_llm_analysis raises unless every field is cited with supplied chunks
\* and permitted at the evidence level; mutants: the cited chunks, the level are not checked.
ValidatedUncited(e, output) ==
  \A f \in output.fields : output.cited[f] # {}
ValidatedAnywhere(e, output) ==
  \A f \in output.fields : output.cited[f] # {} /\ output.cited[f] \subseteq DOMAIN e.chunks
Validated(e, output) ==
  /\ \A f \in Fields : output.cited[f] \subseteq DOMAIN e.chunks
  /\ \A f \in output.fields :
       /\ output.cited[f] # {}
       /\ e.level = "fulltext" \/ f \notin FulltextOnly

\* Only fields that are not evidenced are filled; mutant: every field is.
AllFields(found, output) == output.fields
Filled(found, output) == {f \in output.fields : found.states[f] # "evidenced"}
Merge(found, output) ==
  LET filled == Filled(found, output) IN
  [states |-> [f \in Fields |-> IF f \in filled THEN "evidenced" ELSE found.states[f]],
   cited |-> [f \in Fields |-> IF f \in filled THEN output.cited[f] ELSE found.cited[f]],
   missing |-> found.missing \ filled]

-----------------------------------------------------------------------------
\* assess_reproduction: the dimensions that are known; no other one ever has a score.
Evidenced(found, f) == found.states[f] = "evidenced"
KnownDimensions(e, found) ==
  [data_availability |-> Evidenced(found, "datasets"),
   method_completeness |-> Evidenced(found, "core_methods"),
   hyperparameter_documentation |-> e.level = "fulltext",
   evaluation_protocol |-> Evidenced(found, "experimental_protocol")]
Points(known, weight) == IF known THEN weight ELSE 0
AvailableWeight(known) ==
  Points(known.data_availability, 20) + Points(known.method_completeness, 15)
    + Points(known.hyperparameter_documentation, 10) + Points(known.evaluation_protocol, 10)
\* calculate_reproduction_assessment: no score below 40 % or for a single dimension; mutant:
\* what is known is scored.
AnyCoverage(e, found) == AvailableWeight(KnownDimensions(e, found)) > 0
ReproductionScored(e, found) ==
  LET known == KnownDimensions(e, found) IN
  AvailableWeight(known) >= 40 /\ Cardinality({d \in DOMAIN known : known[d]}) >= 2

AnalysisRow(e, mode, found) ==
  [mode |-> mode, evidence |-> e, found |-> found, scored |-> ReproductionScored(e, found)]

-----------------------------------------------------------------------------
Reading(a) == analysing[a].at = "read"
ReadEvidence(a) ==
  /\ analysing[a] = NotAnalysing
  /\ analysing' = [analysing EXCEPT ![a] = [at |-> "read", evidence |-> evidence]]
  /\ UNCHANGED <<evidence, nextChunk, provider, analysis, writer>>

\* Without a provider, or when the request asks for the deterministic analysis.
StoreDeterministic(a) ==
  LET e == analysing[a].evidence IN
  /\ Reading(a) /\ writer = Nobody
  /\ analysis' = AnalysisRow(e, "deterministic", Deterministic(e))
  /\ analysing' = [analysing EXCEPT ![a] = NotAnalysing]
  /\ UNCHANGED <<evidence, nextChunk, provider, writer>>

\* The AgentRun and ToolCall rows are inserted.
CallProvider(a) ==
  /\ Reading(a) /\ provider # "none" /\ writer = Nobody
  /\ writer' = a
  /\ analysing' = [analysing EXCEPT ![a].at = "completing"]
  /\ UNCHANGED <<evidence, nextChunk, provider, analysis>>

\* The lock is not released within busy_timeout: the request fails.
LockTimeout(a) ==
  /\ Reading(a) /\ writer # Nobody
  /\ analysing' = [analysing EXCEPT ![a] = NotAnalysing]
  /\ UNCHANGED <<evidence, nextChunk, provider, analysis, writer>>

\* A failed call or an invalid answer is not an error.
StoreCompletion(a) ==
  LET e == analysing[a].evidence found == Deterministic(e) IN
  /\ analysing[a].at = "completing"
  /\ analysis' \in
       {AnalysisRow(e, "deterministic_fallback", found)} \cup
       {AnalysisRow(e, "hybrid", merged) :
          merged \in {Merge(found, output) : output \in
                       {o \in Completions(e) : Validated(e, o)}}}
  /\ writer' = Nobody
  /\ analysing' = [analysing EXCEPT ![a] = NotAnalysing]
  /\ UNCHANGED <<evidence, nextChunk, provider>>

\* The process ends during the call: its transaction is rolled back.
AnalystDies(a) ==
  /\ analysing[a].at = "completing"
  /\ writer' = Nobody
  /\ analysing' = [analysing EXCEPT ![a] = NotAnalysing]
  /\ UNCHANGED <<evidence, nextChunk, provider, analysis>>

-----------------------------------------------------------------------------
AnalysisNext ==
  \/ ChangeEvidence
  \/ \E a \in Analysts :
       \/ ReadEvidence(a) \/ StoreDeterministic(a) \/ CallProvider(a) \/ LockTimeout(a)
       \/ StoreCompletion(a) \/ AnalystDies(a)

AnalysisSpec == AnalysisInit /\ [][AnalysisNext]_analysisVars

-----------------------------------------------------------------------------
Findings ==
  [states : [Fields -> {"evidenced", "insufficient_evidence", "unknown"}],
   cited : [Fields -> SUBSET (0..(2 * MaxEvidence))], missing : SUBSET Fields]
AnalysisTypeOK ==
  /\ evidence.level \in Levels /\ nextChunk \in 1..(2 * MaxEvidence + 1)
  /\ provider \in {"none", "configured"}
  /\ writer \in Analysts \cup {Nobody}
  /\ \A a \in Analysts : analysing[a].at \in {"idle", "read", "completing"}
  /\ analysis # NoAnalysis =>
       /\ analysis.found \in Findings
       /\ analysis.mode \in {"deterministic", "hybrid", "deterministic_fallback"}
       /\ analysis.evidence.level \in Levels /\ analysis.scored \in BOOLEAN

\* A stored analysis never claims more than the evidence it was made from: its citations
\* are chunks of that evidence; what the extractor found keeps the chunks that repeat it as
\* its citations, whatever a provider answered, and what a provider added is cited; a field
\* that only full text supports is not evidenced below full text unless the extractor found
\* it; no field is both evidenced and missing; and without full text there is never a
\* reproduction score.
AnalysisWithinEvidence ==
  analysis # NoAnalysis =>
    LET e == analysis.evidence found == analysis.found IN
    /\ \A f \in Fields :
         /\ found.cited[f] \subseteq DOMAIN e.chunks
         /\ f \in Extracted(e) => found.cited[f] = CitationsFor(e, f)
         /\ Evidenced(found, f) =>
              /\ f \notin found.missing
              /\ f \notin Extracted(e) =>
                   found.cited[f] # {} /\ (f \in FulltextOnly => e.level = "fulltext")
    /\ analysis.scored => e.level = "fulltext"

=============================================================================
